# engpc: a TLA+ verification project

engpc is the daemon of the Unisoc engineering mode. It runs on the application
processor (AP) of a phone and carries diagnostic frames, AT commands and logs
between a PC (USB serial ports, "host"), the modem and WCN co-processors (CP,
"modem", "wcn") and shared objects on the AP ("modules") that execute some of the
commands themselves. This project models the server (`server/`): its ports,
its channel threads, the framing of requests, their dispatch, and the two
background services of `CCPCtl`; and of the modules those that keep or change
something: picture quality tuning (`modules/PQTune`), the production data, the
calibration of the oscillator, and the charger, supply, pins, sleep and restart of
the phone.

## 1. Inventory

| Part | State it keeps | Operations | Interacts with |
|---|---|---|---|
| Port, `CPort` | `m_fd`, `m_nClient`, `m_bEnableRD/WR`, `m_bSuspend`, a pipe, three mutexes | open, close, reopen, read, write, stop, notify, enable | every channel that has it as source or destination shares it; device files |
| Channel thread, `CChnlThread`, `CChnlThreadMgr` | `m_isRunning`, `m_lpTrans`, the thread list | run, stop, threadMain, enableChnl, restartWithDev | ports; commanded by the control server and the log control |
| Transfer loop, `CTrans` and its `CData*` classes | buffers, `m_retType`, `m_apProcess` | trans: read, decode, process, encode, write | ports, protocol, module manager |
| Diag protocol, `CProtolDiag` | `m_nDiagAT`, `m_bPending`, `m_iCurFrameType` | checkframe, decode, encode, translate_packet, checkPending | called inside `CPort::read` and by `trans` |
| Module manager, `CModuleMgr` | the list of callbacks, `m_isLoaded`, `m_lpCurCB`, `m_lpPendingCB` | load, process (diag, AT, WCN AT), internalRegCallBack | one object for all channel threads, no lock |
| Log control, `CCPCtl::cplogctl` | log destinations (system properties), enabled devices | logLocation, notice_slogmodem | a socket thread, AT+SPATCPLOG in channel threads, `main()`; slogmodem |
| Time synchronisation, `CCPCtl::timesync` | `fds`, two connections, `modem_reset_flag` | connect, poll, read, fds_collate | modemd, the time server, the PC |
| Control server, `CEngCtl` | its socket | enable and disable a channel | `CChnlThreadMgr` |
| Configuration, USB monitor, boot mode | device and channel lists | parsed once; uevents | started by `main()` |
| Picture quality tuning, `PQTuneCore` and its parsers | `ctx`, `offset`, static copies of registers; XML files, registers | read and write a block or a whole configuration, test pattern | called by the module manager; sysfs of the display unit |
| Production data (`libmiscdata`, `libftmode`, `libtsxdata`, `libap_opt`) | the miscdata partition (NAND volume or eMMC), files with the addresses, the TSX records and the test results | read and write by offset, phase check record, test mode, addresses, records, results | called by the module manager in the channel threads; the boot loader reads the test mode |
| Calibration (`libdcxcali` with its program `dcxsrv`, `tsensor`) | `current_mode`, `hp_cbank`, `hp_amp`; registers of the power chip; `dcx_data.dat` | mode, capacitor, amplitude search, save, load, temperature | channel threads and `dcxsrv` share the files `pmic_reg` and `pmic_value` |
| Power and pins (`charge`, `regulator`, `gpio`, `libreboot_cmd`, `libapcomm`, `libapdeepsleep`, `libusb`) | files of the kernel, `reboot_cmd_param`, the message to the boot loader | charge, measure, set voltage and pins, restart, reset, power off, sleep | start threads of their own; `init` |
| Radio and factory test modules (`fm`, `libFactoryRadioTest`, `libnpipropsrv`), trace dump (`libtracedump`), reporting modules (`libchipid`, `libnefuse` and others) | none, but for the trace dump its descriptor and offset | one callback per command | hardware libraries |

What is hard here: a port is shared by threads that read, write and reopen it at
the same time, and only some of its fields are locked; channels are started and
stopped by flags and a pipe; the module manager has no lock at all; requests
arrive in pieces; connections are lost one at a time; slogmodem may answer late,
wrongly or not at all; the program restarts itself; a configuration is sent in
pieces and stored in files that are not replaced atomically. A write to a NAND
phone reads, changes and rewrites the whole partition; other files are truncated
before they are written; a register is reached by two accesses to two files that
anybody may come between; all restarts share one buffer, and what they start runs
after the answer was given; the settings of the low power mode exist only in
memory; the search of an amplitude code has no limit. `PROJECT.json` lists the
hazards with their lines.

Properties that make the parts correct: no descriptor is lost and the last
user closes the port; a waiting reader learns of a new descriptor; a channel
that is told to stop stops and one that is told to run runs; a request arrives
whole, is disposed of exactly once, and its further data reaches the callback
that asked; the device of a log is enabled exactly if its destination is the PC;
every modem reset is noticed; a stored parameter is read back; what was
acknowledged survives a kill and a restart, and a failed write can be repeated; a
setting that was answered is in force; the restart that happens is the one asked
for last; a calibration ends, and a phone told to go off does.

## 2. Modules

| Module | Models | State and actions against the code |
|---|---|---|
| `Port` | `CPort.cpp` | Variables are the fields of `CPort`. A step is one access to unlocked shared state; what happens under `m_mtx` is split where other threads can see it. `OpenCall .. OpenTry` is `open()`, `CloseLock`, `CloseDec` is `close()`, `Reopen*` is `reopen()`, which calls both, `Read*` and `Write*` are `internal_read()` and `internal_write()` with their `select()` loops. |
| `SharedFd` | what a port promises | Abstract: open exactly while somebody holds it. `Port` implements it when the device works (`SharedSpec`). |
| `ChnlThread` | `CChnlThread`, `CChnlThreadMgr`, `CEngCtl::ctl_chnl`, `CChnlMgr::resetWithDevName` | One channel, a pool of worker threads, two control threads; the port is reduced to its enable flag, `m_bSuspend`, the pipe and `m_mtx_rd`. |
| `DiagLink` | `CProtolDiag`, the reading loop of `CPort` | Bytes on a wire, read in pieces of any size; `decode`, `encode`, `translate_packet` and `checkframe` are operators. |
| `Dispatch` | `CTrans::trans` after a read, `CData*::process`, `CModuleMgr` | One step per access to the shared manager; a request is a name, a callback's result one of six kinds. |
| `TimeSync` | `CCPCtl::timesync` | The polling array, both connections, the loop over the result of `poll()`. |
| `LogCtl` | `CCPCtl::logLocation`, `main()` | One step per access to the property, slogmodem or the device. |
| `PQTune` | `PQTuneCore`, the parsers of all four versions of the display unit | One action per command; a command on files visits them one by one (`Visit`, `Saved`), and the process may be killed while it writes one. The parameters of a block are a tag for each group of registers and one for the rest; a class of parsers is the set of what its functions read, store and write. The list of scenes, which a write may lengthen and shorten, is kept as the number of items of each scene. |
| `ProdData` | `miscdata.c` in its two copies, `bt_wifi_mac.c`, `ftmode.c`, `tsxdata.c`, `mmiresult.c` | A step is one call that others can see the effect of: opening (which truncates), writing, the start and the end of a volume update. `Request` takes a request, `Reply` answers it; `Kill` and `Reset` come between any two steps. |
| `Workers` | the channel threads that run callbacks | Declares the set of threads, which the next two modules share. |
| `PmicCali` | `libdcxcali`, `dcxsrv`, `tsensor` | `Name` is the write to `pmic_reg`, `Access` the read or write of `pmic_value`; `Then` says what a callback does after each access. |
| `PowerCtl` | `charge.c`, `regulator.c`, `gpio.c`, `reboot_cmd.cpp`, the reset and properties of `libapcomm`, `libapdeepsleep`, `libusb` | One action per callback, or per file that a callback writes; a thread that is started to restart, switch off or suspend the phone is a job (`JobStep`). |
| `Board` | engpc with both | Composes `PmicCali` and `PowerCtl`: a thread serves one request at a time, whichever module it is for; the process dies with all threads (`Kill`); a restart ordered in `PowerCtl` resets the registers of `PmicCali` and starts `dcxsrv` (`Restart`). |
| `PortProof`, `ChnlThreadProof`, `TimeSyncProof`, `DispatchProof`, `LogCtlProof`, `PQTuneProof`, `ProdDataProof`, `BoardProof` | proofs | Each extends the module it is named after; `PortProof` also holds the refinement of `SharedFd`. See section 5. |
| `MC*` | instances for TLC | Model values and the tables of callbacks. |

Definitions whose comment begins with "Mutation:" are wrong versions of the
definition that follows. They are used by no specification; each shows that a
property would notice that mistake.

How the modules fit: `ChnlThread`'s worker executes `CTrans::trans`, whose read
is detailed in `Port` (threads and descriptors) and `DiagLink` (bytes), and whose
handling of a request (`Handle`) is detailed in `Dispatch`. `LogCtl`'s `Reset`
is the command `dev_on` / `dev_off` of `ChnlThread`. They are separate modules
because their product is far out of TLC's reach and they share little state.

Abstractions worth knowing:

* *Data races.* A load or store of an unlocked field is one atomic step. In
  `close()` and `open()` a test and the following use under the lock count as
  one load.
* *Values of dead locals* are reset when a call returns (`Forget`), which changes
  no behaviour and merges states.
* *Contents* in `ProdData` are a kind and the number of the request that wrote them;
  the partition is `MiscSize` cells, one of which is the test mode word. `want` and
  `wantFile` are what was last acknowledged, `unsure` and `unsureFile` the places
  that a failed or interrupted request has put in doubt, `spoiled` and `spoiledFile`
  those where the code has stored something else than it acknowledged although
  nothing failed. They influence no step.
* *The amplitude code* is one number made of a coarse and a fine field
  (`CoarseMax`, `FineMax`); the oscillator sets its flag up to a threshold, which
  is chosen anew for each calibration. `mixed`, `crossed` and `curSet` remember
  whether accesses overlapped and which current was answered; `wantCdac`,
  `wantAmp`, `wantDcx` and `asked` what was asked for. The write protection
  (`PROT`) decides nothing: `dcxsrv` never takes it away, and its writes are taken
  to succeed.
* *Histories.* `hasty` in `ChnlThread`, `crossed` in `LogCtl` and `mixed` in
  `PmicCali` remember that two things met which the code does not keep apart: a
  command that came while the effects of another were not complete; two calls of
  `logLocation()`, or a call and `main()`, for one type; accesses of two threads to
  registers, or a calibration and another request for them. Nothing forbids such
  a meeting in the models, and the steps after it are those of the code; some
  properties speak only of the histories, or the types, without one.
* *Streams.* In `TimeSync` any number of messages may be unread in a socket, and one
  `read()` takes several. They are numbered, and `text[n]` says what became of message
  `n`: a reset that came with another message may be read and not noticed (`merged`).
  The PC may be told of a reset that is noticed, or the write to the port fails.
* *Arguments chosen late.* In `LogCtl` the parameter `diagportswitch` is chosen in
  `Switch`, the only step that looks at it. A `slogmodem` that is gone behaves like
  one that hangs (`hung`), so that the run has one of the two.
* *One register for two files.* On r4p0 `parse_reg` reads `PQ/ltm` and `update_reg`
  writes `PQ/slp`; in `PQTune` both are the group `slp`, which assumes that the
  driver shows the same registers in both.
* *The pipe* holds one message or "other": two messages that are in it together
  are read as one text, which equals neither.
* *Signals* such as `select()` returning -1 on a closed descriptor are modelled
  as what the kernel does; a closed descriptor number may be given out again.

## 3. Runs

Each model is checked by one passing run. Where different questions need
different circumstances, the initial state chooses them: `world` in `Port` and
`Dispatch`, `link` in `DiagLink`. They stay as chosen, and a
property that is promised only in some circumstances says in which. In `PQTune`
it chooses a session of the PC tool (`tool`), in `ProdData` the build (`nand`) and
whether the tools take turns (`serial`).

| Run | Shows | Bounds and why they suffice |
|---|---|---|
| `port` | No descriptor is lost, whatever happens (`NoFdLeak`). With a working device `m_nClient` is exact and the port implements `SharedFd`. With a device that fails and recovers, a reader on a dead descriptor has a notification coming (`ReaderNotForgotten`) and wakes up (`ReaderWakes`). | 1 reader and 2 writers where the count matters (three holders are needed to close early or late) or where two writers reopen under a reader; 1 reader and 1 writer for a device that also vanishes and a port that is stopped, disabled and left. 2 descriptor numbers, so that one is reused; 2 reopen tries; an I/O error happens only while `m_nClient < MaxCount = 3`, because racing reopens raise the count without end. |
| `chnl` | `m_isRunning` and `m_lpTrans` never speak of a thread that is gone, and of several workers that racing commands have started one at most sleeps on the port, which `CPort::stop()` sees (`SleeperIsSeen`). In histories in which commands came one at a time (never `hasty`) a channel stops when it is disabled (`PacedStops`) and runs when it is enabled (`PacedRuns`). | 3 commands of two control threads at any moment, 3 workers: two that overlap and one that starts. |
| `diag` | Requests arrive whole and in order, the codecs agree, the buffer is never overrun. | Bodies of up to 2 bytes out of 7D, 7E and what they are escaped to, 2 requests, 1 byte of noise, pieces of any size. The promise is for links that are `Tame`; the other link has merged requests, any cut and a buffer of 4 bytes. |
| `time` | Until the connection in the first slot is lost: connections believed in are polled, messages are read by the right code, and a reset that is read alone is noticed (`ResetsNoticed`). Always: at most one time stamp per noticed reset. | 4 connections, 3 messages: each server reconnects once, a reset can meet a time stamp on either side of it, and up to three messages can be in one `read()`. |
| `disp` | Every request is disposed of in exactly one way. With one diag channel, beside channels of other classes that search and load the same list: further data reaches its owner (`PendingToOwner`). | 5 callbacks (without function, two for one command, one with `also_need_to_cp`, one diag). One diag channel: 4 requests alone, 3 beside an AT channel; two diag channels, and the other classes in pairs: 2 requests, which is what a race for the first load needs. |
| `log` | Devices follow destinations, slogmodem follows them where it said OK, requests are answered. | 2 requests that interleave with each other and with `main()`, 1 restart at any moment, all faults of slogmodem. A type whose own calls overlapped (`crossed`) is excepted, and so are logs whose state slogmodem may not have confirmed (`astray`). |
| `pq` | What was stored in a file or in registers is read back (`ReadsBack`, `RegReadBack`), also after a restart; memory that was never written is never stored (`NoJunkSaved`); screen updates are off exactly while a pattern is shown; commands end. | 12 sessions of 3 to 6 commands, each with the commands and blocks that meet: lists of scenes of 1 and 2 scenes that grow, shrink and are empty; two blocks that share registers; a whole configuration in 2 pieces with a block read in between. Tags 5 and 6 tell two writes apart, 1030 exceeds 8 and 10 bits. The process is killed once, at any moment: what is lost is lost at once. |
| `prod` | What was acknowledged is stored (`AckedIsStored`), what is read is what was acknowledged (`ReadsTrue`), and a failed or interrupted write succeeds when it is repeated (`RetrySucceeds`), with the exceptions that the properties name. | 2 threads (symmetric), 4 cells, so that requests overlap in part and the test mode is one of them. 3 requests in turn: a write, one that disturbs it, a read; 2 at the same time, which is a lost update. 1 failing call and 1 kill or restart, at any point: what is lost is lost at once. |
| `board` | Settings that were answered are in force (`SettingsKept`, `CurrentSet`); a calibration finds the code (`AmpFound`) and ends (`AmpEnds`); the restart is the one asked for (`RebootAsAsked`); a phone told to go off does (`PowersOff`). | 2 threads and `dcxsrv`. 3 coarse steps of 2 codes with the thresholds 0, 2 and 4: first, middle and last coarse step. 3 calibration requests (set, change of mode, change back), 2 others; 2 in all when the kinds meet or two threads are busy (`MaxBoth`), which is one overlap. What overlaps with a calibration is a new capacitor value, the temperature and the file (`WithAmp`), since the searches that others disturb have too many states; the proofs have no such bound. Means of 2 samples, bytes of 0 to 1, 2 polls, 2 jobs; the cable is plugged in again once; 1 fault or death. |

The type invariants of `Port`, `DiagLink` and `TimeSync` are among the checked
properties; those of `Port`, `ChnlThread`, `TimeSync`, `Dispatch`, `LogCtl` and `ProdData` are
proved; the other modules state theirs, without listing it in a run.

Runs that find a violation. Each states what a comment or a header of the
repository says, and the counterexample is what the code does instead
(`findings` in `PROJECT.json` has the lines):

| Run | What the code does |
|---|---|
| `time_lost` | After the first connection is lost, a new one is not polled. |
| `disp_again` | Data asked for a second time goes to the last callback of the list. |
| `log_already` | `main()` and a request, or two requests, interleave without a lock: the destination that is saved last is the PC, the device is left disabled, and the next request to send the log to the PC is refused as "already to pc". |

The conditions in the passing runs' properties mark where the code promises no
more. The models reproduce what happens beyond them: `FD_SET` is given -1 in the
middle of another thread's `reopen()`; an enable is lost while the stopped worker
still ends; two commands start two workers for one channel; a modem reset that is read
together with another message of modemd's is not noticed; the modem's AT port is disabled for a moment by every reset of the
device; an opening flag that arrives alone is a complete frame, and invalid
frames are offered to the modules; without a destination the WCN ports go on
working until the next restart; two first requests load the modules twice; a
configuration file that the process was killed in the middle of writing is never
repaired, and writes to it are acknowledged; on r4p0 a longer list of scenes
hangs the command, and CMS overwrites ABC's registers with the values that it
last read; on the other versions a command on the whole configuration ends the
process, because there is no parser for hsv; a disable is lost while the reader is not in
`select()` (the header `client/engpcctl.h` promises otherwise); an error answer of
slogmodem passes for success (`cpctl.cpp`, line 793).

In `ProdData`: two writes at the same time on a NAND phone, or two of addresses
anywhere, lose one of them although both are answered; two TSX records written at a time
mix, and `eng_init_test_file()` writes over results that another thread has stored
meanwhile; an interrupted volume
update leaves a volume that no write repairs; the 16-bit product control command
reads at offset 0 whatever it is given, and writes only what of its length lies
behind the offset; `setTestMode()` frees an address
inside its buffer; a failed write of the WiFi address is answered with the result
of the Bluetooth one. In `PmicCali`: for some thresholds the search of the fine
field never ends; `ana_read(..) && 0x1F`, where `&` is meant, stores 0 or 1, which the
next write covers up. In `PowerCtl`: on kernel 4.4 the two
files of the charge current have each other's names; a pin whose device cannot be
opened is answered with OK; the message to wipe the data is stored before the
restart is ordered, so that it stays if the program dies in between; the thread
that suspends the phone polls for ever.

Deadlock is checked for `Port`. In the other models the callers, servers and
tools may have nothing more to ask, and everything comes to rest; those
configurations say `CHECK_DEADLOCK FALSE`.

## 4. Fairness

Only steps that a running thread takes by itself are fair: `Internal` steps of
`Port` (not the device, not the callers), `Work` and `Execute` of `ChnlThread`,
`ReadSome` of `DiagLink` (bytes on the wire are read), `Thread` and the start of
both servers in `TimeSync` (init starts them), `Boot` and `Step` of `LogCtl`, whose
only blocking call, `poll()`, has a limit of three seconds, and `Visit`, `Saved` and
`Answer` of `PQTune` (a command on files waits for nobody), and in `Board` the steps of
each channel thread and of `dcxsrv` and of each job, the polling ones included
(`Job`). `ProdData` states no liveness. Weak fairness is
enough because no such step is disabled again by another thread except through
a mutex, which its holder gives back by fair steps. Requests, commands, faults
restarts, deaths and the cable are never fair.

## 5. Proofs

Every safety property that a passing run checks, invariants and action
properties, is a theorem, except those of `DiagLink`.
The theorems hold for every value of the constants that satisfies the modules'
assumptions: any number of threads, channels, descriptors, callbacks, connections
and requests, and any worlds, links or sessions to start from. They are stated
for `Spec`, but use no fairness. In each module the named properties of the runs
are not inductive by themselves; what was added is described below.

### `PortProof`

* `TypeCorrect`, and `NoLeak` (`NoFdLeak`): the descriptors the process has open for
  the port are exactly `m_fd`, if it is one. The unlocked writes to `m_nClient`
  endanger this: the count may be wrong, and a port may be closed too early or
  too late, yet no descriptor is lost. `OpenTry` stores a new descriptor in `m_fd`,
  which is harmless only if `m_fd` was -1, and that was tested steps before. `FdInv`
  therefore adds `LockInv`: a thread inside a section of `m_mtx` owns the mutex, and
  what it saw of `m_fd` when it took the mutex is still so.
* `RefCount` (`RefCountExact`): with a working device `m_nClient` is the number of
  holders. `CountInv` says which threads count at every step of `open()` and
  `close()`; cardinalities are moved by the theorems on finite sets.
* `Implements` (`SharedSpec`): `Port` implements `SharedFd` while the device works.
  The initial states map to initial ones, and each action is shown to be a step
  of a client, or a stutter.
* `NotForgotten` (`ReaderNotForgotten`), with the hypothesis `OneReader`: there is one
  reader at most, and `reopen()` tries more than once (the code tries 300 times,
  `CPort.h`, line 17). With two readers it is false: one reads away the
  notification that was meant for both, and TLC shows it. `ForgetInv` says who will
  still write to the pipe for each state of a reopening, that the number of tries
  left is that of the phase, and what the reader remembers.

### `ChnlThreadProof`

`TypeCorrect`; `RunningIsTrue` (`RunningHasWorker`) and `TransIsAlive` (`TransHasWorker`): the
fields that others test never speak of a thread that is gone; `SleepersAreSeen`
(`SleeperIsSeen`): of any number of workers that racing commands have started for
one channel, one at most sleeps on the port, with `m_bSuspend` set. None of them has
a condition on the callers. The first two, together (`FieldInv`), and the third are
inductive once the types are known: `TypeOK` says that the holder of `m_mtx_rd` is the
one that arms or sleeps, which is why `m_bSuspend`, a field that every worker sets and
clears, is not cleared by another worker while one sleeps.

### `TimeSyncProof`

`TypeCorrect`; `SyncOncePerReset` (`OneSyncPerReset`), without a condition;
`ConnectionsPolled` (`PolledUntilLost`) and `MessagesReadByOwner` (`ReadByOwner`), which say
themselves that they end with the loss of the first slot. `CountInv` counts the
reads in which a reset was noticed and the time stamps: each notice has a reset of
its own, of however many messages were read with it, there
are no more stamps than notices, and fewer while `modem_reset_flag` is set; `SlotInv` aligns the array given to
`poll()` with the two connections, also in the middle of the loop over its results.

### `DispatchProof`

`TypeCorrect`; `EveryRequestDisposed` (`Disposed`); `DataToOwner` (`PendingToOwner`). The
last is promised for one diag channel, beside any number of channels of other
classes (`OneDiag`, which the property says: two diag channels overwrite both
fields of the pending callback between each other's reads), and proved with the
further condition that no callback asks for data twice (`~world.again`); run
`disp_again` shows that it does not hold without it. `OwnInv` says of each channel
what its locals mean at its point of `process`; `MarkInv` adds what `m_lpCurCB` and
`m_lpPendingCB` hold at each point of the diag channel, which the others leave
alone while they search and extend the list. `DispatchAssumption` says that there are finitely many
channels and that the empty text, which stands for no command, is none.

### `LogCtlProof`

`TypeCorrect`; `DeviceFollows` (`DeviceFollowsDest`) and `SlogFollows` (`SlogFollowsDest`),
for requests that come at any moment, during `main()` too. The properties except a
type whose own calls have overlapped since the start (`crossed`); the code has no
lock that would prevent it, and `log_already` shows what happens then. Calls for the
other type, and `main()` at work on it, are at any step meanwhile. `ApartInv` says, for each
type that is not `crossed`: one call at a time; how far the settings of `main()` have
come (`BootInv`); how far the device is ahead of the saved destination inside a
call (`DevInv`); and the same for slogmodem (`SlogInv`), except where a restart or an
answer that was lost has put them apart (`astray`).

### `PQTuneProof`

* `FlipsComeBack` (`PatternHolds`): screen updates are off exactly while a pattern
  is shown; `PatternInv` adds that `flip_en` is only cleared together with them.
* `JunkNeverSaved` (`NoJunkSaved`): memory that was never written is never stored.
  `JunkInv` says that files and registers are clean, that the received pieces below
  `offset` are, and that what a command still has to store is.
* `RegistersReadBack` (`RegReadBack`): a block written to registers is read back.
  `RegInv` says that the registers hold what was last written wherever that is
  known, and on r4p0 that the static copy agrees with the register while it is
  fresh. `PQTuneAssumption` says of the tags that stand for parameters that none of
  them, cut to 8 or 10 bits, looks like memory that was never written.
* `FilesReadBack` (`ReadsBack`): what a file is read back as is what the last write that
  reached it was told to store. A file is *known* unless a write that was cut
  off, or one whose piece of `ctx` was overwritten on the way, has touched it; `BackInv`
  says that a known file holds what was asked (`StoredInv`) and is whole or the one
  that is being written (`TornInv`), that `ctx` agrees with the file for what was
  loaded (`LoadedInv`), and that it agrees with what the tool sent for what a
  command has still to store (`TodoInv`). The last is endangered by a restart in the
  middle of a configuration: the pieces that follow are laid at the wrong place.
  `PlacedInv` shows that the check in `tune_end_write_cfg()` is enough: `offset` has
  reached its end only if no process was lost since `tune_start_write_cfg()`.
  `ResizeFits` says that `update_slp_mapping_table()` turns any list of scenes that
  have items into any other, and `CoreFiles` what each version's parsers store:
  the major version never, the scenes as `slpblMode` says.

### `ProdDataProof`

`TypeCorrect`; `StoredWhatIsAcked` (`AckedIsStored`); `AnswersAreTrue` (`ReadsTrue`) and
`WritesCanBeRepeated` (`RetrySucceeds`), which are action properties. All four follow
from one invariant, `ProdInv`, for any number of threads, a partition of any size
above 1 (the longer phase check record takes two cells) and any requests that stay
inside it, in both builds. Its parts:

* `TypeInv`: a thread is only at steps of its request, and its buffer has the
  length that the request reads or writes.
* `PartInv`: while the tools take turns one thread is busy at most, a torn volume
  belongs to the NAND build and nobody gets past reading it, and the copy of the
  volume that a write holds differs from the volume only where the request
  writes. Without the last a write that is acknowledged could undo an older one,
  which is what happens when two NAND writes overlap.
* `MacInv`, while the tools take turns: what a thread has read from the address
  file before it empties it is what the file held, so that the other address is
  written back.
* `FileInv`: a record holds what was acknowledged unless it is in doubt, spoiled or
  being written, and what was acknowledged is never an empty file.
* `TurnInv`, while the tools take turns: no file is spoiled, since a thread that is
  about to write one finds it as it has left it, and the table of the test results
  as it has read it.
* `ModeInv`: the command line is that of the mode stored before the phone started.

The answers are then compared with `want` and `wantFile` at the step that gives them.

### `BoardProof`

`CurrentIsSet` (`CurrentSet`): a charge current that was answered is in both files,
if the request ran alone; `OrderedAsAsked` (`RebootAsAsked`, an action property): unless
requests have met at the one buffer, the restart that is ordered is the one asked
for. `CurrentInv` ties a thread that serves the request to its two writes and the
first file to the value at the second; `BufferInv` says that at most one thread
fills an empty buffer and that a full one holds exactly what was asked. The
calibration's steps are shown to leave all this alone.

`OscillatorIsSet` (`SettingsKept`): the registers and the files hold the oscillator's
settings as they were answered; `CalibrationFindsTheCode` (`AmpFound`): the code that a
calibration answers is one that has the flag, and in the high power mode the last
one, for any `CoarseMax` and `FineMax`. `PmicInv` has two parts. `PlaceInv` holds
always: each thread and `dcxsrv` is at a place of its request, `dcx_data.dat` is what was
saved or is being written, and until something overlaps (`mixed`) a calibration is in the
mode in which it started and nobody else is at work (`AloneInv`). `RegInv` holds until accesses overlap (`mixed`): one
actor at most is at the registers, `pmic_reg` names the register that it is about to
use, at each place the registers hold what the callback has written so far, and
when nobody is there they hold the settings of `current_mode`. The search itself is
`AmpSearch`: the code that is looked for is never above the end of the coarse step in
hand, and in the search of the fine field never above the code in hand; the
lemmas on codes (`Parts`, `Grows`, `CoarseFits`, ...) are the arithmetic of the two fields.

Neither has a hypothesis about the requests: they come at any moment, also during a
calibration, and the properties speak of the time until one for registers does
(`Disturbs` sets `mixed`). No more can be said: `dcx_amp_cali()` reads `current_mode` once,
when it starts (`dcx_cali.c`, line 403), so that a change of mode that is answered during
the search leaves it working in the wrong one, and nothing in the code prevents it.
`ActorAssumption` says that `dcxsrv` is none of engpc's
threads.

### Only model-checked

* Liveness, because fairness and `ENABLED` are out of the prover's reach:
  `ReaderWakes`, `PacedStops`, `PacedRuns`, `RequestsArrive`, `ResetsNoticed`,
  `RequestsAnswered`, `Answered`, `AmpEnds`, `PowersOff`.
* `DiagLink` (`TypeOK`, `RequestsIntact`, `CodecsAgree`): all three speak of what `decode()`
  makes of a frame of any length. `DecodeRest` is a recursive function, and what
  it computes for every input needs induction over data.

## 6. Not modelled

The SMP header of AGDSP data, the parsing of the configuration files, the USB
monitor, the boot mode, log output and OS adaptation, the client, and the modules
for radio and factory tests, which only wrap hardware libraries, the trace dump,
and the modules that only report (identities, versions, fuses, a benchmark, the
clock). Of the production
data: the exchange of the IMEI with the modem (such a request is handed on, and
the modem's part is not here). Of `libapcomm`: sizes and the version, which are
formatted and reported. Of the calibration: the full width of the searched
fields, which are constants; whether the write protection of the chip refuses `dcxsrv`.
Of the power off: a state of the cable that stays unreadable, for which the code
waits as for one that stays plugged. Of `PQTune`: raw register access, the light sensor,
failing file and sysfs operations, the table that maps ambient light to the
backlight, two tools at once, and the contents of the tables. The Bluetooth
library, slogmodem, modemd, the time server, `init`, the boot loader and the
kernel's files appear as what the code can see of them.

## 7. Plan

Done: the core (ports, channel threads, framing, dispatch, log control, time
synchronisation), picture quality tuning, the modules with state of their own
(production data, calibration, power and pins, restart), and the theorems of section 5.
Next, in this order:

1. Proofs: `RequestsIntact` of `DiagLink`, from the hypothesis that `decode()` gives back
   what `translate_packet()` framed, which TLC shows for short bodies.
2. Two channels that share a port as source and destination: `attach()`,
   `activeOtherChnlDstPort`, the destination that failed to open
   (compose `Port` with a module for `CTrans`).
3. The SMP protocol (`CProtolSmp`): header, checksum and the length of a frame, as operators
   against a reference; the configuration (`CDevMgr`, `CChnlMgr`, `CBase`): which
   threads exist for a boot mode; the USB monitor (`usb.cpp`).
4. The trace dump (`libtracedump`), whose offset and descriptor are shared by all
   requests; in `PQTune`, failing saves and two tools at once.
