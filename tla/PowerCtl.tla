------------------------------ MODULE PowerCtl ------------------------------
(***************************************************************************)
(* The modules that switch things of the phone: the charger                *)
(* (modules/charge), the supply of the connectivity chip                   *)
(* (modules/regulator), the pins (modules/gpio), the end of the session    *)
(* (modules/libreboot_cmd, and the reset of modules/libapcomm), the sleep  *)
(* (modules/libapdeepsleep), and what the last three only report           *)
(* (libapcomm, libusb).                                                    *)
(*                                                                         *)
(* A channel thread goes from one file of the kernel to the next.  A       *)
(* request to restart, to switch off or to sleep is answered at once and   *)
(* done later, by a thread of its own (a job here).  android_reboot()      *)
(* only tells init, which brings the phone down some time later.           *)
(***************************************************************************)
EXTENDS Workers, Integers, FiniteSets

CONSTANTS
  Kernels,        \* "k44" and "k414" name the charger's files differently;
                  \* "bare" has none of them
  Samples,        \* a reading is the mean of this many: 16
  Levels,         \* what one of them may be
  ByteMax, Offset, \* 255 and 250: how a temperature is sent
  MaxPolls,       \* how often a sleep waits for the cable: 300
  MaxJobs,        \* bound: jobs at a time
  MaxPlugs,       \* bound: how often the cable is plugged in
  PowerRequests   \* what the tools ask for

ASSUME PowerAssumption ==
  /\ Kernels \subseteq {"k44", "k414", "bare"}
  /\ {Samples, ByteMax, MaxJobs} \subseteq Nat \ {0}
  /\ {Offset, MaxPolls, MaxPlugs} \subseteq Nat /\ Levels \subseteq Int

\* A name that a restart may be given; the second one is the longer.
Targets == {"short", "longer"}

AllPower ==
  [op : {"charge"}, cali : BOOLEAN, cmd : 0 .. 3] \cup [op : {"current"}, x : Nat]
    \cup [op : {"regulator"}, x : {900, 1000}]
    \cup [op : {"gpio"}, dir : 0 .. 2, x : 0 .. 1]
    \cup [op : {"mean", "ntc", "capacity", "typec", "getprop"}] \cup [op : {"setprop"}, x : Nat]
    \cup [op : {"reboot"}, to : Targets, framed : BOOLEAN]
    \cup [op : {"dload", "recovery", "off", "bootreset", "sleep"}]

ASSUME PowerRequestsAssumption == PowerRequests \subseteq AllPower

VARIABLES
  kernel,     \* which files there are; "any" until a request needs them
  dev,        \* what has been written to the devices
  prop,       \* a property of the system
  bootmsg,    \* the message to the boot loader: wipe the data
  plugged, plugs, \* the USB cable; how often it was plugged in
  caliMode,   \* ro.bootmode is "cali"
  down,       \* what init has been told
  ppc, preq, acc, pans, \* a thread's step, request, intermediate result, answer
  jobs,       \* the threads that were started
  reboot_cmd_param, \* the buffer all of them share
  asked, crossed, \* the target stored last; two threads were storing one (history)
  curSet      \* the charge current last answered as set, -1 while there is none,
              \* and whether its request ran alone (history)

device == <<kernel, dev, prop, bootmsg>>
serving == <<ppc, preq, acc, pans>>
past   == <<asked, crossed, curSet>>
power  == <<device, plugged, plugs, caliMode, down, serving, jobs, reboot_cmd_param, past>>

NoPower == [op |-> "none"]
NoPAns  == [op |-> "none", ok |-> FALSE, v |-> 0]
NoSum   == [n |-> 0, sum |-> 0]
FreshDev == [stop |-> 0, input |-> 0, charge |-> 0, vdd |-> 900, fn |-> "pad",
             pin |-> 0, modem |-> "awake"]
NotSet  == [v |-> -1, alone |-> TRUE]
NotDown == [by |-> "-", to |-> "-", rest |-> "-"]
Unset   == [head |-> "-", rest |-> "-"]   \* the buffer holds no text

PowerInit ==
  /\ kernel = "any" /\ dev = FreshDev
  /\ prop = 0 /\ bootmsg = FALSE /\ plugged = TRUE /\ plugs = 0
  /\ caliMode = TRUE /\ down = NotDown
  /\ ppc = [a \in Threads |-> "idle"] /\ preq = [a \in Threads |-> NoPower]
  /\ acc = [a \in Threads |-> NoSum] /\ pans = [a \in Threads |-> NoPAns]
  /\ jobs = {} /\ reboot_cmd_param = Unset
  /\ asked = "-" /\ crossed = FALSE /\ curSet = NotSet

PowerTypeOK ==
  /\ kernel \in Kernels \cup {"any"} /\ bootmsg \in BOOLEAN /\ plugged \in BOOLEAN
  /\ \A a \in Threads : (ppc[a] = "idle") = (preq[a] = NoPower)
  /\ \A i, j \in jobs : i.id = j.id => i = j
  /\ reboot_cmd_param.head \in Targets \cup {"-"}

-----------------------------------------------------------------------------
(* Requests and answers *)

PReply(a, ok, v) ==
  /\ pans' = [pans EXCEPT ![a] = [op |-> preq[a].op, ok |-> ok, v |-> v]]
  /\ preq' = [preq EXCEPT ![a] = NoPower] /\ ppc' = [ppc EXCEPT ![a] = "idle"]
  /\ acc' = [acc EXCEPT ![a] = NoSum]

PGoto(a, l) == ppc' = [ppc EXCEPT ![a] = l] /\ UNCHANGED <<preq, pans>>

NoCurrent == \A b \in Threads : preq[b].op # "current"

PowerRequest(a, r) ==
  /\ ppc[a] = "idle"
  /\ preq' = [preq EXCEPT ![a] = r]
  /\ ppc' = [ppc EXCEPT ![a] = r.op]
  /\ pans' = [b \in Threads |-> NoPAns]
  /\ curSet' = IF r.op = "current" THEN [v |-> -1, alone |-> NoCurrent] ELSE curSet
  /\ kernel' \in IF kernel = "any" /\ r.op \in {"charge", "current", "gpio"}
                  THEN Kernels ELSE {kernel}
  /\ UNCHANGED <<dev, prop, bootmsg, plugged, plugs, caliMode, down, acc, jobs,
                 reboot_cmd_param, asked, crossed>>

\* What a step of a thread leaves alone if it only works on devices.
Else == UNCHANGED <<kernel, bootmsg, plugged, plugs, caliMode, down, jobs,
                    reboot_cmd_param, asked, crossed>>
Only == Else /\ UNCHANGED curSet

-----------------------------------------------------------------------------
(* The charger, the supply, the pins *)

\* connect_vbus_charger(), disconnect_vbus_charger(): a kernel with neither
\* of the two files is a success.
SetStop(v, ok) ==
  dev' = IF ok /\ kernel # "bare" THEN [dev EXCEPT !.stop = v] ELSE dev

\* eng_diag_control_charge(): 1 connects, 3 disconnects, 2 is accepted and
\* anything else is not; calibration_diag_control_charge(): 1 connects and
\* anything else disconnects.
ControlCharge(a, ok) ==
  /\ ppc[a] = "charge"
  /\ LET c == preq[a].cmd
     IN IF c = 1 \/ c = 3 \/ preq[a].cali
          THEN SetStop(IF c = 1 THEN 0 ELSE 1, ok) /\ PReply(a, ok \/ kernel = "bare", 0)
          ELSE PReply(a, c = 2, 0) /\ UNCHANGED dev
  /\ UNCHANGED prop /\ Only

\* ap_set_charge_current() writes two files.  Those of kernel 4.4 have names
\* that say the reverse of what the code's macros say.
CurrentFile(k, n) == CASE k = "k44"  -> IF n = 1 THEN "charge" ELSE "input"
                       [] k = "k414" -> IF n = 1 THEN "input" ELSE "charge"
                       [] k = "bare" -> "-"

\* Mutation: the second write goes to the first file again.
SetCurrentSame(n, x, ok) ==
  dev' = IF ok /\ kernel # "bare" THEN [dev EXCEPT ![CurrentFile(kernel, 1)] = x] ELSE dev

SetCurrent(n, x, ok) ==
  dev' = IF ok /\ kernel # "bare" THEN [dev EXCEPT ![CurrentFile(kernel, n)] = x] ELSE dev

\* The first write failing ends it; the second failing leaves the first done.
Current1(a, ok) ==
  /\ ppc[a] = "current"
  /\ SetCurrent(1, preq[a].x, ok)
  /\ IF ok \/ kernel = "bare" THEN PGoto(a, "current2") /\ UNCHANGED acc
                              ELSE PReply(a, FALSE, 0)
  /\ UNCHANGED prop /\ Only

Current2(a, ok) ==
  /\ ppc[a] = "current2"
  /\ SetCurrent(2, preq[a].x, ok) /\ PReply(a, ok \/ kernel = "bare", preq[a].x)
  /\ curSet' = IF ok /\ kernel # "bare" THEN [curSet EXCEPT !.v = preq[a].x] ELSE curSet
  /\ UNCHANGED prop /\ Else

\* The sums of the voltages, the current and the temperature: a file that
\* cannot be read counts as 0.
Sample(a, ok, v) ==
  /\ ppc[a] \in {"mean", "ntc"} /\ acc[a].n < Samples
  /\ acc' = [acc EXCEPT ![a] = [n |-> @.n + 1, sum |-> @.sum + IF ok THEN v ELSE 0]]
  /\ UNCHANGED <<ppc, preq, pans, dev, prop>> /\ Only

\* The temperature is sent in four bytes that the tool adds up, less the
\* offset: below the offset they are all 0, and they end at ByteMax each.
NtcByte(t, i) == IF t - i * ByteMax < 0 THEN 0
                 ELSE IF t - i * ByteMax > ByteMax THEN ByteMax ELSE t - i * ByteMax
NtcSent(t) == NtcByte(t, 0) + NtcByte(t, 1) + NtcByte(t, 2) + NtcByte(t, 3)

\* The sum is shifted, which rounds down.
Measured(a) ==
  /\ ppc[a] \in {"mean", "ntc"} /\ acc[a].n = Samples
  /\ LET mean == acc[a].sum \div Samples
     IN PReply(a, TRUE, IF ppc[a] = "ntc" THEN NtcSent(mean + Offset) - Offset ELSE mean)
  /\ UNCHANGED <<dev, prop>> /\ Only

\* The capacity: only a file that cannot be opened is an error, as the count
\* of bytes is unsigned.
Capacity(a, opens, ok, v) ==
  /\ ppc[a] = "capacity"
  /\ PReply(a, opens, IF opens /\ ok THEN v ELSE 0)
  /\ UNCHANGED <<dev, prop>> /\ Only

\* The orientation and the speed of the cable, read from the kernel's files.
TestTypeC(a, ok) ==
  /\ ppc[a] = "typec"
  /\ PReply(a, ok, 0)
  /\ UNCHANGED <<dev, prop>> /\ Only

GetProp(a) ==
  /\ ppc[a] = "getprop"
  /\ PReply(a, TRUE, prop)
  /\ UNCHANGED <<dev, prop>> /\ Only

SetProp(a) ==
  /\ ppc[a] = "setprop"
  /\ prop' = preq[a].x /\ PReply(a, TRUE, preq[a].x)
  /\ UNCHANGED dev /\ Only

\* regulator_cali_handler(): 1.0 V or 0.9 V is set ...
SetVoltage(a, ok) ==
  /\ ppc[a] = "regulator"
  /\ dev' = IF ok THEN [dev EXCEPT !.vdd = preq[a].x] ELSE dev
  /\ acc' = [acc EXCEPT ![a].n = IF ok THEN 1 ELSE 0]
  /\ PGoto(a, "readback")
  /\ UNCHANGED prop /\ Only

\* ... and what is there afterwards is answered.
GetVoltage(a, ok) ==
  /\ ppc[a] = "readback"
  /\ PReply(a, ok /\ acc[a].n = 1, IF ok /\ acc[a].n = 1 THEN dev.vdd ELSE 0)
  /\ UNCHANGED <<dev, prop>> /\ Only

\* testGpio(): the pad is made a GPIO.  The build for a kernel older than 4.14
\* runs shell commands whose success it does not look at, if it finds the
\* files; the other one uses a device, and if that cannot be opened ret is
\* still 0, which is answered as success.
old == kernel = "k44"

GpioPad(a, opens, ok) ==
  /\ ppc[a] = "gpio"
  /\ dev' = IF opens /\ ok THEN [dev EXCEPT !.fn = "gpio"] ELSE dev
  /\ IF opens /\ (old \/ ok) THEN PGoto(a, "pin") /\ UNCHANGED acc
                             ELSE PReply(a, ~old /\ ~opens, 0)
  /\ UNCHANGED prop /\ Only

\* 1 writes the pin and 0 reads it; other directions do nothing.
GpioPin(a, opens, ok) ==
  /\ ppc[a] = "pin"
  /\ LET d == preq[a].dir
     IN /\ dev' = IF opens /\ ok /\ d = 1 THEN [dev EXCEPT !.pin = preq[a].x] ELSE dev
        /\ PReply(a, d = 2 \/ (opens /\ (ok \/ (old /\ d = 1))),
                  IF d = 0 THEN dev.pin ELSE preq[a].x)
  /\ UNCHANGED prop /\ Only

-----------------------------------------------------------------------------
(* Restart, power off, sleep *)

\* init takes the first order it gets.
Order(by, to, rest) ==
  down' = IF down = NotDown THEN [by |-> by, to |-> to, rest |-> rest] ELSE down

NewId == CHOOSE n \in 1 .. MaxJobs : \A j \in jobs : j.id # n
Start(kind) == jobs' = jobs \cup {[id |-> NewId, kind |-> kind, at |-> "start", n |-> 0]}

Storing(a) == ppc[a] = "copy"

\* Mutation: the buffer is not cleared, and keeps the end of a longer text.
ClearedNot(p) == p

Cleared(p) == Unset

\* strncpy() of the text without its end, unless the request came in a frame
\* of the Diag protocol: then the count is larger and zeros follow.
Copied(p, t, framed) ==
  [head |-> t, rest |-> IF t = "short" /\ p.head = "longer" /\ ~framed THEN "longer" ELSE "-"]

\* reboot_cmd_handle(): the buffer is cleared ...
RebootClear(a) ==
  /\ ppc[a] = "reboot"
  /\ reboot_cmd_param' = Cleared(reboot_cmd_param)
  /\ crossed' = (crossed \/ \E b \in Threads : Storing(b))
  /\ PGoto(a, "copy")
  /\ UNCHANGED <<device, plugged, plugs, caliMode, down, acc, jobs, asked, curSet>>

\* ... and filled, and a thread started that will read it two seconds later.
RebootCopy(a) ==
  /\ Storing(a)
  /\ Cardinality(jobs) < MaxJobs
  /\ reboot_cmd_param' = Copied(reboot_cmd_param, preq[a].to, preq[a].framed)
  /\ asked' = preq[a].to
  /\ Start("cmd") /\ PReply(a, TRUE, 0)
  /\ UNCHANGED <<device, plugged, plugs, caliMode, down, crossed, curSet>>

\* A thread is started that will do it.
Later(a, kind) ==
  /\ Cardinality(jobs) < MaxJobs
  /\ Start(kind) /\ PReply(a, TRUE, 0)
  /\ UNCHANGED <<device, plugged, plugs, caliMode, down, reboot_cmd_param, past>>

AtOnce(a, by, to) ==
  /\ Order(by, to, "-") /\ PReply(a, TRUE, 0)
  /\ UNCHANGED <<device, plugged, plugs, caliMode, jobs, reboot_cmd_param, past>>

dloader_handle(a)   == ppc[a] = "dload" /\ Later(a, "dload")
reset_cmd_handle(a) == ppc[a] = "recovery" /\ Later(a, "recovery")

\* In the calibration mode the cable is waited for.
eng_diag_poweroff(a) ==
  /\ ppc[a] = "off"
  /\ \/ caliMode /\ Later(a, "off")
     \/ ~caliMode /\ AtOnce(a, "off", "off")

eng_diag_bootreset(a) == ppc[a] = "bootreset" /\ AtOnce(a, "reset", "cftreboot")

\* ap_deep_sleep_handler(): the descriptor of wakeup_count is a variable that
\* a second request overwrites; both threads use the same file.
SleepStart(a, ok) ==
  /\ ppc[a] = "sleep"
  /\ IF ok THEN Cardinality(jobs) < MaxJobs /\ Start("sleep") ELSE UNCHANGED jobs
  /\ PReply(a, ok, 0)
  /\ UNCHANGED <<device, plugged, plugs, caliMode, down, reboot_cmd_param, past>>

End(j)       == jobs' = jobs \ {j}
Now(j, l, n) == jobs' = (jobs \ {j}) \cup {[j EXCEPT !.at = l, !.n = n]}
JobOnly == UNCHANGED <<kernel, prop, plugged, plugs, caliMode, serving,
                       reboot_cmd_param, past>>

\* autodloader_thread(), reboot_cmd_thread()
Fire(j) ==
  /\ j.kind \in {"dload", "cmd"}
  /\ IF j.kind = "cmd" THEN Order("cmd", reboot_cmd_param.head, reboot_cmd_param.rest)
                       ELSE Order("dload", "autodloader", "-")
  /\ End(j) /\ UNCHANGED <<dev, bootmsg>> /\ JobOnly

\* reboot_into_recovery(): the message for the boot loader is stored, and only
\* then the restart ordered.  If it cannot be, nothing follows.
Recovery(j, ok) ==
  /\ j.kind = "recovery" /\ j.at = "start"
  /\ IF ok THEN bootmsg' = TRUE /\ Now(j, "message", 0) ELSE End(j) /\ UNCHANGED bootmsg
  /\ UNCHANGED <<dev, down>> /\ JobOnly

RecoveryOrder(j) ==
  /\ j.kind = "recovery" /\ j.at = "message"
  /\ Order("recovery", "recovery", "-")
  /\ End(j) /\ UNCHANGED <<dev, bootmsg>> /\ JobOnly

\* Mutation: "DISCONNECTED" is found to contain "CONNECTED".
eng_usb_stateIn == TRUE

eng_usb_state == plugged

\* eng_power_off_thread() asks every 100 ms.  A state that cannot be read
\* counts as plugged, a file that cannot be opened as unplugged.
PollOff(j, opens, ok) ==
  /\ j.kind = "off" /\ j.at = "start"
  /\ ~opens \/ (ok /\ ~eng_usb_state)
  /\ Now(j, "unplugged", 0)
  /\ UNCHANGED <<dev, bootmsg, down>> /\ JobOnly

PowerOff(j) ==
  /\ j.kind = "off" /\ j.at = "unplugged"
  /\ Order("off", "off", "-")
  /\ End(j) /\ UNCHANGED <<dev, bootmsg>> /\ JobOnly

\* ap_ds_thread_fastsleep(): the modem is told to sleep (whether it could be
\* is not looked at), the cable is waited for, ...
SleepModem(j, ok) ==
  /\ j.kind = "sleep" /\ j.at = "start"
  /\ dev' = IF ok THEN [dev EXCEPT !.modem = "asleep"] ELSE dev
  /\ Now(j, "poll", 0)
  /\ UNCHANGED <<bootmsg, down>> /\ JobOnly

SleepPoll(j, ok) ==
  /\ j.kind = "sleep" /\ j.at = "poll"
  /\ IF ~ok \/ ~plugged THEN Now(j, "read", 0)
     ELSE IF j.n + 1 < MaxPolls THEN Now(j, "poll", j.n + 1) ELSE End(j)
  /\ UNCHANGED <<dev, bootmsg, down>> /\ JobOnly

\* ... and then the phone is suspended again and again, for as long as the
\* program runs: the number of wakeups is read, and written back.  A write
\* that fails because there was another wakeup does not stop it.
SleepRound(j) ==
  /\ j.kind = "sleep" /\ j.at \in {"read", "suspend"}
  /\ IF j.at = "read" THEN Now(j, "suspend", 0) ELSE Now(j, "read", 0)
  /\ UNCHANGED <<dev, bootmsg, down>> /\ JobOnly

-----------------------------------------------------------------------------
(* The cable, the end of the program, the end of the session *)

Watched == \E j \in jobs : j.kind \in {"off", "sleep"}

\* Only these two look at the cable.
Cable ==
  /\ Watched /\ (plugged \/ plugs < MaxPlugs)
  /\ plugged' = ~plugged /\ plugs' = IF plugged THEN plugs ELSE plugs + 1
  /\ UNCHANGED <<device, caliMode, down, serving, jobs, reboot_cmd_param, past>>

\* The threads are gone, and with them the jobs and the buffer.
PowerThreadsGone ==
  /\ ppc' = [a \in Threads |-> "idle"] /\ preq' = [a \in Threads |-> NoPower]
  /\ acc' = [a \in Threads |-> NoSum] /\ pans' = [a \in Threads |-> NoPAns]
  /\ jobs' = {} /\ reboot_cmd_param' = Unset
  /\ asked' = "-" /\ crossed' = FALSE

PowerDies ==
  /\ PowerThreadsGone /\ UNCHANGED <<curSet, device, plugged, plugs, caliMode, down>>

\* init brings the phone down; the boot loader takes its message.
PowerRestarts(cali) ==
  /\ down # NotDown
  /\ PowerThreadsGone /\ curSet' = NotSet
  /\ dev' = FreshDev /\ prop' = 0 /\ bootmsg' = FALSE
  /\ caliMode' = cali /\ down' = NotDown
  /\ UNCHANGED <<kernel, plugged, plugs>>

PowerStep(a) ==
  \/ ControlCharge(a, TRUE) \/ Current1(a, TRUE) \/ Current2(a, TRUE)
  \/ (\E v \in Levels : Sample(a, TRUE, v) \/ Capacity(a, TRUE, TRUE, v))
  \/ Measured(a) \/ TestTypeC(a, TRUE) \/ GetProp(a) \/ SetProp(a)
  \/ SetVoltage(a, TRUE) \/ GetVoltage(a, TRUE)
  \/ GpioPad(a, TRUE, TRUE) \/ GpioPin(a, TRUE, TRUE)
  \/ RebootClear(a) \/ RebootCopy(a) \/ dloader_handle(a) \/ reset_cmd_handle(a)
  \/ eng_diag_poweroff(a) \/ eng_diag_bootreset(a) \/ SleepStart(a, TRUE)

PowerFault(a) ==
  \/ ControlCharge(a, FALSE) \/ Current1(a, FALSE) \/ Current2(a, FALSE)
  \/ Sample(a, FALSE, 0) \/ Capacity(a, FALSE, FALSE, 0) \/ Capacity(a, TRUE, FALSE, 0)
  \/ TestTypeC(a, FALSE)
  \/ SetVoltage(a, FALSE) \/ GetVoltage(a, FALSE)
  \/ GpioPad(a, FALSE, FALSE) \/ GpioPad(a, TRUE, FALSE)
  \/ GpioPin(a, FALSE, FALSE) \/ GpioPin(a, TRUE, FALSE)
  \/ SleepStart(a, FALSE)

JobStep(j) ==
  \/ Fire(j) \/ Recovery(j, TRUE) \/ RecoveryOrder(j)
  \/ PollOff(j, TRUE, TRUE) \/ PowerOff(j)
  \/ SleepModem(j, TRUE) \/ SleepPoll(j, TRUE) \/ SleepRound(j)

JobFault(j) ==
  \/ Recovery(j, FALSE) \/ PollOff(j, FALSE, FALSE)
  \/ SleepModem(j, FALSE) \/ SleepPoll(j, FALSE)

-----------------------------------------------------------------------------
(* Properties *)

\* The order that the thread of AT+SPREBOOTCMD gives to init is the whole text
\* of the request served last and nothing of an earlier one, unless a request
\* is just being stored, or two were stored at a time, in the buffer that all
\* of them share.
RebootAsAsked ==
  [][down' # down /\ down'.by = "cmd" =>
       \/ crossed \/ \E a \in Threads : Storing(a)
       \/ down'.to = asked /\ down'.rest = "-"]_power

\* A charge current that was answered as set to a request that ran alone is in
\* both files of the kernel, whichever its version, until the next request
\* for it or the next restart, whatever else is done and whether or not the
\* program survives.
CurrentSet == curSet.alone /\ curSet.v >= 0 =>
                dev.input = curSet.v /\ dev.charge = curSet.v

\* A phone in the calibration mode that was told to power off goes off when
\* the cable stays unplugged: no thread waits for the cable for ever.
PowersOff == <>[]~plugged => []<>(~\E j \in jobs : j.kind = "off")
=============================================================================
