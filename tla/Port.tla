-------------------------------- MODULE Port --------------------------------
(***************************************************************************)
(* One CPort (server/chnl/CPort.cpp): a device node that several channel   *)
(* threads share.  The port keeps one descriptor m_fd, the number m_nClient *)
(* of threads that opened it, three mutexes and a notification pipe.  A    *)
(* thread that meets an I/O error reopens the device under the others.     *)
(*                                                                         *)
(* A step ends at every access to a variable that another thread may       *)
(* access without holding the same mutex: m_nClient is written by reopen() *)
(* with no lock, so an increment under m_mtx is a load and a store.        *)
(* getFD() takes and releases m_mtx in one step: it needs m_mtx free.      *)
(*                                                                         *)
(* Ports of type LOOP, INTERFACE and SOCK never own a descriptor and are   *)
(* not instances of this module.                                           *)
(***************************************************************************)
EXTENDS Integers, FiniteSets

CONSTANTS
  Threads,      \* the channel threads that use the port
  Readers,      \* those for which the port is the source (they read it);
                \* for the others it is the destination
  NoThread,     \* no thread: a free mutex
  FdNums,       \* descriptor numbers the kernel may hand out
  ReopenTries,  \* the argument of reopen(): MAX_PORT_OPEN_TIMEOUT in the code
  UseTimeout,   \* the port is GSER, VSER or COM: write() has a time limit
  MaxCount,     \* bound on m_nClient at which no further I/O error happens
  Worlds        \* which threads use the port and what the environment does,
                \* in one behaviour or another

EnvEvents == {"leave",    \* a destination thread ends and closes the port
              "ioerror",  \* read() or write() of the device fails
              "vanish",   \* the device node cannot be opened
              "disable",  \* CPort::enable() is called
              "stop"}     \* CPort::stop() is called

ASSUME PortAssumption ==
  /\ Readers \subseteq Threads
  /\ NoThread \notin Threads
  /\ FdNums \subseteq Nat
  /\ ReopenTries \in Nat
  /\ UseTimeout \in BOOLEAN
  /\ MaxCount \in Nat
  /\ Worlds \subseteq [users : SUBSET Threads, env : SUBSET EnvEvents]

NoFd == -1

VARIABLES
  mtx, rdLock, wrLock,  \* owners of m_mtx, m_mtx_rd, m_mtx_wr
  fd,                   \* m_fd
  nClient,              \* m_nClient
  enRD, enWR,           \* m_bEnableRD, m_bEnableWR
  suspend,              \* m_bSuspend
  pipe,                 \* what a read of m_pipeMonitor would compare equal to
  openFds,              \* the kernel's view: descriptors of the device open
  pc,                   \* where each thread is
  ctx,                  \* who called open()/close(): the thread's own trans()
                        \* loop ("user") or a reopen() inside read or write
  reg,                  \* a loaded value of m_nClient
  nSave, second,        \* reopen()'s nCount and second
  watch,                \* the descriptor a select() was armed with
  live,                 \* it still denotes the file it denoted then
  got,                  \* internal_read() has part of a frame (offset > 0)
  held,                 \* threads whose open() succeeded and that have not
                        \* closed since (history variable)
  world                 \* the member of Worlds that this behaviour is about

locks  == <<mtx, rdLock, wrLock>>
flags  == <<enRD, enWR, world>>
fdvars == <<fd, nClient, openFds, held>>
rvars  == <<reg, nSave, second>>
svars  == <<watch, live, got, suspend, pipe>>
vars   == <<locks, flags, fdvars, rvars, svars, pc, ctx>>

Env == world.env

Labels ==
  {"out", "in",
   "open_enter", "open_lock", "open_share", "open_try",
   "close_lock", "close_dec",
   "reopen_load", "reopen_set", "reopen_test", "reopen_notify",
   "reopen_restore",
   "rd_lock", "rd_arm", "rd_sel", "rd_wait", "rd_isset", "rd_read",
   "wr_lock", "wr_arm", "wr_sel", "wr_wait", "wr_isset", "wr_write"}

TypeOK ==
  /\ mtx \in Threads \cup {NoThread}
  /\ rdLock \in Threads \cup {NoThread}
  /\ wrLock \in Threads \cup {NoThread}
  /\ fd \in FdNums \cup {NoFd}
  /\ nClient \in Nat
  /\ enRD \in BOOLEAN /\ enWR \in BOOLEAN /\ suspend \in BOOLEAN
  /\ pipe \in {"empty", "exit", "other"}
  /\ openFds \subseteq FdNums
  /\ pc \in [Threads -> Labels]
  /\ ctx \in [Threads -> {"user", "read", "write"}]
  /\ reg \in [Threads -> Nat] /\ nSave \in [Threads -> Nat]
  /\ second \in [Threads -> Int]
  /\ watch \in [Threads -> FdNums \cup {NoFd}]
  /\ live \in [Threads -> BOOLEAN] /\ got \in [Threads -> BOOLEAN]
  /\ held \subseteq Threads
  /\ world \in Worlds

Init ==
  /\ mtx = NoThread /\ rdLock = NoThread /\ wrLock = NoThread
  /\ fd = NoFd /\ nClient = 0 /\ openFds = {} /\ held = {}
  /\ enRD = TRUE /\ enWR = TRUE /\ suspend = FALSE /\ pipe = "empty"
  /\ pc = [t \in Threads |-> "out"]
  /\ ctx = [t \in Threads |-> "user"]
  /\ reg = [t \in Threads |-> 0] /\ nSave = [t \in Threads |-> 0]
  /\ second = [t \in Threads |-> 0]
  /\ watch = [t \in Threads |-> NoFd]
  /\ live = [t \in Threads |-> FALSE] /\ got = [t \in Threads |-> FALSE]
  /\ world \in Worlds

Goto(t, l) == pc' = [pc EXCEPT ![t] = l]

(***************************************************************************)
(* The pipe.  internal_read() takes everything the pipe holds in one read  *)
(* and compares it with "MSG_EXIT", so a second message of any kind makes  *)
(* the text differ from it.                                                *)
(***************************************************************************)
Notified(msg) == IF pipe = "empty" THEN msg ELSE "other"

-----------------------------------------------------------------------------
(* open() *)

\* CTrans::trans() opens its ports.
OpenCall(t) ==
  /\ pc[t] = "out" /\ t \in world.users
  /\ Goto(t, "open_enter")
  /\ UNCHANGED <<locks, flags, fdvars, rvars, svars, ctx>>

\* trans() gives up when its source port does not open and ignores the
\* failure of its destination port.
OpenFailed(t) ==
  Goto(t, CASE ctx[t] # "user" -> "reopen_test"
            [] ctx[t] = "user" /\ t \in Readers -> "out"
            [] OTHER -> "in")

OpenSucceeded(t) ==
  /\ Goto(t, IF ctx[t] = "user" THEN "in" ELSE "reopen_notify")
  /\ held' = IF ctx[t] = "user" THEN held \cup {t} ELSE held

OpenEnter(t) ==
  /\ pc[t] = "open_enter"
  /\ IF enRD THEN Goto(t, "open_lock") ELSE OpenFailed(t)
  /\ UNCHANGED <<locks, flags, fdvars, rvars, svars, ctx>>

\* Mutation: m_fd is not looked at again once m_mtx is held.
OpenLockBlind(t) ==
  /\ pc[t] = "open_lock" /\ mtx = NoThread
  /\ mtx' = t
  /\ Goto(t, "open_try")
  /\ UNCHANGED <<rdLock, wrLock, flags, fdvars, rvars, svars, ctx>>

OpenLock(t) ==
  /\ pc[t] = "open_lock" /\ mtx = NoThread
  /\ mtx' = t
  /\ IF fd # NoFd
       THEN reg' = [reg EXCEPT ![t] = nClient] /\ Goto(t, "open_share")
       ELSE Goto(t, "open_try") /\ UNCHANGED reg
  /\ UNCHANGED <<rdLock, wrLock, flags, fdvars, nSave, second, svars, ctx>>

\* Mutation: a client of an open port is not counted.
OpenShareUncounted(t) ==
  /\ pc[t] = "open_share"
  /\ mtx' = NoThread
  /\ OpenSucceeded(t)
  /\ UNCHANGED <<rdLock, wrLock, flags, fd, nClient, openFds, rvars, svars, ctx>>

OpenShare(t) ==
  /\ pc[t] = "open_share"
  /\ nClient' = reg[t] + 1
  /\ reg' = [reg EXCEPT ![t] = 0]
  /\ mtx' = NoThread
  /\ OpenSucceeded(t)
  /\ UNCHANGED <<rdLock, wrLock, flags, fd, openFds, nSave, second, svars, ctx>>

\* The loop around ::open() keeps m_mtx, so its tries are one step: the
\* device opens in one of them or in none.
OpenTry(t) ==
  /\ pc[t] = "open_try"
  /\ mtx' = NoThread
  /\ \/ \E f \in FdNums \ openFds :
          /\ fd' = f /\ openFds' = openFds \cup {f}
          /\ nClient' = 1
          /\ OpenSucceeded(t)
     \/ /\ "vanish" \in Env
        /\ OpenFailed(t)
        /\ UNCHANGED fdvars
  /\ UNCHANGED <<rdLock, wrLock, flags, rvars, svars, ctx>>

-----------------------------------------------------------------------------
(* close() *)

\* trans() ends: its destination port is closed whatever its open() said.
Leave(t) ==
  /\ "leave" \in Env
  /\ pc[t] = "in" /\ t \notin Readers
  /\ Goto(t, "close_lock")
  /\ UNCHANGED <<locks, flags, fdvars, rvars, svars, ctx>>

CloseReturned(t) ==
  /\ Goto(t, IF ctx[t] = "user" THEN "out" ELSE "reopen_test")
  /\ held' = IF ctx[t] = "user" THEN held \ {t} ELSE held

CloseLock(t) ==
  /\ pc[t] = "close_lock" /\ mtx = NoThread
  /\ IF fd # NoFd
       THEN /\ mtx' = t
            /\ reg' = [reg EXCEPT ![t] = nClient]
            /\ Goto(t, "close_dec")
            /\ UNCHANGED held
       ELSE /\ CloseReturned(t)
            /\ UNCHANGED <<mtx, reg>>
  /\ UNCHANGED <<rdLock, wrLock, flags, fd, nClient, openFds, nSave, second,
                 svars, ctx>>

\* Mutation: the count is not reset to 0 with the last close.
CloseDecNoReset(t) ==
  /\ pc[t] = "close_dec"
  /\ mtx' = NoThread
  /\ nClient' = reg[t] - 1
  /\ IF reg[t] - 1 <= 0
       THEN /\ fd' = NoFd
            /\ openFds' = openFds \ {fd}
            /\ live' = [u \in Threads |-> FALSE]
       ELSE UNCHANGED <<fd, openFds, live>>
  /\ reg' = [reg EXCEPT ![t] = 0]
  /\ CloseReturned(t)
  /\ UNCHANGED <<rdLock, wrLock, flags, nSave, second, watch, got, suspend,
                 pipe, ctx>>

\* Mutation: the device is closed with one client left.
CloseDecEarly(t) ==
  /\ pc[t] = "close_dec"
  /\ mtx' = NoThread
  /\ IF reg[t] - 1 <= 1
       THEN /\ nClient' = 0 /\ fd' = NoFd
            /\ openFds' = openFds \ {fd}
            /\ live' = [u \in Threads |-> FALSE]
       ELSE /\ nClient' = reg[t] - 1
            /\ UNCHANGED <<fd, openFds, live>>
  /\ reg' = [reg EXCEPT ![t] = 0]
  /\ CloseReturned(t)
  /\ UNCHANGED <<rdLock, wrLock, flags, nSave, second, watch, got, suspend,
                 pipe, ctx>>

\* A thread asleep in select() keeps waiting for the closed file.
CloseDec(t) ==
  /\ pc[t] = "close_dec"
  /\ mtx' = NoThread
  /\ IF reg[t] - 1 <= 0
       THEN /\ nClient' = 0 /\ fd' = NoFd
            /\ openFds' = openFds \ {fd}
            /\ live' = [u \in Threads |-> FALSE]
       ELSE /\ nClient' = reg[t] - 1
            /\ UNCHANGED <<fd, openFds, live>>
  /\ reg' = [reg EXCEPT ![t] = 0]
  /\ CloseReturned(t)
  /\ UNCHANGED <<rdLock, wrLock, flags, nSave, second, watch, got, suspend,
                 pipe, ctx>>

-----------------------------------------------------------------------------
(* reopen(second): entered with ctx[t] the operation that failed *)

ReopenLoad(t) ==
  /\ pc[t] = "reopen_load"
  /\ nSave' = [nSave EXCEPT ![t] = nClient]
  /\ second' = [second EXCEPT ![t] = ReopenTries]
  /\ Goto(t, "reopen_set")
  /\ UNCHANGED <<locks, flags, fdvars, reg, svars, ctx>>

ReopenSet(t) ==
  /\ pc[t] = "reopen_set"
  /\ nClient' = 1
  /\ Goto(t, "close_lock")
  /\ UNCHANGED <<locks, flags, fd, openFds, held, rvars, svars, ctx>>

ReopenTest(t) ==
  /\ pc[t] = "reopen_test"
  /\ second' = [second EXCEPT ![t] = @ - 1]
  /\ Goto(t, IF second[t] > 0 THEN "open_enter" ELSE "reopen_notify")
  /\ UNCHANGED <<locks, flags, fdvars, reg, nSave, svars, ctx>>

\* Mutation: nobody is told of the new descriptor.
ReopenNotifySilent(t) ==
  /\ pc[t] = "reopen_notify"
  /\ Goto(t, "reopen_restore")
  /\ UNCHANGED <<locks, flags, fdvars, rvars, svars, ctx>>

\* A success in the last try leaves second = 0: it is neither announced nor
\* returned as a success.
ReopenNotify(t) ==
  /\ pc[t] = "reopen_notify"
  /\ pipe' = IF second[t] > 0 THEN Notified("other") ELSE pipe
  /\ Goto(t, "reopen_restore")
  /\ UNCHANGED <<locks, flags, fdvars, rvars, watch, live, got, suspend, ctx>>

\* internal_read() returns offset; trans() goes on if it is positive and
\* closes the port if not.
ReadReturns(t, data) ==
  /\ rdLock' = NoThread
  /\ got' = [got EXCEPT ![t] = FALSE]
  /\ Goto(t, IF data THEN "in" ELSE "close_lock")

WriteReturns(t) ==
  /\ wrLock' = NoThread
  /\ Goto(t, "in")

ReopenRestore(t) ==
  /\ pc[t] = "reopen_restore"
  /\ nClient' = nSave[t]
  /\ nSave' = [nSave EXCEPT ![t] = 0]
  /\ second' = [second EXCEPT ![t] = 0]
  /\ ctx' = [ctx EXCEPT ![t] = "user"]
  /\ \/ /\ second[t] > 0
        /\ Goto(t, IF ctx[t] = "read" THEN "rd_arm" ELSE "wr_arm")
        /\ UNCHANGED <<rdLock, wrLock, suspend, got>>
     \/ /\ second[t] <= 0 /\ ctx[t] = "read"
        /\ suspend' = FALSE
        /\ ReadReturns(t, got[t])
        /\ UNCHANGED wrLock
     \/ /\ second[t] <= 0 /\ ctx[t] = "write"
        /\ WriteReturns(t)
        /\ UNCHANGED <<rdLock, suspend, got>>
  /\ UNCHANGED <<mtx, flags, fd, openFds, held, reg, watch, live, pipe>>

-----------------------------------------------------------------------------
(* read() and internal_read() *)

ReadCall(t) ==
  /\ pc[t] = "in" /\ t \in Readers
  /\ Goto(t, IF enRD THEN "rd_lock" ELSE "close_lock")
  /\ UNCHANGED <<locks, flags, fdvars, rvars, svars, ctx>>

ReadLock(t) ==
  /\ pc[t] = "rd_lock" /\ rdLock = NoThread
  /\ IF fd = NoFd
       THEN ReadReturns(t, FALSE)
       ELSE rdLock' = t /\ Goto(t, "rd_arm") /\ UNCHANGED got
  /\ UNCHANGED <<mtx, wrLock, flags, fdvars, rvars, watch, live, suspend, pipe,
                 ctx>>

\* FD_SET(getFD()).  With m_fd = -1 the set holds the pipe only (a fortified
\* build aborts instead).
ReadArm(t) ==
  /\ pc[t] = "rd_arm" /\ mtx = NoThread
  /\ watch' = [watch EXCEPT ![t] = fd]
  /\ suspend' = TRUE
  /\ Goto(t, "rd_sel")
  /\ UNCHANGED <<locks, flags, fdvars, rvars, live, got, pipe, ctx>>

\* select() reads getFD() again for its first argument.  A descriptor that
\* was closed since is reported as an error or lies above that argument.
SelectOn(t, wait, again) ==
  /\ mtx = NoThread
  /\ \/ /\ watch[t] = fd /\ fd # NoFd
        /\ live' = [live EXCEPT ![t] = TRUE]
        /\ Goto(t, wait)
     \/ /\ watch[t] # fd \/ fd = NoFd
        /\ live' = [live EXCEPT ![t] = FALSE]
        /\ Goto(t, wait)
     \/ /\ watch[t] # fd /\ watch[t] # NoFd
        /\ Goto(t, again)
        /\ UNCHANGED live
  /\ UNCHANGED <<locks, flags, fdvars, rvars, watch, got, suspend, pipe, ctx>>

\* The set of descriptors is built anew before the next select().
Forget(t) ==
  /\ watch' = [watch EXCEPT ![t] = NoFd]
  /\ live' = [live EXCEPT ![t] = FALSE]

ReadSelect(t) == pc[t] = "rd_sel" /\ SelectOn(t, "rd_wait", "rd_arm")

ReadWakePipe(t) ==
  /\ pc[t] = "rd_wait" /\ pipe # "empty"
  /\ pipe' = "empty"
  /\ IF pipe = "exit"
       THEN suspend' = FALSE /\ ReadReturns(t, FALSE)
       ELSE Goto(t, "rd_arm") /\ UNCHANGED <<rdLock, suspend, got>>
  /\ Forget(t)
  /\ UNCHANGED <<mtx, wrLock, flags, fdvars, rvars, ctx>>

\* The pipe is looked at first.
ReadWakeData(t) ==
  /\ pc[t] = "rd_wait" /\ live[t] /\ pipe = "empty"
  /\ live' = [live EXCEPT ![t] = FALSE]
  /\ Goto(t, "rd_isset")
  /\ UNCHANGED <<locks, flags, fdvars, rvars, watch, got, suspend, pipe, ctx>>

\* FD_ISSET(getFD(), ..): the port's descriptor may have another number now.
IsSet(t, yes, no) ==
  /\ mtx = NoThread
  /\ Goto(t, IF fd = watch[t] /\ fd # NoFd THEN yes ELSE no)
  /\ Forget(t)
  /\ UNCHANGED <<locks, flags, fdvars, rvars, got, suspend, pipe, ctx>>

ReadIsSet(t) == pc[t] = "rd_isset" /\ IsSet(t, "rd_read", "rd_arm")

\* A complete or an invalid frame, or a full buffer.
ReadFrame(t) ==
  /\ pc[t] = "rd_read" /\ mtx = NoThread /\ fd # NoFd
  /\ suspend' = FALSE
  /\ ReadReturns(t, TRUE)
  /\ UNCHANGED <<mtx, wrLock, flags, fdvars, rvars, watch, live, pipe, ctx>>

\* FRAME_HALF_CONTINUE, or EBUSY.
ReadMore(t) ==
  /\ pc[t] = "rd_read" /\ mtx = NoThread /\ fd # NoFd
  /\ \/ got' = [got EXCEPT ![t] = TRUE]
     \/ "ioerror" \in Env /\ UNCHANGED got
  /\ Goto(t, "rd_arm")
  /\ UNCHANGED <<locks, flags, fdvars, rvars, watch, live, suspend, pipe, ctx>>

\* read() or write() of getFD() fails; with m_fd = -1 it always does.  Racing
\* reopen()s can raise m_nClient without end: MaxCount bounds the model.
Fails(t, op) ==
  /\ mtx = NoThread
  /\ fd = NoFd \/ ("ioerror" \in Env /\ nClient < MaxCount)
  /\ ctx' = [ctx EXCEPT ![t] = op]
  /\ Goto(t, "reopen_load")
  /\ UNCHANGED <<locks, flags, fdvars, rvars, svars>>

ReadFails(t) == pc[t] = "rd_read" /\ Fails(t, "read")

-----------------------------------------------------------------------------
(* write() and internal_write() *)

WriteCall(t) ==
  /\ pc[t] = "in" /\ enWR
  /\ Goto(t, "wr_lock")
  /\ UNCHANGED <<locks, flags, fdvars, rvars, svars, ctx>>

WriteLock(t) ==
  /\ pc[t] = "wr_lock" /\ wrLock = NoThread
  /\ IF fd = NoFd
       THEN WriteReturns(t)
       ELSE wrLock' = t /\ Goto(t, "wr_arm")
  /\ UNCHANGED <<mtx, rdLock, flags, fdvars, rvars, svars, ctx>>

WriteArm(t) ==
  /\ pc[t] = "wr_arm" /\ mtx = NoThread
  /\ watch' = [watch EXCEPT ![t] = fd]
  /\ Goto(t, "wr_sel")
  /\ UNCHANGED <<locks, flags, fdvars, rvars, live, got, suspend, pipe, ctx>>

WriteSelect(t) == pc[t] = "wr_sel" /\ SelectOn(t, "wr_wait", "wr_arm")

WriteWake(t) ==
  /\ pc[t] = "wr_wait" /\ live[t]
  /\ live' = [live EXCEPT ![t] = FALSE]
  /\ Goto(t, "wr_isset")
  /\ UNCHANGED <<locks, flags, fdvars, rvars, watch, got, suspend, pipe, ctx>>

WriteTimeout(t) ==
  /\ pc[t] = "wr_wait" /\ UseTimeout
  /\ WriteReturns(t)
  /\ Forget(t)
  /\ UNCHANGED <<mtx, rdLock, flags, fdvars, rvars, got, suspend, pipe, ctx>>

WriteIsSet(t) == pc[t] = "wr_isset" /\ IsSet(t, "wr_write", "wr_arm")

WriteDone(t) ==
  /\ pc[t] = "wr_write" /\ mtx = NoThread /\ fd # NoFd
  /\ WriteReturns(t)
  /\ UNCHANGED <<mtx, rdLock, flags, fdvars, rvars, svars, ctx>>

\* A short write, the first part of a split write, or EBUSY.
WriteMore(t) ==
  /\ pc[t] = "wr_write" /\ mtx = NoThread /\ fd # NoFd
  /\ Goto(t, "wr_arm")
  /\ UNCHANGED <<locks, flags, fdvars, rvars, svars, ctx>>

WriteFails(t) == pc[t] = "wr_write" /\ Fails(t, "write")

-----------------------------------------------------------------------------
(* Calls from other threads *)

Stop ==
  /\ "stop" \in Env /\ suspend
  /\ pipe' = Notified("exit")
  /\ UNCHANGED <<locks, flags, fdvars, rvars, watch, live, got, suspend, pc, ctx>>

Enable(rd, wr) ==
  /\ "disable" \in Env
  /\ enRD' = rd /\ enWR' = wr
  /\ UNCHANGED <<world, locks, fdvars, rvars, svars, pc, ctx>>

-----------------------------------------------------------------------------
OpenStep(t)  == OpenEnter(t) \/ OpenLock(t) \/ OpenShare(t) \/ OpenTry(t)
CloseStep(t) == CloseLock(t) \/ CloseDec(t)
ReopenStep(t) == \/ ReopenLoad(t) \/ ReopenSet(t) \/ ReopenTest(t)
                 \/ ReopenNotify(t) \/ ReopenRestore(t)
ReadStep(t)  == ReadLock(t) \/ ReadArm(t) \/ ReadSelect(t) \/ ReadWakePipe(t)
                \/ ReadIsSet(t)
WriteStep(t) == WriteLock(t) \/ WriteArm(t) \/ WriteSelect(t) \/ WriteIsSet(t)

\* What a thread does by itself, without waiting for the device or a caller.
Internal(t) == \/ OpenStep(t) \/ CloseStep(t) \/ ReopenStep(t)
               \/ ReadStep(t) \/ WriteStep(t)

\* What depends on the device: data, room for data, failure, or a timeout.
Device(t) == \/ ReadWakeData(t) \/ ReadFrame(t) \/ ReadMore(t) \/ ReadFails(t)
             \/ WriteWake(t) \/ WriteTimeout(t) \/ WriteDone(t) \/ WriteMore(t)
             \/ WriteFails(t)

Call(t) == OpenCall(t) \/ Leave(t) \/ ReadCall(t) \/ WriteCall(t)

Next == \/ \E t \in Threads : Internal(t) \/ Device(t) \/ Call(t)
        \/ Stop
        \/ \E rd, wr \in BOOLEAN : Enable(rd, wr)

Spec == Init /\ [][Next]_vars

\* The scheduler runs every thread that is not blocked, and a select() with
\* a time limit ends.
FairSpec == /\ Spec
            /\ \A t \in Threads : WF_vars(Internal(t))
            /\ \A t \in Threads : WF_vars(WriteTimeout(t))

-----------------------------------------------------------------------------
(* Properties *)

\* The kernel has the device open exactly once when m_fd is valid and not at
\* all when it is -1, whatever opens, closes and reopens race: no descriptor
\* is leaked by open() and none is closed twice by close().
NoFdLeak == openFds = {fd} \ {NoFd}

DeviceWorks == Env \cap {"ioerror", "vanish", "disable"} = {}

\* While the device works, m_nClient is the number of threads that hold the
\* port whenever m_mtx is free, so the close() of one client never closes
\* the descriptor under another.
RefCountExact == DeviceWorks /\ mtx = NoThread => nClient = Cardinality(held)

\* The same promise as an abstract specification: while the device works, it
\* is open while somebody holds the port, and open() and close() change both
\* at once.
Shared == INSTANCE SharedFd WITH holders <- IF DeviceWorks THEN held ELSE {},
                                 isOpen  <- DeviceWorks /\ fd # NoFd
SharedSpec == Shared!Spec

\* Errors are overcome: the device can be opened, and nobody disables or
\* leaves the port.
Recovers == Env \cap {"leave", "vanish", "disable"} = {}

\* A reader asleep in select() on a descriptor that another thread's
\* reopen() closed has a message in the pipe or will get one: that thread
\* is still on its way from close() to notify(MSG_NOTIFY_UPDATE_FD).
Reopening(u) ==
  /\ ctx[u] # "user"
  /\ pc[u] \in {"reopen_test", "open_enter", "open_lock", "open_share",
                "open_try", "reopen_notify"}
ReaderNotForgotten ==
  \A t \in Readers : Recovers /\ pc[t] = "rd_wait" /\ ~live[t] =>
     pipe # "empty" \/ \E u \in Threads \ {t} : Reopening(u)

\* And the message does arrive: such a reader leaves select().
ReaderWakes ==
  \A t \in Readers :
    (Recovers /\ pc[t] = "rd_wait" /\ ~live[t]) ~> (pc[t] # "rd_wait")

=============================================================================
