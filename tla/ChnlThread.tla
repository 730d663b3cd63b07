----------------------------- MODULE ChnlThread -----------------------------
(***************************************************************************)
(* The life of one channel: a CChnlThread object (server/chnl), the        *)
(* operating-system threads that execute its threadMain(), its source port *)
(* as far as starting and stopping depend on it, and the two callers that  *)
(* start and stop channels: the control socket (CEngCtl::ctl_chnl, calling *)
(* enableChnl) and the log controller (CCPCtl, calling resetWithDevName).  *)
(*                                                                         *)
(* Nothing but the port's own mutex protects these objects: m_isRunning,   *)
(* m_lpTrans, m_bEnableRD and m_bSuspend are read and written by several   *)
(* threads, and every access is a step of its own.                         *)
(***************************************************************************)
EXTENDS Naturals, FiniteSets

CONSTANTS
  Workers,      \* operating-system threads that threadMain() may run in
                \* (bounds how many of them exist at a time)
  NoWorker,     \* NULL, a free mutex
  m_enable,     \* the channel's "enable" field of the configuration
  IsAT,         \* its source is the modem's AT port, DEV_MODEM_AT_NAME
  Commands,     \* commands that may be given, a subset of AllCommands
  MaxCmds       \* bound on their number

AllCommands == {"enable", "disable",      \* CEngCtl::ctl_chnl, act 3 and 4
                "dev_on", "dev_off"}      \* resetWithDevName(dev, true/false)

ASSUME ChnlAssumption ==
  /\ NoWorker \notin Workers /\ Workers # {}
  /\ m_enable \in BOOLEAN /\ IsAT \in BOOLEAN
  /\ Commands \subseteq AllCommands
  /\ MaxCmds \in Nat

Callers == {"ctl", "cp"}
CallerOf(cmd) == IF cmd \in {"enable", "disable"} THEN "ctl" ELSE "cp"

VARIABLES
  isRunning,   \* m_isRunning
  lpTrans,     \* m_lpTrans: the thread whose CTrans it points to, or NULL
  enRD,        \* the source port's m_bEnableRD
  suspend,     \* its m_bSuspend
  pipe,        \* its notification pipe (as in Port)
  rdLock,      \* its m_mtx_rd
  wpc,         \* where each worker is
  cpc,         \* where each caller is
  cmd,         \* the command it executes
  ncmd,        \* commands given so far
  want,        \* what the last command asked for (history variable)
  hasty        \* two things have met that the code does not keep apart: a
               \* command with one whose effects were not complete, or with
               \* data, or a command of the log control (history variable)

port == <<enRD, suspend, pipe, rdLock>>
thrd == <<isRunning, lpTrans>>
given == <<cmd, ncmd, want>>
call == <<cpc, given, hasty>>
vars == <<thrd, port, wpc, call>>

\* From m_isRunning = true to m_isRunning = false.
Running == {"trans", "open", "loop", "lock", "arm", "wait", "got", "none",
            "clear"}
\* Working on the channel's data.
Serving == {"loop", "lock", "arm", "wait", "got"}

\* The types, and who has m_mtx_rd.
TypeOK ==
  /\ isRunning \in BOOLEAN /\ enRD \in BOOLEAN /\ suspend \in BOOLEAN
  /\ lpTrans \in Workers \cup {NoWorker}
  /\ rdLock \in Workers \cup {NoWorker}
  /\ pipe \in {"empty", "exit", "other"}
  /\ wpc \in [Workers -> Running \cup {"free", "new", "delete", "null"}]
  /\ cpc \in [Callers -> {"idle", "flag", "flag2", "check", "spawn", "stop",
                          "notify"}]
  /\ cmd \in [Callers -> AllCommands]
  /\ ncmd \in 0 .. MaxCmds
  /\ want \in BOOLEAN /\ hasty \in BOOLEAN
  /\ \A w \in Workers : wpc[w] \in {"arm", "wait"} <=> rdLock = w

\* CChnl::runInThread() has created the object and called run().
Init ==
  /\ isRunning = FALSE /\ lpTrans = NoWorker
  /\ enRD = TRUE /\ suspend = FALSE /\ pipe = "empty" /\ rdLock = NoWorker
  /\ \E w \in Workers :
       wpc = [v \in Workers |-> IF v = w /\ m_enable THEN "new" ELSE "free"]
  /\ cpc = [c \in Callers |-> "idle"]
  /\ cmd = [c \in Callers |-> IF c = "ctl" THEN "enable" ELSE "dev_on"]
  /\ ncmd = 0
  /\ want = m_enable
  /\ hasty = FALSE

Goto(w, l)  == wpc' = [wpc EXCEPT ![w] = l]
CGoto(c, l) == cpc' = [cpc EXCEPT ![c] = l]

-----------------------------------------------------------------------------
(* threadMain() and CTrans::trans() *)

SetRunning(w) ==
  /\ wpc[w] = "new"
  /\ isRunning' = TRUE
  /\ Goto(w, "trans")
  /\ UNCHANGED <<lpTrans, port, call>>

SetTrans(w) ==
  /\ wpc[w] = "trans"
  /\ lpTrans' = w
  /\ Goto(w, "open")
  /\ UNCHANGED <<isRunning, port, call>>

\* m_lpPortSrc->open() fails when reading is disabled.
OpenSrc(w) ==
  /\ wpc[w] = "open"
  /\ Goto(w, IF enRD THEN "loop" ELSE "clear")
  /\ UNCHANGED <<thrd, port, call>>

\* m_lpPortSrc->read() returns 0 at once when reading is disabled.
ReadSrc(w) ==
  /\ wpc[w] = "loop"
  /\ Goto(w, IF enRD THEN "lock" ELSE "none")
  /\ UNCHANGED <<thrd, port, call>>

\* Mutation: a read waits for no other.
ReadLockNot(w) ==
  /\ wpc[w] = "lock"
  /\ Goto(w, "arm")
  /\ UNCHANGED <<thrd, enRD, suspend, pipe, rdLock, call>>

ReadLock(w) ==
  /\ wpc[w] = "lock" /\ rdLock = NoWorker
  /\ rdLock' = w
  /\ Goto(w, "arm")
  /\ UNCHANGED <<thrd, enRD, suspend, pipe, call>>

ReadSuspend(w) ==
  /\ wpc[w] = "arm"
  /\ suspend' = TRUE
  /\ Goto(w, "wait")
  /\ UNCHANGED <<thrd, enRD, pipe, rdLock, call>>

\* The end of internal_read() and the unlock in read().
ReadReturns(w, l) ==
  /\ suspend' = FALSE /\ rdLock' = NoWorker
  /\ Goto(w, l)

\* Mutation: MSG_NOTIFY_EXIT does not end the read.
ReadNotifiedDeaf(w) ==
  /\ wpc[w] = "wait" /\ pipe # "empty"
  /\ pipe' = "empty"
  /\ Goto(w, "arm")
  /\ UNCHANGED <<thrd, enRD, suspend, rdLock, call>>

ReadNotified(w) ==
  /\ wpc[w] = "wait" /\ pipe # "empty"
  /\ pipe' = "empty"
  /\ IF pipe = "exit" THEN ReadReturns(w, "none")
                      ELSE Goto(w, "arm") /\ UNCHANGED <<suspend, rdLock>>
  /\ UNCHANGED <<thrd, enRD, call>>

ReadData(w) ==
  /\ wpc[w] = "wait" /\ pipe = "empty"
  /\ ReadReturns(w, "got")
  /\ hasty' = (hasty \/ \E c \in Callers : cpc[c] # "idle")
  /\ UNCHANGED <<thrd, enRD, pipe, cpc, given>>

\* The frame is processed, answered or forwarded: see Trans.
Handle(w) ==
  /\ wpc[w] = "got"
  /\ Goto(w, "loop")
  /\ UNCHANGED <<thrd, port, call>>

\* r_cnt <= 0: the ports are closed and trans() returns.
CloseSrc(w) ==
  /\ wpc[w] = "none"
  /\ Goto(w, "clear")
  /\ UNCHANGED <<thrd, port, call>>

\* Mutation: m_isRunning is left set when trans() returns.
ClearRunningNot(w) ==
  /\ wpc[w] = "clear"
  /\ Goto(w, "delete")
  /\ UNCHANGED <<thrd, port, call>>

ClearRunning(w) ==
  /\ wpc[w] = "clear"
  /\ isRunning' = FALSE
  /\ Goto(w, "delete")
  /\ UNCHANGED <<lpTrans, port, call>>

DeleteTrans(w) ==
  /\ wpc[w] = "delete"
  /\ Goto(w, "null")
  /\ UNCHANGED <<thrd, port, call>>

\* Mutation: m_lpTrans keeps pointing to the deleted object.
NullTransNot(w) ==
  /\ wpc[w] = "null"
  /\ Goto(w, "free")
  /\ UNCHANGED <<thrd, port, call>>

NullTrans(w) ==
  /\ wpc[w] = "null"
  /\ lpTrans' = NoWorker
  /\ Goto(w, "free")
  /\ UNCHANGED <<isRunning, port, call>>

-----------------------------------------------------------------------------
(* The callers *)

\* Nothing of an earlier command is pending: no caller is busy and the
\* channel is either down or asleep in select().  No code waits for this: it
\* tells the histories in which commands happened to come one at a time.
Settled ==
  /\ \A c \in Callers : cpc[c] = "idle"
  /\ \A w \in Workers : wpc[w] \in {"free", "wait"}
  /\ pipe = "empty"

Command(m) ==
  /\ cpc[CallerOf(m)] = "idle" /\ ncmd < MaxCmds
  /\ hasty' = (hasty \/ ~Settled \/ CallerOf(m) # "ctl")
  /\ ncmd' = ncmd + 1
  /\ cmd' = [cmd EXCEPT ![CallerOf(m)] = m]
  /\ want' = CASE m = "enable"  -> m_enable
               [] m = "disable" -> FALSE
               [] m = "dev_on"  -> m_enable
               [] m = "dev_off" -> m_enable /\ IsAT
  /\ CGoto(CallerOf(m), CASE m = "enable" -> "check"
                          [] m = "disable" -> "stop"
                          [] OTHER -> "flag")
  /\ UNCHANGED <<thrd, port, wpc>>

\* enablePortRD(enable) for every port of the device.
EnableRD(c) ==
  /\ cpc[c] = "flag"
  /\ enRD' = (cmd[c] = "dev_on")
  /\ CGoto(c, "flag2")
  /\ UNCHANGED <<thrd, suspend, pipe, rdLock, wpc, given, hasty>>

\* enablePort(DEV_MODEM_AT_NAME, true, true).
EnableAT(c) ==
  /\ cpc[c] = "flag2"
  /\ enRD' = (enRD \/ IsAT)
  /\ CGoto(c, "check")
  /\ UNCHANGED <<thrd, suspend, pipe, rdLock, wpc, given, hasty>>

\* if (!lpThread->isRunning())
CheckRunning(c) ==
  /\ cpc[c] = "check"
  /\ CGoto(c, IF isRunning THEN "idle" ELSE "spawn")
  /\ UNCHANGED <<thrd, port, wpc, given, hasty>>

\* lpThread->run()
Run(c) ==
  /\ cpc[c] = "spawn"
  /\ CGoto(c, "idle")
  /\ IF m_enable THEN \E w \in Workers : wpc[w] = "free" /\ Goto(w, "new")
                 ELSE UNCHANGED wpc
  /\ UNCHANGED <<thrd, port, given, hasty>>

\* CPort::stop(): if (m_bSuspend) notify(MSG_NOTIFY_EXIT)
StopTest(c) ==
  /\ cpc[c] = "stop"
  /\ CGoto(c, IF suspend THEN "notify" ELSE "idle")
  /\ UNCHANGED <<thrd, port, wpc, given, hasty>>

StopNotify(c) ==
  /\ cpc[c] = "notify"
  /\ pipe' = IF pipe = "empty" THEN "exit" ELSE "other"
  /\ CGoto(c, "idle")
  /\ UNCHANGED <<thrd, enRD, suspend, rdLock, wpc, given, hasty>>

-----------------------------------------------------------------------------
Work(w) == \/ SetRunning(w) \/ SetTrans(w) \/ OpenSrc(w) \/ ReadSrc(w)
           \/ ReadLock(w) \/ ReadSuspend(w) \/ ReadNotified(w) \/ Handle(w)
           \/ CloseSrc(w) \/ ClearRunning(w) \/ DeleteTrans(w) \/ NullTrans(w)

Execute(c) == \/ EnableRD(c) \/ EnableAT(c) \/ CheckRunning(c) \/ Run(c)
              \/ StopTest(c) \/ StopNotify(c)

Next == \/ \E w \in Workers : Work(w) \/ ReadData(w)
        \/ \E c \in Callers : Execute(c)
        \/ \E m \in Commands : Command(m)

Spec == Init /\ [][Next]_vars

\* Threads that can run do run; data from the device may never come.
FairSpec == /\ Spec
            /\ \A w \in Workers : WF_vars(Work(w))
            /\ \A c \in Callers : WF_vars(Execute(c))

-----------------------------------------------------------------------------
(* Properties *)

\* m_isRunning is never left set by a thread that is gone: if it is set, some
\* thread is on its way to clearing it.  Otherwise enableChnl() and
\* restartWithDev() would refuse to start the channel for ever.
RunningHasWorker == isRunning => \E w \in Workers : wpc[w] \in Running

\* However many threads a race of isRunning() with run() has started, one at
\* most sleeps in select() on the source port, and m_bSuspend, which
\* CPort::stop() tests without a lock, is set while it does, and not when
\* nobody is reading.
SleeperIsSeen ==
  /\ \A v, w \in Workers : wpc[v] = "wait" /\ wpc[w] = "wait" => v = w
  /\ \A w \in Workers : wpc[w] = "wait" => suspend
  /\ suspend => \E w \in Workers : wpc[w] \in {"arm", "wait"}

\* m_lpTrans, which other channels dereference in activeDstPort(), is never
\* left pointing to the CTrans of a thread that is gone, even when several
\* threads execute the channel and clear the pointer for one another.
TransHasWorker == lpTrans # NoWorker => wpc[lpTrans] \notin {"free", "new"}

\* In a history in which commands came one at a time: when the last was to
\* stop, the channel does stop.  The test of m_bSuspend in CPort::stop() does
\* not miss a reader.
PacedStops ==
  ([]~hasty) =>
    (<>[](~want) => <>[](\A w \in Workers : wpc[w] \notin Serving))

\* In such a history, when the last command was to run, the channel does run,
\* and stays: the end of one thread does not swallow the next start.
PacedRuns ==
  ([]~hasty) => (<>[]want => <>[](\E w \in Workers : wpc[w] \in Serving))
=============================================================================
