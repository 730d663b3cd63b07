-------------------------- MODULE ChnlThreadProof ---------------------------
(***************************************************************************)
(* Proofs about ChnlThread for every set of worker threads, every sequence *)
(* of commands and every interleaving of them: m_isRunning and m_lpTrans   *)
(* never speak of a thread that is gone, and of the threads that execute   *)
(* the channel at once one at most sleeps on the port, seen by stop().     *)
(***************************************************************************)
EXTENDS ChnlThread, TLAPS

\* The worker's own steps, with the labels between which they move it.
LEMMA WorkType ==
  ASSUME TypeOK, NEW w \in Workers, Work(w) \/ ReadData(w)
  PROVE  TypeOK'
<1> USE ChnlAssumption DEF TypeOK, Running, Goto, port, thrd, call, given
<1>1. CASE SetRunning(w)
  BY <1>1 DEF SetRunning
<1>2. CASE SetTrans(w)
  BY <1>2 DEF SetTrans
<1>3. CASE OpenSrc(w)
  BY <1>3 DEF OpenSrc
<1>4. CASE ReadSrc(w)
  BY <1>4 DEF ReadSrc
<1>5. CASE ReadLock(w)
  BY <1>5 DEF ReadLock
<1>6. CASE ReadSuspend(w)
  BY <1>6 DEF ReadSuspend
<1>7. CASE ReadNotified(w)
  BY <1>7 DEF ReadNotified, ReadReturns
<1>8. CASE Handle(w)
  BY <1>8 DEF Handle
<1>9. CASE CloseSrc(w)
  BY <1>9 DEF CloseSrc
<1>10. CASE ClearRunning(w)
  BY <1>10 DEF ClearRunning
<1>11. CASE DeleteTrans(w)
  BY <1>11 DEF DeleteTrans
<1>12. CASE NullTrans(w)
  BY <1>12 DEF NullTrans
<1>13. CASE ReadData(w)
  BY <1>13 DEF ReadData, ReadReturns
<1> QED
  BY <1>1, <1>2, <1>3, <1>4, <1>5, <1>6, <1>7, <1>8, <1>9, <1>10, <1>11,
     <1>12, <1>13 DEF Work

\* The callers' steps.
LEMMA CallType ==
  ASSUME TypeOK, NEW c \in Callers, Execute(c)
  PROVE  TypeOK'
<1> USE ChnlAssumption DEF TypeOK, Callers, Running, CGoto, Goto, port, thrd, given
<1>1. CASE EnableRD(c)
  BY <1>1 DEF EnableRD
<1>2. CASE EnableAT(c)
  BY <1>2 DEF EnableAT
<1>3. CASE CheckRunning(c)
  BY <1>3 DEF CheckRunning
<1>4. CASE Run(c)
  BY <1>4 DEF Run
<1>5. CASE StopTest(c)
  BY <1>5 DEF StopTest
<1>6. CASE StopNotify(c)
  BY <1>6 DEF StopNotify
<1> QED
  BY <1>1, <1>2, <1>3, <1>4, <1>5, <1>6 DEF Execute

\* A command that one of the two control threads takes up.
LEMMA CommandType ==
  ASSUME TypeOK, NEW m \in Commands, Command(m)
  PROVE  TypeOK'
<1> USE ChnlAssumption DEF TypeOK, Command, Callers, CallerOf, AllCommands, CGoto,
                           port, thrd
<1>1. CallerOf(m) \in Callers /\ m \in AllCommands
  OBVIOUS
<1>2. want' \in BOOLEAN
  BY <1>1
<1>3. cpc' \in [Callers -> {"idle", "flag", "flag2", "check", "spawn", "stop", "notify"}]
  BY <1>1
<1>4. cmd' \in [Callers -> AllCommands] /\ ncmd' \in 0 .. MaxCmds
  BY <1>1
<1> QED
  BY <1>2, <1>3, <1>4

\* Every step keeps the types.
LEMMA TypeStep == TypeOK /\ [Next]_vars => TypeOK'
<1>1. ASSUME TypeOK, UNCHANGED vars PROVE TypeOK'
  BY <1>1 DEF TypeOK, vars, thrd, port, call, given
<1> QED
  BY <1>1, WorkType, CallType, CommandType DEF Next

\* The channel starts with one new thread if it is enabled, and with none if not.
LEMMA InitType == Init => TypeOK
<1> SUFFICES ASSUME Init PROVE TypeOK
  OBVIOUS
<1> USE ChnlAssumption DEF Init
<1>1. wpc \in [Workers -> {"free", "new"}]
  OBVIOUS
<1>2. /\ cpc \in [Callers -> {"idle"}]
      /\ cmd \in [Callers -> AllCommands] /\ ncmd \in 0 .. MaxCmds
  BY DEF AllCommands
<1>3. isRunning \in BOOLEAN /\ enRD \in BOOLEAN /\ suspend \in BOOLEAN /\ want \in BOOLEAN
  BY Zenon
<1> QED
  BY <1>1, <1>2, <1>3 DEF TypeOK, Running

\* The variables have their types, and m_mtx_rd belongs to the one worker that
\* is inside internal_read().
THEOREM TypeCorrect == Spec => []TypeOK
  BY InitType, TypeStep, PTL DEF Spec

-----------------------------------------------------------------------------
\* What a step of a worker does to the worker's label, m_isRunning and
\* m_lpTrans: the fields are set when the label says so, and by the same step.
LEMMA WorkMoves ==
  ASSUME TypeOK, NEW w \in Workers, Work(w) \/ ReadData(w)
  PROVE  /\ \A v \in Workers \ {w} : wpc'[v] = wpc[v]
         /\ wpc[w] # "free" /\ wpc'[w] # "new" /\ UNCHANGED cpc /\ UNCHANGED given
         /\ wpc'[w] = "free" => wpc[w] = "null" /\ lpTrans' = NoWorker
         /\ lpTrans' \in {lpTrans, NoWorker} \/ (lpTrans' = w /\ wpc'[w] = "open")
         /\ isRunning' # isRunning =>
              \/ isRunning' /\ wpc[w] = "new" /\ wpc'[w] = "trans"
              \/ ~isRunning' /\ wpc[w] = "clear" /\ wpc'[w] = "delete"
         /\ wpc'[w] \in Running => wpc[w] \in Running \/ isRunning'
         /\ wpc[w] \in Running => wpc'[w] \in Running \/ ~isRunning'
         /\ wpc'[w] = "wait" => suspend'
         /\ wpc[w] \notin {"arm", "wait"} => UNCHANGED suspend
         /\ suspend' => suspend \/ wpc'[w] = "wait"
         /\ suspend' /\ wpc[w] \in {"arm", "wait"} => wpc'[w] \in {"arm", "wait"}
<1> USE DEF TypeOK, Running, Goto, port, thrd, call, given
<1>1. CASE SetRunning(w)
  BY <1>1 DEF SetRunning
<1>2. CASE SetTrans(w)
  BY <1>2 DEF SetTrans
<1>3. CASE OpenSrc(w)
  BY <1>3 DEF OpenSrc
<1>4. CASE ReadSrc(w)
  BY <1>4 DEF ReadSrc
<1>5. CASE ReadLock(w)
  BY <1>5 DEF ReadLock
<1>6. CASE ReadSuspend(w)
  BY <1>6 DEF ReadSuspend
<1>7. CASE ReadNotified(w)
  BY <1>7 DEF ReadNotified, ReadReturns
<1>8. CASE Handle(w)
  BY <1>8 DEF Handle
<1>9. CASE CloseSrc(w)
  BY <1>9 DEF CloseSrc
<1>10. CASE ClearRunning(w)
  BY <1>10 DEF ClearRunning
<1>11. CASE DeleteTrans(w)
  BY <1>11 DEF DeleteTrans
<1>12. CASE NullTrans(w)
  BY <1>12 DEF NullTrans
<1>13. CASE ReadData(w)
  BY <1>13 DEF ReadData, ReadReturns
<1> QED
  BY <1>1, <1>2, <1>3, <1>4, <1>5, <1>6, <1>7, <1>8, <1>9, <1>10, <1>11,
     <1>12, <1>13 DEF Work

\* What a step of a caller, or a command, does to them: run() takes a thread
\* that is free, and nothing else is touched.
LEMMA CallMoves ==
  ASSUME TypeOK, (\E c \in Callers : Execute(c)) \/ (\E m \in Commands : Command(m))
  PROVE  /\ UNCHANGED thrd /\ UNCHANGED suspend
         /\ \/ UNCHANGED wpc
            \/ \E w \in Workers : wpc[w] = "free" /\ wpc' = [wpc EXCEPT ![w] = "new"]
  BY DEF TypeOK, Execute, EnableRD, EnableAT, CheckRunning, Run, StopTest,
         StopNotify, Command, Goto, port, thrd

\* The two facts about the fields are inductive together with the types.
FieldInv == RunningHasWorker /\ TransHasWorker

\* FieldInv is inductive together with the types.
LEMMA FieldStep == TypeOK /\ FieldInv /\ [Next]_vars => FieldInv'
<1> SUFFICES ASSUME TypeOK, FieldInv, [Next]_vars PROVE FieldInv'
  OBVIOUS
<1> USE ChnlAssumption DEF FieldInv, RunningHasWorker, TransHasWorker
<1>1. ASSUME NEW w \in Workers, Work(w) \/ ReadData(w)
      PROVE  FieldInv'
  <2>1. RunningHasWorker'
    BY <1>1, WorkMoves DEF TypeOK, Running
  <2>2. TransHasWorker'
    BY <1>1, WorkMoves DEF TypeOK
  <2> QED
    BY <2>1, <2>2
<1>2. CASE (\E c \in Callers : Execute(c)) \/ (\E m \in Commands : Command(m))
  BY <1>2, CallMoves DEF TypeOK, thrd, Running
<1>3. CASE UNCHANGED vars
  BY <1>3 DEF vars, thrd
<1> QED
  BY <1>1, <1>2, <1>3 DEF Next

\* Whatever commands come and however many threads execute the channel at
\* once, m_isRunning is never left set by threads that are gone, so that the
\* channel can be started again.
THEOREM RunningIsTrue == Spec => []RunningHasWorker
<1>1. Init => FieldInv
  BY ChnlAssumption DEF Init, FieldInv, RunningHasWorker, TransHasWorker
<1>2. FieldInv => RunningHasWorker
  BY DEF FieldInv
<1> QED
  BY <1>1, <1>2, TypeCorrect, FieldStep, PTL DEF Spec

\* And m_lpTrans never points to the CTrans of a thread that has ended or has
\* not begun.
THEOREM TransIsAlive == Spec => []TransHasWorker
<1>1. Init => FieldInv
  BY ChnlAssumption DEF Init, FieldInv, RunningHasWorker, TransHasWorker
<1>2. FieldInv => TransHasWorker
  BY DEF FieldInv
<1> QED
  BY <1>1, <1>2, TypeCorrect, FieldStep, PTL DEF Spec

-----------------------------------------------------------------------------
\* SleeperIsSeen is inductive together with the types: a worker that sleeps
\* has m_mtx_rd, and no other touches m_bSuspend meanwhile.
LEMMA SleeperStep == TypeOK /\ SleeperIsSeen /\ [Next]_vars => SleeperIsSeen'
<1> SUFFICES ASSUME TypeOK, SleeperIsSeen, [Next]_vars PROVE SleeperIsSeen'
  OBVIOUS
<1> USE DEF SleeperIsSeen
<1>1. ASSUME NEW w \in Workers, Work(w) \/ ReadData(w)
      PROVE  SleeperIsSeen'
  <2>1. TypeOK'
    BY <1>1, WorkType
  <2>2. \A u, v \in Workers : wpc'[u] = "wait" /\ wpc'[v] = "wait" => u = v
    BY <2>1 DEF TypeOK
  <2>3. ASSUME NEW v \in Workers, wpc'[v] = "wait"
        PROVE  suspend'
    <3>1. CASE v = w
      BY <1>1, <2>3, <3>1, WorkMoves
    <3>2. CASE v # w
      <4>1. wpc[v] = "wait"
        BY <1>1, <2>3, <3>2, WorkMoves
      <4>2. wpc[w] \notin {"arm", "wait"}
        BY <3>2, <4>1 DEF TypeOK
      <4> QED
        BY <1>1, <4>1, <4>2, WorkMoves
    <3> QED
      BY <3>1, <3>2
  <2>4. ASSUME suspend'
        PROVE  \E v \in Workers : wpc'[v] \in {"arm", "wait"}
    <3>1. CASE wpc'[w] = "wait"
      BY <3>1
    <3>2. CASE wpc'[w] # "wait"
      <4>1. suspend
        BY <1>1, <2>4, <3>2, WorkMoves
      <4>2. PICK v \in Workers : wpc[v] \in {"arm", "wait"}
        BY <4>1
      <4>3. wpc'[v] \in {"arm", "wait"}
        BY <1>1, <2>4, <4>2, WorkMoves
      <4> QED
        BY <4>3
    <3> QED
      BY <3>1, <3>2
  <2> QED
    BY <2>2, <2>3, <2>4
<1>2. CASE (\E c \in Callers : Execute(c)) \/ (\E m \in Commands : Command(m))
  <2>1. CASE UNCHANGED wpc
    BY <1>2, <2>1, CallMoves
  <2>2. CASE \E w \in Workers : wpc[w] = "free" /\ wpc' = [wpc EXCEPT ![w] = "new"]
    BY <1>2, <2>2, CallMoves DEF TypeOK
  <2> QED
    BY <1>2, <2>1, <2>2, CallMoves
<1>3. CASE UNCHANGED vars
  BY <1>3 DEF vars, port
<1> QED
  BY <1>1, <1>2, <1>3 DEF Next

\* However many threads execute the channel at once, one at most sleeps on the
\* source port, and CPort::stop() sees that one does.
THEOREM SleepersAreSeen == Spec => []SleeperIsSeen
<1>1. Init => SleeperIsSeen
  BY ChnlAssumption DEF Init, SleeperIsSeen
<1> QED
  BY <1>1, TypeCorrect, SleeperStep, PTL DEF Spec
=============================================================================
