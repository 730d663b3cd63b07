------------------------------ MODULE PortProof ------------------------------
(***************************************************************************)
(* Proofs about Port for every set of threads, every environment and every *)
(* bound: the types, the discipline of m_mtx and the absence of descriptor *)
(* leaks; the exact count and the refinement of SharedFd while the device  *)
(* works; and, for a port with one reader, that a reader on a descriptor   *)
(* that was replaced has a notice coming.                                  *)
(***************************************************************************)
EXTENDS Port, FiniteSetTheorems, TLAPS

\* The labels at which a thread owns m_mtx across a step.
Locked == {"open_share", "open_try", "close_dec"}

\* m_mtx belongs to the one thread that is inside open() or close(), and
\* what that thread saw of m_fd when it took the mutex is still so.
LockInv ==
  \A t \in Threads :
    /\ pc[t] \in Locked <=> mtx = t
    /\ pc[t] = "open_try" => fd = NoFd
    /\ pc[t] \in {"open_share", "close_dec"} => fd # NoFd

FdInv == TypeOK /\ LockInv /\ NoFdLeak

\* select() with the descriptor it finds keeps the types, for a reader and for
\* a writer.
LEMMA SelectType ==
  ASSUME TypeOK, NEW t \in Threads,
         NEW wait \in Labels, NEW again \in Labels, SelectOn(t, wait, again)
  PROVE  TypeOK'
<1> USE DEF SelectOn, Goto, locks, flags, fdvars, rvars
<1>1. pc' \in [Threads -> Labels]
  BY DEF TypeOK
<1>2. live' \in [Threads -> BOOLEAN]
  <2>1. CASE live' = [live EXCEPT ![t] = TRUE]
    BY <2>1 DEF TypeOK
  <2>2. CASE live' = [live EXCEPT ![t] = FALSE]
    BY <2>2 DEF TypeOK
  <2>3. CASE live' = live
    BY <2>3 DEF TypeOK
  <2> QED
    BY <2>1, <2>2, <2>3
<1>3. UNCHANGED <<mtx, rdLock, wrLock, enRD, enWR, fd, nClient, openFds, held,
                  world, reg, nSave, second, watch, got, suspend, pipe, ctx>>
  OBVIOUS
<1> QED
  BY <1>1, <1>2, <1>3 DEF TypeOK

\* Every step of every thread keeps the variables in their types: m_nClient
\* never becomes negative although reopen() writes it without the mutex.
LEMMA TypeStep == TypeOK /\ [Next]_vars => TypeOK'
<1> SUFFICES ASSUME TypeOK, [Next]_vars PROVE TypeOK'
  OBVIOUS
<1> USE PortAssumption DEF TypeOK, Labels, NoFd, Goto, locks, flags, fdvars,
                           rvars, svars
<1>1. ASSUME NEW t \in Threads, Internal(t) \/ Device(t) \/ Call(t)
      PROVE  TypeOK'
  <2>1. CASE OpenEnter(t)
    BY <2>1 DEF OpenEnter, OpenFailed
  <2>2. CASE OpenLock(t)
    BY <2>2 DEF OpenLock
  <2>3. CASE OpenShare(t)
    BY <2>3 DEF OpenShare, OpenSucceeded
  <2>4. CASE OpenTry(t)
    BY <2>4 DEF OpenTry, OpenSucceeded, OpenFailed
  <2>5. CASE CloseLock(t)
    BY <2>5 DEF CloseLock, CloseReturned
  <2>6. CASE CloseDec(t)
    <3>1. CASE reg[t] - 1 <= 0
      <4>1. live' \in [Threads -> BOOLEAN]
        BY <2>6, <3>1 DEF CloseDec
      <4>2. nClient' \in Nat /\ fd' \in FdNums \cup {NoFd}
        BY <2>6, <3>1 DEF CloseDec
      <4>4. openFds' \subseteq FdNums
        BY <2>6, <3>1 DEF CloseDec
      <4>5. held' \subseteq Threads
        BY <2>6 DEF CloseDec, CloseReturned
      <4>3. pc' \in [Threads -> Labels]
        BY <2>6, <3>1 DEF CloseDec, CloseReturned
      <4> QED
        BY <2>6, <3>1, <4>1, <4>2, <4>3, <4>4, <4>5 DEF CloseDec
    <3>2. CASE ~(reg[t] - 1 <= 0)
      <4>1. reg[t] - 1 \in Nat
        BY <3>2
      <4> QED
        BY <2>6, <3>2, <4>1 DEF CloseDec, CloseReturned
    <3> QED
      BY <3>1, <3>2
  <2>7. CASE ReopenLoad(t)
    BY <2>7 DEF ReopenLoad
  <2>8. CASE ReopenSet(t)
    BY <2>8 DEF ReopenSet
  <2>9. CASE ReopenTest(t)
    BY <2>9 DEF ReopenTest
  <2>10. CASE ReopenNotify(t)
    BY <2>10 DEF ReopenNotify, Notified
  <2>11. CASE ReopenRestore(t)
    <3>1. CASE second[t] > 0
      BY <2>11, <3>1 DEF ReopenRestore, ReadReturns, WriteReturns
    <3>2. CASE ~(second[t] > 0) /\ ctx[t] = "read"
      <4>1. got' \in [Threads -> BOOLEAN] /\ suspend' \in BOOLEAN
        BY <2>11, <3>2 DEF ReopenRestore, ReadReturns
      <4>2. pc' \in [Threads -> Labels]
        BY <2>11, <3>2 DEF ReopenRestore, ReadReturns
      <4> QED
        BY <2>11, <3>2, <4>1, <4>2 DEF ReopenRestore, ReadReturns
    <3>3. CASE ~(second[t] > 0) /\ ctx[t] = "write"
      BY <2>11, <3>3 DEF ReopenRestore, WriteReturns
    <3> QED
      BY <2>11, <3>1, <3>2, <3>3 DEF ReopenRestore
  <2>12. CASE ReadLock(t)
    BY <2>12 DEF ReadLock, ReadReturns
  <2>13. CASE ReadArm(t)
    BY <2>13 DEF ReadArm
  <2>14. CASE ReadSelect(t)
    BY <2>14, SelectType DEF ReadSelect
  <2>15. CASE ReadWakePipe(t)
    BY <2>15 DEF ReadWakePipe, ReadReturns, Forget
  <2>16. CASE ReadIsSet(t)
    BY <2>16 DEF ReadIsSet, IsSet, Forget
  <2>17. CASE WriteLock(t)
    BY <2>17 DEF WriteLock, WriteReturns
  <2>18. CASE WriteArm(t)
    BY <2>18 DEF WriteArm
  <2>19. CASE WriteSelect(t)
    BY <2>19, SelectType DEF WriteSelect
  <2>20. CASE WriteIsSet(t)
    BY <2>20 DEF WriteIsSet, IsSet, Forget
  <2>21. CASE ReadWakeData(t)
    BY <2>21 DEF ReadWakeData
  <2>22. CASE ReadFrame(t)
    BY <2>22 DEF ReadFrame, ReadReturns
  <2>23. CASE ReadMore(t)
    BY <2>23 DEF ReadMore
  <2>24. CASE ReadFails(t)
    BY <2>24 DEF ReadFails, Fails
  <2>25. CASE WriteWake(t)
    BY <2>25 DEF WriteWake
  <2>26. CASE WriteTimeout(t)
    BY <2>26 DEF WriteTimeout, WriteReturns, Forget
  <2>27. CASE WriteDone(t)
    BY <2>27 DEF WriteDone, WriteReturns
  <2>28. CASE WriteMore(t)
    BY <2>28 DEF WriteMore
  <2>29. CASE WriteFails(t)
    BY <2>29 DEF WriteFails, Fails
  <2>30. CASE OpenCall(t)
    BY <2>30 DEF OpenCall
  <2>31. CASE Leave(t)
    BY <2>31 DEF Leave
  <2>32. CASE ReadCall(t)
    BY <2>32 DEF ReadCall
  <2>33. CASE WriteCall(t)
    BY <2>33 DEF WriteCall
  <2> QED
    BY <1>1, <2>1, <2>2, <2>3, <2>4, <2>5, <2>6, <2>7, <2>8, <2>9, <2>10,
       <2>11, <2>12, <2>13, <2>14, <2>15, <2>16, <2>17, <2>18, <2>19, <2>20,
       <2>21, <2>22, <2>23, <2>24, <2>25, <2>26, <2>27, <2>28, <2>29, <2>30,
       <2>31, <2>32, <2>33
       DEF Internal, OpenStep, CloseStep, ReopenStep, ReadStep, WriteStep, Device,
           Call
<1>2. CASE Stop
  BY <1>2 DEF Stop, Notified
<1>3. ASSUME NEW rd \in BOOLEAN, NEW wr \in BOOLEAN, Enable(rd, wr)
      PROVE  TypeOK'
  BY <1>3 DEF Enable
<1>4. CASE UNCHANGED vars
  BY <1>4 DEF vars
<1> QED
  BY <1>1, <1>2, <1>3, <1>4 DEF Next

\* The constructor's values have their types.
LEMMA InitType == Init => TypeOK
<1> SUFFICES ASSUME Init PROVE TypeOK
  OBVIOUS
<1> USE DEF Init
<1>1. /\ pc \in [Threads -> Labels]
      /\ ctx \in [Threads -> {"user", "read", "write"}]
  BY DEF Labels
<1>2. /\ reg \in [Threads -> Nat] /\ nSave \in [Threads -> Nat]
      /\ second \in [Threads -> Int]
      /\ watch \in [Threads -> FdNums \cup {NoFd}]
  OBVIOUS
<1>3. live \in [Threads -> BOOLEAN] /\ got \in [Threads -> BOOLEAN]
  OBVIOUS
<1>4. enRD \in BOOLEAN /\ enWR \in BOOLEAN /\ suspend \in BOOLEAN
  BY Zenon
<1> QED
  BY <1>1, <1>2, <1>3, <1>4 DEF TypeOK

\* The variables of Port have their types in every reachable state.
THEOREM TypeCorrect == Spec => []TypeOK
  BY InitType, TypeStep, PTL DEF Spec

\* A step that moves one thread between labels outside the mutex and leaves
\* the mutex and the descriptor alone keeps the discipline.
LEMMA Unlocked ==
  ASSUME TypeOK, LockInv, NoFdLeak, NEW t \in Threads, NEW l \in Labels \ Locked,
         pc[t] \notin Locked, Goto(t, l), UNCHANGED <<mtx, fd, openFds>>
  PROVE  LockInv' /\ NoFdLeak'
  BY DEF TypeOK, LockInv, NoFdLeak, Goto, Locked

\* FdInv is inductive.  Only a thread that owns m_mtx opens or closes the
\* device, it has checked m_fd since it took the mutex, and nobody else
\* changes m_fd before it is done.
LEMMA FdStep == FdInv /\ [Next]_vars => FdInv'
<1> SUFFICES ASSUME FdInv, [Next]_vars PROVE LockInv' /\ NoFdLeak'
  BY TypeStep DEF FdInv
<1> USE PortAssumption
<1>1. TypeOK /\ LockInv /\ NoFdLeak
  BY DEF FdInv
<1>2. ASSUME NEW t \in Threads, Internal(t) \/ Device(t) \/ Call(t)
      PROVE  LockInv' /\ NoFdLeak'
  <2> USE <1>1 DEF Locked, Labels, locks, flags, fdvars, rvars, svars
  <2>1. CASE OpenLock(t)
    BY <2>1 DEF OpenLock, Goto, TypeOK, LockInv, NoFdLeak
  <2>2. CASE OpenShare(t)
    BY <2>2 DEF OpenShare, OpenSucceeded, Goto, TypeOK, LockInv, NoFdLeak
  <2>3. CASE OpenTry(t)
    BY <2>3 DEF OpenTry, OpenSucceeded, OpenFailed, Goto, TypeOK, LockInv,
                NoFdLeak, NoFd
  <2>4. CASE CloseLock(t) \/ CloseDec(t)
    BY <2>4 DEF CloseLock, CloseDec, CloseReturned, Goto, TypeOK, LockInv,
                NoFdLeak
  <2>5. CASE OpenEnter(t)
    BY <2>5, Unlocked DEF OpenEnter, OpenFailed
  <2>6. CASE ReopenLoad(t)
    BY <2>6, Unlocked DEF ReopenLoad
  <2>7. CASE ReopenSet(t)
    BY <2>7, Unlocked DEF ReopenSet
  <2>8. CASE ReopenTest(t)
    BY <2>8, Unlocked DEF ReopenTest
  <2>9. CASE ReopenNotify(t)
    BY <2>9, Unlocked DEF ReopenNotify
  <2>10. CASE ReopenRestore(t)
    BY <2>10, Unlocked DEF ReopenRestore, ReadReturns, WriteReturns
  <2>11. CASE ReadLock(t)
    BY <2>11, Unlocked DEF ReadLock, ReadReturns
  <2>12. CASE ReadArm(t)
    BY <2>12, Unlocked DEF ReadArm
  <2>13. CASE ReadSelect(t)
    BY <2>13, Unlocked DEF ReadSelect, SelectOn
  <2>14. CASE ReadWakePipe(t)
    BY <2>14, Unlocked DEF ReadWakePipe, ReadReturns
  <2>15. CASE ReadIsSet(t)
    BY <2>15, Unlocked DEF ReadIsSet, IsSet
  <2>16. CASE WriteLock(t)
    BY <2>16, Unlocked DEF WriteLock, WriteReturns
  <2>17. CASE WriteArm(t)
    BY <2>17, Unlocked DEF WriteArm
  <2>18. CASE WriteSelect(t)
    BY <2>18, Unlocked DEF WriteSelect, SelectOn
  <2>19. CASE WriteIsSet(t)
    BY <2>19, Unlocked DEF WriteIsSet, IsSet
  <2>20. CASE ReadWakeData(t)
    BY <2>20, Unlocked DEF ReadWakeData
  <2>21. CASE ReadFrame(t)
    BY <2>21, Unlocked DEF ReadFrame, ReadReturns
  <2>22. CASE ReadMore(t)
    BY <2>22, Unlocked DEF ReadMore
  <2>23. CASE ReadFails(t)
    BY <2>23, Unlocked DEF ReadFails, Fails
  <2>24. CASE WriteWake(t)
    BY <2>24, Unlocked DEF WriteWake
  <2>25. CASE WriteTimeout(t)
    BY <2>25, Unlocked DEF WriteTimeout, WriteReturns
  <2>26. CASE WriteDone(t)
    BY <2>26, Unlocked DEF WriteDone, WriteReturns
  <2>27. CASE WriteMore(t)
    BY <2>27, Unlocked DEF WriteMore
  <2>28. CASE WriteFails(t)
    BY <2>28, Unlocked DEF WriteFails, Fails
  <2>29. CASE OpenCall(t)
    BY <2>29, Unlocked DEF OpenCall
  <2>30. CASE Leave(t)
    BY <2>30, Unlocked DEF Leave
  <2>31. CASE ReadCall(t)
    BY <2>31, Unlocked DEF ReadCall
  <2>32. CASE WriteCall(t)
    BY <2>32, Unlocked DEF WriteCall
  <2> QED
    BY <1>2, <2>1, <2>2, <2>3, <2>4, <2>5, <2>6, <2>7, <2>8, <2>9, <2>10,
       <2>11, <2>12, <2>13, <2>14, <2>15, <2>16, <2>17, <2>18, <2>19, <2>20,
       <2>21, <2>22, <2>23, <2>24, <2>25, <2>26, <2>27, <2>28, <2>29, <2>30,
       <2>31, <2>32
       DEF Internal, OpenStep, CloseStep, ReopenStep, ReadStep, WriteStep, Device,
           Call
<1>3. CASE Stop \/ UNCHANGED vars
  BY <1>1, <1>3 DEF Stop, vars, locks, flags, fdvars, rvars, svars, LockInv,
                    NoFdLeak
<1>4. ASSUME NEW rd \in BOOLEAN, NEW wr \in BOOLEAN, Enable(rd, wr)
      PROVE  LockInv' /\ NoFdLeak'
  BY <1>1, <1>4 DEF Enable, locks, fdvars, rvars, svars, LockInv, NoFdLeak
<1> QED
  BY <1>2, <1>3, <1>4 DEF Next

\* No interleaving of open(), close() and reopen(), whatever fails and
\* however wrong m_nClient becomes, leaks a descriptor of the device or
\* leaves m_fd naming a closed one.
THEOREM NoLeak == Spec => []NoFdLeak
<1>1. Init => FdInv
  <2> SUFFICES ASSUME Init PROVE FdInv
    OBVIOUS
  <2>1. TypeOK
    BY InitType
  <2> QED
    BY <2>1, PortAssumption DEF Init, FdInv, LockInv, NoFdLeak, Locked
<1>2. FdInv => NoFdLeak
  BY DEF FdInv
<1> QED
  BY <1>1, <1>2, FdStep, PTL DEF Spec

-----------------------------------------------------------------------------
(* The count of clients, while the device works *)

\* Where a thread does not hold the port: outside trans() or in open().
Outside == {"out", "open_enter", "open_lock", "open_share", "open_try"}

\* Where a thread is only after an I/O error.
InReopen == {"reopen_load", "reopen_set", "reopen_test", "reopen_notify",
             "reopen_restore"}

\* Nobody reopens a device that works, so m_nClient is changed under m_mtx
\* only: the value loaded there is still right when it is stored.
CountInv ==
  DeviceWorks =>
    /\ enRD /\ IsFiniteSet(held) /\ nClient = Cardinality(held)
    /\ fd = NoFd <=> held = {}
    /\ \A t \in Threads :
         /\ ctx[t] = "user" /\ pc[t] \notin InReopen
         /\ t \in held <=> pc[t] \notin Outside
         /\ pc[t] \in {"open_share", "close_dec"} => reg[t] = nClient

\* A step that keeps thread t where it is with respect to the port, and away
\* from the labels of a loaded count, keeps the count exact.
LEMMA CountKept ==
  ASSUME TypeOK, CountInv, NEW t \in Threads, NEW l \in Labels, Goto(t, l),
         l \notin InReopen, l \notin {"open_share", "close_dec"},
         pc[t] \in Outside <=> l \in Outside,
         UNCHANGED <<fdvars, reg, ctx, flags>>
  PROVE  CountInv'
<1> SUFFICES ASSUME DeviceWorks'
             PROVE  CountInv'
  BY DEF CountInv
<1>1. DeviceWorks
  BY DEF DeviceWorks, Env, flags
<1>2. \A u \in Threads \ {t} : pc'[u] = pc[u]
  BY DEF Goto, TypeOK
<1>3. pc'[t] = l
  BY DEF Goto, TypeOK
<1>4. UNCHANGED <<fd, nClient, held, reg, ctx, enRD>>
  BY DEF fdvars, flags
<1> QED
  BY <1>1, <1>2, <1>3, <1>4 DEF CountInv

\* The four steps that load or store the count.
LEMMA CountMoves ==
  ASSUME FdInv, CountInv, NEW t \in Threads,
         OpenLock(t) \/ OpenShare(t) \/ OpenTry(t) \/ CloseLock(t) \/ CloseDec(t)
  PROVE  CountInv'
<1> SUFFICES ASSUME DeviceWorks'
             PROVE  CountInv'
  BY DEF CountInv
<1> USE DEF FdInv, Locked
<1>1. UNCHANGED <<enRD, world, ctx>>
  BY DEF OpenLock, OpenShare, OpenTry, CloseLock, CloseDec, flags
<1>2. DeviceWorks
  BY <1>1 DEF DeviceWorks, Env
<1>3. /\ enRD /\ IsFiniteSet(held) /\ nClient = Cardinality(held)
      /\ fd = NoFd <=> held = {}
      /\ \A u \in Threads :
           /\ ctx[u] = "user" /\ pc[u] \notin InReopen
           /\ u \in held <=> pc[u] \notin Outside
           /\ pc[u] \in {"open_share", "close_dec"} => reg[u] = nClient
  BY <1>2 DEF CountInv
<1>4. \A u \in Threads \ {t} : pc'[u] = pc[u] /\ reg'[u] = reg[u]
  BY DEF OpenLock, OpenShare, OpenTry, OpenSucceeded, OpenFailed, CloseLock, CloseDec,
         CloseReturned, Goto, TypeOK, rvars
<1>5. \A u \in Threads \ {t} : pc[u] \notin {"open_share", "close_dec"}
  BY PortAssumption
     DEF LockInv, OpenLock, OpenShare, OpenTry, CloseLock, CloseDec, TypeOK
<1>6. nClient \in Nat
  BY DEF TypeOK
<1>7. CASE OpenLock(t)
  <2>1. UNCHANGED <<fd, nClient, held>> /\ pc[t] = "open_lock"
    BY <1>7 DEF OpenLock, fdvars
  <2>2. \/ pc'[t] = "open_share" /\ reg'[t] = nClient
        \/ pc'[t] = "open_try"
    BY <1>7 DEF OpenLock, Goto, TypeOK
  <2> QED
    BY <1>1, <1>2, <1>3, <1>4, <2>1, <2>2 DEF CountInv, Outside, InReopen
<1>8. CASE OpenShare(t)
  <2>1. /\ pc[t] = "open_share" /\ pc'[t] = "in" /\ nClient' = nClient + 1
        /\ held' = held \cup {t} /\ UNCHANGED fd /\ fd # NoFd
    BY <1>3, <1>8 DEF OpenShare, OpenSucceeded, Goto, TypeOK, LockInv
  <2>2. t \notin held
    BY <1>3, <2>1 DEF Outside
  <2>3. IsFiniteSet(held') /\ Cardinality(held') = Cardinality(held) + 1
    BY <1>3, <2>1, <2>2, FS_AddElement
  <2>4. \A u \in Threads : u \in held' <=> pc'[u] \notin Outside
    BY <1>3, <1>4, <2>1 DEF Outside
  <2> QED
    BY <1>1, <1>2, <1>3, <1>4, <1>5, <2>1, <2>3, <2>4 DEF CountInv, InReopen
<1>9. CASE OpenTry(t)
  <2>1. pc[t] = "open_try" /\ fd = NoFd /\ held = {}
    BY <1>3, <1>9 DEF OpenTry, LockInv
  <2>2. "vanish" \notin Env
    BY <1>2 DEF DeviceWorks
  <2>3. PICK f \in FdNums : fd' = f /\ nClient' = 1 /\ OpenSucceeded(t)
    BY <1>9, <2>2 DEF OpenTry
  <2>4. pc'[t] = "in" /\ held' = {t} /\ fd' # NoFd
    BY <1>3, <2>1, <2>3, PortAssumption DEF OpenSucceeded, Goto, TypeOK, NoFd
  <2>5. IsFiniteSet(held') /\ Cardinality(held') = 1
    BY <2>4, FS_Singleton
  <2>6. \A u \in Threads : u \in held' <=> pc'[u] \notin Outside
    BY <1>3, <1>4, <2>1, <2>4 DEF Outside
  <2> QED
    BY <1>1, <1>2, <1>3, <1>4, <1>5, <2>3, <2>4, <2>5, <2>6 DEF CountInv, InReopen
<1>10. CASE CloseLock(t)
  <2>1. pc[t] = "close_lock" /\ UNCHANGED <<fd, nClient>>
    BY <1>10 DEF CloseLock
  <2>2. t \in held
    BY <1>3, <2>1 DEF Outside
  <2>3. pc'[t] = "close_dec" /\ reg'[t] = nClient /\ UNCHANGED held
    BY <1>3, <1>10, <2>2 DEF CloseLock, Goto, TypeOK
  <2> QED
    BY <1>1, <1>2, <1>3, <1>4, <2>1, <2>2, <2>3 DEF CountInv, Outside, InReopen
<1>11. CASE CloseDec(t)
  <2>1. /\ pc[t] = "close_dec" /\ reg[t] = nClient /\ pc'[t] = "out"
        /\ held' = held \ {t} /\ fd # NoFd
    BY <1>3, <1>11 DEF CloseDec, CloseReturned, Goto, TypeOK, LockInv
  <2>2. t \in held
    BY <1>3, <2>1 DEF Outside
  <2>3. IsFiniteSet(held') /\ Cardinality(held') = Cardinality(held) - 1
    BY <1>3, <2>1, <2>2, FS_RemoveElement
  <2>4. held' = {} <=> nClient - 1 <= 0
    <3>1. held' = {} <=> Cardinality(held') = 0
      BY <2>3, FS_EmptySet
    <3>2. Cardinality(held') \in Nat
      BY <2>3, FS_CardinalityType
    <3> QED
      BY <1>3, <1>6, <2>3, <3>1, <3>2
  <2>5. nClient' = nClient - 1 /\ (fd' = NoFd <=> held' = {})
    <3>1. CASE nClient - 1 <= 0
      <4>1. Cardinality(held') = 0
        BY <2>4, <3>1, FS_EmptySet
      <4>2. nClient' = 0 /\ fd' = NoFd
        BY <1>11, <2>1, <3>1 DEF CloseDec
      <4> QED
        BY <1>3, <2>3, <2>4, <3>1, <4>1, <4>2
    <3>2. CASE ~(nClient - 1 <= 0)
      BY <1>11, <2>1, <2>4, <3>2 DEF CloseDec
    <3> QED
      BY <3>1, <3>2
  <2>6. \A u \in Threads : u \in held' <=> pc'[u] \notin Outside
    BY <1>3, <1>4, <2>1 DEF Outside
  <2> QED
    BY <1>1, <1>2, <1>3, <1>4, <1>5, <2>1, <2>3, <2>5, <2>6 DEF CountInv, InReopen
<1> QED
  BY <1>7, <1>8, <1>9, <1>10, <1>11

\* The world a behaviour is about does not change.
LEMMA WorldFixed == [Next]_vars => UNCHANGED world
<1> SUFFICES ASSUME [Next]_vars
             PROVE  UNCHANGED world
  OBVIOUS
<1> USE DEF flags
<1>1. ASSUME NEW t \in Threads, OpenStep(t) \/ CloseStep(t) \/ ReopenStep(t)
      PROVE  UNCHANGED world
  BY <1>1 DEF OpenStep, OpenEnter, OpenLock, OpenShare, OpenTry, CloseStep, CloseLock,
              CloseDec, ReopenStep, ReopenLoad, ReopenSet, ReopenTest, ReopenNotify,
              ReopenRestore
<1>2. ASSUME NEW t \in Threads, ReadStep(t) \/ WriteStep(t)
      PROVE  UNCHANGED world
  BY <1>2 DEF ReadStep, ReadLock, ReadArm, ReadSelect, SelectOn, ReadWakePipe, ReadIsSet,
              IsSet, WriteStep, WriteLock, WriteArm, WriteSelect, WriteIsSet
<1>3. ASSUME NEW t \in Threads, Device(t)
      PROVE  UNCHANGED world
  BY <1>3 DEF Device, ReadWakeData, ReadFrame, ReadMore, ReadFails, WriteWake,
              WriteTimeout, WriteDone, WriteMore, WriteFails, Fails
<1>4. ASSUME NEW t \in Threads, Call(t)
      PROVE  UNCHANGED world
  BY <1>4 DEF Call, OpenCall, Leave, ReadCall, WriteCall
<1>5. CASE Stop \/ (\E rd, wr \in BOOLEAN : Enable(rd, wr)) \/ UNCHANGED vars
  BY <1>5 DEF Stop, Enable, vars
<1> QED
  BY <1>1, <1>2, <1>3, <1>4, <1>5 DEF Next, Internal

\* CountInv is inductive together with the discipline of m_mtx.
LEMMA CountStep == FdInv /\ CountInv /\ [Next]_vars => CountInv'
<1> SUFFICES ASSUME FdInv, CountInv, [Next]_vars, DeviceWorks'
             PROVE  CountInv'
  BY DEF CountInv
<1>1. DeviceWorks
  BY WorldFixed DEF DeviceWorks, Env
<1>2. TypeOK
  BY DEF FdInv
<1>3. /\ enRD
      /\ fd = NoFd <=> held = {}
      /\ \A u \in Threads :
           /\ ctx[u] = "user" /\ pc[u] \notin InReopen
           /\ u \in held <=> pc[u] \notin Outside
  BY <1>1 DEF CountInv
<1>4. ASSUME NEW t \in Threads, Internal(t) \/ Device(t) \/ Call(t)
      PROVE  CountInv'
  <2> USE <1>2 DEF Outside, InReopen, Labels, locks, rvars, svars
  <2>1. CASE OpenLock(t) \/ OpenShare(t) \/ OpenTry(t) \/ CloseLock(t) \/ CloseDec(t)
    BY <2>1, CountMoves
  <2>2. CASE ReopenStep(t)
    BY <1>3, <2>2 DEF ReopenStep, ReopenLoad, ReopenSet, ReopenTest, ReopenNotify,
                      ReopenRestore
  <2>3. CASE ReadFails(t) \/ WriteFails(t)
    <3>1. fd = NoFd
      BY <1>1, <2>3 DEF ReadFails, WriteFails, Fails, DeviceWorks
    <3>2. t \in held
      BY <1>3, <2>3 DEF ReadFails, WriteFails
    <3> QED
      BY <1>3, <3>1, <3>2
  <2>4. CASE OpenEnter(t)
    BY <1>3, <2>4, CountKept DEF OpenEnter
  <2>5. CASE ReadLock(t)
    BY <2>5, CountKept DEF ReadLock, ReadReturns
  <2>6. CASE ReadArm(t)
    BY <2>6, CountKept DEF ReadArm
  <2>7. CASE ReadSelect(t)
    BY <2>7, CountKept DEF ReadSelect, SelectOn
  <2>8. CASE ReadWakePipe(t)
    BY <2>8, CountKept DEF ReadWakePipe, ReadReturns
  <2>9. CASE ReadIsSet(t)
    BY <2>9, CountKept DEF ReadIsSet, IsSet
  <2>10. CASE WriteLock(t)
    BY <2>10, CountKept DEF WriteLock, WriteReturns
  <2>11. CASE WriteArm(t)
    BY <2>11, CountKept DEF WriteArm
  <2>12. CASE WriteSelect(t)
    BY <2>12, CountKept DEF WriteSelect, SelectOn
  <2>13. CASE WriteIsSet(t)
    BY <2>13, CountKept DEF WriteIsSet, IsSet
  <2>14. CASE ReadWakeData(t)
    BY <2>14, CountKept DEF ReadWakeData
  <2>15. CASE ReadFrame(t)
    BY <2>15, CountKept DEF ReadFrame, ReadReturns
  <2>16. CASE ReadMore(t)
    BY <2>16, CountKept DEF ReadMore
  <2>17. CASE WriteWake(t)
    BY <2>17, CountKept DEF WriteWake
  <2>18. CASE WriteTimeout(t)
    BY <2>18, CountKept DEF WriteTimeout, WriteReturns
  <2>19. CASE WriteDone(t)
    BY <2>19, CountKept DEF WriteDone, WriteReturns
  <2>20. CASE WriteMore(t)
    BY <2>20, CountKept DEF WriteMore
  <2>21. CASE OpenCall(t)
    BY <2>21, CountKept DEF OpenCall
  <2>22. CASE Leave(t)
    BY <2>22, CountKept DEF Leave
  <2>23. CASE ReadCall(t)
    BY <2>23, CountKept DEF ReadCall
  <2>24. CASE WriteCall(t)
    BY <2>24, CountKept DEF WriteCall
  <2> QED
    BY <1>4, <2>1, <2>2, <2>3, <2>4, <2>5, <2>6, <2>7, <2>8, <2>9, <2>10,
       <2>11, <2>12, <2>13, <2>14, <2>15, <2>16, <2>17, <2>18, <2>19, <2>20,
       <2>21, <2>22, <2>23, <2>24
       DEF Internal, OpenStep, CloseStep, ReadStep, WriteStep, Device, Call
<1>5. CASE Stop \/ UNCHANGED vars
  BY <1>5 DEF Stop, vars, flags, fdvars, rvars, CountInv, DeviceWorks, Env
<1>6. CASE \E rd, wr \in BOOLEAN : Enable(rd, wr)
  BY <1>1, <1>6 DEF Enable, DeviceWorks
<1> QED
  BY <1>4, <1>5, <1>6 DEF Next

\* At the start nobody holds the port.
LEMMA CountInit == Init => FdInv /\ CountInv
<1> SUFFICES ASSUME Init
             PROVE  FdInv /\ CountInv
  OBVIOUS
<1>1. TypeOK
  BY InitType
<1>2. FdInv
  BY <1>1, PortAssumption DEF Init, FdInv, LockInv, NoFdLeak, Locked
<1>3. IsFiniteSet(held) /\ Cardinality(held) = 0
  BY FS_EmptySet DEF Init
<1>4. CountInv
  BY <1>3 DEF Init, CountInv, Outside, InReopen
<1> QED
  BY <1>2, <1>4

\* For any number of threads that open, read, write and close a device that
\* works, in any interleaving, m_nClient is the number of those that hold the
\* port, so nobody's close() takes the descriptor from under another thread.
THEOREM RefCount == Spec => []RefCountExact
<1>1. CountInv => RefCountExact
  BY DEF CountInv, RefCountExact
<1> QED
  BY <1>1, CountInit, FdStep, CountStep, PTL DEF Spec

\* open() and close() of a port whose device works are the atomic Acquire and
\* Release of SharedFd, for every set of threads: m_nClient, the mutex and the
\* steps between cannot be told apart from opening the device with the first
\* holder and closing it with the last.
THEOREM Implements == Spec => SharedSpec
<1> DEFINE h == IF DeviceWorks THEN held ELSE {}
           o == DeviceWorks /\ fd # NoFd
<1>1. Init => Shared!Init
  BY DEF Init, Shared!Init
<1>2. FdInv /\ CountInv /\ [Next]_vars => [Shared!Next]_<<h, o>>
  <2> SUFFICES ASSUME FdInv, CountInv, [Next]_vars,
                      ~UNCHANGED <<h, o>>
               PROVE  Shared!Next
    OBVIOUS
  <2>1. DeviceWorks' <=> DeviceWorks
    BY WorldFixed DEF DeviceWorks, Env
  <2>2. DeviceWorks /\ ~UNCHANGED <<held, fd>>
    BY <2>1
  <2>3. PICK t \in Threads : OpenShare(t) \/ OpenTry(t) \/ CloseLock(t) \/ CloseDec(t)
    BY <2>2 DEF Next, Internal, OpenStep, OpenEnter, OpenLock, CloseStep, ReopenStep,
                ReopenLoad, ReopenSet, ReopenTest, ReopenNotify, ReopenRestore, ReadStep,
                ReadLock, ReadArm, ReadSelect, SelectOn, ReadWakePipe, ReadIsSet, IsSet,
                WriteStep, WriteLock, WriteArm, WriteSelect, WriteIsSet, Device,
                ReadWakeData, ReadFrame, ReadMore, ReadFails, WriteWake, WriteTimeout,
                WriteDone, WriteMore, WriteFails, Fails, Call, OpenCall, Leave, ReadCall,
                WriteCall, Stop, Enable, vars, fdvars
  <2>4. CountInv' /\ FdInv'
    BY CountStep, FdStep
  <2>5. /\ fd = NoFd <=> held = {}
        /\ fd' = NoFd <=> held' = {}
    BY <2>1, <2>2, <2>4 DEF CountInv
  <2>6. h = held /\ h' = held' /\ (o <=> fd # NoFd) /\ (o' <=> fd' # NoFd)
    BY <2>1, <2>2
  <2>7. /\ ctx[t] = "user" /\ t \in Threads
        /\ t \in held <=> pc[t] \notin Outside
    BY <2>2 DEF CountInv
  <2>8. CASE OpenShare(t) \/ OpenTry(t)
    <3>1. t \notin held
      BY <2>7, <2>8 DEF OpenShare, OpenTry, Outside
    <3>2. held' = held \cup {t}
      BY <2>2, <2>7, <2>8 DEF OpenShare, OpenTry, OpenSucceeded, DeviceWorks
    <3>3. Shared!Acquire(t)
      BY <2>1, <2>2, <2>5, <2>6, <3>1, <3>2 DEF Shared!Acquire
    <3> QED
      BY <3>3 DEF Shared!Next
  <2>9. CASE CloseLock(t) \/ CloseDec(t)
    <3>1. t \in held
      BY <2>7, <2>9 DEF CloseLock, CloseDec, Outside
    <3>2. held' = held \ {t}
      BY <2>2, <2>7, <2>9 DEF CloseLock, CloseDec, CloseReturned
    <3>3. Shared!Release(t)
      BY <2>1, <2>2, <2>5, <2>6, <3>1, <3>2 DEF Shared!Release
    <3> QED
      BY <3>3 DEF Shared!Next
  <2> QED
    BY <2>3, <2>8, <2>9
<1> QED
  BY <1>1, <1>2, CountInit, FdStep, CountStep, PTL DEF Spec, SharedSpec, Shared!Spec

-----------------------------------------------------------------------------
(* A reader whose descriptor is closed under it *)

\* One channel thread reads the port, and reopen() gets more than one try.
OneReader == ReopenTries > 1 /\ \A r, s \in Readers : r = s

\* A thread in reopen() from the close to the notice: Reopening of Port.
\* Before its open() succeeds m_fd may be -1.
Closed(u) == /\ ctx[u] # "user"
             /\ pc[u] \in {"reopen_test", "open_enter", "open_lock", "open_try"}

\* A reader between taking and giving back m_mtx_rd, but for the part of its
\* own reopen() in which it has no descriptor.
InRead(t) == \/ pc[t] \in {"rd_arm", "rd_sel", "rd_wait", "rd_isset", "rd_read"}
             \/ ctx[t] = "read" /\ pc[t] \in {"reopen_notify", "reopen_restore"}

\* The tries of a reopen() in progress: its first one succeeds.
TriesInv ==
  \A u \in Threads : ctx[u] # "user" =>
    /\ pc[u] \in {"reopen_set", "close_lock", "close_dec", "reopen_test"}
         => second[u] = ReopenTries
    /\ pc[u] \in {"open_enter", "open_lock", "open_share", "open_try",
                  "reopen_notify"} => second[u] = ReopenTries - 1

\* The places where ctx says which operation failed.
CtxInv ==
  \A u \in Threads :
    /\ pc[u] \in InReopen => ctx[u] # "user"
    /\ ctx[u] # "user" => pc[u] \in InReopen \cup {"close_lock", "close_dec",
                            "open_enter", "open_lock", "open_share", "open_try"}
    /\ u \notin Readers => ctx[u] # "read"
    /\ u \notin Readers => pc[u] \notin {"rd_lock", "rd_arm", "rd_sel", "rd_wait",
                                         "rd_isset", "rd_read"}
    /\ u \notin Readers /\ ctx[u] = "user" => pc[u] \notin {"close_lock", "close_dec"}

\* A reader without a descriptor, or with another one than the port's, has
\* been told or will be.
WakeInv ==
  \A t \in Readers :
    /\ fd = NoFd /\ InRead(t) => \E u \in Threads \ {t} : Closed(u)
    /\ \/ pc[t] = "rd_sel" /\ watch[t] # fd
       \/ pc[t] = "rd_wait" /\ ~live[t]
       => pipe # "empty" \/ \E u \in Threads \ {t} : Reopening(u)

ForgetInv == Recovers => enRD /\ TriesInv /\ CtxInv /\ WakeInv

\* A reopen() of a device that can be opened succeeds in its first try, and
\* ctx says whose it is.
LEMMA TriesStep ==
  ASSUME TypeOK, Recovers, enRD, TriesInv, CtxInv,
         NEW t \in Threads, Internal(t) \/ Device(t) \/ Call(t)
  PROVE  TriesInv' /\ CtxInv'
<1> SUFFICES
      /\ \A u \in Threads \ {t} : pc'[u] = pc[u] /\ ctx'[u] = ctx[u] /\ second'[u] = second[u]
      /\ ctx'[t] # "user" =>
           /\ pc'[t] \in {"reopen_set", "close_lock", "close_dec", "reopen_test"}
                => second'[t] = ReopenTries
           /\ pc'[t] \in {"open_enter", "open_lock", "open_share", "open_try",
                          "reopen_notify"} => second'[t] = ReopenTries - 1
           /\ pc'[t] \in InReopen \cup {"close_lock", "close_dec", "open_enter",
                                        "open_lock", "open_share", "open_try"}
      /\ pc'[t] \in InReopen => ctx'[t] # "user"
      /\ t \notin Readers => /\ ctx'[t] # "read"
                             /\ pc'[t] \notin {"rd_lock", "rd_arm", "rd_sel", "rd_wait",
                                               "rd_isset", "rd_read"}
                             /\ ctx'[t] = "user" => pc'[t] \notin {"close_lock", "close_dec"}
  BY DEF TriesInv, CtxInv
<1>0. "vanish" \notin Env /\ "leave" \notin Env
  BY DEF Recovers
<1> USE PortAssumption DEF TypeOK, TriesInv, CtxInv, InReopen, Goto, rvars
<1>1. CASE OpenEnter(t)
  BY <1>0, <1>1 DEF OpenEnter, OpenFailed
<1>2. CASE OpenLock(t)
  BY <1>0, <1>2 DEF OpenLock
<1>3. CASE OpenShare(t)
  BY <1>0, <1>3 DEF OpenShare, OpenSucceeded
<1>4. CASE OpenTry(t)
  BY <1>0, <1>4 DEF OpenTry, OpenSucceeded, OpenFailed
<1>5. CASE CloseLock(t)
  BY <1>0, <1>5 DEF CloseLock, CloseReturned
<1>6. CASE CloseDec(t)
  BY <1>0, <1>6 DEF CloseDec, CloseReturned
<1>7. CASE ReopenLoad(t)
  BY <1>0, <1>7 DEF ReopenLoad
<1>8. CASE ReopenSet(t)
  BY <1>0, <1>8 DEF ReopenSet
<1>9. CASE ReopenTest(t)
  BY <1>0, <1>9 DEF ReopenTest
<1>10. CASE ReopenNotify(t)
  BY <1>0, <1>10 DEF ReopenNotify, Notified
<1>11. CASE ReopenRestore(t)
  BY <1>0, <1>11 DEF ReopenRestore, ReadReturns, WriteReturns
<1>12. CASE ReadLock(t)
  BY <1>0, <1>12 DEF ReadLock, ReadReturns
<1>13. CASE ReadArm(t)
  BY <1>0, <1>13 DEF ReadArm
<1>14. CASE ReadSelect(t)
  BY <1>0, <1>14 DEF ReadSelect, SelectOn
<1>15. CASE ReadWakePipe(t)
  BY <1>0, <1>15 DEF ReadWakePipe, ReadReturns, Forget
<1>16. CASE ReadIsSet(t)
  BY <1>0, <1>16 DEF ReadIsSet, IsSet, Forget
<1>17. CASE WriteLock(t)
  BY <1>0, <1>17 DEF WriteLock, WriteReturns
<1>18. CASE WriteArm(t)
  BY <1>0, <1>18 DEF WriteArm
<1>19. CASE WriteSelect(t)
  BY <1>0, <1>19 DEF WriteSelect, SelectOn
<1>20. CASE WriteIsSet(t)
  BY <1>0, <1>20 DEF WriteIsSet, IsSet, Forget
<1>21. CASE ReadWakeData(t)
  BY <1>0, <1>21 DEF ReadWakeData
<1>22. CASE ReadFrame(t)
  BY <1>0, <1>22 DEF ReadFrame, ReadReturns
<1>23. CASE ReadMore(t)
  BY <1>0, <1>23 DEF ReadMore
<1>24. CASE ReadFails(t)
  BY <1>0, <1>24 DEF ReadFails, Fails
<1>25. CASE WriteWake(t)
  BY <1>0, <1>25 DEF WriteWake
<1>26. CASE WriteTimeout(t)
  BY <1>0, <1>26 DEF WriteTimeout, WriteReturns, Forget
<1>27. CASE WriteDone(t)
  BY <1>0, <1>27 DEF WriteDone, WriteReturns
<1>28. CASE WriteMore(t)
  BY <1>0, <1>28 DEF WriteMore
<1>29. CASE WriteFails(t)
  BY <1>0, <1>29 DEF WriteFails, Fails
<1>30. CASE OpenCall(t)
  BY <1>0, <1>30 DEF OpenCall
<1>31. CASE Leave(t)
  BY <1>0, <1>31 DEF Leave
<1>32. CASE ReadCall(t)
  BY <1>0, <1>32 DEF ReadCall
<1>33. CASE WriteCall(t)
  BY <1>0, <1>33 DEF WriteCall
<1> QED
  BY <1>1, <1>2, <1>3, <1>4, <1>5, <1>6, <1>7, <1>8, <1>9, <1>10, <1>11,
     <1>12, <1>13, <1>14, <1>15, <1>16, <1>17, <1>18, <1>19, <1>20, <1>21,
     <1>22, <1>23, <1>24, <1>25, <1>26, <1>27, <1>28, <1>29, <1>30, <1>31,
     <1>32, <1>33
     DEF Internal, OpenStep, CloseStep, ReopenStep, ReadStep, WriteStep, Device,
         Call

\* What a thread that does not read the port may do to the reader: it closes
\* the descriptor only on its way through reopen(), and it leaves reopen()
\* only after a notice.
LEMMA OtherMoves ==
  ASSUME FdInv, Recovers, ReopenTries > 1, enRD, TriesInv, CtxInv,
         NEW t \in Threads \ Readers, Internal(t) \/ Device(t) \/ Call(t)
  PROVE  /\ \A u \in Threads \ {t} : /\ pc'[u] = pc[u] /\ ctx'[u] = ctx[u]
                                     /\ watch'[u] = watch[u]
                                     /\ live'[u] = live[u] \/ Closed(t)'
         /\ pipe # "empty" => pipe' # "empty"
         /\ Closed(t) => Closed(t)' \/ fd' # NoFd
         /\ Reopening(t) => Reopening(t)' \/ pipe' # "empty"
         /\ fd' = NoFd /\ fd # NoFd => Closed(t)'
         /\ fd' # fd => Reopening(t)' \/ fd = NoFd
<1>0. "vanish" \notin Env /\ "leave" \notin Env
  BY DEF Recovers
<1> USE PortAssumption DEF FdInv, LockInv, Locked, TypeOK, TriesInv, CtxInv, InReopen, Goto,
                           NoFd, rvars, svars, fdvars, Closed, Reopening
<1>1. CASE OpenEnter(t)
  BY <1>0, <1>1 DEF OpenEnter, OpenFailed
<1>2. CASE OpenLock(t)
  BY <1>0, <1>2 DEF OpenLock
<1>3. CASE OpenShare(t)
  BY <1>0, <1>3 DEF OpenShare, OpenSucceeded
<1>4. CASE OpenTry(t)
  BY <1>0, <1>4 DEF OpenTry, OpenSucceeded, OpenFailed
<1>5. CASE CloseLock(t)
  BY <1>0, <1>5 DEF CloseLock, CloseReturned
<1>6. CASE CloseDec(t)
  BY <1>0, <1>6 DEF CloseDec, CloseReturned
<1>7. CASE ReopenLoad(t)
  BY <1>0, <1>7 DEF ReopenLoad
<1>8. CASE ReopenSet(t)
  BY <1>0, <1>8 DEF ReopenSet
<1>9. CASE ReopenTest(t)
  BY <1>0, <1>9 DEF ReopenTest
<1>10. CASE ReopenNotify(t)
  BY <1>0, <1>10 DEF ReopenNotify, Notified
<1>11. CASE ReopenRestore(t)
  BY <1>0, <1>11 DEF ReopenRestore, ReadReturns, WriteReturns
<1>12. CASE ReadLock(t)
  BY <1>0, <1>12 DEF ReadLock, ReadReturns
<1>13. CASE ReadArm(t)
  BY <1>0, <1>13 DEF ReadArm
<1>14. CASE ReadSelect(t)
  BY <1>0, <1>14 DEF ReadSelect, SelectOn
<1>15. CASE ReadWakePipe(t)
  BY <1>0, <1>15 DEF ReadWakePipe, ReadReturns, Forget
<1>16. CASE ReadIsSet(t)
  BY <1>0, <1>16 DEF ReadIsSet, IsSet, Forget
<1>17. CASE WriteLock(t)
  BY <1>0, <1>17 DEF WriteLock, WriteReturns
<1>18. CASE WriteArm(t)
  BY <1>0, <1>18 DEF WriteArm
<1>19. CASE WriteSelect(t)
  BY <1>0, <1>19 DEF WriteSelect, SelectOn
<1>20. CASE WriteIsSet(t)
  BY <1>0, <1>20 DEF WriteIsSet, IsSet, Forget
<1>21. CASE ReadWakeData(t)
  BY <1>0, <1>21 DEF ReadWakeData
<1>22. CASE ReadFrame(t)
  BY <1>0, <1>22 DEF ReadFrame, ReadReturns
<1>23. CASE ReadMore(t)
  BY <1>0, <1>23 DEF ReadMore
<1>24. CASE ReadFails(t)
  BY <1>0, <1>24 DEF ReadFails, Fails
<1>25. CASE WriteWake(t)
  BY <1>0, <1>25 DEF WriteWake
<1>26. CASE WriteTimeout(t)
  BY <1>0, <1>26 DEF WriteTimeout, WriteReturns, Forget
<1>27. CASE WriteDone(t)
  BY <1>0, <1>27 DEF WriteDone, WriteReturns
<1>28. CASE WriteMore(t)
  BY <1>0, <1>28 DEF WriteMore
<1>29. CASE WriteFails(t)
  BY <1>0, <1>29 DEF WriteFails, Fails
<1>30. CASE OpenCall(t)
  BY <1>0, <1>30 DEF OpenCall
<1>31. CASE Leave(t)
  BY <1>0, <1>31 DEF Leave
<1>32. CASE ReadCall(t)
  BY <1>0, <1>32 DEF ReadCall
<1>33. CASE WriteCall(t)
  BY <1>0, <1>33 DEF WriteCall
<1> QED
  BY <1>1, <1>2, <1>3, <1>4, <1>5, <1>6, <1>7, <1>8, <1>9, <1>10, <1>11,
     <1>12, <1>13, <1>14, <1>15, <1>16, <1>17, <1>18, <1>19, <1>20, <1>21,
     <1>22, <1>23, <1>24, <1>25, <1>26, <1>27, <1>28, <1>29, <1>30, <1>31,
     <1>32, <1>33
     DEF Internal, OpenStep, CloseStep, ReopenStep, ReadStep, WriteStep, Device,
         Call

\* What the reader does itself: it watches the port's descriptor, and falls
\* asleep on another one only if that changed since.
LEMMA ReaderMoves ==
  ASSUME FdInv, Recovers, ReopenTries > 1, enRD, TriesInv, CtxInv,
         NEW t \in Readers, Internal(t) \/ Device(t) \/ Call(t)
  PROVE  /\ \A u \in Threads \ {t} : pc'[u] = pc[u] /\ ctx'[u] = ctx[u]
         /\ InRead(t)' => (InRead(t) /\ fd' = fd) \/ fd' # NoFd
         /\ pc'[t] = "rd_sel" => watch'[t] = fd'
         /\ pc'[t] = "rd_wait" /\ ~live'[t] => /\ pc[t] = "rd_sel" /\ UNCHANGED pipe
                                               /\ watch[t] # fd \/ fd = NoFd
<1>0. "vanish" \notin Env /\ "leave" \notin Env /\ t \in Threads
  BY PortAssumption DEF Recovers
<1> USE PortAssumption DEF FdInv, LockInv, Locked, TypeOK, TriesInv, CtxInv, InReopen, Goto,
                           NoFd, rvars, svars, fdvars, InRead
<1>1. CASE OpenEnter(t)
  BY <1>0, <1>1 DEF OpenEnter, OpenFailed
<1>2. CASE OpenLock(t)
  BY <1>0, <1>2 DEF OpenLock
<1>3. CASE OpenShare(t)
  BY <1>0, <1>3 DEF OpenShare, OpenSucceeded
<1>4. CASE OpenTry(t)
  BY <1>0, <1>4 DEF OpenTry, OpenSucceeded, OpenFailed
<1>5. CASE CloseLock(t)
  BY <1>0, <1>5 DEF CloseLock, CloseReturned
<1>6. CASE CloseDec(t)
  BY <1>0, <1>6 DEF CloseDec, CloseReturned
<1>7. CASE ReopenLoad(t)
  BY <1>0, <1>7 DEF ReopenLoad
<1>8. CASE ReopenSet(t)
  BY <1>0, <1>8 DEF ReopenSet
<1>9. CASE ReopenTest(t)
  BY <1>0, <1>9 DEF ReopenTest
<1>10. CASE ReopenNotify(t)
  BY <1>0, <1>10 DEF ReopenNotify, Notified
<1>11. CASE ReopenRestore(t)
  BY <1>0, <1>11 DEF ReopenRestore, ReadReturns, WriteReturns
<1>12. CASE ReadLock(t)
  BY <1>0, <1>12 DEF ReadLock, ReadReturns
<1>13. CASE ReadArm(t)
  BY <1>0, <1>13 DEF ReadArm
<1>14. CASE ReadSelect(t)
  BY <1>0, <1>14 DEF ReadSelect, SelectOn
<1>15. CASE ReadWakePipe(t)
  BY <1>0, <1>15 DEF ReadWakePipe, ReadReturns, Forget
<1>16. CASE ReadIsSet(t)
  BY <1>0, <1>16 DEF ReadIsSet, IsSet, Forget
<1>17. CASE WriteLock(t)
  BY <1>0, <1>17 DEF WriteLock, WriteReturns
<1>18. CASE WriteArm(t)
  BY <1>0, <1>18 DEF WriteArm
<1>19. CASE WriteSelect(t)
  BY <1>0, <1>19 DEF WriteSelect, SelectOn
<1>20. CASE WriteIsSet(t)
  BY <1>0, <1>20 DEF WriteIsSet, IsSet, Forget
<1>21. CASE ReadWakeData(t)
  BY <1>0, <1>21 DEF ReadWakeData
<1>22. CASE ReadFrame(t)
  BY <1>0, <1>22 DEF ReadFrame, ReadReturns
<1>23. CASE ReadMore(t)
  BY <1>0, <1>23 DEF ReadMore
<1>24. CASE ReadFails(t)
  BY <1>0, <1>24 DEF ReadFails, Fails
<1>25. CASE WriteWake(t)
  BY <1>0, <1>25 DEF WriteWake
<1>26. CASE WriteTimeout(t)
  BY <1>0, <1>26 DEF WriteTimeout, WriteReturns, Forget
<1>27. CASE WriteDone(t)
  BY <1>0, <1>27 DEF WriteDone, WriteReturns
<1>28. CASE WriteMore(t)
  BY <1>0, <1>28 DEF WriteMore
<1>29. CASE WriteFails(t)
  BY <1>0, <1>29 DEF WriteFails, Fails
<1>30. CASE OpenCall(t)
  BY <1>0, <1>30 DEF OpenCall
<1>31. CASE Leave(t)
  BY <1>0, <1>31 DEF Leave
<1>32. CASE ReadCall(t)
  BY <1>0, <1>32 DEF ReadCall
<1>33. CASE WriteCall(t)
  BY <1>0, <1>33 DEF WriteCall
<1> QED
  BY <1>1, <1>2, <1>3, <1>4, <1>5, <1>6, <1>7, <1>8, <1>9, <1>10, <1>11,
     <1>12, <1>13, <1>14, <1>15, <1>16, <1>17, <1>18, <1>19, <1>20, <1>21,
     <1>22, <1>23, <1>24, <1>25, <1>26, <1>27, <1>28, <1>29, <1>30, <1>31,
     <1>32, <1>33
     DEF Internal, OpenStep, CloseStep, ReopenStep, ReadStep, WriteStep, Device,
         Call

\* ForgetInv is inductive for a port with one reader.
LEMMA ForgetStep ==
  ASSUME OneReader, FdInv, ForgetInv, [Next]_vars
  PROVE  ForgetInv'
<1> SUFFICES ASSUME Recovers'
             PROVE  enRD' /\ TriesInv' /\ CtxInv' /\ WakeInv'
  BY DEF ForgetInv
<1>1. Recovers /\ enRD /\ TriesInv /\ CtxInv /\ WakeInv
  BY WorldFixed DEF Recovers, Env, ForgetInv
<1>2. TypeOK /\ ReopenTries > 1
  BY DEF FdInv, OneReader
<1>3. ASSUME NEW t \in Threads, Internal(t) \/ Device(t) \/ Call(t)
      PROVE  enRD' /\ TriesInv' /\ CtxInv' /\ WakeInv'
  <2>1. TriesInv' /\ CtxInv'
    BY <1>1, <1>2, <1>3, TriesStep
  <2>2. UNCHANGED enRD
    BY <1>3 DEF Internal, OpenStep, OpenEnter, OpenLock, OpenShare, OpenTry, CloseStep,
                CloseLock, CloseDec, ReopenStep, ReopenLoad, ReopenSet, ReopenTest,
                ReopenNotify, ReopenRestore, ReadStep, ReadLock, ReadArm, ReadSelect,
                SelectOn, ReadWakePipe, ReadIsSet, IsSet, WriteStep, WriteLock, WriteArm,
                WriteSelect, WriteIsSet, Device, ReadWakeData, ReadFrame, ReadMore,
                ReadFails, WriteWake, WriteTimeout, WriteDone, WriteMore, WriteFails,
                Fails, Call, OpenCall, Leave, ReadCall, WriteCall, flags
  <2>3. ASSUME NEW r \in Readers
        PROVE  /\ fd' = NoFd /\ InRead(r)' => \E u \in Threads \ {r} : Closed(u)'
               /\ \/ pc'[r] = "rd_sel" /\ watch'[r] # fd'
                  \/ pc'[r] = "rd_wait" /\ ~live'[r]
                  => pipe' # "empty" \/ \E u \in Threads \ {r} : Reopening(u)'
    <3>1. /\ fd = NoFd /\ InRead(r) => \E u \in Threads \ {r} : Closed(u)
          /\ \/ pc[r] = "rd_sel" /\ watch[r] # fd
             \/ pc[r] = "rd_wait" /\ ~live[r]
             => pipe # "empty" \/ \E u \in Threads \ {r} : Reopening(u)
      BY <1>1 DEF WakeInv
    <3>2. \A u \in Threads : Closed(u) => Reopening(u)
      BY DEF Closed, Reopening
    <3>3. r \in Threads
      BY PortAssumption
    <3>4. CASE t = r
      <4>1. /\ \A u \in Threads \ {r} : pc'[u] = pc[u] /\ ctx'[u] = ctx[u]
            /\ InRead(r)' => (InRead(r) /\ fd' = fd) \/ fd' # NoFd
            /\ pc'[r] = "rd_sel" => watch'[r] = fd'
            /\ pc'[r] = "rd_wait" /\ ~live'[r] => /\ pc[r] = "rd_sel" /\ UNCHANGED pipe
                                                  /\ watch[r] # fd \/ fd = NoFd
        BY <1>1, <1>2, <1>3, <3>4, ReaderMoves
      <4>2. \A u \in Threads \ {r} : (Closed(u)' <=> Closed(u)) /\ (Reopening(u)' <=> Reopening(u))
        BY <4>1 DEF Closed, Reopening
      <4>3. pc[r] = "rd_sel" => InRead(r)
        BY DEF InRead
      <4> QED
        BY <3>1, <3>2, <4>1, <4>2, <4>3
    <3>5. CASE t # r
      <4>1. t \in Threads \ Readers
        BY <3>5 DEF OneReader
      <4>2. /\ \A u \in Threads \ {t} : /\ pc'[u] = pc[u] /\ ctx'[u] = ctx[u]
                                        /\ watch'[u] = watch[u]
                                        /\ live'[u] = live[u] \/ Closed(t)'
            /\ pipe # "empty" => pipe' # "empty"
            /\ Closed(t) => Closed(t)' \/ fd' # NoFd
            /\ Reopening(t) => Reopening(t)' \/ pipe' # "empty"
            /\ fd' = NoFd /\ fd # NoFd => Closed(t)'
            /\ fd' # fd => Reopening(t)' \/ fd = NoFd
        BY <1>1, <1>2, <1>3, <4>1, OtherMoves
      <4>3. \A u \in Threads \ {t} : (Closed(u)' <=> Closed(u)) /\ (Reopening(u)' <=> Reopening(u))
        BY <4>2 DEF Closed, Reopening
      <4>4. Closed(t)' => Reopening(t)'
        BY DEF Closed, Reopening
      <4>5. InRead(r)' <=> InRead(r)
        BY <3>3, <3>5, <4>2 DEF InRead
      <4>6. pc[r] = "rd_sel" => InRead(r)
        BY DEF InRead
      <4>7. fd' = NoFd /\ InRead(r)' => \E u \in Threads \ {r} : Closed(u)'
        BY <3>1, <3>5, <4>2, <4>3, <4>5
      <4>8. (\E u \in Threads \ {r} : Reopening(u))
              => pipe' # "empty" \/ \E u \in Threads \ {r} : Reopening(u)'
        BY <4>2, <4>3
      <4>9. CASE pc'[r] = "rd_sel" /\ watch'[r] # fd'
        <5>1. pc[r] = "rd_sel" /\ watch[r] # fd'
          BY <3>3, <3>5, <4>2, <4>9
        <5>2. CASE watch[r] # fd
          BY <3>1, <4>2, <4>7, <4>8, <5>1, <5>2
        <5>3. CASE fd' # fd
          BY <3>1, <3>2, <3>5, <4>2, <4>6, <4>7, <4>8, <5>1, <5>3
        <5> QED
          BY <5>1, <5>2, <5>3
      <4>10. CASE pc'[r] = "rd_wait" /\ ~live'[r]
        <5>1. pc[r] = "rd_wait" /\ (~live[r] \/ Closed(t)')
          BY <3>3, <3>5, <4>2, <4>10
        <5> QED
          BY <3>1, <3>5, <4>2, <4>4, <4>7, <4>8, <5>1
      <4> QED
        BY <4>7, <4>9, <4>10
    <3> QED
      BY <3>4, <3>5
  <2> QED
    BY <1>1, <2>1, <2>2, <2>3 DEF WakeInv
<1>4. CASE Stop
  <2>1. pipe' # "empty"
    BY <1>4 DEF Stop, Notified
  <2> QED
    BY <1>1, <1>4, <2>1 DEF Stop, TriesInv, CtxInv, WakeInv, InRead, Closed, flags, fdvars, rvars
<1>5. CASE \E rd, wr \in BOOLEAN : Enable(rd, wr)
  BY <1>1, <1>5 DEF Enable, Recovers
<1>6. CASE UNCHANGED vars
  BY <1>1, <1>6 DEF vars, TriesInv, CtxInv, WakeInv, InRead, Closed, Reopening, flags,
                    fdvars, rvars, svars
<1> QED
  BY <1>3, <1>4, <1>5, <1>6 DEF Next

\* With one reader, however many other threads write to the port and reopen
\* it, a reader asleep on a descriptor that was closed under it has a message
\* in the pipe, or the thread that closed it has yet to write one.
THEOREM NotForgotten ==
  ASSUME OneReader
  PROVE  Spec => []ReaderNotForgotten
<1>1. Init => FdInv /\ ForgetInv
  <2> SUFFICES ASSUME Init
               PROVE  FdInv /\ ForgetInv
    OBVIOUS
  <2>1. FdInv
    BY CountInit
  <2>2. ForgetInv
    BY PortAssumption DEF Init, ForgetInv, TriesInv, CtxInv, WakeInv, InRead, InReopen
  <2> QED
    BY <2>1, <2>2
<1>2. ForgetInv => ReaderNotForgotten
  BY DEF ForgetInv, WakeInv, ReaderNotForgotten
<1>3. FdInv /\ ForgetInv /\ [Next]_vars => (FdInv /\ ForgetInv)'
  BY FdStep, ForgetStep
<1> QED
  BY <1>1, <1>2, <1>3, PTL DEF Spec
=============================================================================
