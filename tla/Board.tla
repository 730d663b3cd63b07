------------------------------- MODULE Board --------------------------------
(***************************************************************************)
(* engpc as the modules that drive the phone's hardware see it: channel    *)
(* threads that serve one request at a time, whichever module it is for,   *)
(* in one process that may die and be started again by init, on a phone    *)
(* that the same requests restart and switch off.  dcxsrv is the other     *)
(* program.  PmicCali and PowerCtl share the threads, the end of the       *)
(* process and the end of the session, and the bounds.                     *)
(***************************************************************************)
EXTENDS PmicCali, PowerCtl

CONSTANTS
  MaxCali, MaxPower, \* bounds: requests of each kind
  MaxBoth,      \* bound: requests and faults in all if there are requests of both
                \* kinds, if two are served at a time, or if accesses to registers
                \* have overlapped
  WithAmp,      \* bound: what overlaps with a calibration: requests, dcxsrv
  MaxFaults     \* bound: failing accesses to a file, and deaths of the process

ASSUME BoardAssumption ==
  {MaxCali, MaxPower, MaxBoth, MaxFaults} \subseteq Nat

VARIABLES calis, powers, faults

bounds == <<calis, powers, faults>>
vars   == <<pmic, power, bounds>>

Init == PmicInit /\ PowerInit /\ calis = 0 /\ powers = 0 /\ faults = 0

Free(a) == pc[a] = Idle /\ ppc[a] = "idle"

InBounds(c, p, f) ==
  /\ c <= MaxCali /\ p <= MaxPower /\ f <= MaxFaults
  /\ (mixed \/ c * p > 0 \/ \E a \in Threads : ~Free(a)) => c + p + f <= MaxBoth

Within(r) ==
  /\ r.op = "amp" => pc[dcxsrv] = Idle \/ dcxsrv \in WithAmp
  /\ \A b \in Threads : /\ r.op = "amp" => creq[b].op \in WithAmp \cup {"none"}
                        /\ creq[b].op = "amp" => r.op \in WithAmp

\* CModuleMgr hands a request to the module that has registered for it.
Request(a) ==
  /\ Free(a)
  /\ \/ /\ InBounds(calis + 1, powers, faults) /\ calis' = calis + 1 /\ UNCHANGED powers
        /\ \E r \in CaliRequests : CaliRequest(a, r) /\ Within(r) /\ UNCHANGED power
     \/ /\ InBounds(calis, powers + 1, faults) /\ powers' = powers + 1 /\ UNCHANGED calis
        /\ \E r \in PowerRequests : PowerRequest(a, r) /\ UNCHANGED pmic
  /\ UNCHANGED faults

Step(a) ==
  /\ \/ PmicStep(a) /\ UNCHANGED power
     \/ a \in Threads /\ PowerStep(a) /\ UNCHANGED pmic
  /\ UNCHANGED bounds

Job(i) == (\E j \in jobs : j.id = i /\ JobStep(j)) /\ UNCHANGED <<pmic, bounds>>

Fault ==
  /\ InBounds(calis, powers, faults + 1) /\ faults' = faults + 1
  /\ \/ \E a \in Actors : PmicFault(a) /\ UNCHANGED power
     \/ \E a \in Threads : PowerFault(a) /\ UNCHANGED pmic
     \/ \E j \in jobs : JobFault(j) /\ UNCHANGED pmic
  /\ UNCHANGED <<calis, powers>>

Plug == Cable /\ UNCHANGED <<pmic, bounds>>

\* The process dies, with every thread of it.
Kill ==
  /\ InBounds(calis, powers, faults + 1) /\ faults' = faults + 1
  /\ EngpcDies /\ PowerDies
  /\ UNCHANGED <<calis, powers>>

\* init does what it was told.  dcxsrv runs in the calibration mode, and in
\* the other modes of the factory.
Restart ==
  /\ \E cali, factory \in BOOLEAN :
       (cali => factory) /\ PowerRestarts(cali) /\ PhoneRestarts(factory)
  /\ UNCHANGED bounds

Next ==
  \/ \E a \in Threads : Request(a)
  \/ \E a \in Actors : Step(a)
  \/ \E i \in 1 .. MaxJobs : Job(i)
  \/ Fault \/ Plug \/ Kill \/ Restart

\* The threads run.  A job that polls is one of them; the kernel's files, the
\* cable, a death and init are not under the program's control.
Fairness == (\A a \in Actors : WF_vars(Step(a))) /\ \A i \in 1 .. MaxJobs : WF_vars(Job(i))

Spec == Init /\ [][Next]_vars /\ Fairness
=============================================================================
