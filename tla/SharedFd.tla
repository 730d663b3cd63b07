------------------------------ MODULE SharedFd ------------------------------
(***************************************************************************)
(* What a port promises the threads that share it when the device works:   *)
(* the device is open exactly while somebody holds the port, the first     *)
(* holder opens it and only the last one to go closes it.                  *)
(***************************************************************************)
CONSTANT Threads
VARIABLES holders, isOpen

Init == holders = {} /\ isOpen = FALSE

Acquire(t) ==
  /\ t \notin holders
  /\ holders' = holders \cup {t}
  /\ isOpen' = TRUE

Release(t) ==
  /\ t \in holders
  /\ holders' = holders \ {t}
  /\ isOpen' = (holders' # {})

Next == \E t \in Threads : Acquire(t) \/ Release(t)

Spec == Init /\ [][Next]_<<holders, isOpen>>
=============================================================================
