----------------------------- MODULE MCTimeSync -----------------------------
(* Small instances of TimeSync for TLC. *)
EXTENDS TimeSync
=============================================================================
