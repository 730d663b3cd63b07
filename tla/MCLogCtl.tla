------------------------------ MODULE MCLogCtl ------------------------------
(* Small instances of LogCtl for TLC. *)
EXTENDS LogCtl
=============================================================================
