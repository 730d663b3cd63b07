---------------------------- MODULE MCChnlThread ----------------------------
(* Small instances of ChnlThread for TLC. *)
EXTENDS ChnlThread
CONSTANTS w1, w2, w3
=============================================================================
