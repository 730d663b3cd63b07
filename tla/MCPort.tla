------------------------------- MODULE MCPort -------------------------------
(* Small instances of Port for TLC. *)
EXTENDS Port, TLC

CONSTANTS r1, w1, w2

Few == {r1, w1}
All == {r1, w1, w2}

\* Three threads share a port that works, or whose device fails and recovers;
\* two meet the rest of what the environment can do.
MCWorlds == {[users |-> All, env |-> {"leave", "stop"}],
             [users |-> All, env |-> {"ioerror"}],
             [users |-> Few, env |-> {"ioerror", "stop"}],
             [users |-> Few, env |-> {"ioerror", "leave", "vanish"}],
             [users |-> Few, env |-> {"leave", "vanish", "disable", "stop"}]}
=============================================================================
