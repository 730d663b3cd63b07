----------------------------- MODULE MCDiagLink -----------------------------
(* Small instances of DiagLink for TLC. *)
EXTENDS DiagLink

\* A tool that waits and a buffer with room for its frames; a tool that does
\* not wait, a device that cuts anywhere, and a buffer that is too small.
MCLinks == {[nLen |-> 8, oneAtATime |-> TRUE, flagAlone |-> FALSE],
            [nLen |-> 4, oneAtATime |-> FALSE, flagAlone |-> TRUE]}
=============================================================================
