----------------------------- MODULE MCDispatch -----------------------------
(* Small instances of Dispatch for TLC. *)
EXTENDS Dispatch

CONSTANTS bare, at1, at2, both, diag, d1, d2, at, wat, agdsp, wdiag, log

\* A callback without a function, two for the same AT command, the first of
\* which may decline it, one the CP must hear of too, and one for a diag
\* command.
MCMods     == {bare, at1, at2, both, diag}
MCInternal == <<bare>>
MCDynamic  == <<at1, at2, both, diag>>
MCAtCmd    == [m \in MCMods |-> CASE m = bare -> "AT+BARE"
                                  [] m = both -> "AT+BOTH"
                                  [] m = diag -> ""
                                  [] OTHER    -> "AT+X"]
MCDiagCmd  == [m \in MCMods |-> IF m = diag THEN "5D" ELSE ""]
MCResults  == [m \in MCMods |->
                 CASE m = bare -> {"rsp"}
                   [] m = at1  -> {"unsup", "pend", "text"}
                   [] m = at2  -> {"rsp", "pend"}
                   [] m = both -> {"text", "noresp", "none"}
                   [] m = diag -> {"rsp", "text", "unsup", "noresp"}]

\* Two diag channels and one of each other class; the last has no ap_process.
MCKind == [c \in Chans |-> CASE c \in {d1, d2} -> "diag"
                             [] c = at    -> "at"
                             [] c = wat   -> "wcn_at"
                             [] c = agdsp -> "agdsp"
                             [] c = wdiag -> "wcn_diag"
                             [] c = log   -> "log"]

\* One diag channel alone, and beside an AT channel that searches the same
\* list; two that race; and the other classes in pairs.
MCWorlds == {[chans |-> {d1}, again |-> FALSE, maxReqs |-> 4],
             [chans |-> {d1, at}, again |-> FALSE, maxReqs |-> 3],
             [chans |-> {d1, d2}, again |-> TRUE, maxReqs |-> 2],
             [chans |-> {at, wdiag}, again |-> TRUE, maxReqs |-> 2],
             [chans |-> {wat, agdsp}, again |-> TRUE, maxReqs |-> 2],
             [chans |-> {d1, log}, again |-> TRUE, maxReqs |-> 2]}

\* A callback that asks for more data twice.
MCAgain == {[chans |-> {d1}, again |-> TRUE, maxReqs |-> 3]}
=============================================================================
