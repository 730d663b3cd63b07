------------------------------- MODULE LogCtl -------------------------------
(***************************************************************************)
(* Where the logs of the modem and of the WCN chip go: CCPCtl's            *)
(* logLocation() (server/common/cpctl.cpp), called by the thread that      *)
(* serves the log control socket and by channel threads that execute       *)
(* AT+SPATCPLOG, and main(), which sets the devices at start according to  *)
(* the destination that was saved.                                         *)
(*                                                                         *)
(* The destination is a system property and survives a restart; whether a  *)
(* device's ports are enabled does not; slogmodem, another process, writes *)
(* to the T card when told to.  No lock is held by logLocation().          *)
(***************************************************************************)
EXTENDS Naturals, FiniteSets

CONSTANTS
  AtThreads,     \* channel threads that may execute AT+SPATCPLOG
  Faults,        \* what slogmodem may do wrong, a subset of AllFaults
  MaxReqs,       \* bound on the number of requests
  MaxRestarts    \* bound on the number of restarts of the program

AllFaults == {"error",   \* it answers something else than OK
              "late",    \* it obeys, and answers after the 3 seconds
              "hung",    \* it accepts the connection and does nothing
              "gone"}    \* it does not run

ASSUME LogCtlAssumption ==
  /\ "sock" \notin AtThreads
  /\ Faults \subseteq AllFaults
  /\ MaxReqs \in Nat /\ MaxRestarts \in Nat

Types     == {"modem", "wcn"}
Threads   == AtThreads \cup {"sock"}
Locations == {"pc", "tcard", "none"}
Saved     == Locations \cup {"unset"}   \* the property may not exist
Logs      == Types \cup {"agdsp"}       \* what slogmodem is told about

VARIABLES
  dest,        \* the destination properties
  devOn,       \* the device's ports are enabled
  slog,        \* what slogmodem writes to the T card
  astray,      \* logs for which slogmodem may write something else than
               \* logLocation() believes (history variable)
  crossed,     \* types for which two calls of logLocation(), or a call and
               \* main(), were under way together (history variable)
  slogState,   \* whether slogmodem works
  gser,        \* the PC's diag port is on gser
  restart,     \* sys_restart_self() was called
  boot, saved, \* where main() is, and the destination it has read
  pc,          \* where each thread is in logLocation()
  type, loc,   \* its arguments: log_type, location
  nReq, nRestart

env  == <<slogState, nReq, nRestart>>
args == <<type, loc>>
main == <<boot, saved>>
slogs == <<slog, astray>>
vars == <<dest, devOn, slogs, crossed, gser, restart, pc, args, main, env>>

TypeOK ==
  /\ dest \in [Types -> Saved] /\ devOn \in [Types -> BOOLEAN]
  /\ slog \in [Logs -> BOOLEAN] /\ astray \subseteq Logs /\ crossed \subseteq Types
  /\ slogState \in {"works", "hung", "gone"}
  /\ gser \in BOOLEAN /\ restart \in BOOLEAN
  /\ boot \in {"modem", "modem_off", "wcn", "wcn_set", "up"}
  /\ saved \in Saved
  /\ pc \in [Threads -> {"idle", "read", "already", "notice", "reset", "set",
                         "agdsp", "switch"}]
  /\ type \in [Threads -> Types]
  /\ loc \in [Threads -> Locations \cup {"other"}]
  /\ nReq \in 0 .. MaxReqs /\ nRestart \in 0 .. MaxRestarts

\* The destination that a log follows: AGDSP has none of its own.
Ruler(g) == IF g = "agdsp" THEN "modem" ELSE g

\* The program starts, with slogmodem set as the properties say.
Init ==
  /\ dest \in [Types -> Saved]
  /\ devOn = [t \in Types |-> TRUE]
  /\ slog = [g \in Logs |-> dest[Ruler(g)] = "tcard"] /\ astray = {}
  /\ crossed = {}
  /\ slogState = "works" /\ gser \in BOOLEAN /\ restart = FALSE
  /\ boot = "modem" /\ saved = "none"
  /\ pc = [c \in Threads |-> "idle"]
  /\ type = [c \in Threads |-> "modem"] /\ loc = [c \in Threads |-> "none"]
  /\ nReq = 0 /\ nRestart = 0

\* The arguments of a call that has returned mean nothing any more.
Forget(c) ==
  /\ type' = [type EXCEPT ![c] = "modem"] /\ loc' = [loc EXCEPT ![c] = "none"]

Goto(c, l) == pc' = [pc EXCEPT ![c] = l]

-----------------------------------------------------------------------------
(* main(): the socket thread runs already, the channels not yet *)

BootReadModem ==
  /\ boot = "modem"
  /\ saved' = dest["modem"]
  /\ boot' = IF saved' # "pc" THEN "modem_off" ELSE "wcn"
  /\ UNCHANGED <<crossed, dest, devOn, slogs, gser, restart, pc, args, env>>

BootModemOff ==
  /\ boot = "modem_off"
  /\ devOn' = [devOn EXCEPT !["modem"] = FALSE]
  /\ boot' = "wcn"
  /\ UNCHANGED <<crossed, dest, slogs, gser, restart, pc, args, saved, env>>

BootReadWcn ==
  /\ boot = "wcn"
  /\ saved' = dest["wcn"]
  /\ boot' = "wcn_set"
  /\ UNCHANGED <<crossed, dest, devOn, slogs, gser, restart, pc, args, env>>

\* Mutation: the WCN device is left as it is unless its log goes to the PC.
BootSetWcnOnly ==
  /\ boot = "wcn_set"
  /\ devOn' = IF saved = "pc" THEN [devOn EXCEPT !["wcn"] = TRUE] ELSE devOn
  /\ boot' = "up" /\ saved' = "none"
  /\ UNCHANGED <<crossed, dest, slogs, gser, restart, pc, args, env>>

\* After this the channels run.
BootSetWcn ==
  /\ boot = "wcn_set"
  /\ devOn' = [devOn EXCEPT !["wcn"] = (saved = "pc")]
  /\ boot' = "up" /\ saved' = "none"
  /\ UNCHANGED <<crossed, dest, slogs, gser, restart, pc, args, env>>

-----------------------------------------------------------------------------
(* logLocation() *)

\* main() may still act on the destination of type t that it read, or has
\* still to read it.
BootConcerns(t) == boot # "up" /\ (t = "modem" => boot \in {"modem", "modem_off"})

\* A packet on the socket, or an AT command.
Request(c, t, l) ==
  /\ pc[c] = "idle" /\ nReq < MaxReqs
  /\ c # "sock" => boot = "up"
  /\ nReq' = nReq + 1
  /\ type' = [type EXCEPT ![c] = t]
  /\ loc' = [loc EXCEPT ![c] = l]
  /\ Goto(c, "read")
  /\ crossed' = IF BootConcerns(t) \/ \E d \in Threads : pc[d] # "idle" /\ type[d] = t
                THEN crossed \cup {t} ELSE crossed
  /\ UNCHANGED <<dest, devOn, slogs, gser, restart, main, slogState, nRestart>>

\* A location that is none of the three is refused, but does not keep the
\* diag port from being moved.
ReadDest(c) ==
  /\ pc[c] = "read"
  /\ Goto(c, CASE loc[c] \notin Locations -> "switch"
               [] dest[type[c]] = loc[c] -> "already"
               [] OTHER -> "notice")
  /\ UNCHANGED <<crossed, dest, devOn, slogs, gser, restart, args, main, env>>

\* "... log already to ...": ret = -1.
Already(c) ==
  /\ pc[c] = "already"
  /\ Goto(c, "switch")
  /\ UNCHANGED <<crossed, dest, devOn, slogs, gser, restart, args, main, env>>

\* notice_slogmodem(): res holds what came of it, the answer or none.
\* A command that is not answered in time may still be obeyed, and one that
\* is answered need not be.
Told(which, on, res) ==
  \/ /\ slogState = "works" /\ res = "ok"
     /\ slog' = [slog EXCEPT ![which] = on]
     /\ astray' = astray \ {which}
  \/ /\ slogState = "works" /\ "error" \in Faults /\ res = "error"
     /\ astray' = astray \cup {which}
     /\ UNCHANGED slog
  \/ /\ slogState = "works" /\ "late" \in Faults /\ res = "none"
     /\ slog' = [slog EXCEPT ![which] = on]
     /\ astray' = astray \cup {which}
  \/ /\ slogState \in {"hung", "gone"} /\ res = "none"
     /\ astray' = astray \cup ({which} \cap {"agdsp"})
     /\ UNCHANGED slog

\* Mutation: get_response() waits without a limit.
NoticeForEver(c) ==
  /\ pc[c] = "notice"
  /\ \E res \in {"ok", "error", "none"} :
       /\ slogState # "hung"
       /\ Told(type[c], loc[c] = "tcard", res)
       /\ Goto(c, CASE res = "none" -> "switch"
                    [] res # "none" /\ loc[c] = "none" -> "set"
                    [] OTHER -> "reset")
  /\ UNCHANGED <<crossed, dest, devOn, gser, restart, args, main, env>>

\* Mutation: the failure of notice_slogmodem() is ignored.
NoticeUnchecked(c) ==
  /\ pc[c] = "notice"
  /\ \E res \in {"ok", "error", "none"} :
       /\ Told(type[c], loc[c] = "tcard", res)
       /\ Goto(c, IF loc[c] = "none" THEN "set" ELSE "reset")
  /\ UNCHANGED <<crossed, dest, devOn, gser, restart, args, main, env>>

\* get_response() returns the 1 that poll() returned whenever there was
\* something to read, so any answer counts as success.
Notice(c) ==
  /\ pc[c] = "notice"
  /\ \E res \in {"ok", "error", "none"} :
       /\ Told(type[c], loc[c] = "tcard", res)
       /\ Goto(c, CASE res = "none" -> "switch"
                    [] res # "none" /\ loc[c] = "none" -> "set"
                    [] OTHER -> "reset")
  /\ UNCHANGED <<crossed, dest, devOn, gser, restart, args, main, env>>

\* resetWithDevName(), not called for LOG_LOCATION_NONE.
Reset(c) ==
  /\ pc[c] = "reset"
  /\ devOn' = [devOn EXCEPT ![type[c]] = (loc[c] = "pc")]
  /\ Goto(c, "set")
  /\ UNCHANGED <<crossed, dest, slogs, gser, restart, args, main, env>>

\* sys_setlogdest()
SetDest(c) ==
  /\ pc[c] = "set"
  /\ dest' = [dest EXCEPT ![type[c]] = loc[c]]
  /\ Goto(c, IF type[c] = "modem" THEN "agdsp" ELSE "switch")
  /\ UNCHANGED <<crossed, devOn, slogs, gser, restart, args, main, env>>

\* The AGDSP log follows the modem's; a failure is only logged.
NoticeAgdsp(c) ==
  /\ pc[c] = "agdsp"
  /\ \E res \in {"ok", "error", "none"} : Told("agdsp", loc[c] = "tcard", res)
  /\ Goto(c, "switch")
  /\ UNCHANGED <<crossed, dest, devOn, gser, restart, args, main, env>>

\* The argument diagportswitch, which is looked at here only.
Switches(c) == IF c = "sock" THEN {1} ELSE 0 .. 2

\* The diag port is moved, by an AT command that some module may obey, and
\* the program asks to be restarted; whatever the result was.
Switch(c) ==
  /\ pc[c] = "switch"
  /\ \E sw \in Switches(c) :
     LET move == \/ sw = 1 /\ loc[c] = "pc" /\ ~gser
                 \/ sw = 2 /\ loc[c] # "pc" /\ gser
     IN  \/ move /\ gser' \in BOOLEAN /\ restart' = TRUE
         \/ ~move /\ UNCHANGED <<gser, restart>>
  /\ Goto(c, "idle") /\ Forget(c)
  /\ UNCHANGED <<crossed, dest, devOn, slogs, main, env>>

Step(c) == \/ ReadDest(c) \/ Already(c) \/ Notice(c) \/ Reset(c) \/ SetDest(c)
           \/ NoticeAgdsp(c) \/ Switch(c)

Boot == BootReadModem \/ BootModemOff \/ BootReadWcn \/ BootSetWcn

-----------------------------------------------------------------------------
(* The environment *)

\* init restarts the program some time after sys_restart_self(), whatever
\* its threads are doing then.
Restart ==
  /\ restart /\ nRestart < MaxRestarts
  /\ nRestart' = nRestart + 1
  /\ restart' = FALSE
  /\ devOn' = [t \in Types |-> TRUE]
  /\ pc' = [c \in Threads |-> "idle"]
  /\ type' = [c \in Threads |-> "modem"] /\ loc' = [c \in Threads |-> "none"]
  /\ boot' = "modem" /\ saved' = "none"
  /\ astray' = astray
                 \cup {t \in Types : \E c \in Threads :
                                       pc[c] \in {"reset", "set"} /\ type[c] = t}
                 \cup {g \in {"agdsp"} : \E c \in Threads : pc[c] = "agdsp"}
                 \cup {g \in Logs : Ruler(g) \in crossed}
  /\ crossed' = {}
  /\ UNCHANGED <<dest, slog, gser, slogState, nReq>>

SlogChanges(s) ==
  /\ s = "works" \/ s \in Faults
  /\ slogState' = s
  /\ UNCHANGED <<crossed, dest, devOn, slogs, gser, restart, pc, args, main,
                 nReq, nRestart>>

Next == \/ Boot
        \/ \E c \in Threads : Step(c)
        \/ \E c \in Threads, t \in Types, l \in Locations \cup {"other"} :
             Request(c, t, l)
        \/ Restart
        \/ \E s \in {"works", "hung", "gone"} : SlogChanges(s)

Spec == Init /\ [][Next]_vars

\* Threads that can run do run.
FairSpec == /\ Spec
            /\ WF_vars(Boot)
            /\ \A c \in Threads : WF_vars(Step(c))

-----------------------------------------------------------------------------
(* Properties *)

Quiet == boot = "up" /\ \A c \in Threads : pc[c] = "idle"

\* Between requests the ports of a device are enabled if its log goes to the
\* PC and disabled if it goes to the T card, after failures of slogmodem and
\* a restart at any moment too, and whatever calls for the other type
\* overlapped.  Calls for the same type take no lock and may leave it the
\* other way round (AlreadyToPc), until the next restart: such a type is
\* excepted.
DeviceFollowsDest ==
  Quiet => \A t \in Types \ crossed : /\ dest[t] = "pc" => devOn[t]
                                      /\ dest[t] = "tcard" => ~devOn[t]

\* Between requests slogmodem writes to the T card exactly the logs whose
\* destination it is, but for those where it refused or was late, where the
\* AGDSP notice failed, or where a restart came between slogmodem's answer
\* and sys_setlogdest(); an OK sets such a log right again.  The logs of a
\* type whose calls overlapped are excepted too.
SlogFollowsDest ==
  Quiet => \A g \in Logs \ astray :
             Ruler(g) \notin crossed => (slog[g] <=> dest[Ruler(g)] = "tcard")

\* A request is answered even if slogmodem hangs.
RequestsAnswered == \A c \in Threads : pc[c] # "idle" ~> pc[c] = "idle"

\* "wcn log already to pc!": a request that is refused so while nothing else
\* goes on and the PC is the destination finds the ports enabled.
AlreadyToPc ==
  \A c \in Threads :
    /\ pc[c] = "already" /\ loc[c] = "pc" /\ dest[type[c]] = "pc" /\ boot = "up"
    /\ \A d \in Threads \ {c} : pc[d] = "idle"
    => devOn[type[c]]
=============================================================================
