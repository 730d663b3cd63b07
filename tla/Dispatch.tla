------------------------------ MODULE Dispatch ------------------------------
(***************************************************************************)
(* What happens to a request that a channel thread has read: CTrans::trans *)
(* decodes it, the process() of the channel's CData class asks the module  *)
(* manager (server/module/CModuleMgr.cpp), which loads the modules at the  *)
(* first request and searches its list of callbacks, and the result says   *)
(* whether the PC gets an answer, the CP gets the request, or both.        *)
(*                                                                         *)
(* All threads share one CModuleMgr without a lock: every access to its    *)
(* fields is a step.                                                       *)
(*                                                                         *)
(* A request is an AT command (in a diag frame of type 0x68, or as text on *)
(* an AT channel), further data for an AT command that asked for it, or a  *)
(* diag command; the type, subtype and command word a callback compares    *)
(* are one name.                                                           *)
(***************************************************************************)
EXTENDS Naturals, Sequences, FiniteSets

CONSTANTS
  Mods,        \* callbacks that exist
  NoMod,       \* NULL
  Internal,    \* callbacks main() registers, in order
  Dynamic,     \* callbacks of the shared objects, in the order of loading
  AtCmd,       \* callback -> its at_cmd, or ""; only callbacks with an
               \* at_cmd have an eng_linuxcmd_func
  DiagCmd,     \* callback -> the diag command it registers for, or ""
  NoFunc,      \* callbacks whose function pointer is NULL
  AlsoCp,      \* callbacks with also_need_to_cp
  Results,     \* callback -> results its functions may return
  Chans,       \* channel threads
  Kind,        \* channel -> its class and data type, see Kinds
  ApProcess,   \* channels whose ap_process is 1
  DstLoop,     \* channels whose destination is a LOOP port
  AtCmds, DiagCmds,   \* requests that may arrive
  Worlds       \* the channels that run, whether a callback may ask for data
               \* a second time, and a bound on the number of requests, in
               \* one behaviour or another

Kinds == {"diag", "wcn_diag", "at", "wcn_at", "log", "agdsp"}

\* rsp: a length > 0.  text: 0, but rsp holds text.  none: 0 and no text.
\* pend: text that ends with PENDING_MARK.  noresp, unsup:
\* ENG_DIAG_NO_RESPONSE, ENG_DIAG_RET_UNSUPPORT.
AllResults == {"rsp", "text", "none", "pend", "noresp", "unsup"}

ASSUME DispatchAssumption ==
  /\ NoMod \notin Mods
  /\ Internal \in Seq(Mods) /\ Dynamic \in Seq(Mods)
  /\ NoFunc \subseteq Mods /\ AlsoCp \subseteq Mods
  /\ Results \in [Mods -> SUBSET AllResults]
  /\ \A m \in Mods : Results[m] # {}
  /\ Kind \in [Chans -> Kinds]
  /\ IsFiniteSet(Chans) /\ ApProcess \subseteq Chans /\ DstLoop \subseteq Chans
  /\ "" \notin AtCmds
  /\ Worlds \subseteq [chans : SUBSET Chans, again : BOOLEAN, maxReqs : Nat]

IsDiag(c) == Kind[c] \in {"diag", "wcn_diag"}
IsAT(c)   == Kind[c] \in {"at", "wcn_at"}

Requests == [type : {"at"}, cmd : AtCmds] \cup [type : {"diag"}, cmd : DiagCmds]
            \cup {[type |-> "data", cmd |-> ""]}

VARIABLES
  isLoaded,   \* m_isLoaded
  list,       \* m_listHead
  curCB,      \* m_lpCurCB
  pendingCB,  \* m_lpPendingCB
  pc,         \* where each thread is
  req,        \* its request
  pos,        \* its position in the list, or in Dynamic while it loads
  rlen,       \* the result it goes on with
  bProcess,   \* some callback has processed the request
  cp,         \* cp_process
  out,        \* what was written for the request: answers, OKs and empty
              \* frames to the PC, requests to the CP
  by, asked,  \* history: the callback that processed the request, and the
              \* one that asked for the data this channel will send next
  given,      \* history: the callback that was given the data
  nReq,       \* requests so far
  world       \* the member of Worlds that this behaviour is about

mgr  == <<isLoaded, list, curCB, pendingCB>>
mine == <<req, pos, rlen, bProcess, cp, by, given>>
vars == <<mgr, mine, pc, out, asked, nReq, world>>

Nothing == [rsp |-> 0, ok |-> 0, empty |-> 0, cp |-> 0, enc |-> 0]

TypeOK ==
  /\ isLoaded \in BOOLEAN
  /\ list \in Seq(Mods)
  /\ curCB \in Mods \cup {NoMod} /\ pendingCB \in Mods \cup {NoMod}
  /\ pc \in [Chans -> {"idle", "check", "load", "scan", "call", "pend",
                       "pcall", "clear", "mark", "answer", "forward", "done",
                       "crash"}]
  /\ req \in [Chans -> Requests]
  /\ \A c \in Chans :
       pc[c] \in {"scan", "call"} => pos[c] \in 1 .. Len(list) + 1
  /\ rlen \in [Chans -> AllResults]
  /\ bProcess \in [Chans -> BOOLEAN] /\ cp \in [Chans -> BOOLEAN]
  /\ by \in [Chans -> Mods \cup {NoMod}]
  /\ asked \in [Chans -> Mods \cup {NoMod}]
  /\ given \in [Chans -> Mods \cup {NoMod}]
  /\ out \in [Chans -> [DOMAIN Nothing -> 0 .. 2]]
  /\ world \in Worlds
  /\ nReq \in 0 .. world.maxReqs

Init ==
  /\ isLoaded = FALSE /\ list = Internal
  /\ curCB = NoMod /\ pendingCB = NoMod
  /\ pc = [c \in Chans |-> "idle"]
  /\ req = [c \in Chans |-> [type |-> "data", cmd |-> ""]]
  /\ pos = [c \in Chans |-> 1]
  /\ rlen = [c \in Chans |-> "none"]
  /\ bProcess = [c \in Chans |-> FALSE] /\ cp = [c \in Chans |-> FALSE]
  /\ by = [c \in Chans |-> NoMod] /\ asked = [c \in Chans |-> NoMod]
  /\ given = [c \in Chans |-> NoMod]
  /\ out = [c \in Chans |-> Nothing]
  /\ nReq = 0
  /\ world \in Worlds

Goto(c, l) == pc' = [pc EXCEPT ![c] = l]

-----------------------------------------------------------------------------
(* trans() up to process() *)

\* m_nDiagAT: the frame carries an AT command or data for one.
DiagAT(c) == IsDiag(c) /\ c \in ApProcess /\ req[c].type # "diag"

\* A request is read.  Channels without ap_process, and those whose class
\* does not ask the module manager, go on at once.
Request(c, q) ==
  /\ pc[c] = "idle" /\ c \in world.chans /\ nReq < world.maxReqs
  /\ q.type = "diag" => ~IsAT(c)
  /\ nReq' = nReq + 1
  /\ req' = [req EXCEPT ![c] = q]
  /\ rlen' = [rlen EXCEPT ![c] = "none"]
  /\ bProcess' = [bProcess EXCEPT ![c] = FALSE]
  /\ cp' = [cp EXCEPT ![c] = FALSE]
  /\ by' = [by EXCEPT ![c] = NoMod]
  /\ given' = [given EXCEPT ![c] = NoMod]
  /\ out' = [out EXCEPT ![c] = Nothing]
  /\ Goto(c, IF c \in ApProcess /\ Kind[c] # "agdsp" THEN "check" ELSE "answer")
  /\ UNCHANGED <<mgr, pos, asked, world>>

-----------------------------------------------------------------------------
(* CModuleMgr::process() and load() *)

CheckLoaded(c) ==
  /\ pc[c] = "check"
  /\ pos' = [pos EXCEPT ![c] = 1]
  /\ Goto(c, IF ~isLoaded THEN "load"
             ELSE IF Kind[c] \in {"diag", "at", "wcn_at"} THEN "scan"
             ELSE "mark")
  /\ UNCHANGED <<mgr, req, rlen, bProcess, cp, by, given, out,
                 asked, nReq, world>>

\* eng_modules_load(): one callback after the other; load() sets m_isLoaded.
Load(c) ==
  /\ pc[c] = "load"
  /\ IF pos[c] <= Len(Dynamic)
       THEN /\ list' = Append(list, Dynamic[pos[c]])
            /\ pos' = [pos EXCEPT ![c] = @ + 1]
            /\ UNCHANGED <<isLoaded, pc>>
       ELSE /\ isLoaded' = TRUE
            /\ pos' = [pos EXCEPT ![c] = 1]
            /\ Goto(c, IF Kind[c] \in {"diag", "at", "wcn_at"} THEN "scan"
                                                               ELSE "mark")
            /\ UNCHANGED list
  /\ UNCHANGED <<curCB, pendingCB, req, rlen, bProcess, cp, by, given, out,
                 asked, nReq, world>>

-----------------------------------------------------------------------------
(* processDiag(), processAT() and processWcnAT() *)

\* The list ends: processDiag() looks at the pending callback, the others
\* return.
Scanned(c) == Goto(c, IF IsDiag(c) THEN "pend" ELSE "mark")

\* m_lpCurCB = modules_list, in processDiag() only.
Scan(c) ==
  /\ pc[c] = "scan"
  /\ IF pos[c] > Len(list)
       THEN Scanned(c) /\ UNCHANGED curCB
       ELSE /\ curCB' = IF IsDiag(c) THEN list[pos[c]] ELSE curCB
            /\ Goto(c, "call")
  /\ UNCHANGED <<isLoaded, list, pendingCB, mine, out, asked, nReq, world>>

Matches(c, m) ==
  \/ req[c].type = "at" /\ AtCmd[m] = req[c].cmd
  \/ req[c].type = "diag" /\ DiagCmd[m] = req[c].cmd /\ IsDiag(c)

\* The callback is compared with the request and called.  If it does not
\* support it the search goes on, and its result stays in rlen.
Call(c) ==
  /\ pc[c] = "call"
  /\ LET m == list[pos[c]]
     IN  \/ /\ ~Matches(c, m)
            /\ pos' = [pos EXCEPT ![c] = @ + 1]
            /\ Goto(c, "scan")
            /\ UNCHANGED <<rlen, bProcess, cp, by>>
         \/ /\ Matches(c, m) /\ m \in NoFunc
            /\ Scanned(c)
            /\ UNCHANGED <<pos, rlen, bProcess, cp, by>>
         \/ /\ Matches(c, m) /\ m \notin NoFunc /\ "unsup" \in Results[m]
            /\ rlen' = [rlen EXCEPT ![c] = "unsup"]
            /\ pos' = [pos EXCEPT ![c] = @ + 1]
            /\ Goto(c, "scan")
            /\ UNCHANGED <<bProcess, cp, by>>
         \/ /\ Matches(c, m) /\ m \notin NoFunc
            /\ \E r \in Results[m] \ {"unsup"} : rlen' = [rlen EXCEPT ![c] = r]
            /\ bProcess' = [bProcess EXCEPT ![c] = TRUE]
            /\ cp' = [cp EXCEPT ![c] = m \in AlsoCp]
            /\ by' = [by EXCEPT ![c] = m]
            /\ Scanned(c)
            /\ UNCHANGED pos
  /\ UNCHANGED <<mgr, req, given, out, asked, nReq, world>>

PendingTest(c) ==
  /\ pc[c] = "pend"
  /\ Goto(c, IF ~bProcess[c] /\ pendingCB # NoMod /\ req[c].type = "data"
               THEN "pcall" ELSE "clear")
  /\ UNCHANGED <<mgr, mine, out, asked, nReq, world>>

\* m_lpPendingCB->callback.eng_linuxcmd_func(buf, rsp): m_lpPendingCB is read
\* again, and the function may be NULL, which ends the process.
PendingCall(c) ==
  /\ pc[c] = "pcall"
  /\ IF pendingCB \notin {m \in Mods \ NoFunc : AtCmd[m] # ""}
       THEN /\ pc' = [d \in Chans |-> "crash"]
            /\ UNCHANGED <<rlen, given>>
       ELSE /\ \E r \in Results[pendingCB] :
                 /\ ~world.again => r # "pend"
                 /\ rlen' = [rlen EXCEPT ![c] = r]
            /\ given' = [given EXCEPT ![c] = pendingCB]
            /\ Goto(c, "mark")
  /\ UNCHANGED <<mgr, req, pos, bProcess, cp, by, out, asked, nReq, world>>

PendingClear(c) ==
  /\ pc[c] = "clear"
  /\ pendingCB' = NoMod
  /\ Goto(c, "mark")
  /\ UNCHANGED <<isLoaded, list, curCB, mine, out, asked, nReq, world>>

-----------------------------------------------------------------------------
(* process() of the CData classes, after the module manager *)

\* CProtolDiag::process() and CProtolAT::process(): a text counts as an
\* answer although the length returned is 0.
HasAnswer(c) == \/ rlen[c] \in {"rsp", "pend"}
                \/ rlen[c] = "text" /\ (DiagAT(c) \/ IsAT(c))

\* processWcnAT() leaves what no callback answers to the Bluetooth library
\* and returns ENG_DIAG_NO_RESPONSE.
NoResponse(c) == \/ rlen[c] = "noresp"
                 \/ Kind[c] = "wcn_at" /\ ~HasAnswer(c)

\* ret of process(); DYMIC_RET_NO_DEAL without ap_process.
Ret(c) == CASE c \notin ApProcess -> "NO_DEAL"
            [] c \in ApProcess /\ Kind[c] = "agdsp" -> "ENCODE_TO_DEST"
            [] OTHER -> IF HasAnswer(c)
                          THEN IF cp[c] THEN "ALSO_NEED_TO_CP"
                                        ELSE "DEAL_SUCCESS"
                        ELSE IF NoResponse(c) THEN "NO_RESPONSE_TO_PC"
                        ELSE "NO_DEAL"

\* Mutation: the mark is set whatever the callback has answered.
MarkAnyAnswer(c) ==
  /\ pc[c] = "mark"
  /\ pendingCB' = IF IsDiag(c) THEN curCB ELSE pendingCB
  /\ asked' = [asked EXCEPT ![c] =
       IF DiagAT(c) /\ rlen[c] = "pend"
         THEN IF given[c] # NoMod THEN given[c] ELSE by[c]
         ELSE NoMod]
  /\ Goto(c, "answer")
  /\ UNCHANGED <<isLoaded, list, curCB, mine, out, nReq, world>>

\* CDataDiag::process(): setPendingMark() takes m_lpCurCB, whatever the scans
\* of other threads, or of this one after no match, have left there.
Mark(c) ==
  /\ pc[c] = "mark"
  /\ IF DiagAT(c) /\ rlen[c] = "pend"
       THEN /\ pendingCB' = curCB
            /\ asked' = [asked EXCEPT ![c] = IF given[c] # NoMod THEN given[c]
                                                              ELSE by[c]]
       ELSE /\ pendingCB' = IF IsDiag(c) THEN NoMod ELSE pendingCB
            /\ asked' = [asked EXCEPT ![c] = NoMod]
  /\ Goto(c, "answer")
  /\ UNCHANGED <<isLoaded, list, curCB, mine, out, nReq, world>>

-----------------------------------------------------------------------------
(* trans() after process() *)

\* CDataDiag::pre_write() and post_write() put an empty frame before and an
\* OK after what is written, to the PC, for an AT command the AP has dealt
\* with.
Wrapped(c) == DiagAT(c) /\ Ret(c) \in {"DEAL_SUCCESS", "ALSO_NEED_TO_CP"}

Write(c, field) ==
  out' = [out EXCEPT ![c][field] = @ + 1,
                     ![c].empty = IF Wrapped(c) THEN @ + 1 ELSE @,
                     ![c].ok    = IF Wrapped(c) THEN @ + 1 ELSE @]

\* Mutation: an answered request is also sent to the CP.
AnswerToo(c) ==
  /\ pc[c] = "answer"
  /\ CASE Ret(c) = "NO_RESPONSE_TO_PC" -> Goto(c, "done") /\ UNCHANGED out
       [] Ret(c) = "NO_DEAL" -> Goto(c, "forward") /\ UNCHANGED out
       [] Ret(c) \in {"DEAL_SUCCESS", "ALSO_NEED_TO_CP"} ->
            Goto(c, "forward") /\ Write(c, "rsp")
       [] Ret(c) = "ENCODE_TO_DEST" -> Goto(c, "done") /\ Write(c, "enc")
  /\ UNCHANGED <<mgr, mine, asked, nReq, world>>

Answer(c) ==
  /\ pc[c] = "answer"
  /\ CASE Ret(c) = "NO_RESPONSE_TO_PC" -> Goto(c, "done") /\ UNCHANGED out
       [] Ret(c) = "NO_DEAL" -> Goto(c, "forward") /\ UNCHANGED out
       [] Ret(c) = "DEAL_SUCCESS" -> Goto(c, "done") /\ Write(c, "rsp")
       [] Ret(c) = "ALSO_NEED_TO_CP" -> Goto(c, "forward") /\ Write(c, "rsp")
       [] Ret(c) = "ENCODE_TO_DEST" -> Goto(c, "done") /\ Write(c, "enc")
  /\ UNCHANGED <<mgr, mine, asked, nReq, world>>

Forward(c) ==
  /\ pc[c] = "forward"
  /\ IF c \in DstLoop THEN UNCHANGED out ELSE Write(c, "cp")
  /\ Goto(c, "done")
  /\ UNCHANGED <<mgr, mine, asked, nReq, world>>

Done(c) ==
  /\ pc[c] = "done"
  /\ Goto(c, "idle")
  /\ UNCHANGED <<mgr, mine, out, asked, nReq, world>>

Step(c) == \/ CheckLoaded(c) \/ Load(c) \/ Scan(c) \/ Call(c)
           \/ PendingTest(c) \/ PendingCall(c) \/ PendingClear(c)
           \/ Mark(c) \/ Answer(c) \/ Forward(c) \/ Done(c)

Next == \E c \in Chans : Step(c) \/ \E q \in Requests : Request(c, q)

Spec == Init /\ [][Next]_vars

-----------------------------------------------------------------------------
(* Properties *)

\* Every request ends in one of four ways, whatever callbacks declined it on
\* the way: answered, if a callback had an answer; answered and sent to the
\* CP, if that callback is marked also_need_to_cp; dropped, if it wanted no
\* response; and otherwise sent to the CP unanswered.  Never two of them.
\* Without ap_process it is sent on, and AGDSP data is sent on encoded.
Disposed ==
  \A c \in Chans : pc[c] = "done" =>
    LET o   == out[c]
        fwd == IF c \in DstLoop THEN 0 ELSE 1
        m   == IF by[c] # NoMod THEN by[c] ELSE given[c]
    IN  CASE c \notin ApProcess -> o = [Nothing EXCEPT !.cp = fwd]
          [] c \in ApProcess /\ Kind[c] = "agdsp" ->
               o = [Nothing EXCEPT !.enc = 1]
          [] OTHER ->
               IF m # NoMod /\ HasAnswer(c)
                 THEN o.rsp = 1 /\ o.cp = (IF by[c] \in AlsoCp THEN fwd ELSE 0)
               ELSE IF m # NoMod /\ rlen[c] = "noresp" THEN o = Nothing
               ELSE o = [Nothing EXCEPT !.cp = IF Kind[c] = "wcn_at" THEN 0
                                                                   ELSE fwd]

\* One of the channels carries diag frames.  Two of them overwrite each
\* other's m_lpCurCB and m_lpPendingCB, which nothing protects.
OneDiag == \A c, d \in world.chans : IsDiag(c) /\ IsDiag(d) => c = d

\* "process pending at cmd": further data on the only diag channel is given
\* to the callback that asked for it, and to nobody if none did, while the
\* other channels search, load and extend the list it was found in.
PendingToOwner ==
  \A c \in Chans :
    OneDiag /\ pc[c] \in {"mark", "crash"} /\ IsDiag(c) /\ req[c].type = "data" =>
      given[c] = asked[c]

=============================================================================
