--------------------------- MODULE DispatchProof ---------------------------
(***************************************************************************)
(* Proofs about Dispatch for any callbacks, channels and requests.         *)
(*                                                                         *)
(* How a request ends depends on variables of its own thread only, however *)
(* the threads race in the module manager: OwnInv follows one request from *)
(* trans() to its end.  What the pending mark does is right for the only   *)
(* diag channel and a callback that asks once, whatever the channels of    *)
(* the other classes do at the same time: MarkInv.                         *)
(***************************************************************************)
EXTENDS Dispatch, SequenceTheorems, TLAPS

\* TypeOK with the positions that load() and the search use.
TypeInv ==
  /\ TypeOK
  /\ pos \in [Chans -> Nat \ {0}]
  /\ \A c \in Chans : pc[c] = "call" => pos[c] <= Len(list)

-----------------------------------------------------------------------------
(* One request *)

\* Up to the answer.
InProcess == {"check", "load", "scan", "call", "pend", "pcall", "clear", "mark"}

\* The request is for the module manager.
Asks(c) == c \in ApProcess /\ Kind[c] # "agdsp"

\* What is known of a request while it is processed.
Known(c) ==
  /\ ~Asks(c) => pc[c] \notin InProcess
  /\ bProcess[c] <=> by[c] # NoMod
  /\ by[c] # NoMod => /\ given[c] = NoMod /\ rlen[c] # "unsup"
                       /\ Kind[c] \in {"diag", "at", "wcn_at"}
  /\ cp[c] <=> by[c] \in AlsoCp
  /\ by[c] = NoMod /\ given[c] = NoMod => rlen[c] \in {"none", "unsup"}
  /\ given[c] # NoMod => Kind[c] = "diag"
  /\ pc[c] \in {"scan", "call"} => Kind[c] \in {"diag", "at", "wcn_at"}
  /\ pc[c] \in {"pend", "pcall", "clear"} => Kind[c] = "diag"
  /\ pc[c] = "pcall" => ~bProcess[c]
  /\ pc[c] \in InProcess \ {"mark"} => given[c] = NoMod
  /\ pc[c] \in {"check", "load", "scan", "call"} => by[c] = NoMod

\* What was written for it.
Written(c) ==
  /\ pc[c] \in InProcess \cup {"answer"} => out[c] = Nothing
  /\ pc[c] = "forward" => /\ Ret(c) \in {"NO_DEAL", "ALSO_NEED_TO_CP"}
                          /\ Ret(c) = "NO_DEAL" => out[c] = Nothing
                          /\ Ret(c) = "ALSO_NEED_TO_CP" =>
                               /\ out[c] \in [DOMAIN Nothing -> 0 .. 1]
                               /\ out[c].rsp = 1 /\ out[c].cp = 0

\* How it ended: Disposed, one channel at a time.
Fwd(c) == IF c \in DstLoop THEN 0 ELSE 1
Handled(c) == by[c] # NoMod \/ given[c] # NoMod
Ended(c) ==
  pc[c] = "done" =>
    /\ c \notin ApProcess => out[c] = [Nothing EXCEPT !.cp = Fwd(c)]
    /\ c \in ApProcess /\ Kind[c] = "agdsp" => out[c] = [Nothing EXCEPT !.enc = 1]
    /\ Asks(c) =>
         /\ Handled(c) /\ HasAnswer(c) =>
              out[c].rsp = 1 /\ out[c].cp = IF by[c] \in AlsoCp THEN Fwd(c) ELSE 0
         /\ Handled(c) /\ ~HasAnswer(c) /\ rlen[c] = "noresp" => out[c] = Nothing
         /\ ~(Handled(c) /\ (HasAnswer(c) \/ rlen[c] = "noresp")) =>
              out[c] = [Nothing EXCEPT !.cp = IF Kind[c] = "wcn_at" THEN 0 ELSE Fwd(c)]

OwnInv == \A c \in Chans : Known(c) /\ Written(c) /\ Ended(c)

\* A write adds one to what was written, and to the empty frames and the OKs
\* if the AP has dealt with an AT command.
LEMMA Writes ==
  ASSUME TypeOK, NEW c \in Chans, NEW f \in {"rsp", "cp", "enc"}, Write(c, f)
  PROVE  /\ \A d \in Chans \ {c} : out'[d] = out[d]
         /\ \A x \in DOMAIN Nothing : out'[c][x] = out[c][x] \/ out'[c][x] = out[c][x] + 1
         /\ \A x \in {"rsp", "cp", "enc"} \ {f} : out'[c][x] = out[c][x]
         /\ out'[c][f] = out[c][f] + 1
         /\ DOMAIN out' = Chans
         /\ out'[c] = [x \in DOMAIN Nothing |-> out'[c][x]]
         /\ ~Wrapped(c) => out'[c] = [out[c] EXCEPT ![f] = @ + 1]
BY DEF Write, TypeOK, Nothing

\* The same, for an answer and for a request that is sent on.
LEMMA WritesField ==
  ASSUME TypeOK, NEW c \in Chans
  PROVE  /\ Write(c, "rsp") => out'[c].rsp = out[c].rsp + 1 /\ out'[c].cp = out[c].cp
         /\ Write(c, "cp")  => out'[c].rsp = out[c].rsp /\ out'[c].cp = out[c].cp + 1
<1>1. ASSUME Write(c, "rsp")
      PROVE  out'[c]["rsp"] = out[c]["rsp"] + 1 /\ out'[c]["cp"] = out[c]["cp"]
  BY <1>1, Writes
<1>2. ASSUME Write(c, "cp")
      PROVE  out'[c]["rsp"] = out[c]["rsp"] /\ out'[c]["cp"] = out[c]["cp"] + 1
  BY <1>2, Writes
<1> QED
  BY <1>1, <1>2

\* The first write to a field.
LEMMA FirstWrite ==
  ASSUME NEW r
  PROVE  /\ r["enc"] = 0 => [r EXCEPT !["enc"] = @ + 1] = [r EXCEPT !.enc = 1]
         /\ r["cp"] = 0 => [r EXCEPT !["cp"] = @ + 1] = [r EXCEPT !.cp = 1]
<1>1. ASSUME r["enc"] = 0
      PROVE  [r EXCEPT !["enc"] = @ + 1] = [r EXCEPT !.enc = 1]
  BY <1>1
<1>2. ASSUME r["cp"] = 0
      PROVE  [r EXCEPT !["cp"] = @ + 1] = [r EXCEPT !.cp = 1]
  BY <1>2
<1> QED
  BY <1>1, <1>2

\* process() has one of five results.
LEMMA RetValues ==
  ASSUME NEW c \in Chans
  PROVE  /\ c \notin ApProcess => Ret(c) = "NO_DEAL"
         /\ c \in ApProcess /\ Kind[c] = "agdsp" => Ret(c) = "ENCODE_TO_DEST"
         /\ Asks(c) => /\ HasAnswer(c) /\ cp[c] => Ret(c) = "ALSO_NEED_TO_CP"
                       /\ HasAnswer(c) /\ ~cp[c] => Ret(c) = "DEAL_SUCCESS"
                       /\ ~HasAnswer(c) /\ NoResponse(c) => Ret(c) = "NO_RESPONSE_TO_PC"
                       /\ ~HasAnswer(c) /\ ~NoResponse(c) => Ret(c) = "NO_DEAL"
<1>1. CASE c \notin ApProcess
  BY <1>1 DEF Ret, Asks
<1>2. CASE c \in ApProcess /\ Kind[c] = "agdsp"
  BY <1>2 DEF Ret, Asks
<1>3. CASE Asks(c)
  BY <1>3 DEF Ret, Asks
<1> QED
  BY <1>1, <1>2, <1>3 DEF Asks

\* What trans() does with each of them.
LEMMA AnswerMoves ==
  ASSUME NEW c \in Chans, Answer(c)
  PROVE  \/ Ret(c) = "NO_RESPONSE_TO_PC" /\ Goto(c, "done") /\ UNCHANGED out
         \/ Ret(c) = "NO_DEAL" /\ Goto(c, "forward") /\ UNCHANGED out
         \/ Ret(c) = "DEAL_SUCCESS" /\ Goto(c, "done") /\ Write(c, "rsp")
         \/ Ret(c) = "ALSO_NEED_TO_CP" /\ Goto(c, "forward") /\ Write(c, "rsp")
         \/ Ret(c) = "ENCODE_TO_DEST" /\ Goto(c, "done") /\ Write(c, "enc")
<1>0. Ret(c) \in {"NO_RESPONSE_TO_PC", "NO_DEAL", "DEAL_SUCCESS", "ALSO_NEED_TO_CP",
                  "ENCODE_TO_DEST"}
  BY RetValues DEF Asks
<1>1. CASE Ret(c) = "NO_RESPONSE_TO_PC"
  BY <1>1 DEF Answer
<1>2. CASE Ret(c) = "NO_DEAL"
  BY <1>2 DEF Answer
<1>3. CASE Ret(c) = "DEAL_SUCCESS"
  BY <1>3 DEF Answer
<1>4. CASE Ret(c) = "ALSO_NEED_TO_CP"
  BY <1>4 DEF Answer
<1>5. CASE Ret(c) = "ENCODE_TO_DEST"
  BY <1>5 DEF Answer
<1> QED
  BY <1>0, <1>1, <1>2, <1>3, <1>4, <1>5

\* The modules register callbacks that exist, one at a time.
LEMMA ListGrows ==
  ASSUME TypeInv, NEW c \in Chans, Load(c)
  PROVE  list' \in Seq(Mods) /\ Len(list) <= Len(list')
<1>1. list \in Seq(Mods) /\ Dynamic \in Seq(Mods)
  BY DispatchAssumption DEF TypeInv, TypeOK
<1>2. CASE pos[c] <= Len(Dynamic)
  <2>1. pos[c] \in 1 .. Len(Dynamic)
    BY <1>1, <1>2 DEF TypeInv
  <2>2. Dynamic[pos[c]] \in Mods
    BY <1>1, <2>1
  <2>3. list' = Append(list, Dynamic[pos[c]])
    BY <1>2 DEF Load
  <2> QED
    BY <1>1, <2>2, <2>3
<1>3. CASE ~(pos[c] <= Len(Dynamic))
  BY <1>1, <1>3 DEF Load
<1> QED
  BY <1>2, <1>3

\* A step that keeps the list and the types of what it writes.
LEMMA TypeStep ==
  ASSUME TypeInv, OwnInv, [Next]_vars
  PROVE  TypeInv'
<1> USE DEF TypeInv, mgr, mine
<1>0. /\ Results \in [Mods -> SUBSET AllResults]
      /\ \A w \in Worlds : w.maxReqs \in Nat
  BY DispatchAssumption
<1>1. ASSUME NEW c \in Chans, NEW q \in Requests, Request(c, q)
      PROVE  TypeInv'
  <2>1. nReq' \in 0 .. world'.maxReqs
    <3>1. world.maxReqs \in Nat
      BY <1>0 DEF TypeOK
    <3> QED
      BY <1>1, <3>1 DEF Request, TypeOK
  <2>2. bProcess' \in [Chans -> BOOLEAN] /\ cp' \in [Chans -> BOOLEAN]
    BY <1>1 DEF Request, TypeOK
  <2>3. out' \in [Chans -> [DOMAIN Nothing -> 0 .. 2]]
    <3>1. Nothing \in [DOMAIN Nothing -> 0 .. 2]
      BY DEF Nothing
    <3> QED
      BY <1>1, <3>1 DEF Request, TypeOK
  <2>4. /\ req' \in [Chans -> Requests] /\ rlen' \in [Chans -> AllResults]
        /\ by' \in [Chans -> Mods \cup {NoMod}] /\ given' \in [Chans -> Mods \cup {NoMod}]
    BY <1>1 DEF Request, TypeOK, AllResults
  <2>5. /\ pc'[c] \in {"check", "answer"} /\ \A d \in Chans \ {c} : pc'[d] = pc[d]
        /\ pc' \in [Chans -> {"idle", "check", "load", "scan", "call", "pend", "pcall",
                              "clear", "mark", "answer", "forward", "done", "crash"}]
    BY <1>1 DEF Request, Goto, TypeOK
  <2> QED
    BY <1>1, <2>1, <2>2, <2>3, <2>4, <2>5 DEF Request, TypeOK
<1>2. ASSUME NEW c \in Chans, CheckLoaded(c)
      PROVE  TypeInv'
  BY <1>2 DEF CheckLoaded, Goto, TypeOK
<1>3. ASSUME NEW c \in Chans, Load(c)
      PROVE  TypeInv'
  <2>1. list' \in Seq(Mods) /\ Len(list) <= Len(list') /\ Len(list) \in Nat /\ Len(list') \in Nat
    BY <1>3, ListGrows DEF TypeOK
  <2>2. isLoaded' \in BOOLEAN
    BY <1>3 DEF Load, TypeOK
  <2>3. pos' \in [Chans -> Nat \ {0}] /\ \A d \in Chans \ {c} : pos'[d] = pos[d]
    <3>1. pos' = [pos EXCEPT ![c] = pos[c] + 1] \/ pos' = [pos EXCEPT ![c] = 1]
      BY <1>3 DEF Load
    <3>2. pos[c] + 1 \in Nat \ {0} /\ 1 \in Nat \ {0}
      OBVIOUS
    <3> QED
      BY <3>1, <3>2
  <2>4. /\ pc' \in [Chans -> {"idle", "check", "load", "scan", "call", "pend", "pcall",
                              "clear", "mark", "answer", "forward", "done", "crash"}]
        /\ \A d \in Chans \ {c} : pc'[d] = pc[d]
        /\ pc'[c] \in {"load", "scan", "mark"}
        /\ pc'[c] = "scan" => pos'[c] = 1
    BY <1>3 DEF Load, Goto, TypeOK
  <2>5. \A d \in Chans : /\ pc'[d] \in {"scan", "call"} => pos'[d] \in 1 .. Len(list') + 1
                         /\ pc'[d] = "call" => pos'[d] <= Len(list')
    <3>1. 1 \in 1 .. Len(list') + 1
      BY <2>1
    <3>2. \A n \in Nat \ {0} : n \in 1 .. Len(list) + 1 => n \in 1 .. Len(list') + 1
      BY <2>1
    <3>3. \A n \in Nat \ {0} : n <= Len(list) => n <= Len(list')
      BY <2>1
    <3> QED
      BY <2>3, <2>4, <3>1, <3>2, <3>3 DEF TypeOK
  <2> QED
    BY <1>3, <2>1, <2>2, <2>3, <2>4, <2>5 DEF Load, TypeOK
<1>4. ASSUME NEW c \in Chans, Scan(c)
      PROVE  TypeInv'
  <2>1. curCB' \in Mods \cup {NoMod}
    BY <1>4 DEF Scan, TypeOK
  <2>2. Len(list) \in Nat
    BY DEF TypeOK
  <2>3. CASE pos[c] > Len(list)
    <3>1. \E l \in {"pend", "mark"} : Goto(c, l)
      BY <1>4, <2>3 DEF Scan, Scanned
    <3> QED
      BY <1>4, <2>1, <3>1 DEF Scan, Goto, TypeOK
  <2>4. CASE ~(pos[c] > Len(list))
    <3>1. Goto(c, "call") /\ pos[c] <= Len(list)
      BY <1>4, <2>2, <2>4 DEF Scan
    <3> QED
      BY <1>4, <2>1, <3>1 DEF Scan, Goto, TypeOK
  <2> QED
    BY <2>3, <2>4
<1>5. ASSUME NEW c \in Chans, Call(c)
      PROVE  TypeInv'
  <2> DEFINE m == list[pos[c]]
  <2>1. pc[c] = "call" /\ UNCHANGED <<mgr, req, given, out, asked, nReq, world>>
    BY <1>5 DEF Call
  <2>2. /\ m \in Mods /\ Len(list) \in Nat /\ pos[c] + 1 \in 1 .. Len(list) + 1
        /\ pos[c] + 1 \in Nat \ {0}
    BY <2>1 DEF TypeOK
  <2>3. ASSUME pos' = [pos EXCEPT ![c] = @ + 1], Goto(c, "scan"),
               rlen' \in [Chans -> AllResults], UNCHANGED <<bProcess, cp, by>>
        PROVE  TypeInv'
    BY <2>1, <2>2, <2>3 DEF Goto, TypeOK
  <2>4. ASSUME UNCHANGED pos, Scanned(c), rlen' \in [Chans -> AllResults],
               bProcess' \in [Chans -> BOOLEAN], cp' \in [Chans -> BOOLEAN],
               by' \in [Chans -> Mods \cup {NoMod}]
        PROVE  TypeInv'
    <3>1. \E l \in {"pend", "mark"} : Goto(c, l)
      BY <2>4 DEF Scanned
    <3> QED
      BY <2>1, <2>4, <3>1 DEF Goto, TypeOK
  <2>5. CASE ~Matches(c, m)
    BY <1>5, <2>3, <2>5 DEF Call, TypeOK
  <2>6. CASE Matches(c, m) /\ m \in NoFunc
    BY <1>5, <2>4, <2>6 DEF Call, TypeOK
  <2>7. CASE /\ Matches(c, m) /\ rlen' = [rlen EXCEPT ![c] = "unsup"]
             /\ pos' = [pos EXCEPT ![c] = @ + 1] /\ Goto(c, "scan")
             /\ UNCHANGED <<bProcess, cp, by>>
    <3>1. rlen' \in [Chans -> AllResults]
      BY <2>7 DEF TypeOK, AllResults
    <3> QED
      BY <2>3, <2>7, <3>1
  <2>8. CASE /\ Matches(c, m) /\ m \notin NoFunc
             /\ \E r \in Results[m] \ {"unsup"} : rlen' = [rlen EXCEPT ![c] = r]
             /\ bProcess' = [bProcess EXCEPT ![c] = TRUE]
             /\ cp' = [cp EXCEPT ![c] = m \in AlsoCp]
             /\ by' = [by EXCEPT ![c] = m]
             /\ Scanned(c) /\ UNCHANGED pos
    <3>1. rlen' \in [Chans -> AllResults]
      BY <1>0, <2>2, <2>8 DEF TypeOK
    <3>2. bProcess' \in [Chans -> BOOLEAN] /\ cp' \in [Chans -> BOOLEAN]
      BY <2>8 DEF TypeOK
    <3>3. by' \in [Chans -> Mods \cup {NoMod}]
      BY <2>2, <2>8 DEF TypeOK
    <3> QED
      BY <2>4, <2>8, <3>1, <3>2, <3>3
  <2> QED
    BY <1>5, <2>5, <2>6, <2>7, <2>8 DEF Call
<1>6. ASSUME NEW c \in Chans, PendingTest(c) \/ PendingClear(c)
      PROVE  TypeInv'
  BY <1>6 DEF PendingTest, PendingClear, Goto, TypeOK
<1>7. ASSUME NEW c \in Chans, PendingCall(c)
      PROVE  TypeInv'
  <2>1. UNCHANGED <<mgr, req, pos, bProcess, cp, by, out, asked, nReq, world>>
    BY <1>7 DEF PendingCall
  <2>2. CASE pc' = [d \in Chans |-> "crash"] /\ UNCHANGED <<rlen, given>>
    BY <2>1, <2>2 DEF TypeOK
  <2>3. CASE /\ pendingCB \in Mods
             /\ \E r \in Results[pendingCB] : rlen' = [rlen EXCEPT ![c] = r]
             /\ given' = [given EXCEPT ![c] = pendingCB]
             /\ Goto(c, "mark")
    <3>1. rlen' \in [Chans -> AllResults]
      BY <1>0, <2>3 DEF TypeOK
    <3> QED
      BY <2>1, <2>3, <3>1 DEF Goto, TypeOK
  <2> QED
    BY <1>7, <2>2, <2>3 DEF PendingCall
<1>8. ASSUME NEW c \in Chans, Mark(c)
      PROVE  TypeInv'
  <2>1. pendingCB' \in Mods \cup {NoMod} /\ asked' \in [Chans -> Mods \cup {NoMod}]
    BY <1>8 DEF Mark, TypeOK
  <2> QED
    BY <1>8, <2>1 DEF Mark, Goto, TypeOK
<1>9. ASSUME NEW c \in Chans, Answer(c) \/ Forward(c)
      PROVE  TypeInv'
  <2>1. out[c] \in [DOMAIN Nothing -> 0 .. 1]
    <3>1. Nothing \in [DOMAIN Nothing -> 0 .. 1]
      BY DEF Nothing
    <3>2. pc[c] = "answer" \/ pc[c] = "forward"
      BY <1>9 DEF Answer, Forward
    <3> QED
      BY <3>1, <3>2 DEF OwnInv, Written
  <2>2. /\ UNCHANGED out \/ \E f \in {"rsp", "cp", "enc"} : Write(c, f)
        /\ \E l \in {"done", "forward"} : Goto(c, l)
    <3>1. CASE Forward(c)
      BY <3>1 DEF Forward
    <3>2. CASE Answer(c)
      BY <3>2, AnswerMoves
    <3> QED
      BY <1>9, <3>1, <3>2
  <2>3. out' \in [Chans -> [DOMAIN Nothing -> 0 .. 2]]
    <3>1. CASE UNCHANGED out
      BY <3>1 DEF TypeOK
    <3>2. ASSUME NEW f \in {"rsp", "cp", "enc"}, Write(c, f)
          PROVE  out' \in [Chans -> [DOMAIN Nothing -> 0 .. 2]]
      <4>1. /\ \A d \in Chans \ {c} : out'[d] = out[d]
            /\ \A x \in DOMAIN Nothing : out'[c][x] = out[c][x] \/ out'[c][x] = out[c][x] + 1
            /\ out'[c] = [x \in DOMAIN Nothing |-> out'[c][x]]
        BY <3>2, Writes
      <4>2. out' = [d \in Chans |-> out'[d]]
        BY <3>2 DEF Write, TypeOK
      <4>3. out'[c] \in [DOMAIN Nothing -> 0 .. 2]
        BY <2>1, <4>1
      <4> QED
        BY <4>1, <4>2, <4>3 DEF TypeOK
    <3> QED
      BY <2>2, <3>1, <3>2
  <2>5. UNCHANGED <<mgr, mine, asked, nReq, world>>
    BY <1>9 DEF Answer, Forward
  <2> QED
    BY <2>2, <2>3, <2>5 DEF Goto, TypeOK
<1>10. ASSUME NEW c \in Chans, Done(c)
       PROVE  TypeInv'
  BY <1>10 DEF Done, Goto, TypeOK
<1>11. CASE UNCHANGED vars
  BY <1>11 DEF vars, TypeOK
<1> QED
  BY <1>1, <1>2, <1>3, <1>4, <1>5, <1>6, <1>7, <1>8, <1>9, <1>10, <1>11 DEF Next, Step

\* The result of process() depends on the request, rlen and cp_process.
LEMMA RetKept ==
  ASSUME NEW d \in Chans, req'[d] = req[d], rlen'[d] = rlen[d], cp'[d] = cp[d]
  PROVE  (HasAnswer(d)' <=> HasAnswer(d)) /\ Ret(d)' = Ret(d)
<1>1. HasAnswer(d)' <=> HasAnswer(d)
  BY DEF HasAnswer, DiagAT
<1>2. NoResponse(d)' <=> NoResponse(d)
  BY <1>1 DEF NoResponse
<1>3. CASE d \notin ApProcess
  BY <1>1, <1>3 DEF Ret
<1>4. CASE d \in ApProcess /\ Kind[d] = "agdsp"
  BY <1>1, <1>4 DEF Ret
<1>5. CASE d \in ApProcess /\ Kind[d] # "agdsp"
  BY <1>1, <1>2, <1>5 DEF Ret
<1> QED
  BY <1>3, <1>4, <1>5

\* A thread whose variables a step leaves alone keeps what is known of it.
LEMMA OwnKept ==
  ASSUME NEW d \in Chans, Known(d), Written(d), Ended(d),
         pc'[d] = pc[d], req'[d] = req[d], rlen'[d] = rlen[d], bProcess'[d] = bProcess[d],
         cp'[d] = cp[d], by'[d] = by[d], given'[d] = given[d], out'[d] = out[d]
  PROVE  Known(d)' /\ Written(d)' /\ Ended(d)'
<1>1. Known(d)'
  BY DEF Known
<1>2. (HasAnswer(d)' <=> HasAnswer(d)) /\ Ret(d)' = Ret(d)
  BY RetKept
<1>3. Written(d)'
  BY <1>2 DEF Written
<1>4. Ended(d)'
  BY <1>2 DEF Ended, Handled
<1> QED
  BY <1>1, <1>3, <1>4

\* The steps of a thread touch no variable of another thread's request, but
\* for the crash.
LEMMA OthersKept ==
  ASSUME TypeInv, NEW c \in Chans, NEW d \in Chans \ {c},
         Step(c) \/ \E q \in Requests : Request(c, q)
  PROVE  \/ /\ pc'[d] = pc[d] /\ req'[d] = req[d] /\ rlen'[d] = rlen[d]
            /\ bProcess'[d] = bProcess[d] /\ cp'[d] = cp[d] /\ by'[d] = by[d]
            /\ given'[d] = given[d] /\ out'[d] = out[d] /\ asked'[d] = asked[d]
         \/ /\ PendingCall(c) /\ pc' = [e \in Chans |-> "crash"]
            /\ UNCHANGED <<rlen, given, bProcess, cp, by>>
<1> USE DEF TypeInv, TypeOK, Goto, mgr, mine
<1>1. CASE \E q \in Requests : Request(c, q)
  BY <1>1 DEF Request
<1>2. CASE CheckLoaded(c) \/ Load(c) \/ Scan(c)
  BY <1>2 DEF CheckLoaded, Load, Scan, Scanned
<1>3. CASE Call(c)
  BY <1>3 DEF Call, Scanned
<1>4. CASE PendingTest(c) \/ PendingClear(c) \/ Mark(c) \/ Done(c)
  BY <1>4 DEF PendingTest, PendingClear, Mark, Done
<1>5. CASE PendingCall(c)
  BY <1>5 DEF PendingCall
<1>6. CASE Answer(c) \/ Forward(c)
  <2>1. /\ UNCHANGED out \/ \E f \in {"rsp", "cp", "enc"} : Write(c, f)
        /\ \E l \in {"done", "forward"} : Goto(c, l)
        /\ UNCHANGED <<mine, asked>>
    <3>1. CASE Forward(c)
      BY <3>1 DEF Forward
    <3>2. CASE Answer(c)
      <4>1. UNCHANGED <<mine, asked>>
        BY <3>2 DEF Answer
      <4> QED
        BY <3>2, <4>1, AnswerMoves
    <3> QED
      BY <1>6, <3>1, <3>2
  <2>2. out'[d] = out[d]
    BY <2>1, Writes
  <2> QED
    BY <2>1, <2>2
<1> QED
  BY <1>1, <1>2, <1>3, <1>4, <1>5, <1>6 DEF Step

\* The steps of a request up to the result of the module manager.
LEMMA OwnProcess ==
  ASSUME TypeInv, NEW c \in Chans, Known(c), Written(c),
         \/ CheckLoaded(c) \/ Load(c) \/ Scan(c) \/ PendingTest(c) \/ PendingClear(c)
         \/ Mark(c)
  PROVE  Known(c)' /\ Written(c)'
<1> USE DEF TypeInv, TypeOK, Goto, mgr, mine
<1>1. /\ UNCHANGED <<req, rlen, bProcess, cp, by, given, out>>
      /\ pc[c] \in InProcess /\ pc'[c] \in InProcess \cup {"answer"}
  BY DEF CheckLoaded, Load, Scan, Scanned, PendingTest, PendingClear, Mark, InProcess
<1>2. Asks(c)
  BY <1>1 DEF Known
<1>3. /\ pc'[c] \in {"pend", "pcall", "clear"} => Kind[c] = "diag"
      /\ pc'[c] \in {"scan", "call"} => Kind[c] \in {"diag", "at", "wcn_at"}
  <2>1. CASE CheckLoaded(c) \/ Load(c) \/ Mark(c)
    BY <2>1 DEF CheckLoaded, Load, Mark
  <2>2. CASE Scan(c)
    BY <1>2, <2>2 DEF Scan, Scanned, IsDiag, Known, InProcess, Asks
  <2>3. CASE PendingTest(c) \/ PendingClear(c)
    BY <2>3 DEF PendingTest, PendingClear, Known
  <2> QED
    BY <2>1, <2>2, <2>3
<1>4. /\ pc'[c] = "pcall" => ~bProcess[c]
      /\ pc'[c] \in InProcess \ {"mark"} => pc[c] # "mark"
      /\ pc'[c] \in {"check", "load", "scan", "call"} => pc[c] \in {"check", "load", "scan"}
  BY DEF CheckLoaded, Load, Scan, Scanned, PendingTest, PendingClear, Mark, InProcess
<1>5. Known(c)'
  BY <1>1, <1>2, <1>3, <1>4 DEF Known, Asks
<1>6. Written(c)'
  BY <1>1 DEF Written, InProcess
<1> QED
  BY <1>5, <1>6

\* A callback is called and its result goes on with the request.
LEMMA OwnCall ==
  ASSUME TypeInv, NEW c \in Chans, Known(c), Written(c), Call(c) \/ PendingCall(c)
  PROVE  Known(c)' /\ Written(c)'
<1> USE DEF TypeInv, TypeOK, Goto, mgr, mine
<1>0. NoMod \notin Mods /\ AlsoCp \subseteq Mods
  BY DispatchAssumption
<1>1. CASE Call(c)
  <2> DEFINE m == list[pos[c]]
  <2>1. /\ pc[c] = "call" /\ UNCHANGED <<given, out>> /\ out[c] = Nothing
        /\ pc'[c] \in {"scan", "pend", "mark"} /\ m \in Mods
    BY <1>1 DEF Call, Scanned, Written, InProcess
  <2>2. Asks(c) /\ Kind[c] \in {"diag", "at", "wcn_at"} /\ (pc'[c] = "pend" => Kind[c] = "diag")
    BY <1>1, <2>1 DEF Call, Scanned, Known, IsDiag, InProcess
  <2>3. Written(c)'
    BY <2>1 DEF Written, InProcess
  <2>4. Known(c)'
    <3>0. by[c] = NoMod /\ given[c] = NoMod /\ given'[c] = NoMod
      BY <2>1 DEF Known, InProcess
    <3>1. CASE UNCHANGED <<rlen, bProcess, cp, by>>
      BY <2>1, <2>2, <3>1, <3>0 DEF Known, Asks
    <3>2. CASE rlen' = [rlen EXCEPT ![c] = "unsup"] /\ UNCHANGED <<bProcess, cp, by>>
      BY <2>1, <2>2, <3>2, <3>0 DEF Known, Asks
    <3>3. CASE /\ \E r \in Results[m] \ {"unsup"} : rlen' = [rlen EXCEPT ![c] = r]
               /\ bProcess' = [bProcess EXCEPT ![c] = TRUE]
               /\ cp' = [cp EXCEPT ![c] = m \in AlsoCp]
               /\ by' = [by EXCEPT ![c] = m]
               /\ Scanned(c)
      <4>1. rlen'[c] # "unsup" /\ by'[c] = m /\ by'[c] # NoMod
        BY <1>0, <2>1, <3>3
      <4>2. bProcess'[c] /\ (cp'[c] <=> m \in AlsoCp)
        BY <3>3
      <4> QED
        <5>1. pc'[c] \in {"pend", "mark"}
          BY <3>3 DEF Scanned
        <5> QED
          BY <2>1, <2>2, <3>3, <3>0, <4>1, <4>2, <5>1 DEF Known, Asks
    <3> QED
      BY <1>1, <3>1, <3>2, <3>3 DEF Call
  <2> QED
    BY <2>3, <2>4
<1>2. CASE PendingCall(c)
  <2>1. pc[c] = "pcall" /\ UNCHANGED <<bProcess, cp, by, out>> /\ out[c] = Nothing
    BY <1>2 DEF PendingCall, Written, InProcess
  <2>2. CASE pc' = [d \in Chans |-> "crash"] /\ UNCHANGED <<rlen, given>>
    BY <2>1, <2>2 DEF Known, Written, InProcess
  <2>3. CASE /\ pendingCB \in Mods /\ given' = [given EXCEPT ![c] = pendingCB]
             /\ Goto(c, "mark")
    <3>1. given'[c] # NoMod /\ pc'[c] = "mark"
      BY <1>0, <2>3
    <3>2. by[c] = NoMod /\ Kind[c] = "diag" /\ Asks(c)
      BY <2>1 DEF Known, InProcess
    <3> QED
      BY <2>1, <3>1, <3>2 DEF Known, Written, InProcess, Asks
  <2> QED
    BY <1>2, <2>2, <2>3 DEF PendingCall
<1> QED
  BY <1>1, <1>2

\* trans() writes what the result of process() says.
LEMMA OwnAnswer ==
  ASSUME TypeInv, NEW c \in Chans, Known(c), Written(c), Answer(c) \/ Forward(c)
  PROVE  Known(c)' /\ Written(c)' /\ Ended(c)'
<1> USE DEF TypeInv, TypeOK, mine
<1>1. UNCHANGED <<req, rlen, bProcess, cp, by, given>> /\ pc[c] \in {"answer", "forward"}
  BY DEF Answer, Forward
<1>2. (HasAnswer(c)' <=> HasAnswer(c)) /\ Ret(c)' = Ret(c)
  BY <1>1, RetKept
<1>3. /\ \E l \in {"done", "forward"} : Goto(c, l)
      /\ pc'[c] \in {"done", "forward"}
  BY AnswerMoves DEF Forward, Goto
<1>4. Known(c)'
  BY <1>1, <1>3 DEF Known, InProcess, Asks
<1>5. NoMod \notin AlsoCp
  BY DispatchAssumption
<1>6. HasAnswer(c) => Handled(c) /\ rlen[c] # "noresp"
  BY DEF HasAnswer, Handled, Known
<1>7. rlen[c] = "noresp" => Handled(c)
  BY DEF Handled, Known
<1>8. Handled(c)' <=> Handled(c)
  BY <1>1 DEF Handled
<1>9. Nothing = [Nothing EXCEPT !.cp = 0] /\ Nothing.rsp = 0 /\ Nothing.cp = 0
  BY DEF Nothing
<1>10. CASE Answer(c) /\ Ret(c) = "NO_RESPONSE_TO_PC"
  <2>1. pc'[c] = "done" /\ out'[c] = Nothing
    BY <1>10, AnswerMoves DEF Goto, Written, Answer
  <2>2. Asks(c) /\ ~HasAnswer(c) /\ NoResponse(c)
    BY <1>10, RetValues DEF Asks
  <2>3. rlen[c] = "noresp" \/ Kind[c] = "wcn_at"
    BY <2>2 DEF NoResponse
  <2>4. Ended(c)'
    BY <1>1, <1>2, <1>7, <1>8, <1>9, <2>1, <2>2, <2>3 DEF Ended, Asks
  <2> QED
    BY <1>4, <2>1, <2>4 DEF Written, InProcess
<1>11. CASE Answer(c) /\ Ret(c) = "DEAL_SUCCESS"
  <2>1. pc'[c] = "done" /\ Write(c, "rsp") /\ out[c] = Nothing
    BY <1>11, AnswerMoves DEF Goto, Written, Answer
  <2>2. out'[c].rsp = 1 /\ out'[c].cp = 0
    BY <1>9, <2>1, WritesField
  <2>3. Asks(c) /\ HasAnswer(c) /\ ~cp[c]
    BY <1>11, RetValues DEF Asks
  <2>4. by[c] \notin AlsoCp
    BY <2>3 DEF Known
  <2>5. Ended(c)'
    BY <1>1, <1>2, <1>6, <1>8, <2>1, <2>2, <2>3, <2>4 DEF Ended, Asks
  <2> QED
    BY <1>4, <2>1, <2>5 DEF Written, InProcess
<1>12. CASE Answer(c) /\ Ret(c) = "ENCODE_TO_DEST"
  <2>1. pc'[c] = "done" /\ Write(c, "enc") /\ out[c] = Nothing
    BY <1>12, AnswerMoves DEF Goto, Written, Answer
  <2>2. ~Wrapped(c)
    BY <1>12 DEF Wrapped
  <2>3. out'[c] = [out[c] EXCEPT !["enc"] = @ + 1]
    BY <2>1, <2>2, Writes
  <2>4. out'[c] = [Nothing EXCEPT !.enc = 1]
    <3>1. Nothing["enc"] = 0
      BY DEF Nothing
    <3> QED
      BY <2>1, <2>3, <3>1, FirstWrite
  <2>5. c \in ApProcess /\ Kind[c] = "agdsp"
    BY <1>12, RetValues DEF Asks
  <2>6. Ended(c)'
    BY <2>4, <2>5 DEF Ended, Asks
  <2> QED
    BY <1>4, <2>1, <2>6 DEF Written, InProcess
<1>13. CASE Answer(c) /\ Ret(c) = "NO_DEAL"
  <2>1. pc'[c] = "forward" /\ out'[c] = Nothing
    BY <1>13, AnswerMoves DEF Goto, Written, Answer
  <2> QED
    BY <1>2, <1>4, <1>13, <2>1 DEF Written, Ended, InProcess
<1>14. CASE Answer(c) /\ Ret(c) = "ALSO_NEED_TO_CP"
  <2>1. pc'[c] = "forward" /\ Write(c, "rsp") /\ out[c] = Nothing
    BY <1>14, AnswerMoves DEF Goto, Written, Answer
  <2>2. /\ out'[c].rsp = 1 /\ out'[c].cp = 0
        /\ \A x \in DOMAIN Nothing : out'[c][x] = out[c][x] \/ out'[c][x] = out[c][x] + 1
        /\ out'[c] = [x \in DOMAIN Nothing |-> out'[c][x]]
    <3>1. out'[c].rsp = 1 /\ out'[c].cp = 0
      BY <1>9, <2>1, WritesField
    <3> QED
      BY <2>1, <3>1, Writes
  <2>3. \A x \in DOMAIN Nothing : Nothing[x] = 0
    BY DEF Nothing
  <2>4. out'[c] \in [DOMAIN Nothing -> 0 .. 1]
    BY <2>1, <2>2, <2>3
  <2> QED
    BY <1>2, <1>4, <1>14, <2>1, <2>2, <2>4 DEF Written, Ended, InProcess
<1>15. CASE Forward(c)
  <2>1. pc[c] = "forward" /\ pc'[c] = "done" /\ Written(c)'
    BY <1>15 DEF Forward, Goto, Written, InProcess
  <2>2. CASE Ret(c) = "NO_DEAL"
    <3>1. out[c] = Nothing /\ ~Wrapped(c)
      BY <2>1, <2>2 DEF Written, Wrapped
    <3>2. out'[c] = [Nothing EXCEPT !.cp = Fwd(c)]
      <4>1. CASE c \in DstLoop
        BY <1>9, <1>15, <3>1, <4>1 DEF Forward, Fwd
      <4>2. CASE c \notin DstLoop
        <5>1. Write(c, "cp")
          BY <1>15, <4>2 DEF Forward
        <5>2. out'[c] = [out[c] EXCEPT !["cp"] = @ + 1]
          BY <3>1, <5>1, Writes
        <5> QED
          <6>1. Nothing["cp"] = 0
            BY DEF Nothing
          <6> QED
            BY <3>1, <4>2, <5>2, <6>1, FirstWrite DEF Fwd
      <4> QED
        BY <4>1, <4>2
    <3>3. Asks(c) => ~HasAnswer(c) /\ ~NoResponse(c)
      BY <2>2, RetValues
    <3>4. Asks(c) => rlen[c] # "noresp" /\ Kind[c] # "wcn_at"
      BY <3>3 DEF NoResponse
    <3>5. ~(c \in ApProcess /\ Kind[c] = "agdsp")
      BY <2>2, RetValues
    <3>6. Ended(c)'
      BY <1>1, <1>2, <3>2, <3>3, <3>4, <3>5 DEF Ended, Asks
    <3> QED
      BY <1>4, <2>1, <3>6
  <2>3. CASE Ret(c) = "ALSO_NEED_TO_CP"
    <3>1. out[c].rsp = 1 /\ out[c].cp = 0
      BY <2>1, <2>3 DEF Written
    <3>2. out'[c].rsp = 1 /\ out'[c].cp = Fwd(c)
      <4>1. CASE c \in DstLoop
        BY <1>15, <3>1, <4>1 DEF Forward, Fwd
      <4>2. CASE c \notin DstLoop
        BY <1>15, <3>1, <4>2, WritesField DEF Forward, Fwd
      <4> QED
        BY <4>1, <4>2
    <3>3. Asks(c) /\ HasAnswer(c) /\ cp[c]
      BY <2>3, RetValues DEF Asks
    <3>4. by[c] \in AlsoCp
      BY <3>3 DEF Known
    <3>5. Ended(c)'
      BY <1>1, <1>2, <1>6, <1>8, <3>2, <3>3, <3>4 DEF Ended, Asks
    <3> QED
      BY <1>4, <2>1, <3>5
  <2> QED
    BY <2>1, <2>2, <2>3 DEF Written
<1> QED
  BY <1>10, <1>11, <1>12, <1>13, <1>14, <1>15, AnswerMoves

\* Every step of every thread keeps what is known of every request.
LEMMA OwnStep ==
  ASSUME TypeInv, OwnInv, [Next]_vars
  PROVE  OwnInv'
<1>1. ASSUME NEW c \in Chans, Step(c) \/ \E q \in Requests : Request(c, q)
      PROVE  OwnInv'
  <2>1. \A d \in Chans : Known(d) /\ Written(d) /\ Ended(d)
    BY DEF OwnInv
  <2>2. ASSUME NEW d \in Chans \ {c}
        PROVE  Known(d)' /\ Written(d)' /\ Ended(d)'
    <3>1. CASE /\ PendingCall(c) /\ pc' = [e \in Chans |-> "crash"]
               /\ UNCHANGED <<rlen, given, bProcess, cp, by>>
      BY <2>1, <3>1 DEF Known, Written, Ended, InProcess
    <3>2. CASE /\ pc'[d] = pc[d] /\ req'[d] = req[d] /\ rlen'[d] = rlen[d]
               /\ bProcess'[d] = bProcess[d] /\ cp'[d] = cp[d] /\ by'[d] = by[d]
               /\ given'[d] = given[d] /\ out'[d] = out[d]
      BY <2>1, <3>2, OwnKept
    <3> QED
      BY <1>1, <3>1, <3>2, OthersKept
  <2>3. Known(c)' /\ Written(c)' /\ Ended(c)'
    <3>1. CASE Answer(c) \/ Forward(c)
      BY <2>1, <3>1, OwnAnswer
    <3>2. CASE Call(c) \/ PendingCall(c)
      <4>1. pc'[c] # "done"
        BY <3>2 DEF Call, PendingCall, Scanned, Goto, TypeInv, TypeOK
      <4> QED
        BY <2>1, <3>2, <4>1, OwnCall DEF Ended
    <3>3. CASE \/ CheckLoaded(c) \/ Load(c) \/ Scan(c) \/ PendingTest(c) \/ PendingClear(c)
               \/ Mark(c)
      <4>1. pc'[c] # "done"
        BY <3>3 DEF CheckLoaded, Load, Scan, Scanned, PendingTest, PendingClear, Mark, Goto,
                    TypeInv, TypeOK
      <4> QED
        BY <2>1, <3>3, <4>1, OwnProcess DEF Ended
    <3>4. CASE Done(c)
      BY <2>1, <3>4 DEF Done, Goto, TypeInv, TypeOK, mine, Known, Written, Ended, InProcess, Asks
    <3>5. ASSUME NEW q \in Requests, Request(c, q)
          PROVE  Known(c)' /\ Written(c)' /\ Ended(c)'
      <4>1. /\ rlen'[c] = "none" /\ by'[c] = NoMod /\ given'[c] = NoMod
            /\ out'[c] = Nothing
            /\ pc'[c] = IF Asks(c) THEN "check" ELSE "answer"
        BY <3>5 DEF Request, Goto, TypeInv, TypeOK, Asks
      <4>2. bProcess'[c] = FALSE /\ cp'[c] = FALSE
        BY <3>5 DEF Request, TypeInv, TypeOK
      <4>3. NoMod \notin AlsoCp
        BY DispatchAssumption
      <4> QED
        BY <4>1, <4>2, <4>3 DEF Known, Written, Ended, InProcess, Asks
    <3> QED
      BY <1>1, <3>1, <3>2, <3>3, <3>4, <3>5 DEF Step
  <2> QED
    BY <2>2, <2>3 DEF OwnInv
<1>2. CASE UNCHANGED vars
  BY <1>2, OwnKept DEF OwnInv, vars, mine
<1> QED
  BY <1>1, <1>2 DEF Next

\* Nothing is under way at the start.
LEMMA OwnInit == Init => TypeInv /\ OwnInv
<1> SUFFICES ASSUME Init
             PROVE  TypeInv /\ OwnInv
  OBVIOUS
<1>1. /\ Internal \in Seq(Mods) /\ NoMod \notin AlsoCp
      /\ \A w \in Worlds : w.maxReqs \in Nat
  BY DispatchAssumption
<1>2. out \in [Chans -> [DOMAIN Nothing -> 0 .. 2]]
  <2>1. Nothing \in [DOMAIN Nothing -> 0 .. 2]
    BY DEF Nothing
  <2>2. out = [c \in Chans |-> Nothing]
    BY DEF Init
  <2> QED
    BY <2>1, <2>2
<1>3. req \in [Chans -> Requests] /\ rlen \in [Chans -> AllResults]
  BY DEF Init, Requests, AllResults
<1>4. bProcess \in [Chans -> BOOLEAN] /\ cp \in [Chans -> BOOLEAN] /\ isLoaded \in BOOLEAN
  BY DEF Init
<1>5. nReq \in 0 .. world.maxReqs
  <2>1. nReq = 0 /\ world \in Worlds
    BY DEF Init
  <2> QED
    BY <1>1, <2>1
<1>6. pos \in [Chans -> Nat \ {0}]
  <2>1. pos = [c \in Chans |-> 1]
    BY DEF Init
  <2> QED
    BY <2>1
<1>7. TypeInv
  BY <1>1, <1>2, <1>3, <1>4, <1>5, <1>6 DEF Init, TypeInv, TypeOK
<1>8. ASSUME NEW c \in Chans
      PROVE  Known(c) /\ Written(c) /\ Ended(c)
  <2>1. pc[c] = "idle" /\ by[c] = NoMod /\ given[c] = NoMod /\ rlen[c] = "none"
    BY DEF Init
  <2>2. bProcess[c] = FALSE /\ cp[c] = FALSE
    BY DEF Init
  <2> QED
    BY <1>1, <2>1, <2>2 DEF Known, Written, Ended, InProcess
<1> QED
  BY <1>7, <1>8 DEF OwnInv

\* However the threads race for the list of callbacks, the current and the
\* pending callback, every variable has its type and every search stays
\* inside the list.
THEOREM TypeCorrect == Spec => []TypeOK
<1>1. TypeInv => TypeOK
  BY DEF TypeInv
<1>2. TypeInv /\ OwnInv /\ [Next]_vars => (TypeInv /\ OwnInv)'
  BY TypeStep, OwnStep
<1> QED
  BY <1>1, <1>2, OwnInit, PTL DEF Spec

\* For any callbacks, any channels and any number of requests that race in
\* the module manager, every request ends in exactly one of the ways that
\* Disposed lists.
THEOREM EveryRequestDisposed == Spec => []Disposed
<1>1. TypeInv /\ OwnInv => Disposed
  <2> SUFFICES ASSUME TypeInv, OwnInv, NEW c \in Chans, pc[c] = "done"
               PROVE  LET o   == out[c]
                          fwd == IF c \in DstLoop THEN 0 ELSE 1
                          m   == IF by[c] # NoMod THEN by[c] ELSE given[c]
                      IN  CASE c \notin ApProcess -> o = [Nothing EXCEPT !.cp = fwd]
                            [] c \in ApProcess /\ Kind[c] = "agdsp" ->
                                 o = [Nothing EXCEPT !.enc = 1]
                            [] OTHER ->
                                 IF m # NoMod /\ HasAnswer(c)
                                   THEN /\ o.rsp = 1
                                        /\ o.cp = (IF by[c] \in AlsoCp THEN fwd ELSE 0)
                                 ELSE IF m # NoMod /\ rlen[c] = "noresp" THEN o = Nothing
                                 ELSE o = [Nothing EXCEPT
                                             !.cp = IF Kind[c] = "wcn_at" THEN 0 ELSE fwd]
    BY DEF Disposed
  <2>1. Ended(c)
    BY DEF OwnInv
  <2>2. CASE c \notin ApProcess
    BY <2>1, <2>2 DEF Ended, Fwd
  <2>3. CASE c \in ApProcess /\ Kind[c] = "agdsp"
    BY <2>1, <2>3 DEF Ended
  <2>4. CASE c \in ApProcess /\ Kind[c] # "agdsp"
    BY <2>1, <2>4 DEF Ended, Fwd, Handled, Asks
  <2> QED
    BY <2>2, <2>3, <2>4
<1>2. TypeInv /\ OwnInv /\ [Next]_vars => (TypeInv /\ OwnInv)'
  BY TypeStep, OwnStep
<1> QED
  BY <1>1, <1>2, OwnInit, PTL DEF Spec

-----------------------------------------------------------------------------
(* The pending mark *)

\* Callbacks that the pending mark may hold.
Callable == {m \in Mods \ NoFunc : AtCmd[m] # ""}

\* Between exchanges the mark names the callback that the only diag channel
\* has seen ask.
MarkChan(c) ==
  /\ pc[c] # "crash"
  /\ asked[c] \in Callable \cup {NoMod}
  /\ pc[c] \notin {"clear", "mark"} => pendingCB = asked[c]
  /\ pc[c] = "pcall" => pendingCB # NoMod /\ req[c].type = "data"
  /\ req[c].type = "data" => by[c] = NoMod
  /\ pc[c] = "clear" /\ req[c].type = "data" => asked[c] = NoMod
  /\ pc[c] = "mark" /\ IsDiag(c) /\ req[c].type = "data" => given[c] = asked[c]
  /\ given[c] # NoMod => rlen[c] # "pend"
  /\ pc[c] = "call" /\ IsDiag(c) => curCB = list[pos[c]]
  /\ by[c] # NoMod /\ DiagAT(c) =>
       /\ by[c] \in Callable
       /\ pc[c] \in {"pend", "clear", "mark"} => curCB = by[c]
  /\ Kind[c] # "diag" => asked[c] = NoMod

MarkInv ==
  OneDiag /\ ~world.again =>
    /\ \A c \in Chans \ world.chans : pc[c] = "idle"
    /\ \A c \in world.chans : IsDiag(c) => MarkChan(c)

\* The world a behaviour is about does not change.
LEMMA WorldFixed == [Next]_vars => UNCHANGED world
<1> SUFFICES ASSUME [Next]_vars
             PROVE  UNCHANGED world
  OBVIOUS
<1>1. ASSUME NEW c \in Chans, Step(c)
      PROVE  UNCHANGED world
  BY <1>1 DEF Step, CheckLoaded, Load, Scan, Call, PendingTest, PendingCall, PendingClear,
              Mark, Answer, Forward, Done
<1> QED
  BY <1>1 DEF Next, Request, vars

\* The steps of the only diag channel, the crash excluded.
LEMMA MarkMoves ==
  ASSUME TypeInv, OwnInv, ~world.again, NEW c \in Chans, IsDiag(c), MarkChan(c),
         Step(c) \/ \E q \in Requests : Request(c, q)
  PROVE  MarkChan(c)' /\ \A d \in Chans \ {c} : pc'[d] = pc[d]
<1> USE DEF TypeInv, TypeOK, Goto, mgr, mine
<1>1. Known(c)
  BY DEF OwnInv
<1>2. NoMod \notin Mods /\ "" \notin AtCmds
  BY DispatchAssumption
<1>3. pc[c] = "pcall" => pendingCB \in Callable
  BY DEF MarkChan
<1>4. ~(pc' = [e \in Chans |-> "crash"])
  <2>1. pc'[c] # "crash"
    <3>1. CASE PendingCall(c)
      BY <1>3, <3>1 DEF PendingCall, Callable
    <3>2. CASE Answer(c)
      BY <3>2, AnswerMoves
    <3>3. CASE \E q \in Requests : Request(c, q)
      BY <3>3 DEF Request
    <3>4. CASE \/ CheckLoaded(c) \/ Load(c) \/ Scan(c) \/ Call(c) \/ PendingTest(c)
               \/ PendingClear(c) \/ Mark(c) \/ Forward(c) \/ Done(c)
      BY <3>4 DEF MarkChan, CheckLoaded, Load, Scan, Scanned, Call, PendingTest,
                  PendingClear, Mark, Forward, Done
    <3> QED
      BY <3>1, <3>2, <3>3, <3>4 DEF Step
  <2> QED
    BY <2>1
<1>5. \A d \in Chans \ {c} : pc'[d] = pc[d]
  BY <1>4, OthersKept
<1>6. CASE \E q \in Requests : Request(c, q)
  <2>1. PICK q \in Requests : Request(c, q)
    BY <1>6
  <2>2. /\ pc[c] = "idle" /\ pc'[c] \in {"check", "answer"} /\ UNCHANGED <<pendingCB, asked>>
        /\ by'[c] = NoMod /\ given'[c] = NoMod
    BY <2>1 DEF Request
  <2> QED
    BY <1>5, <2>2 DEF MarkChan, InProcess
<1>7. CASE CheckLoaded(c) \/ Load(c)
  <2>1. /\ pc[c] \in {"check", "load"} /\ pc'[c] \in {"load", "scan", "mark"}
        /\ UNCHANGED <<pendingCB, asked, by, given, req, rlen>>
        /\ pc'[c] = "mark" => Kind[c] \notin {"diag", "at", "wcn_at"}
    BY <1>7 DEF CheckLoaded, Load
  <2>2. by[c] = NoMod /\ given[c] = NoMod
    BY <1>1, <2>1 DEF Known, InProcess
  <2>3. pc'[c] = "mark" /\ IsDiag(c) => asked[c] = NoMod
    BY <2>1 DEF MarkChan
  <2> QED
    BY <1>5, <2>1, <2>2, <2>3 DEF MarkChan, DiagAT, InProcess
<1>8. CASE Scan(c)
  <2>1. /\ pc[c] = "scan" /\ pc'[c] \in {"pend", "mark", "call"}
        /\ UNCHANGED <<pendingCB, asked, by, given, req, rlen, list, pos>>
        /\ pc'[c] = "mark" => ~IsDiag(c)
        /\ pc'[c] = "call" /\ IsDiag(c) => curCB' = list[pos[c]]
    BY <1>8 DEF Scan, Scanned
  <2>2. by[c] = NoMod /\ given[c] = NoMod
    BY <1>1, <2>1 DEF Known, InProcess
  <2> QED
    BY <1>5, <2>1, <2>2 DEF MarkChan, DiagAT
<1>9. CASE Call(c)
  <2> DEFINE m == list[pos[c]]
  <2>1. /\ pc[c] = "call" /\ pc'[c] \in {"scan", "pend", "mark"} /\ m \in Mods
        /\ UNCHANGED <<pendingCB, curCB, asked, given, req, list>>
        /\ pc'[c] = "mark" => ~IsDiag(c)
    BY <1>9 DEF Call, Scanned
  <2>2. by[c] = NoMod /\ given[c] = NoMod /\ given'[c] = NoMod
    BY <1>1, <2>1 DEF Known, InProcess
  <2>3. \/ by'[c] = NoMod
        \/ by'[c] = m /\ Matches(c, m) /\ m \notin NoFunc
    BY <1>9, <2>2 DEF Call
  <2>4. by'[c] # NoMod => req[c].type # "data"
    BY <2>3 DEF Matches
  <2>5. by'[c] # NoMod /\ DiagAT(c) => by'[c] \in Callable /\ curCB = by'[c]
    <3> SUFFICES ASSUME by'[c] # NoMod, DiagAT(c)
                 PROVE  by'[c] \in Callable /\ curCB = by'[c]
      OBVIOUS
    <3>1. req[c].type = "at" /\ AtCmd[m] = req[c].cmd
      BY <2>3 DEF Matches, DiagAT
    <3>2. req[c].cmd \in AtCmds
      <4>1. req[c] \in [type : {"at"}, cmd : AtCmds] \cup [type : {"diag"}, cmd : DiagCmds]
                        \cup {[type |-> "data", cmd |-> ""]}
        BY DEF Requests
      <4>2. CASE req[c] \in [type : {"at"}, cmd : AtCmds]
        BY <4>2
      <4>3. CASE req[c] \in [type : {"diag"}, cmd : DiagCmds]
        BY <3>1, <4>3
      <4>4. CASE req[c] = [type |-> "data", cmd |-> ""]
        <5>1. [type |-> "data", cmd |-> ""].type = "data"
          OBVIOUS
        <5>2. req[c].type = "data"
          BY <4>4, <5>1, Zenon
        <5> QED
          BY <3>1, <5>2
      <4> QED
        BY <4>1, <4>2, <4>3, <4>4
    <3>3. AtCmd[m] # ""
      BY <1>2, <3>1, <3>2
    <3> QED
      BY <2>1, <2>3, <3>3 DEF Callable, MarkChan, DiagAT
  <2>6. DiagAT(c)' <=> DiagAT(c)
    BY <2>1 DEF DiagAT
  <2> QED
    BY <1>5, <2>1, <2>2, <2>4, <2>5, <2>6 DEF MarkChan
<1>10. CASE PendingTest(c)
  <2>1. /\ pc[c] = "pend" /\ pc'[c] \in {"pcall", "clear"}
        /\ UNCHANGED <<pendingCB, curCB, asked, by, given, req, rlen>>
        /\ pc'[c] = "pcall" => pendingCB # NoMod /\ req[c].type = "data"
        /\ pc'[c] = "clear" => bProcess[c] \/ pendingCB = NoMod \/ req[c].type # "data"
    BY <1>10 DEF PendingTest
  <2>2. req[c].type = "data" => ~bProcess[c]
    BY <1>1 DEF MarkChan, Known
  <2>3. pendingCB = asked[c]
    BY <2>1 DEF MarkChan
  <2>4. DiagAT(c)' <=> DiagAT(c)
    BY <2>1 DEF DiagAT
  <2> QED
    BY <1>5, <2>1, <2>2, <2>3, <2>4 DEF MarkChan
<1>11. CASE PendingCall(c)
  <2>1. /\ pc[c] = "pcall" /\ UNCHANGED <<pendingCB, curCB, asked, by, req>>
        /\ given'[c] = pendingCB /\ pc'[c] = "mark" /\ rlen'[c] # "pend"
    BY <1>3, <1>11 DEF PendingCall, Callable
  <2>2. pendingCB = asked[c] /\ by[c] = NoMod
    BY <2>1 DEF MarkChan
  <2> QED
    BY <1>5, <2>1, <2>2 DEF MarkChan
<1>12. CASE PendingClear(c)
  <2>1. /\ pc[c] = "clear" /\ pc'[c] = "mark" /\ pendingCB' = NoMod
        /\ UNCHANGED <<curCB, asked, by, given, req, rlen>>
    BY <1>12 DEF PendingClear
  <2>2. given[c] = NoMod
    BY <1>1, <2>1 DEF Known, InProcess
  <2>3. DiagAT(c)' <=> DiagAT(c)
    BY <2>1 DEF DiagAT
  <2> QED
    BY <1>5, <2>1, <2>2, <2>3 DEF MarkChan
<1>13. CASE Mark(c)
  <2>1. pc[c] = "mark" /\ pc'[c] = "answer" /\ UNCHANGED <<curCB, by, given, req, rlen>>
    BY <1>13 DEF Mark
  <2>2. DiagAT(c)' <=> DiagAT(c)
    BY <2>1 DEF DiagAT
  <2>3. CASE DiagAT(c) /\ rlen[c] = "pend"
    <3>1. given[c] = NoMod /\ by[c] # NoMod
      BY <1>1, <2>3 DEF MarkChan, Known
    <3>2. by[c] \in Callable /\ curCB = by[c] /\ Kind[c] = "diag"
      BY <1>1, <2>1, <2>3, <3>1 DEF MarkChan, Known, DiagAT, IsDiag
    <3>3. pendingCB' = by[c] /\ asked'[c] = by[c]
      BY <1>13, <2>3, <3>1, <3>2 DEF Mark
    <3> QED
      BY <1>5, <2>1, <2>2, <2>3, <3>1, <3>2, <3>3 DEF MarkChan, DiagAT
  <2>4. CASE ~(DiagAT(c) /\ rlen[c] = "pend")
    <3>1. asked'[c] = NoMod /\ pendingCB' = IF IsDiag(c) THEN NoMod ELSE pendingCB
      BY <1>13, <2>4 DEF Mark
    <3>2. pendingCB' = NoMod
      BY <3>1 DEF MarkChan
    <3> QED
      BY <1>5, <2>1, <2>2, <3>1, <3>2 DEF MarkChan
  <2> QED
    BY <2>3, <2>4
<1>14. CASE Answer(c) \/ Forward(c) \/ Done(c)
  <2>1. /\ pc[c] \in {"answer", "forward", "done"}
        /\ UNCHANGED <<pendingCB, curCB, asked, by, given, req, rlen>>
    BY <1>14 DEF Answer, Forward, Done
  <2>2. pc'[c] \in {"forward", "done", "idle"}
    <3>1. CASE Answer(c)
      BY <3>1, AnswerMoves
    <3>2. CASE Forward(c) \/ Done(c)
      BY <3>2 DEF Forward, Done
    <3> QED
      BY <1>14, <3>1, <3>2
  <2>3. DiagAT(c)' <=> DiagAT(c)
    BY <2>1 DEF DiagAT
  <2> QED
    BY <1>5, <2>1, <2>2, <2>3 DEF MarkChan
<1> QED
  BY <1>6, <1>7, <1>8, <1>9, <1>10, <1>11, <1>12, <1>13, <1>14 DEF Step

\* The steps of the other channels, which may extend the list.
LEMMA OthersMove ==
  ASSUME TypeInv, OwnInv, NEW c \in Chans, MarkChan(c),
         NEW d \in Chans \ {c}, ~IsDiag(d),
         Step(d) \/ \E q \in Requests : Request(d, q)
  PROVE  MarkChan(c)' /\ \A e \in Chans \ {d} : pc'[e] = pc[e]
<1> USE DEF TypeInv, TypeOK, Goto, mgr, mine
<1>1. Known(d) /\ Kind[d] # "diag"
  BY DEF OwnInv, IsDiag
<1>2. ~PendingTest(d) /\ ~PendingCall(d) /\ ~PendingClear(d)
  BY <1>1 DEF Known, PendingTest, PendingCall, PendingClear
<1>3. ASSUME NEW e \in Chans \ {d}
      PROVE  /\ pc'[e] = pc[e] /\ req'[e] = req[e] /\ rlen'[e] = rlen[e]
             /\ by'[e] = by[e] /\ given'[e] = given[e] /\ asked'[e] = asked[e]
  BY <1>2, OthersKept
<1>4. UNCHANGED <<pendingCB, curCB>> /\ pos'[c] = pos[c]
  BY <1>2 DEF Step, CheckLoaded, Load, Scan, Call, Mark, Answer, Forward, Done, Request,
              DiagAT, IsDiag
<1>5. pc[c] = "call" => list'[pos[c]] = list[pos[c]]
  <2>1. CASE Load(d)
    <3>1. list \in Seq(Mods) /\ Dynamic \in Seq(Mods)
      BY DispatchAssumption
    <3>2. CASE pos[d] <= Len(Dynamic)
      <4>1. Dynamic[pos[d]] \in Mods
        BY <3>1, <3>2
      <4>2. list' = Append(list, Dynamic[pos[d]])
        BY <2>1, <3>2 DEF Load
      <4>3. pc[c] = "call" => pos[c] \in 1 .. Len(list)
        BY <3>1
      <4> QED
        BY <3>1, <4>1, <4>2, <4>3
    <3>3. CASE ~(pos[d] <= Len(Dynamic))
      BY <2>1, <3>3 DEF Load
    <3> QED
      BY <3>2, <3>3
  <2>2. CASE ~Load(d)
    BY <1>2, <2>2 DEF Step, CheckLoaded, Scan, Call, Mark, Answer, Forward, Done, Request
  <2> QED
    BY <2>1, <2>2
<1>6. DiagAT(c)' <=> DiagAT(c)
  BY <1>3 DEF DiagAT
<1> QED
  BY <1>3, <1>4, <1>5, <1>6 DEF MarkChan

\* A channel that does not run stays idle, the diag channel keeps the mark.
LEMMA MarkStep ==
  ASSUME TypeInv, OwnInv, MarkInv, [Next]_vars
  PROVE  MarkInv'
<1> SUFFICES ASSUME OneDiag', ~world'.again
             PROVE  MarkInv'
  BY DEF MarkInv
<1>1. UNCHANGED world
  BY WorldFixed
<1>2. OneDiag /\ ~world.again
  BY <1>1 DEF OneDiag
<1>3. /\ \A c \in Chans \ world.chans : pc[c] = "idle"
      /\ \A c \in world.chans : IsDiag(c) => MarkChan(c)
  BY <1>2 DEF MarkInv
<1>4. world.chans \subseteq Chans
  BY DispatchAssumption DEF TypeInv, TypeOK
<1>5. ASSUME NEW c \in Chans, Step(c) \/ \E q \in Requests : Request(c, q)
      PROVE  MarkInv'
  <2>1. c \in world.chans
    <3>1. CASE Step(c)
      <4>1. pc[c] # "idle"
        BY <3>1 DEF Step, CheckLoaded, Load, Scan, Call, PendingTest, PendingCall,
                    PendingClear, Mark, Answer, Forward, Done
      <4> QED
        BY <1>3, <4>1
    <3>2. CASE \E q \in Requests : Request(c, q)
      BY <3>2 DEF Request
    <3> QED
      BY <1>5, <3>1, <3>2
  <2>2. CASE IsDiag(c)
    <3>1. MarkChan(c)' /\ \A d \in Chans \ {c} : pc'[d] = pc[d]
      BY <1>2, <1>3, <1>5, <2>1, <2>2, MarkMoves
    <3>2. \A d \in world.chans : IsDiag(d) => d = c
      BY <1>2, <2>1, <2>2 DEF OneDiag
    <3> QED
      BY <1>1, <1>3, <2>1, <3>1, <3>2 DEF MarkInv, IsDiag
  <2>3. CASE ~IsDiag(c)
    <3>1. ASSUME NEW d \in world.chans, IsDiag(d)
          PROVE  MarkChan(d)'
      <4>1. d \in Chans /\ c \in Chans \ {d} /\ MarkChan(d)
        BY <1>3, <1>4, <2>3, <3>1
      <4> QED
        BY <1>5, <2>3, <4>1, OthersMove
    <3>2. \A e \in Chans \ {c} : pc'[e] = pc[e]
      <4>1. Kind[c] # "diag" /\ Known(c)
        BY <2>3 DEF IsDiag, OwnInv
      <4>2. ~PendingCall(c)
        BY <4>1 DEF Known, PendingCall
      <4> QED
        BY <1>5, <4>2, OthersKept
    <3> QED
      BY <1>1, <1>3, <2>1, <3>1, <3>2 DEF MarkInv, IsDiag
  <2> QED
    BY <2>2, <2>3
<1>7. CASE UNCHANGED vars
  BY <1>1, <1>3, <1>7 DEF vars, mgr, mine, MarkInv, MarkChan, DiagAT
<1> QED
  BY <1>5, <1>7 DEF Next

\* Nobody has asked for data at the start.
LEMMA MarkInit == Init => MarkInv
<1> SUFFICES ASSUME Init, NEW c \in world.chans
             PROVE  (\A d \in Chans : pc[d] = "idle") /\ MarkChan(c)
  BY DEF MarkInv, Init
<1>1. c \in Chans
  BY DispatchAssumption DEF Init
<1>2. /\ pc[c] = "idle" /\ asked[c] = NoMod /\ by[c] = NoMod /\ given[c] = NoMod
      /\ pendingCB = NoMod /\ \A d \in Chans : pc[d] = "idle"
  BY <1>1 DEF Init
<1> QED
  BY <1>2 DEF MarkChan

\* The three invariants together.
LEMMA MarkHolds == Spec => [](TypeInv /\ OwnInv /\ MarkInv)
<1>1. TypeInv /\ OwnInv /\ MarkInv /\ [Next]_vars => (TypeInv /\ OwnInv /\ MarkInv)'
  BY TypeStep, OwnStep, MarkStep
<1> QED
  BY <1>1, OwnInit, MarkInit, PTL DEF Spec

\* For the only diag channel, any other channels beside it and any callbacks
\* that do not ask for data while they are given data, the data goes to the
\* callback that asked for it.  (The condition on the callbacks is needed:
\* disp_again shows what happens without it.)
THEOREM DataToOwner == Spec => [](~world.again => PendingToOwner)
<1>1. TypeInv /\ MarkInv => (~world.again => PendingToOwner)
  <2> SUFFICES ASSUME TypeInv, MarkInv, ~world.again, OneDiag, NEW c \in Chans,
                      pc[c] \in {"mark", "crash"}, IsDiag(c), req[c].type = "data"
               PROVE  given[c] = asked[c]
    BY DEF PendingToOwner
  <2>1. c \in world.chans /\ MarkChan(c)
    BY DEF MarkInv
  <2> QED
    BY <2>1 DEF MarkChan
<1> QED
  BY <1>1, MarkHolds, PTL
=============================================================================
