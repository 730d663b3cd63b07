--------------------------- MODULE TimeSyncProof ----------------------------
(***************************************************************************)
(* Proofs about TimeSync for any number of connections and messages: the   *)
(* time stamps sent to the PC are never more than the resets that were     *)
(* noticed, and until the connection in the first slot is lost the array   *)
(* fds and the two connections agree.                                      *)
(***************************************************************************)
EXTENDS TimeSync, FiniteSetTheorems, TLAPS

\* The resets that were noticed.
Noticed == {n \in Msgs : text[n] = "noticed"}

UsedSlots == (IF fds[0] = -1 THEN 0 ELSE 1) + (IF fds[1] = -1 THEN 0 ELSE 1)

\* total_conn never exceeds the slots in use, a message that was not sent has
\* no text, each notice has a reset of its own, and a time stamp uses up a
\* notice.
CountInv ==
  /\ total <= UsedSlots
  /\ \A n \in Msgs : n > nMsg => text[n] = "none"
  /\ notices <= Cardinality(Noticed)
  /\ toldReset <= notices /\ toldSync <= notices
  /\ resetFlag => toldSync < notices

\* add_connection() takes the first slot if it is free, else the second.
LEMMA AddConnection ==
  ASSUME TypeOK
  PROVE  add_connection = IF fds[0] = -1 THEN 0 ELSE IF fds[1] = -1 THEN 1 ELSE -1
<1> DEFINE free == {i \in Slots : fds[i] < 0}
<1> USE DEF TypeOK, Slots, FDS_SIZE, Fds
<1>0. 0 \in Slots /\ 1 \in Slots /\ \A i \in Slots : i = 0 \/ i = 1
  OBVIOUS
<1>1. CASE fds[0] = -1
  <2>1. 0 \in free /\ \A j \in free : 0 <= j
    BY <1>0, <1>1
  <2>2. \A i \in free : (\A j \in free : i <= j) => i = 0
    BY <2>1
  <2> HIDE DEF free
  <2>3. (CHOOSE i \in free : \A j \in free : i <= j) = 0
    BY <2>1, <2>2
  <2> QED
    BY <1>1, <2>1, <2>3 DEF add_connection, free
<1>2. CASE fds[0] # -1 /\ fds[1] = -1
  <2>1. free = {1}
    BY <1>0, <1>2
  <2>2. (CHOOSE i \in {1} : \A j \in {1} : i <= j) = 1
    OBVIOUS
  <2> QED
    BY <1>2, <2>1, <2>2 DEF add_connection
<1>3. CASE fds[0] # -1 /\ fds[1] # -1
  BY <1>0, <1>3 DEF add_connection
<1> QED
  BY <1>1, <1>2, <1>3

\* The texts, the fates and the messages are told apart.
LEMMA TextSets ==
  /\ Texts = {"reset", "assert", "other", "sync", "short"}
  /\ {"none", "read", "noticed", "merged", "missed"} = Fates
  BY DEF Texts, Messages, Servers, Fates

\* A set of messages is finite, and so is what is in it.
LEMMA MsgsFinite ==
  ASSUME NEW N \in SUBSET Msgs
  PROVE  /\ IsFiniteSet(N) /\ Cardinality(N) \in Nat /\ Cardinality(N) <= MaxMsgs
         /\ \A S \in SUBSET N : Cardinality(S) <= Cardinality(N)
<1>1. IsFiniteSet(Msgs) /\ Cardinality(Msgs) = MaxMsgs
  BY FS_Interval, TimeSyncAssumption DEF Msgs
<1>2. IsFiniteSet(N) /\ Cardinality(N) <= Cardinality(Msgs)
  BY <1>1, FS_Subset
<1>3. Cardinality(N) \in Nat
  BY <1>2, FS_CardinalityType
<1>4. \A S \in SUBSET N : Cardinality(S) <= Cardinality(N)
  BY <1>2, FS_Subset
<1> QED
  BY <1>1, <1>2, <1>3, <1>4

\* A reading leaves each message as it is or gives it a fate, or another text.
LEMMA ReadTexts ==
  ASSUME TypeOK, NEW s \in Servers, NEW f \in Fds, ReadFrom(s, f)
  PROVE  /\ text' \in [Msgs -> Texts \cup Fates]
         /\ \A n \in Msgs : text[n] \in Fates => text'[n] = text[n]
<1> USE TextSets DEF TypeOK
<1>1. \A f1 \in Fds : Unread(f1) \subseteq Msgs
  BY DEF Unread
<1>2. \A n \in Unread(f) : text[n] \in Texts /\ text[n] \notin Fates
  BY DEF Unread
<1>3. ASSUME NEW taken \in Prefixes(Unread(f)), NEW seen, text' = Taken(taken, seen)
      PROVE  /\ text' \in [Msgs -> Texts \cup Fates]
             /\ \A n \in Msgs : text[n] \in Fates => text'[n] = text[n]
  <2>1. taken \subseteq Unread(f)
    BY DEF Prefixes
  <2> QED
    BY <1>2, <1>3, <2>1 DEF Taken
<1>4. CASE s = "modemd"
  BY <1>3, <1>4 DEF ReadFrom, ModemdMessage
<1>5. CASE s # "modemd"
  <2>1. RefMessage(f)
    BY <1>5 DEF ReadFrom
  <2>2. PICK n \in Unread(f) :
          LET behind == Unread(f) \ {n}
          IN  \/ text' = [text EXCEPT ![n] = "read"]
              \/ \E k \in behind : text' = [text EXCEPT ![n] = "read",
                        ![k] = IF text[k] = "sync" THEN "short" ELSE "read"]
              \/ \E rest \in {"read", "other"} : text' = [text EXCEPT ![n] = rest]
    BY <2>1 DEF RefMessage
  <2> QED
    BY <1>1, <1>2, <2>2
<1> QED
  BY <1>4, <1>5

\* What is noticed and what the PC is told of move together.
LEMMA ReadCounts ==
  ASSUME TypeOK, CountInv, NEW s \in Servers, NEW f \in Fds, ReadFrom(s, f)
  PROVE  /\ resetFlag' \in BOOLEAN
         /\ notices' \in 0 .. MaxMsgs
         /\ toldReset' \in 0 .. MaxMsgs /\ toldSync' \in 0 .. MaxMsgs
         /\ notices' <= Cardinality(Noticed')
         /\ toldReset' <= notices' /\ toldSync' <= notices'
         /\ resetFlag' => toldSync' < notices'
<1>1. Noticed \subseteq Noticed'
  BY ReadTexts, TextSets DEF Noticed, TypeOK
<1>2. /\ IsFiniteSet(Noticed) /\ Cardinality(Noticed) \in Nat
      /\ Cardinality(Noticed') \in Nat /\ Cardinality(Noticed') <= MaxMsgs
      /\ \A S \in SUBSET Noticed' : Cardinality(S) <= Cardinality(Noticed')
  <2>1. Noticed \in SUBSET Msgs /\ Noticed' \in SUBSET Msgs
    BY DEF Noticed
  <2>2. IsFiniteSet(Noticed) /\ Cardinality(Noticed) \in Nat
    BY <2>1, MsgsFinite
  <2>3. /\ Cardinality(Noticed') \in Nat /\ Cardinality(Noticed') <= MaxMsgs
        /\ \A S \in SUBSET Noticed' : Cardinality(S) <= Cardinality(Noticed')
    BY <2>1, MsgsFinite
  <2> QED
    BY <2>2, <2>3
<1>3. Cardinality(Noticed) <= Cardinality(Noticed')
  BY <1>1, <1>2
<1>4. /\ notices \in Nat /\ toldReset \in Nat /\ toldSync \in Nat
      /\ resetFlag \in BOOLEAN /\ notices <= Cardinality(Noticed)
      /\ toldReset <= notices /\ toldSync <= notices
      /\ resetFlag => toldSync < notices
  BY DEF TypeOK, CountInv
<1>5. CASE UNCHANGED told
  <2>1. /\ resetFlag' = resetFlag /\ notices' = notices
        /\ toldReset' = toldReset /\ toldSync' = toldSync
    BY <1>5 DEF told
  <2>2. notices' <= Cardinality(Noticed') /\ MaxMsgs \in Nat
    BY <1>2, <1>3, <1>4, <2>1, TimeSyncAssumption
  <2>3. notices' \in 0 .. MaxMsgs
    BY <1>2, <1>4, <2>1, <2>2
  <2>4. toldReset' \in 0 .. MaxMsgs /\ toldSync' \in 0 .. MaxMsgs
    BY <1>4, <2>1, <2>2, <2>3
  <2>5. resetFlag' \in BOOLEAN /\ (resetFlag' => toldSync' < notices')
    BY <1>4, <2>1, Zenon
  <2>6. toldReset' <= notices' /\ toldSync' <= notices'
    BY <1>4, <2>1
  <2> QED
    BY <2>2, <2>3, <2>4, <2>5, <2>6
<1>6. CASE /\ NoticeReset
           /\ \E n \in Unread(f) : text[n] = "reset" /\ text'[n] = "noticed"
  <2>1. PICK n \in Unread(f) : text[n] = "reset" /\ text'[n] = "noticed"
    BY <1>6
  <2>2. n \notin Noticed /\ Noticed \cup {n} \subseteq Noticed'
    BY <1>1, <2>1 DEF Noticed, Unread
  <2>3. Cardinality(Noticed \cup {n}) = Cardinality(Noticed) + 1
    BY <1>2, <2>2, FS_AddElement
  <2>4. Cardinality(Noticed) + 1 <= Cardinality(Noticed')
    BY <1>2, <2>2, <2>3
  <2>5. /\ resetFlag' = TRUE /\ notices' = notices + 1 /\ toldSync' = toldSync
        /\ toldReset' \in {toldReset, toldReset + 1}
    BY <1>6 DEF NoticeReset
  <2>6. notices' <= Cardinality(Noticed') /\ notices' \in 0 .. MaxMsgs
    BY <1>2, <1>4, <2>4, <2>5, TimeSyncAssumption
  <2>7. toldReset' <= notices' /\ toldSync' < notices' /\ toldReset' \in Nat /\ toldSync' \in Nat
    BY <1>4, <2>5
  <2>8. resetFlag' \in BOOLEAN
    BY <2>5
  <2>9. toldReset' \in 0 .. MaxMsgs /\ toldSync' \in 0 .. MaxMsgs /\ toldSync' <= notices'
    BY <2>6, <2>7, TimeSyncAssumption
  <2> QED
    BY <2>6, <2>7, <2>8, <2>9
<1>7. CASE SendStamp /\ resetFlag
  <2>1. /\ resetFlag' = FALSE /\ toldSync' \in {toldSync, toldSync + 1}
        /\ notices' = notices /\ toldReset' = toldReset
    BY <1>7 DEF SendStamp
  <2>2. toldSync < notices
    BY <1>4, <1>7
  <2>3. notices' <= Cardinality(Noticed') /\ notices' \in 0 .. MaxMsgs
    BY <1>2, <1>3, <1>4, <2>1, TimeSyncAssumption
  <2>4. toldReset' <= notices' /\ toldSync' <= notices'
        /\ toldReset' \in 0 .. MaxMsgs /\ toldSync' \in 0 .. MaxMsgs
    BY <1>4, <2>1, <2>2, <2>3, TimeSyncAssumption
  <2>5. ~resetFlag' /\ resetFlag' \in BOOLEAN
    BY <2>1
  <2> QED
    BY <2>3, <2>4, <2>5
<1>8. CASE s = "modemd"
  <2>0. PICK taken \in Prefixes(Unread(f)) : \E seen \in Prefixes(taken) :
          IF SeesReset(seen)
            THEN text' = Taken(taken, seen) /\ NoticeReset
            ELSE text' = Taken(taken, {}) /\ UNCHANGED told
    BY <1>8 DEF ReadFrom, ModemdMessage
  <2>1. PICK seen \in Prefixes(taken) :
          IF SeesReset(seen)
            THEN text' = Taken(taken, seen) /\ NoticeReset
            ELSE text' = Taken(taken, {}) /\ UNCHANGED told
    BY <2>0
  <2>2. CASE SeesReset(seen)
    <3>1. PICK n \in seen : text[n] = "reset"
      BY <2>2 DEF SeesReset
    <3>2. n \in taken /\ n \in Unread(f) /\ n \in Msgs
      BY DEF Prefixes, Unread
    <3>3. text'[n] = "noticed"
      BY <2>1, <2>2, <3>1, <3>2 DEF Taken
    <3> QED
      BY <1>6, <2>1, <2>2, <3>1, <3>2, <3>3
  <2> QED
    BY <1>5, <2>1, <2>2
<1>9. CASE s # "modemd"
  <2>1. SendStamp \/ UNCHANGED told
    BY <1>9 DEF ReadFrom, RefMessage
  <2>2. SendStamp => resetFlag \/ UNCHANGED told
    BY DEF SendStamp
  <2> QED
    BY <1>5, <1>7, <2>1, <2>2
<1> QED
  BY <1>8, <1>9

\* A lost connection keeps its index.
LEMMA DisconnectedType ==
  ASSUME TypeOK, NEW s \in Servers, NEW i, Disconnected(s, i)
  PROVE  conn' \in [Servers -> [fd : Fds \cup {-1}, index : Slots \cup {-1}]]
  BY DEF TypeOK, Disconnected

\* CountInv is inductive together with the types.
LEMMA CountStep == TypeOK /\ CountInv /\ [Next]_vars => TypeOK' /\ CountInv'
<1> SUFFICES ASSUME TypeOK, CountInv, [Next]_vars PROVE TypeOK' /\ CountInv'
  OBVIOUS
<1>p. text' = text => Noticed' = Noticed
  BY DEF Noticed
<1>q. IsFiniteSet(Noticed) /\ Cardinality(Noticed) \in Nat
  <2>1. Noticed \in SUBSET Msgs
    BY DEF Noticed
  <2> QED
    BY <2>1, MsgsFinite
<1>s. Slots = {0, 1} /\ FDS_SIZE = 2
  BY DEF Slots, FDS_SIZE
<1> USE <1>p, <1>q, <1>s, TimeSyncAssumption DEF Fds, loop, net, told
<1>1. CASE Top
  <2>1. CASE collate /\ fds[0] < 0 /\ fds[1] >= 0
    <3>1. fds' = [fds EXCEPT ![0] = fds[1]]
      BY <1>1, <2>1 DEF Top, fds_collate
    <3>2. \/ conn' = [conn EXCEPT !["modemd"].index = 0]
          \/ conn' = [conn EXCEPT !["ref"].index = 0]
          \/ conn' = conn
      <4>1. fds_collate
        BY <1>1, <2>1 DEF Top
      <4>2. CASE conn["modemd"].fd = fds[1]
        BY <2>1, <4>1, <4>2 DEF fds_collate
      <4>3. CASE conn["modemd"].fd # fds[1] /\ conn["ref"].fd = fds[1]
        BY <2>1, <4>1, <4>3 DEF fds_collate
      <4>4. CASE conn["modemd"].fd # fds[1] /\ conn["ref"].fd # fds[1]
        BY <2>1, <4>1, <4>4 DEF fds_collate
      <4> QED
        BY <4>2, <4>3, <4>4
    <3>3. conn' \in [Servers -> [fd : Fds \cup {-1}, index : Slots \cup {-1}]]
      <4>1. \A t \in Servers : [conn EXCEPT ![t].index = 0]
                \in [Servers -> [fd : Fds \cup {-1}, index : Slots \cup {-1}]]
        BY DEF TypeOK
      <4> QED
        BY <3>2, <4>1 DEF TypeOK, Servers
    <3>4. fds' \in [Slots -> Fds \cup {-1}] /\ total <= UsedSlots'
      BY <2>1, <3>1 DEF TypeOK, CountInv, UsedSlots
    <3>5. collate' \in BOOLEAN
      BY <1>1 DEF Top
    <3> QED
      BY <1>1, <3>3, <3>4, <3>5 DEF Top, TypeOK, CountInv
  <2>2. CASE ~(collate /\ fds[0] < 0 /\ fds[1] >= 0)
    <3>1. UNCHANGED <<fds, conn>>
      BY <1>1, <2>2 DEF Top, fds_collate
    <3> QED
      BY <1>1, <3>1 DEF Top, TypeOK, CountInv, UsedSlots
  <2> QED
    BY <2>1, <2>2
<1>2. ASSUME NEW s \in Servers, Connect(s)
      PROVE  TypeOK' /\ CountInv'
  <2>1. CASE conn[s].fd < 0 /\ try_connect(s)
    <3>1. add_connection = IF fds[0] = -1 THEN 0 ELSE IF fds[1] = -1 THEN 1 ELSE -1
      BY AddConnection
    <3>2. /\ nFd' = nFd + 1 /\ nFd + 1 \in Fds
          /\ owner' = [owner EXCEPT ![nFd + 1] = s]
          /\ conn' = [conn EXCEPT ![s] = [fd |-> nFd + 1, index |-> add_connection]]
          /\ fds' = IF add_connection = -1 THEN fds
                     ELSE [fds EXCEPT ![add_connection] = nFd + 1]
          /\ total' = IF add_connection = -1 THEN total ELSE total + 1
      BY <2>1 DEF try_connect, TypeOK
    <3>3. /\ fds' \in [Slots -> Fds \cup {-1}] /\ total' \in 0 .. FDS_SIZE
          /\ total' <= UsedSlots'
      BY <3>1, <3>2 DEF TypeOK, CountInv, UsedSlots
    <3>4. /\ owner' \in [Fds -> Servers] /\ nFd' \in 0 .. MaxFd
          /\ conn' \in [Servers -> [fd : Fds \cup {-1}, index : Slots \cup {-1}]]
      BY <3>1, <3>2 DEF TypeOK
    <3> QED
      BY <1>2, <3>3, <3>4 DEF Connect, TypeOK, CountInv
  <2>2. CASE UNCHANGED <<conn, fds, total, nFd, owner>>
    BY <1>2, <2>2 DEF Connect, TypeOK, CountInv, UsedSlots
  <2> QED
    BY <1>2, <2>1, <2>2 DEF Connect
<1>3. CASE Poll
  <2>1. 0 .. total - 1 \subseteq Slots
    BY DEF TypeOK
  <2>2. ready' \subseteq Slots /\ pc' \in {"scan", "top"} /\ scan' = 0
    BY <1>3, <2>1 DEF Poll, TypeOK
  <2> QED
    BY <1>3, <2>2 DEF Poll, TypeOK, CountInv, UsedSlots
<1>4. CASE Scan
  <2> DEFINE i == scan
             s == IF i = conn["modemd"].index THEN "modemd" ELSE "ref"
             f == fds[i]
  <2>0. s \in Servers
    BY DEF Servers
  <2>1. CASE /\ i < total /\ f \in Fds /\ ReadFrom(s, f)
             /\ sock' = [n \in Msgs |-> IF text'[n] \in Texts THEN sock[n] ELSE 0]
             /\ UNCHANGED loop /\ scan' = i + 1 /\ UNCHANGED pc
    <3>1. /\ resetFlag' \in BOOLEAN
          /\ notices' \in 0 .. MaxMsgs
          /\ toldReset' \in 0 .. MaxMsgs /\ toldSync' \in 0 .. MaxMsgs
          /\ notices' <= Cardinality(Noticed')
          /\ toldReset' <= notices' /\ toldSync' <= notices'
          /\ resetFlag' => toldSync' < notices'
      BY <2>0, <2>1, ReadCounts
    <3>2. /\ text' \in [Msgs -> Texts \cup Fates]
          /\ \A n \in Msgs : text[n] \in Fates => text'[n] = text[n]
      BY <2>0, <2>1, ReadTexts
    <3>3. \A n \in Msgs : n > nMsg' => text'[n] = "none"
      BY <1>4, <3>2, TextSets DEF Scan, CountInv
    <3>4. scan' \in 0 .. FDS_SIZE /\ sock' \in [Msgs -> 0 .. MaxFd]
      BY <2>1 DEF TypeOK
    <3> QED
      BY <1>4, <2>1, <3>1, <3>2, <3>3, <3>4 DEF Scan, TypeOK, CountInv, UsedSlots
  <2>2. CASE /\ i < total /\ f \in Fds
             /\ Disconnected(s, i) /\ UNCHANGED <<sock, text, told>>
             /\ scan' = i + 1 /\ UNCHANGED pc
    <3>1. conn' \in [Servers -> [fd : Fds \cup {-1}, index : Slots \cup {-1}]]
      BY <2>0, <2>2, DisconnectedType
    <3>2. /\ fds' = [fds EXCEPT ![i] = -1] /\ total' = total - 1 /\ collate' = TRUE
          /\ i \in Slots
      BY <2>2 DEF Disconnected, TypeOK
    <3>3. /\ fds' \in [Slots -> Fds \cup {-1}]
          /\ total' \in 0 .. FDS_SIZE /\ scan' \in 0 .. FDS_SIZE
      BY <2>2, <3>2 DEF TypeOK
    <3>4. total' <= UsedSlots'
      BY <2>2, <3>2 DEF TypeOK, CountInv, UsedSlots
    <3> QED
      BY <1>4, <2>2, <3>1, <3>2, <3>3, <3>4 DEF Scan, TypeOK, CountInv
  <2>3. CASE /\ UNCHANGED <<loop, told, sock, text>>
             /\ \/ i < total /\ scan' = i + 1 /\ UNCHANGED pc
                \/ scan' = 0 /\ pc' = "top"
    BY <1>4, <2>3 DEF Scan, TypeOK, CountInv, UsedSlots
  <2> QED
    BY <1>4, <2>1, <2>2, <2>3 DEF Scan
<1>5. ASSUME NEW s \in Servers, ServerUp(s)
      PROVE  TypeOK' /\ CountInv'
  BY <1>5 DEF ServerUp, TypeOK, CountInv, UsedSlots
<1>6. ASSUME NEW f \in Fds, ServerCloses(f)
      PROVE  TypeOK' /\ CountInv'
  <2>1. lost' \in BOOLEAN
    BY <1>6 DEF ServerCloses
  <2> QED
    BY <1>6, <2>1 DEF ServerCloses, TypeOK, CountInv, UsedSlots
<1>7. ASSUME NEW f \in Fds, NEW m \in Texts, ServerSends(f, m)
      PROVE  TypeOK' /\ CountInv'
  <2>1. /\ text' = [text EXCEPT ![nMsg + 1] = m] /\ sock' = [sock EXCEPT ![nMsg + 1] = f]
        /\ nMsg' = nMsg + 1 /\ nMsg < MaxMsgs /\ nMsg + 1 \in Msgs
    BY <1>7 DEF ServerSends, TypeOK, Msgs
  <2>2. /\ text' \in [Msgs -> Texts \cup Fates] /\ sock' \in [Msgs -> 0 .. MaxFd]
        /\ nMsg' \in 0 .. MaxMsgs
    BY <2>1 DEF TypeOK
  <2>3. /\ text[nMsg + 1] = "none" /\ m # "noticed"
        /\ \A n \in Msgs : n > nMsg' => text'[n] = "none"
    BY <2>1, TextSets DEF CountInv, TypeOK, Msgs
  <2>4. Noticed' = Noticed
    BY <2>1, <2>3 DEF Noticed, TypeOK
  <2> QED
    BY <1>7, <2>2, <2>3, <2>4 DEF ServerSends, TypeOK, CountInv, UsedSlots
<1>8. CASE UNCHANGED vars
  BY <1>8 DEF vars, TypeOK, CountInv, UsedSlots
<1> QED
  BY <1>1, <1>2, <1>3, <1>4, <1>5, <1>6, <1>7, <1>8 DEF Next, Thread

\* At the start no message was sent and none noticed.
LEMMA CountInit == Init => TypeOK /\ CountInv
<1> SUFFICES ASSUME Init PROVE TypeOK /\ CountInv
  OBVIOUS
<1> USE TimeSyncAssumption DEF Init
<1>0. FDS_SIZE = 2 /\ {} \subseteq Servers /\ {} \subseteq Slots /\ "modemd" \in Servers
  BY DEF FDS_SIZE, Servers
<1>1. TypeOK
  <2>1. collate \in BOOLEAN /\ resetFlag \in BOOLEAN /\ lost \in BOOLEAN
    BY Zenon
  <2>2. /\ eof \in [Fds -> BOOLEAN] /\ owner \in [Fds -> Servers]
        /\ sock \in [Msgs -> 0 .. MaxFd] /\ text \in [Msgs -> Texts \cup Fates]
    BY <1>0, TextSets
  <2>3. /\ fds \in [Slots -> Fds \cup {-1}]
        /\ conn \in [Servers -> [fd : Fds \cup {-1}, index : Slots \cup {-1}]]
    OBVIOUS
  <2> QED
    BY <1>0, <2>1, <2>2, <2>3 DEF TypeOK
<1>2. Noticed = {}
  BY DEF Noticed
<1>3. Cardinality(Noticed) = 0
  BY <1>2, FS_EmptySet
<1> QED
  BY <1>1, <1>3 DEF CountInv, UsedSlots, Slots, FDS_SIZE

\* total_conn stays within the array, and every counter within its bound.
THEOREM TypeCorrect == Spec => []TypeOK
  BY CountInit, CountStep, PTL DEF Spec

\* The PC gets at most one time stamp for each noticed reset, and each notice
\* is of a reset of its own, whatever connections come and go, messages are
\* read together and writes to the PC fail.
THEOREM SyncOncePerReset == Spec => []OneSyncPerReset
<1>1. TypeOK /\ CountInv => OneSyncPerReset
  BY DEF TypeOK, CountInv, OneSyncPerReset, Noticed
<1> QED
  BY <1>1, CountInit, CountStep, PTL DEF Spec

-----------------------------------------------------------------------------
\* The array and the connections as they are until the connection in the
\* first slot is lost: the slots fill from the first, that one is alive,
\* total_conn counts the slots in use, a connection is in the slot that its
\* index says and belongs to its server, and every slot in use is some
\* connection's.  A lost connection keeps its index, which is not the first.
Aligned ==
  /\ fds[0] = -1 => fds[1] = -1
  /\ fds[0] # -1 => ~eof[fds[0]]
  /\ total = UsedSlots
  /\ \A s \in Servers : conn[s].fd # -1 =>
       conn[s].index \in Slots /\ fds[conn[s].index] = conn[s].fd /\ owner[conn[s].fd] = s
  /\ \A i \in Slots : fds[i] # -1 =>
       \E s \in Servers : conn[s].fd = fds[i] /\ conn[s].index = i
  /\ \A s \in Servers : conn[s].fd = -1 => conn[s].index # 0

\* A descriptor is known only once it has been given out.
SlotInv ==
  /\ \A i \in Slots : fds[i] <= nFd
  /\ \A s \in Servers : conn[s].fd <= nFd
  /\ \A f \in Fds : eof[f] => f <= nFd
  /\ ~lost => Aligned

\* The server whose index a slot in use has is the one connected there, also
\* where the index that a lost connection kept could be mistaken for it.
LEMMA SlotOwner ==
  ASSUME TypeOK, Aligned, NEW i \in Slots, i < total, NEW s \in Servers,
         conn[s].index = i
  PROVE  fds[i] # -1 /\ conn[s].fd = fds[i]
<1> USE DEF TypeOK, Aligned, Slots, FDS_SIZE, Servers, UsedSlots
<1>1. i = 0 \/ i = 1
  OBVIOUS
<1>2. fds[i] # -1 /\ fds[0] # -1
  BY <1>1
<1>3. CASE conn[s].fd # -1
  BY <1>2, <1>3
<1>4. CASE conn[s].fd = -1
  <2>1. i = 1
    BY <1>1, <1>4
  <2>2. PICK t \in Servers : conn[t].fd = fds[0] /\ conn[t].index = 0
    BY <1>2
  <2>3. PICK u \in Servers : conn[u].fd = fds[1] /\ conn[u].index = 1
    BY <1>2, <2>1
  <2> QED
    BY <1>2, <1>4, <2>1, <2>2, <2>3
<1> QED
  BY <1>3, <1>4

\* A connection that is made while the array is aligned gets a slot: if both
\* were taken, both servers would be connected.
LEMMA SlotForNew ==
  ASSUME TypeOK, Aligned, NEW s \in Servers, conn[s].fd = -1
  PROVE  fds[0] = -1 \/ fds[1] = -1
<1> SUFFICES ASSUME fds[0] # -1, fds[1] # -1 PROVE FALSE
  OBVIOUS
<1> USE DEF Aligned, Slots, FDS_SIZE, Servers
<1>1. PICK t \in Servers : conn[t].fd = fds[0] /\ conn[t].index = 0
  OBVIOUS
<1>2. PICK u \in Servers : conn[u].fd = fds[1] /\ conn[u].index = 1
  OBVIOUS
<1> QED
  BY <1>1, <1>2

\* try_connect() keeps the alignment: the new connection is behind the other.
LEMMA ConnectAligned ==
  ASSUME TypeOK, SlotInv, Aligned, NEW s \in Servers, conn[s].fd < 0, try_connect(s),
         UNCHANGED eof
  PROVE  Aligned'
<1> DEFINE i == IF fds[0] = -1 THEN 0 ELSE 1
           g == nFd + 1
<1> USE DEF Slots, FDS_SIZE
<1>1. conn[s].fd = -1 /\ g \in Fds /\ fds[i] = -1 /\ i \in Slots /\ nFd \in Nat
  BY SlotForNew, TimeSyncAssumption DEF TypeOK, try_connect, Fds
<1>2. add_connection = i
  BY <1>1, AddConnection
<1>3. /\ owner' = [owner EXCEPT ![g] = s] /\ fds' = [fds EXCEPT ![i] = g]
      /\ conn' = [conn EXCEPT ![s] = [fd |-> g, index |-> i]] /\ total' = total + 1
  BY <1>1, <1>2 DEF try_connect
<1>4. \A t \in Servers : conn[t].fd # g
  BY <1>1 DEF SlotInv, TypeOK, Fds
<1>5. ~eof[g]
  BY <1>1 DEF SlotInv, TypeOK, Fds
<1>6. conn'[s] = [fd |-> g, index |-> i] /\ \A t \in Servers \ {s} : conn'[t] = conn[t]
  BY <1>3 DEF TypeOK
<1>7. fds'[i] = g /\ \A j \in Slots \ {i} : fds'[j] = fds[j]
  BY <1>1, <1>3 DEF TypeOK
<1>8. owner'[g] = s /\ \A f \in Fds \ {g} : owner'[f] = owner[f]
  BY <1>1, <1>3 DEF TypeOK
<1>9. g # -1
  BY <1>1
<1> HIDE DEF g
<1>a. (fds[0] = -1 => fds[1] = -1)'
  BY <1>7, <1>9 DEF Aligned
<1>b. (fds[0] # -1 => ~eof[fds[0]])'
  <2>1. CASE fds[0] = -1
    BY <2>1, <1>5, <1>7
  <2>2. CASE fds[0] # -1
    BY <2>2, <1>7 DEF Aligned
  <2> QED
    BY <2>1, <2>2
<1>c. (total = UsedSlots)'
  BY <1>1, <1>3, <1>7, <1>9 DEF Aligned, UsedSlots
<1>d. ASSUME NEW t \in Servers, conn'[t].fd # -1
      PROVE  /\ conn'[t].index \in Slots /\ fds'[conn'[t].index] = conn'[t].fd
             /\ owner'[conn'[t].fd] = t
  <2>1. CASE t = s
    BY <2>1, <1>1, <1>6, <1>7, <1>8
  <2>2. CASE t # s
    <3>1. conn'[t] = conn[t] /\ conn[t].fd \in Fds /\ conn[t].fd # g
      BY <1>d, <2>2, <1>4, <1>6 DEF TypeOK
    <3>2. conn[t].index \in Slots /\ fds[conn[t].index] = conn[t].fd /\ owner[conn[t].fd] = t
      BY <1>d, <3>1 DEF Aligned
    <3>3. conn[t].index # i
      BY <1>1, <1>d, <3>1, <3>2
    <3> QED
      BY <3>1, <3>2, <3>3, <1>7, <1>8
  <2> QED
    BY <2>1, <2>2
<1>e. ASSUME NEW j \in Slots, fds'[j] # -1
      PROVE  \E t \in Servers : conn'[t].fd = fds'[j] /\ conn'[t].index = j
  <2>1. CASE j = i
    BY <2>1, <1>6, <1>7
  <2>2. CASE j # i
    <3>1. fds'[j] = fds[j]
      BY <2>2, <1>7
    <3>2. PICK t \in Servers : conn[t].fd = fds[j] /\ conn[t].index = j
      BY <1>e, <3>1 DEF Aligned
    <3>3. t # s
      BY <1>1, <1>e, <3>1, <3>2
    <3> QED
      BY <1>6, <3>1, <3>2, <3>3
  <2> QED
    BY <2>1, <2>2
<1>f. ASSUME NEW t \in Servers, conn'[t].fd = -1
      PROVE  conn'[t].index # 0
  BY <1>f, <1>6, <1>9 DEF Aligned
<1> QED
  BY <1>a, <1>b, <1>c, <1>d, <1>e, <1>f DEF Aligned

\* A connection that ends while the first is alive is the one in the second
\* slot, and its going leaves the array aligned.
LEMMA DisconnectedAligned ==
  ASSUME TypeOK, Aligned, NEW i \in Slots, i < total, NEW s \in Servers,
         conn[s].index = i, fds[i] \in Fds, eof[fds[i]], Disconnected(s, i),
         UNCHANGED <<eof, owner>>
  PROVE  Aligned'
<1> USE DEF Slots, FDS_SIZE
<1>1. conn[s].fd = fds[i] /\ fds[i] # -1
  BY SlotOwner
<1>2. i = 1 /\ fds[0] # -1 /\ total = 2
  BY <1>1 DEF Aligned, UsedSlots, TypeOK
<1>3. fds'[1] = -1 /\ fds'[0] = fds[0] /\ total' = 1
  BY <1>2 DEF Disconnected, TypeOK
<1>4. /\ conn'[s].fd = -1 /\ conn'[s].index = 1
      /\ \A t \in Servers \ {s} : conn'[t] = conn[t]
  BY <1>2 DEF Disconnected, TypeOK
<1>5. PICK z \in Servers : conn[z].fd = fds[0] /\ conn[z].index = 0
  BY <1>2 DEF Aligned
<1>6. z # s
  BY <1>2, <1>5
<1>7. \A t \in Servers : t = s \/ t = z
  BY <1>6 DEF Servers
<1> QED
  BY <1>2, <1>3, <1>4, <1>5, <1>6, <1>7 DEF Aligned, UsedSlots

\* SlotInv is inductive: fds_collate() finds nothing to move before the first
\* connection is lost.
LEMMA SlotStep == TypeOK /\ SlotInv /\ [Next]_vars => SlotInv'
<1> SUFFICES ASSUME TypeOK, SlotInv, [Next]_vars PROVE SlotInv'
  OBVIOUS
<1> USE TimeSyncAssumption DEF loop, net
<1>0. /\ 0 \in Slots /\ 1 \in Slots /\ \A i \in Slots : i = 0 \/ i = 1
      /\ nFd \in Nat /\ lost \in BOOLEAN
  BY DEF Slots, FDS_SIZE, TypeOK
<1>1. CASE Top
  <2>1. CASE UNCHANGED <<fds, conn>>
    BY <1>1, <2>1 DEF Top, SlotInv, Aligned, UsedSlots
  <2>2. CASE collate /\ fds[0] < 0 /\ fds[1] >= 0
    <3>1. fds_collate /\ lost
      BY <1>1, <2>2, <1>0 DEF Top, SlotInv, Aligned, TypeOK, Fds
    <3>2. fds' = [fds EXCEPT ![0] = fds[1]]
      BY <2>2, <3>1 DEF fds_collate
    <3>3. \A i \in Slots : fds'[i] <= nFd
      BY <1>0, <3>2 DEF SlotInv, TypeOK
    <3>4. \/ conn' = [conn EXCEPT !["modemd"].index = 0]
          \/ conn' = [conn EXCEPT !["ref"].index = 0]
          \/ conn' = conn
      <4>1. CASE conn["modemd"].fd = fds[1]
        BY <2>2, <3>1, <4>1 DEF fds_collate
      <4>2. CASE conn["modemd"].fd # fds[1] /\ conn["ref"].fd = fds[1]
        BY <2>2, <3>1, <4>2 DEF fds_collate
      <4>3. CASE conn["modemd"].fd # fds[1] /\ conn["ref"].fd # fds[1]
        BY <2>2, <3>1, <4>3 DEF fds_collate
      <4> QED
        BY <4>1, <4>2, <4>3
    <3>5. \A s \in Servers : conn'[s].fd = conn[s].fd
      BY <3>4 DEF TypeOK, Servers
    <3> QED
      BY <1>1, <3>1, <3>3, <3>5 DEF Top, SlotInv
  <2> QED
    BY <1>1, <2>1, <2>2 DEF Top, fds_collate
<1>2. ASSUME NEW s \in Servers, Connect(s)
      PROVE  SlotInv'
  <2>1. CASE conn[s].fd < 0 /\ try_connect(s)
    <3>1. Aligned => Aligned'
      BY <1>2, <2>1, ConnectAligned DEF Connect
    <3>2. /\ nFd' = nFd + 1
          /\ conn' = [conn EXCEPT ![s] = [fd |-> nFd + 1, index |-> add_connection]]
          /\ fds' = IF add_connection = -1 THEN fds
                     ELSE [fds EXCEPT ![add_connection] = nFd + 1]
      BY <2>1 DEF try_connect
    <3>3. \A i \in Slots : fds'[i] \in {fds[i], nFd + 1}
      BY <3>2 DEF TypeOK
    <3>4. \A t \in Servers : conn'[t].fd \in {conn[t].fd, nFd + 1}
      BY <3>2 DEF TypeOK
    <3>7. nFd \in Int /\ nFd' \in Int /\ nFd <= nFd' /\ nFd + 1 = nFd'
      BY <3>2 DEF TypeOK
    <3>8. ASSUME NEW i \in Slots
          PROVE  fds'[i] <= nFd'
      <4>1. fds[i] \in Int /\ fds[i] <= nFd
        BY <1>0 DEF SlotInv, TypeOK, Fds
      <4>2. CASE fds'[i] = fds[i]
        BY <4>1, <4>2, <3>7
      <4>3. CASE fds'[i] = nFd + 1
        BY <4>3, <3>7
      <4> QED
        BY <4>2, <4>3, <3>3
    <3>9. ASSUME NEW t \in Servers
          PROVE  conn'[t].fd <= nFd'
      <4>1. conn[t].fd \in Int /\ conn[t].fd <= nFd
        BY <1>0 DEF SlotInv, TypeOK, Fds
      <4>2. CASE conn'[t].fd = conn[t].fd
        BY <4>1, <4>2, <3>7
      <4>3. CASE conn'[t].fd = nFd + 1
        BY <4>3, <3>7
      <4> QED
        BY <4>2, <4>3, <3>4
    <3>5. /\ \A i \in Slots : fds'[i] <= nFd'
          /\ \A t \in Servers : conn'[t].fd <= nFd'
      BY <3>8, <3>9
    <3>6. \A f \in Fds : eof[f] => f <= nFd'
      BY <1>0, <3>2 DEF SlotInv, Fds
    <3> QED
      BY <1>2, <3>1, <3>5, <3>6 DEF Connect, SlotInv
  <2>2. CASE UNCHANGED <<conn, fds, total, nFd, owner>>
    BY <1>2, <2>2 DEF Connect, SlotInv, Aligned, UsedSlots
  <2> QED
    BY <1>2, <2>1, <2>2 DEF Connect
<1>3. CASE Poll
  BY <1>3 DEF Poll, SlotInv, Aligned, UsedSlots
<1>4. CASE Scan
  <2>1. CASE UNCHANGED loop
    BY <1>4, <2>1 DEF Scan, SlotInv, Aligned, UsedSlots
  <2>2. CASE ~UNCHANGED loop
    <3>1. PICK s \in Servers : /\ scan < total /\ scan = conn[s].index /\ fds[scan] \in Fds
                               /\ eof[fds[scan]] /\ Disconnected(s, scan)
      BY <1>4, <2>2 DEF Scan, Servers
    <3>2. scan \in Slots
      BY <3>1 DEF TypeOK, Slots, FDS_SIZE
    <3>3. Aligned => Aligned'
      BY <1>4, <3>1, <3>2, DisconnectedAligned DEF Scan
    <3>4. /\ \A i \in Slots : fds'[i] \in {fds[i], -1}
          /\ \A t \in Servers : conn'[t].fd \in {conn[t].fd, -1}
      BY <3>1, <3>2 DEF Disconnected, TypeOK
    <3>5. /\ \A i \in Slots : fds'[i] <= nFd
          /\ \A t \in Servers : conn'[t].fd <= nFd
      BY <1>0, <3>4 DEF SlotInv
    <3> QED
      BY <1>4, <3>3, <3>5 DEF Scan, SlotInv
  <2> QED
    BY <2>1, <2>2
<1>5. ASSUME NEW s \in Servers, ServerUp(s)
      PROVE  SlotInv'
  BY <1>5 DEF ServerUp, SlotInv, Aligned, UsedSlots
<1>6. ASSUME NEW f \in Fds, ServerCloses(f)
      PROVE  SlotInv'
  <2>1. eof' = [eof EXCEPT ![f] = TRUE] /\ f <= nFd /\ lost' = (lost \/ fds[0] = f)
    BY <1>6 DEF ServerCloses
  <2>2. \A g \in Fds : eof'[g] => g <= nFd
    BY <2>1 DEF SlotInv, TypeOK
  <2>3. ASSUME ~lost' PROVE Aligned'
    <3>1. ~lost /\ fds[0] # f
      BY <2>1, <2>3
    <3>2. Aligned
      BY <3>1 DEF SlotInv
    <3>3. fds[0] # -1 => eof'[fds[0]] = eof[fds[0]]
      BY <2>1, <3>1, <1>0 DEF TypeOK
    <3>4. UNCHANGED <<fds, conn, total, owner>>
      BY <1>6 DEF ServerCloses
    <3>5. (fds[0] # -1 => ~eof[fds[0]])'
      BY <3>2, <3>3, <3>4 DEF Aligned
    <3> QED
      BY <3>2, <3>4, <3>5 DEF Aligned, UsedSlots
  <2> QED
    BY <1>6, <2>2, <2>3 DEF ServerCloses, SlotInv
<1>7. ASSUME NEW f \in Fds, NEW m, ServerSends(f, m)
      PROVE  SlotInv'
  BY <1>7 DEF ServerSends, SlotInv, Aligned, UsedSlots
<1>8. CASE UNCHANGED vars
  BY <1>8 DEF vars, SlotInv, Aligned, UsedSlots
<1> QED
  BY <1>1, <1>2, <1>3, <1>4, <1>5, <1>6, <1>7, <1>8 DEF Next, Thread

\* At the start the array is empty.
LEMMA SlotInit == Init => SlotInv
  BY TimeSyncAssumption
     DEF Init, SlotInv, Aligned, UsedSlots, Slots, FDS_SIZE, Servers, Fds

\* Until the connection in the first slot is lost, a connection that the
\* thread believes to have is polled.
THEOREM ConnectionsPolled == Spec => []PolledUntilLost
<1>1. TypeOK /\ SlotInv => PolledUntilLost
  <2> SUFFICES ASSUME TypeOK, Aligned, NEW s \in Servers, conn[s].fd >= 0
               PROVE  /\ conn[s].index \in 0 .. total - 1
                      /\ fds[conn[s].index] = conn[s].fd
    BY DEF SlotInv, PolledUntilLost, ConnectedIsPolled
  <2>1. /\ conn[s].index \in Slots /\ fds[conn[s].index] = conn[s].fd
        /\ conn[s].fd # -1
    BY DEF Aligned
  <2>2. conn[s].index < total
    BY <2>1 DEF Aligned, UsedSlots, Slots, FDS_SIZE
  <2> QED
    BY <2>1, <2>2 DEF Slots, FDS_SIZE, TypeOK
<1> QED
  BY <1>1, TypeCorrect, SlotInit, SlotStep, PTL DEF Spec

\* Until then a message is read by the code for the server that sent it.
THEOREM MessagesReadByOwner == Spec => []ReadByOwner
<1>1. TypeOK /\ SlotInv => ReadByOwner
  <2> SUFFICES ASSUME TypeOK, Aligned, scan < total, scan \in ready,
                      NEW s \in Servers, scan = conn[s].index
               PROVE  owner[fds[scan]] = s
    BY DEF SlotInv, ReadByOwner, Servers
  <2>1. fds[scan] # -1 /\ conn[s].fd = fds[scan]
    BY SlotOwner DEF TypeOK
  <2> QED
    BY <2>1 DEF Aligned
<1> QED
  BY <1>1, TypeCorrect, SlotInit, SlotStep, PTL DEF Spec
=============================================================================
