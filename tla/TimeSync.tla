------------------------------ MODULE TimeSync ------------------------------
(***************************************************************************)
(* The time synchronisation thread of CCPCtl (server/common/cpctl.cpp): it  *)
(* keeps a connection to modemd and one to the reference time server, polls *)
(* them through the array fds, tells the PC when the modem was reset, and   *)
(* after a reset sends the PC the next time stamp.                          *)
(*                                                                         *)
(* Descriptors are numbered in the order of the connections and are never  *)
(* reused, because the thread never closes one.  The sockets are streams:  *)
(* several messages can be unread in one, and one read() takes them all,   *)
(* or for the time server the bytes of one, wherever they begin.  Messages *)
(* are numbered in the order in which they are sent; text[n] is what       *)
(* message n says until it is read, and then what became of it.            *)
(***************************************************************************)
EXTENDS Integers, FiniteSets

CONSTANTS
  MaxFd,        \* bound on the number of connections made
  MaxMsgs       \* bound on the number of messages from the two servers

ASSUME TimeSyncAssumption == MaxFd \in Nat /\ MaxMsgs \in Nat

FDS_SIZE == 2
Slots    == 0 .. FDS_SIZE - 1
Servers  == {"modemd", "ref"}    \* modemd_conn, refnotify_conn
Fds      == 1 .. MaxFd

VARIABLES
  fds,         \* fds[i].fd
  conn,        \* SocketConnection: fd and index of each server's connection
  total,       \* total_conn
  collate,     \* fds_collate_flag
  resetFlag,   \* modem_reset_flag
  pc, scan,    \* where the thread is; the loop variable i
  ready,       \* slots whose revents has POLLIN
  owner,       \* the server at the other end of each descriptor
  sock, text,  \* the descriptor each unread message is in, and its text
  eof,         \* the server has ended the connection
  up,          \* servers that accept connections
  nMsg, nFd,   \* messages and connections so far
  notices,     \* reads in which a "Modem Reset" was noticed
  toldReset,   \* those that the PC was told of
  toldSync,    \* time stamps that the PC was sent
  lost         \* a server has ended the connection in the first slot

loop == <<fds, conn, total, collate>>
net  == <<owner, sock, text, eof, up, nMsg, nFd, lost>>
told == <<resetFlag, notices, toldReset, toldSync>>
vars == <<loop, told, pc, scan, ready, net>>

Msgs == 1 .. MaxMsgs

\* "Modem Reset", one of the three asserts, any other text; a whole
\* TIME_SYNC_T, or half of one.
Messages == [modemd |-> {"reset", "assert", "other"}, ref |-> {"sync", "short"}]
Texts    == UNION {Messages[s] : s \in Servers}

\* A reset that was read was noticed, or read together with another message
\* and not noticed, or missed although it was alone.
Fates == {"none", "read", "noticed", "merged", "missed"}

TypeOK ==
  /\ fds \in [Slots -> Fds \cup {-1}]
  /\ conn \in [Servers -> [fd : Fds \cup {-1}, index : Slots \cup {-1}]]
  /\ total \in 0 .. FDS_SIZE
  /\ collate \in BOOLEAN /\ resetFlag \in BOOLEAN
  /\ pc \in {"top", "modemd", "ref", "poll", "scan"}
  /\ scan \in 0 .. FDS_SIZE /\ ready \subseteq Slots
  /\ owner \in [Fds -> Servers] /\ eof \in [Fds -> BOOLEAN]
  /\ sock \in [Msgs -> 0 .. MaxFd] /\ text \in [Msgs -> Texts \cup Fates]
  /\ up \subseteq Servers /\ lost \in BOOLEAN
  /\ nMsg \in 0 .. MaxMsgs /\ nFd \in 0 .. MaxFd
  /\ notices \in 0 .. MaxMsgs
  /\ toldReset \in 0 .. MaxMsgs /\ toldSync \in 0 .. MaxMsgs

Init ==
  /\ fds = [i \in Slots |-> -1]
  /\ conn = [s \in Servers |-> [fd |-> -1, index |-> -1]]
  /\ total = 0 /\ collate = FALSE /\ resetFlag = FALSE
  /\ pc = "top" /\ scan = 0 /\ ready = {}
  /\ owner = [f \in Fds |-> "modemd"] /\ eof = [f \in Fds |-> FALSE]
  /\ sock = [n \in Msgs |-> 0] /\ text = [n \in Msgs |-> "none"]
  /\ up = {} /\ lost = FALSE /\ nMsg = 0 /\ nFd = 0
  /\ notices = 0 /\ toldReset = 0 /\ toldSync = 0

-----------------------------------------------------------------------------
(* The array *)

\* fds_collate(): with a hole in the first slot the second is copied to it,
\* and stays where it was.
fds_collate ==
  IF fds[0] < 0 /\ fds[1] >= 0
    THEN /\ fds' = [fds EXCEPT ![0] = fds[1]]
         /\ conn' = CASE conn["modemd"].fd = fds[1] ->
                           [conn EXCEPT !["modemd"].index = 0]
                      [] conn["ref"].fd = fds[1]
                         /\ conn["modemd"].fd # fds[1] ->
                           [conn EXCEPT !["ref"].index = 0]
                      [] OTHER -> conn
    ELSE UNCHANGED <<fds, conn>>

Top ==
  /\ pc = "top"
  /\ IF collate THEN fds_collate ELSE UNCHANGED <<fds, conn>>
  /\ collate' = FALSE
  /\ pc' = "modemd"
  /\ UNCHANGED <<total, told, scan, ready, net>>

\* Mutation: the search for a position begins with the second.
add_connectionFromOne ==
  LET free == {i \in Slots : fds[i] < 0}
  IN  IF free = {} THEN -1 ELSE 1

\* add_connection(): the first available position, or -1.
add_connection ==
  LET free == {i \in Slots : fds[i] < 0}
  IN  IF free = {} THEN -1 ELSE CHOOSE i \in free : \A j \in free : i <= j

\* Mutation: the position of a new connection is not counted.
try_connectUncounted(s) ==
  /\ s \in up /\ nFd < MaxFd
  /\ LET f == nFd + 1
         i == add_connection
     IN  /\ nFd' = f
         /\ owner' = [owner EXCEPT ![f] = s]
         /\ conn' = [conn EXCEPT ![s] = [fd |-> f, index |-> i]]
         /\ fds' = IF i = -1 THEN fds ELSE [fds EXCEPT ![i] = f]
         /\ UNCHANGED total

\* try_connect() when the server accepts the connection.
try_connect(s) ==
  /\ s \in up /\ nFd < MaxFd
  /\ LET f == nFd + 1
         i == add_connection
     IN  /\ nFd' = f
         /\ owner' = [owner EXCEPT ![f] = s]
         /\ conn' = [conn EXCEPT ![s] = [fd |-> f, index |-> i]]
         /\ fds' = IF i = -1 THEN fds ELSE [fds EXCEPT ![i] = f]
         /\ total' = IF i = -1 THEN total ELSE total + 1

Connect(s) ==
  /\ pc = s
  /\ pc' = IF s = "modemd" THEN "ref" ELSE "poll"
  /\ \/ conn[s].fd < 0 /\ try_connect(s)
     \/ /\ conn[s].fd >= 0 \/ s \notin up \/ nFd = MaxFd
        /\ UNCHANGED <<conn, fds, total, nFd, owner>>
  /\ UNCHANGED <<collate, told, scan, ready, sock, text, eof, up, nMsg, lost>>

-----------------------------------------------------------------------------
(* poll() and the loop over its result *)

Unread(f) == {n \in Msgs : sock[n] = f /\ text[n] \in Texts}

Readable(f) == f \in Fds /\ (Unread(f) # {} \/ eof[f])

\* With no connection the thread sleeps and begins again; with one of two it
\* waits for a second at most; with both it waits for a message.
Poll ==
  /\ pc = "poll"
  /\ LET r == {i \in 0 .. total - 1 : Readable(fds[i])}
     IN  \/ total > 0 /\ r # {} /\ pc' = "scan" /\ ready' = r
         \/ r = {} /\ total < FDS_SIZE /\ pc' = "top" /\ UNCHANGED ready
  /\ scan' = 0
  /\ UNCHANGED <<loop, told, net>>

\* Mutation: the lost connection is still counted.
DisconnectedUncounted(s, i) ==
  /\ conn' = [conn EXCEPT ![s].fd = -1]
  /\ fds' = [fds EXCEPT ![i] = -1]
  /\ UNCHANGED total
  /\ collate' = TRUE

\* read() returned 0.  The message loop stops at the new total_conn.
Disconnected(s, i) ==
  /\ conn' = [conn EXCEPT ![s].fd = -1]
  /\ fds' = [fds EXCEPT ![i] = -1]
  /\ total' = total - 1
  /\ collate' = TRUE

\* What may come first of the messages in S: not nothing.
Prefixes(S) ==
  {T \in SUBSET S \ {{}} : \A n \in T, k \in S : k <= n => k \in T}

\* parse_cp_event_notify() looks for one event in all that it sees, and for
\* an assert first.
SeesReset(seen) ==
  /\ \E n \in seen : text[n] = "reset"
  /\ \A n \in seen : text[n] # "assert"

\* What becomes of the messages that a read took.
Taken(taken, noticed) ==
  [n \in Msgs |-> IF n \notin taken THEN text[n]
                  ELSE IF text[n] # "reset" THEN "read"
                  ELSE IF n \in noticed THEN "noticed"
                  ELSE IF taken = {n} THEN "missed" ELSE "merged"]

\* The flag is set, and the PC is told if cp_event_notify_rsp_handle() can
\* write to the port.
NoticeReset ==
  /\ resetFlag' = TRUE
  /\ notices' = notices + 1
  /\ toldReset' \in {toldReset, toldReset + 1}
  /\ UNCHANGED toldSync

\* A read() for modemd takes what fits into notify_buf.  strstr() sees it up
\* to the first 0, if modemd sends any; a text that is cut at the end of the
\* buffer is taken here but not seen.  The first text is always seen.
ModemdMessage(f) ==
  \E taken \in Prefixes(Unread(f)) : \E seen \in Prefixes(taken) :
    IF SeesReset(seen)
      THEN text' = Taken(taken, seen) /\ NoticeReset
      ELSE text' = Taken(taken, {}) /\ UNCHANGED told

\* Mutation: the reset is still remembered after it was answered.
SendStampForgetful ==
  IF resetFlag
    THEN /\ toldSync' \in {toldSync, toldSync + 1}
         /\ UNCHANGED <<resetFlag, notices, toldReset>>
    ELSE UNCHANGED told

\* A time stamp is sent if a reset is pending, which is forgotten even if
\* time_sync_rsp_handle() cannot write to the port.
SendStamp ==
  IF resetFlag
    THEN /\ resetFlag' = FALSE
         /\ toldSync' \in {toldSync, toldSync + 1}
         /\ UNCHANGED <<notices, toldReset>>
    ELSE UNCHANGED told

\* A read() for the time server takes sizeof(TIME_SYNC_T) bytes, if there are
\* as many: half a message is completed by the beginning of the next one.
\* Any of modemd's texts is long enough to pass, and its end stays behind.
RefMessage(f) ==
  \E n \in Unread(f) :
    LET behind == Unread(f) \ {n}
    IN  /\ \A k \in behind : n <= k
        /\ \/ /\ text[n] = "short" /\ behind = {}
              /\ text' = [text EXCEPT ![n] = "read"]
              /\ UNCHANGED told
           \/ /\ text[n] = "short"
              /\ \E k \in behind :
                   /\ \A j \in behind : k <= j
                   /\ text' = [text EXCEPT ![n] = "read",
                        ![k] = IF text[k] = "sync" THEN "short" ELSE "read"]
              /\ SendStamp
           \/ /\ text[n] # "short"
              /\ \E rest \in IF text[n] = "sync" THEN {"read"}
                                                 ELSE {"read", "other"} :
                   text' = [text EXCEPT ![n] = rest]
              /\ SendStamp

\* Mutation: modemd's messages are read and thrown away.
ReadFromDeaf(s, f) ==
  IF s = "modemd"
    THEN \E taken \in Prefixes(Unread(f)) : text' = Taken(taken, {}) /\ UNCHANGED told
    ELSE RefMessage(f)

\* What the code for server s makes of what is unread in descriptor f.
ReadFrom(s, f) == IF s = "modemd" THEN ModemdMessage(f) ELSE RefMessage(f)

\* fds[i] belongs to the connection whose index is i, modemd's first.
Scan ==
  /\ pc = "scan"
  /\ LET i == scan
         s == IF i = conn["modemd"].index THEN "modemd" ELSE "ref"
         f == fds[i]
     IN  \/ /\ i < total /\ i \in ready /\ i = conn[s].index /\ f \in Fds
            /\ \/ /\ Unread(f) # {}
                  /\ ReadFrom(s, f)
                  /\ sock' = [n \in Msgs |-> IF text'[n] \in Texts THEN sock[n] ELSE 0]
                  /\ UNCHANGED loop
               \/ /\ Unread(f) = {} /\ eof[f]
                  /\ Disconnected(s, i)
                  /\ UNCHANGED <<sock, text, told>>
            /\ scan' = i + 1 /\ UNCHANGED pc
         \/ /\ i < total
            /\ i \notin ready \/ i # conn[s].index
            /\ scan' = i + 1
            /\ UNCHANGED <<pc, loop, told, sock, text>>
         \/ /\ i >= total
            /\ pc' = "top" /\ scan' = 0
            /\ UNCHANGED <<loop, told, sock, text>>
  /\ UNCHANGED <<ready, owner, eof, up, nMsg, nFd, lost>>

-----------------------------------------------------------------------------
(* The servers *)

ServerUp(s) ==
  /\ s \notin up
  /\ up' = up \cup {s}
  /\ UNCHANGED <<loop, told, pc, scan, ready, owner, sock, text, eof, nMsg,
                 nFd, lost>>

\* A message follows those that are unread.
ServerSends(f, m) ==
  /\ f <= nFd /\ ~eof[f] /\ nMsg < MaxMsgs
  /\ m \in Messages[owner[f]]
  /\ nMsg' = nMsg + 1
  /\ sock' = [sock EXCEPT ![nMsg + 1] = f]
  /\ text' = [text EXCEPT ![nMsg + 1] = m]
  /\ UNCHANGED <<loop, told, pc, scan, ready, owner, eof, up, nFd, lost>>

ServerCloses(f) ==
  /\ f <= nFd /\ ~eof[f]
  /\ eof' = [eof EXCEPT ![f] = TRUE]
  /\ lost' = (lost \/ fds[0] = f)
  /\ UNCHANGED <<loop, told, pc, scan, ready, owner, sock, text, up, nMsg, nFd>>

Thread == Top \/ (\E s \in Servers : Connect(s)) \/ Poll \/ Scan

Next == \/ Thread
        \/ \E s \in Servers : ServerUp(s)
        \/ \E f \in Fds : ServerCloses(f)
        \/ \E f \in Fds, m \in Texts : ServerSends(f, m)

Spec == Init /\ [][Next]_vars

\* The thread is scheduled and both servers start some day.
FairSpec == Spec /\ WF_vars(Thread)
                 /\ \A s \in Servers : WF_vars(ServerUp(s))

-----------------------------------------------------------------------------
(* Properties *)

\* "Add the connection to the polling array": whenever the thread polls, a
\* connection it believes to have is in a slot that is polled.
ConnectedIsPolled ==
  pc = "poll" => \A s \in Servers : conn[s].fd >= 0 =>
     /\ conn[s].index \in 0 .. total - 1
     /\ fds[conn[s].index] = conn[s].fd

\* That holds until the connection in the first slot is lost: the second may
\* come and go, and either server may be the first to connect.
PolledUntilLost == ~lost => ConnectedIsPolled

\* Until then a message is read by the code for the server that sent it:
\* when a slot is examined, the connection whose index it is owns the
\* descriptor in it.
ReadByOwner ==
  ~lost /\ pc = "scan" /\ scan < total /\ scan \in ready =>
    LET s == IF scan = conn["modemd"].index THEN "modemd" ELSE "ref"
    IN  scan = conn[s].index => owner[fds[scan]] = s

\* The PC gets at most one time stamp for each time that the thread noticed a
\* reset, and each time it is a reset that it had not noticed before, whatever
\* connections are lost, messages read together and writes to the PC failing.
OneSyncPerReset ==
  /\ toldSync <= notices /\ toldReset <= notices
  /\ notices <= Cardinality({n \in Msgs : text[n] = "noticed"})

\* The thread gets round to every reset that modemd sends, while connections
\* come and go, and notices it.  Two things can prevent that: that it was
\* read together with another message (the code looks for one event in each
\* read), and that the connection in the first slot is lost.
ResetsNoticed ==
  \A n \in Msgs : (text[n] = "reset") ~> (text[n] \in {"noticed", "merged"} \/ lost)
=============================================================================
