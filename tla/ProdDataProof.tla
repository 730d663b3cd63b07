--------------------------- MODULE ProdDataProof ----------------------------
(***************************************************************************)
(* What the factory tools may rely on, proved for any number of channel    *)
(* threads, any partition, any requests, and calls that fail and kills and *)
(* restarts that come at any moment: what was acknowledged is stored, what *)
(* is answered is what was acknowledged, and a write that failed or was    *)
(* cut off succeeds when it is repeated.                                   *)
(***************************************************************************)
EXTENDS ProdData, TLAPS

-----------------------------------------------------------------------------
(* Types, and the request that a thread serves where it is *)

CellValues == [kind : {"data", "sp09", "sp15", "mode"}, n : Nat]

PartOps == {"write16", "write32", "phs_w", "mode_set"}
TsxOps  == {"tsx_w", "ext_w", "raw_w"}
AtPart  == {"snap", "volup", "put"}
AtMac   == {"wifi_open", "wifi_write", "bt_open", "bt_write"}
AtMmi   == {"mmi_conf", "mmi_open", "mmi_fill", "mmi_read"}

\* The cells that a request writes.
Span(r) == CASE r.op = "write16"  -> 0 .. r.len - 1
             [] r.op = "write32"  -> r.off .. r.off + r.len - 1
             [] r.op = "phs_w"    -> 0 .. SnLen(r.magic) - 1
             [] r.op = "mode_set" -> {TESTMODE_OFFSET}

LocalOK ==
  /\ DOMAIN req = Threads /\ DOMAIN ans = Threads /\ buf = [t \in Threads |-> buf[t]]
  /\ addr \in [Threads -> [Macs -> Contents]]
  /\ \A t \in Threads : req[t] \in Requests \cup {NoRequest}

\* A thread that is inside an operation serves a request for it.
OpAt(t) ==
  /\ pc[t] \in AtPart => req[t].op \in PartOps
  /\ pc[t] \in {"snap", "volup"} => nand
  /\ pc[t] = "free"   => req[t].op = "mode_set"
  /\ pc[t] \in AtMac  => req[t].op = "mac_w"
  /\ pc[t] = "write"  => req[t].op \in TsxOps
  /\ pc[t] = "unbak"  => req[t].op = "ext_w"
  /\ pc[t] \in AtMmi  => req[t].op = "mmi_r"

\* A copy of the partition's cells: those that the request writes, and in the
\* NAND build, once the volume was read, all others too.
BufAt(t) ==
  pc[t] \in AtPart =>
    /\ DOMAIN buf[t] = IF nand /\ pc[t] # "snap" THEN Cells ELSE Span(req[t])
    /\ \A c \in DOMAIN buf[t] : buf[t][c] \in CellValues

ThreadInv == \A t \in Threads : OpAt(t) /\ BufAt(t)

TypeInv == TypeOK /\ LocalOK /\ ThreadInv

-----------------------------------------------------------------------------
(* The partition *)

\* Tools that take turns keep one thread busy at most.
SerialInv ==
  serial => \A s, t \in Threads : pc[s] # "idle" /\ pc[t] # "idle" => s = t

\* An interrupted update is one of the NAND build, and while the tools take
\* turns nobody gets past reading such a volume.
TornInv ==
  torn => nand /\ (serial => \A t \in Threads : pc[t] \notin {"volup", "put"})

\* While the tools take turns, a copy of the volume differs from it only
\* where the request writes.
CopyInv ==
  serial /\ nand =>
    \A t \in Threads : pc[t] \in {"volup", "put"} =>
      \A c \in Cells \ Span(req[t]) : buf[t][c] = part[c]

PartStored ==
  ~nand \/ (serial /\ ~torn) => \A c \in Cells \ (unsure \cup spoiled) : part[c] = want[c]

PartInv == SerialInv /\ TornInv /\ CopyInv /\ PartStored

-----------------------------------------------------------------------------
(* The addresses *)

\* a is in doubt, was never set, or c is what was acknowledged.
Keeps(a, c) == a \in unsureFile \/ wantFile[a] = Empty \/ InFile(a, c) = wantFile[a]

\* The thread t has not yet written the file of a.
ToWrite(t, a) == pc[t] \in {"wifi_open", "wifi_write"} \/ a = "bt"

\* What a thread is going to write for an address that its request does not
\* name is what was acknowledged; what it has written is there.
AddrAt(t) ==
  pc[t] \in AtMac =>
    \A a \in Macs :
      IF ToWrite(t, a)
        THEN /\ addr[t][a] # NoFile
             /\ IF a \in Named(t) THEN addr[t][a] = InFile(a, Content("data", num[t]))
                                  ELSE Keeps(a, addr[t][a])
        ELSE a \in unsureFile \/ (file[a] # NoFile /\ Keeps(a, file[a]))

AddrInv == \A t \in Threads : AddrAt(t)

MacStored == \A a \in Macs : Writing(a) \/ Keeps(a, eng_btwifimac_read(a))

MacInv == serial => AddrInv /\ MacStored

-----------------------------------------------------------------------------
(* The other files *)

Kept == {"tsx", "tsxbak", "tsxraw"} \cup Tests

\* A thread has emptied f and has not written it yet.
Opened(t, f) == \/ pc[t] = "write" /\ TsxFile(req[t].op) = f
                \/ pc[t] = "mmi_fill" /\ f = "bbat"

FileStored == \A f \in Kept :
  \/ f \in unsureFile \cup spoiledFile
  \/ \E t \in Threads : Opened(t, f)
  \/ file[f] = wantFile[f]

\* What is acknowledged is never an empty file, and for the raw data a record.
WantOK == /\ wantFile["tsxraw"] = NoFile \/ wantFile["tsxraw"].kind = "data"
          /\ \A f \in Tests : wantFile[f] # Empty

FileInv == FileStored /\ WantOK

\* While the tools take turns, a thread that is about to write a file finds it
\* empty, as it has left it, and the table of the tests as it has read it, unless
\* it could not read it.
TurnAt(t) ==
  /\ pc[t] = "write"    => file[TsxFile(req[t].op)] = Empty
  /\ pc[t] = "mmi_fill" => file["bbat"] = Empty
  /\ pc[t] \in {"mmi_open", "mmi_fill"} => parsed \/ bad[t]

TurnInv == serial => spoiledFile = {} /\ \A t \in Threads : TurnAt(t)

\* The command line is that of the mode that was asked for.
ModeInv == getTestMode(cmdline) = booted

ProdInv == TypeInv /\ PartInv /\ MacInv /\ FileInv /\ TurnInv /\ ModeInv

-----------------------------------------------------------------------------
(* Requests, and the cells that they write *)

\* What the tools' frames hold.
LEMMA RequestFields ==
  ASSUME NEW r \in Requests
  PROVE  /\ r.op # "none"
         /\ r.op \in {"read16", "write16", "read32", "write32"} =>
              r.off \in Nat /\ r.len \in Nat /\ r.off + r.len <= MiscSize
         /\ r.op = "phs_w" => r.magic \in {"sp09", "sp15"}
         /\ r.op = "mode_set" => r.x \in Nat
         /\ r.op \in {"mmi_w", "mmi_r"} => r.type \in Tests \cup {"?"}
<1>1. r \in AllRequests BY RequestsAssumption
<1>2. CASE r \in [op : {"read16", "write16", "read32", "write32"}, off : Cells, len : 1 .. MiscSize]
  <2>1. r.off \in Cells /\ r.len \in 1 .. MiscSize
        /\ r.op \in {"read16", "write16", "read32", "write32"} BY <1>2
  <2>2. r.off + r.len <= MiscSize BY <2>1, RequestsAssumption
  <2>. QED BY <2>1, <2>2, ProdDataAssumption DEF Cells
<1>3. CASE r \in [op : {"phs_w"}, magic : {"sp09", "sp15"}] BY <1>3
<1>4. CASE r \in [op : {"mac_w", "mac_r"}, sel : SUBSET {"bt", "wifi", "imei"},
                  group : BOOLEAN] BY <1>4
<1>5. CASE r \in [op : {"mode_set"}, form : {"name", "dec", "hex", "bare"},
                  name : {"BBAT", "NATIVEMMI", ""}, x : 0 .. 22, raw : BOOLEAN]
  <2>1. r.op = "mode_set" BY <1>5
  <2>2. r.x \in 0 .. 22 BY <1>5
  <2>. QED BY <2>1, <2>2
<1>6. CASE r \in [op : {"phs_r", "mode_get", "tsx_w", "tsx_r", "ext_w", "ext_r",
                        "raw_w", "raw_r", "other"}] BY <1>6
<1>7. CASE r \in [op : {"mmi_w", "mmi_r"}, type : Tests \cup {"?"}] BY <1>7
<1>. QED BY <1>1, <1>2, <1>3, <1>4, <1>5, <1>6, <1>7 DEF AllRequests

\* A name in the table has a number.
LEMMA ModeNumber ==
  ASSUME NEW r \in Requests, r.op = "mode_set"
  PROVE  TestModeId(r) \in Nat
<1>1. ASSUME NEW e \in id_first_mode PROVE e[1] \in Nat BY DEF id_first_mode
<1>2. ASSUME NEW name PROVE findIdWithName(name) \in Nat
  <2>1. CASE \E e \in id_first_mode : e[2] = name
    <3>1. (CHOOSE e \in id_first_mode : e[2] = name) \in id_first_mode BY <2>1
    <3>. HIDE DEF id_first_mode
    <3>. QED BY <2>1, <3>1, <1>1 DEF findIdWithName
  <2>2. CASE ~\E e \in id_first_mode : e[2] = name BY <2>2 DEF findIdWithName
  <2>. QED BY <2>1, <2>2
<1>. QED BY <1>2, RequestFields DEF TestModeId

\* A request writes cells of the partition, with proper values, and which ones
\* depends on nothing but the request.
LEMMA PatchShape ==
  ASSUME TypeOK, NEW t \in Threads, req[t] \in Requests, req[t].op \in PartOps
  PROVE  /\ Span(req[t]) \subseteq Cells /\ DOMAIN Patch(t) = Span(req[t])
         /\ \A c \in Span(req[t]) : Patch(t)[c] \in CellValues
<1>. DEFINE r == req[t]
<1>1. num[t] \in Nat BY ProdDataAssumption DEF TypeOK
<1>2. \A c \in Cells : part[c] \in CellValues BY DEF TypeOK, CellValues, Contents
<1>3. Content("data", num[t]) \in CellValues BY <1>1 DEF Content, CellValues
<1>4. CASE r.op = "write16"
  <2>1. 0 .. r.len - 1 \subseteq Cells BY <1>4, RequestFields, ProdDataAssumption DEF Cells
  <2>. QED BY <1>2, <1>3, <1>4, <2>1 DEF Span, Patch
<1>5. CASE r.op = "write32"
  <2>1. r.off .. r.off + r.len - 1 \subseteq Cells
    BY <1>5, RequestFields, ProdDataAssumption DEF Cells
  <2>. QED BY <1>3, <1>5, <2>1 DEF Span, Patch
<1>6. CASE r.op = "phs_w"
  <2>1. r.magic \in {"sp09", "sp15"} BY <1>6, RequestFields
  <2>2. 0 .. SnLen(r.magic) - 1 \subseteq Cells BY <2>1, ProdDataAssumption DEF Cells, SnLen
  <2>3. Content(r.magic, num[t]) \in CellValues BY <1>1, <2>1 DEF Content, CellValues
  <2>. QED BY <1>3, <1>6, <2>2, <2>3 DEF Span, Patch
<1>7. CASE r.op = "mode_set"
  <2>1. Content("mode", TestModeId(r)) \in CellValues
    BY <1>7, ModeNumber DEF Content, CellValues
  <2>. QED BY <1>7, <2>1, ProdDataAssumption DEF Span, Patch, Cells
<1>. QED BY <1>4, <1>5, <1>6, <1>7 DEF PartOps

-----------------------------------------------------------------------------
(* The steps of one thread *)

\* The types of what outlives the program, and of what is remembered of it.
StoreOK ==
  /\ torn \in BOOLEAN /\ parsed \in BOOLEAN
  /\ part \in [Cells -> Contents] /\ want \in [Cells -> Contents]
  /\ \A c \in Cells : part[c].kind \in {"data", "sp09", "sp15", "mode"}
  /\ file \in [Files -> Contents] /\ wantFile \in [Files -> Contents]
  /\ unsure \subseteq Cells /\ unsureFile \subseteq Files
  /\ spoiled \subseteq Cells /\ spoiledFile \subseteq Files

CountsOK == /\ nReq \in 0 .. MaxReqs + MaxInTurn /\ nFault \in 0 .. MaxFaults
            /\ nKill \in 0 .. MaxKills

\* Only t moves.
Own(t) ==
  /\ UNCHANGED build /\ LocalOK'
  /\ pc' \in [Threads -> Pcs] /\ num' \in [Threads -> 0 .. MaxReqs + MaxInTurn]
  /\ bad' \in [Threads -> BOOLEAN]
  /\ (pc'[t] = "idle") = (req'[t] = NoRequest)
  /\ \A s \in Threads \ {t} :
       /\ pc'[s] = pc[s] /\ req'[s] = req[s] /\ num'[s] = num[s]
       /\ buf'[s] = buf[s] /\ addr'[s] = addr[s]

Ends(t) == Own(t) /\ pc'[t] = "idle"
Goes(t, l) == Own(t) /\ pc'[t] = l /\ req'[t] = req[t] /\ num'[t] = num[t]

\* An answer frees its thread and moves no other.
LEMMA Replies ==
  ASSUME TypeInv, NEW t \in Threads, NEW ok, NEW d, Reply(t, ok, d), UNCHANGED build
  PROVE  Ends(t)
<1>1. NoAddr \in [Macs -> Contents] BY DEF NoAddr, Empty, Contents, Kinds
<1>2. LocalOK' BY <1>1 DEF TypeInv, LocalOK, Reply
<1>3. pc' \in [Threads -> Pcs] /\ pc'[t] = "idle" BY DEF TypeInv, TypeOK, Reply, Goto, Pcs
<1>4. num' \in [Threads -> 0 .. MaxReqs + MaxInTurn] /\ bad' \in [Threads -> BOOLEAN]
  BY ProdDataAssumption DEF TypeInv, TypeOK, Reply
<1>5. req'[t] = NoRequest BY DEF TypeInv, LocalOK, Reply
<1>. QED BY <1>2, <1>3, <1>4, <1>5 DEF TypeInv, TypeOK, LocalOK, Reply, Goto, Ends, Own

\* A thread that goes on with its request moves no other.
LEMMA GoesOn ==
  ASSUME TypeInv, NEW t \in Threads, NEW l \in Pcs \ {"idle"}, pc[t] # "idle", Goto(t, l),
         UNCHANGED <<build, req, num, ans>>,
         NEW b, buf' = [buf EXCEPT ![t] = b],
         NEW m \in [Macs -> Contents], addr' = [addr EXCEPT ![t] = m],
         NEW k \in BOOLEAN, bad' = [bad EXCEPT ![t] = k]
  PROVE  Goes(t, l) /\ buf'[t] = b /\ addr'[t] = m
<1>1. LocalOK' BY DEF TypeInv, LocalOK
<1>2. pc' \in [Threads -> Pcs] /\ pc'[t] = l BY DEF TypeInv, TypeOK, Goto
<1>3. num' \in [Threads -> 0 .. MaxReqs + MaxInTurn] /\ bad' \in [Threads -> BOOLEAN]
  BY DEF TypeInv, TypeOK
<1>4. req[t] # NoRequest BY DEF TypeInv, TypeOK
<1>. QED BY <1>1, <1>2, <1>3, <1>4 DEF TypeInv, TypeOK, LocalOK, Goto, Goes, Own

\* The same without a change of its variables.
LEMMA GoesSame ==
  ASSUME TypeInv, NEW t \in Threads, NEW l \in Pcs \ {"idle"}, pc[t] # "idle", Goto(t, l),
         UNCHANGED <<build, local, ans>>
  PROVE  Goes(t, l) /\ buf'[t] = buf[t] /\ addr'[t] = addr[t]
<1>1. LocalOK' BY DEF TypeInv, LocalOK, local
<1>2. pc' \in [Threads -> Pcs] /\ pc'[t] = l BY DEF TypeInv, TypeOK, Goto
<1>3. num' \in [Threads -> 0 .. MaxReqs + MaxInTurn] /\ bad' \in [Threads -> BOOLEAN]
  BY DEF TypeInv, TypeOK, local
<1>4. req[t] # NoRequest BY DEF TypeInv, TypeOK
<1>. QED BY <1>1, <1>2, <1>3, <1>4 DEF TypeInv, TypeOK, LocalOK, Goto, Goes, Own, local

\* The types after a step of one thread.
LEMMA TypeFrame ==
  ASSUME TypeInv, NEW t \in Threads, Own(t), OpAt(t)', BufAt(t)', StoreOK', CountsOK'
  PROVE  TypeInv'
<1>1. TypeOK' BY DEF TypeInv, TypeOK, Own, StoreOK, CountsOK, build
<1>2. \A s \in Threads \ {t} : OpAt(s)' /\ BufAt(s)'
  BY DEF TypeInv, ThreadInv, OpAt, BufAt, Own, build
<1>. QED BY <1>1, <1>2 DEF TypeInv, ThreadInv, Own

\* The partition's invariant after a step of one thread that does not touch it.
LEMMA PartFrame ==
  ASSUME PartInv, NEW t \in Threads, Own(t), UNCHANGED <<part, torn, want, unsure, spoiled>>,
         serial /\ pc[t] = "idle" => \A s \in Threads : pc[s] = "idle",
         pc'[t] \notin {"volup", "put"}
  PROVE  PartInv'
<1>1. UNCHANGED <<nand, serial>> BY DEF Own, build
<1>2. SerialInv' BY <1>1 DEF PartInv, SerialInv, Own
<1>3. TornInv' BY <1>1 DEF PartInv, TornInv, Own
<1>4. CopyInv'
  <2>. SUFFICES ASSUME serial, nand, NEW s \in Threads, pc'[s] \in {"volup", "put"},
                       NEW c \in Cells \ Span(req'[s])
                PROVE  buf'[s][c] = part'[c]
    BY <1>1 DEF CopyInv, Span, SnLen
  <2>1. s # t BY DEF Own
  <2>2. req'[s] = req[s] /\ buf'[s] = buf[s] /\ pc'[s] = pc[s] BY <2>1 DEF Own
  <2>. QED BY <2>2 DEF PartInv, CopyInv
<1>5. PartStored' BY <1>1 DEF PartInv, PartStored
<1>. QED BY <1>2, <1>3, <1>4, <1>5 DEF PartInv

\* Which threads have one of the files of the addresses open.
LEMMA MacHalf ==
  ASSUME NEW t, NEW a \in Macs
  PROVE  a \in HalfFiles(t) <=> pc[t] \in {"wifi_write", "bt_open", "bt_write"}
BY DEF HalfFiles, Macs, TsxFile

\* The same for the addresses.
LEMMA MacFrame ==
  ASSUME MacInv, NEW t \in Threads, Own(t), pc[t] \notin AtMac, pc'[t] \notin AtMac,
         \A f \in Macs \cup {"wifiroot", "btroot"} : file'[f] = file[f],
         \A a \in Macs : wantFile'[a] = wantFile[a] /\ (a \in unsureFile => a \in unsureFile')
  PROVE  MacInv'
<1>1. serial' = serial BY DEF Own, build
<1>. DEFINE Still(a, c) == a \in unsureFile' \/ wantFile'[a] = Empty \/ InFile(a, c) = wantFile'[a]
<1>2. \A a \in Macs : \A c : Keeps(a, c) => Still(a, c)
  BY DEF Keeps
<1>3. ASSUME AddrInv PROVE AddrInv'
  <2>1. \A s \in Threads : pc'[s] \in AtMac => s # t BY DEF Own
  <2>2. \A s \in Threads \ {t}, a \in Macs : /\ ToWrite(s, a)' <=> ToWrite(s, a)
                                             /\ a \in Named(s)' <=> a \in Named(s)
    BY DEF Own, ToWrite, Named
  <2>3. \A s \in Threads \ {t} : pc'[s] = pc[s] /\ addr'[s] = addr[s] /\ num'[s] = num[s] BY DEF Own
  <2>. SUFFICES ASSUME NEW s \in Threads \ {t}, pc[s] \in AtMac, NEW a \in Macs
                PROVE  IF ToWrite(s, a)
                         THEN /\ addr[s][a] # NoFile
                              /\ IF a \in Named(s)
                                   THEN addr[s][a] = InFile(a, Content("data", num[s]))
                                   ELSE Still(a, addr[s][a])
                         ELSE a \in unsureFile' \/ (file[a] # NoFile /\ Still(a, file[a]))
    BY <2>1, <2>2, <2>3 DEF AddrInv, AddrAt, Own, Keeps
  <2>. QED BY <1>2, <1>3 DEF AddrInv, AddrAt
<1>4. ASSUME MacStored PROVE MacStored'
  <2>1. \A a \in Macs : eng_btwifimac_read(a)' = eng_btwifimac_read(a)
    BY DEF eng_btwifimac_read, Root, Macs
  <2>2. ASSUME NEW a \in Macs, Writing(a) PROVE Writing(a)'
    <3>1. PICK s \in Threads : a \in HalfFiles(s) BY <2>2 DEF Writing
    <3>2. s # t /\ pc'[s] = pc[s] BY <3>1, MacHalf DEF Own, AtMac
    <3>3. pc'[s] \in {"wifi_write", "bt_open", "bt_write"} BY <3>1, <3>2, MacHalf
    <3>4. a \in HalfFiles(s)' BY <3>3 DEF HalfFiles
    <3>. QED BY <3>4 DEF Writing
  <2>. QED BY <1>2, <2>1, <2>2, <1>4 DEF MacStored, Keeps
<1>. QED BY <1>1, <1>3, <1>4 DEF MacInv

\* The same for the other files.
LEMMA FileFrame ==
  ASSUME FileInv, NEW t \in Threads, Own(t),
         pc[t] \notin {"write", "mmi_fill"},
         \A f \in Kept : /\ file'[f] = file[f] /\ wantFile'[f] = wantFile[f]
                         /\ f \in unsureFile \cup spoiledFile
                              => f \in unsureFile' \cup spoiledFile'
  PROVE  FileInv'
<1>1. \A f \in Kept, s \in Threads : Opened(s, f) => Opened(s, f)'
  BY DEF Opened, Own, TsxFile
<1>. QED BY <1>1 DEF FileInv, FileStored, WantOK, Kept

\* The turns of the tools after a step of one thread: only that thread is busy.
LEMMA TurnMove ==
  ASSUME TurnInv, SerialInv, NEW t \in Threads, Own(t),
         serial /\ pc[t] = "idle" => \A s \in Threads : pc[s] = "idle",
         serial => spoiledFile' \subseteq spoiledFile /\ TurnAt(t)'
  PROVE  TurnInv'
<1>1. serial' = serial BY DEF Own, build
<1>2. ASSUME serial, NEW s \in Threads, s # t PROVE TurnAt(s)'
  <2>1. pc[s] = "idle" BY <1>2 DEF SerialInv
  <2>2. pc'[s] = "idle" BY <1>2, <2>1 DEF Own
  <2>. QED BY <2>2 DEF TurnAt
<1>. QED BY <1>1, <1>2 DEF TurnInv

\* What a step of one thread leaves alone.
PartSame == UNCHANGED <<part, torn, want, unsure, spoiled>>
FileSame == UNCHANGED <<file, wantFile, unsureFile, spoiledFile>>
BootSame == UNCHANGED <<cmdline, booted>>

\* Nothing but a restart of the phone changes what mode engpc reports.
LEMMA ModeFrame == ModeInv /\ BootSame => ModeInv'
BY DEF ModeInv, BootSame, getTestMode, findNameWithId, parse_key_value, id_first_mode,
       id_cali_mode

\* The types of the stores, where a step leaves some of them alone.
LEMMA StoreSame ==
  TypeInv /\ PartSame /\ FileSame /\ parsed' \in BOOLEAN => StoreOK'
BY DEF TypeInv, TypeOK, StoreOK, PartSame, FileSame

\* The types of the stores after a step that changes files only.
LEMMA StoreFile ==
  ASSUME TypeInv, PartSame, parsed' = parsed,
         file' \in [Files -> Contents], wantFile' \in [Files -> Contents],
         unsureFile' \subseteq Files, spoiledFile' \subseteq Files
  PROVE  StoreOK'
BY DEF TypeInv, TypeOK, StoreOK, PartSame

\* A step of one thread that changes nothing that is stored, and neither
\* begins nor ends to change it.
LEMMA CalmStep ==
  ASSUME ProdInv, NEW t \in Threads, Own(t), PartSame, FileSame, BootSame,
         parsed' \in BOOLEAN, CountsOK', OpAt(t)', BufAt(t)',
         serial /\ pc[t] = "idle" => \A s \in Threads : pc[s] = "idle",
         pc[t] \notin AtMac \cup {"write", "mmi_fill"},
         pc'[t] \notin AtMac \cup {"volup", "put", "write", "mmi_fill"},
         pc'[t] = "mmi_open" => parsed' \/ bad'[t]
  PROVE  ProdInv'
<1>1. TypeInv' BY TypeFrame, StoreSame DEF ProdInv
<1>2. PartInv' BY PartFrame DEF ProdInv, PartSame
<1>3. MacInv' BY MacFrame DEF ProdInv, FileSame
<1>4. FileInv' BY FileFrame DEF ProdInv, FileSame
<1>5. TurnAt(t)' BY DEF TurnAt
<1>6. TurnInv' BY <1>5, TurnMove DEF ProdInv, PartInv, FileSame
<1>. QED BY <1>1, <1>2, <1>3, <1>4, <1>6, ModeFrame DEF ProdInv

\* An idle thread is at no operation.
LEMMA IdleAt ==
  ASSUME NEW t, pc'[t] = "idle"
  PROVE  OpAt(t)' /\ BufAt(t)'
BY DEF OpAt, BufAt, AtPart, AtMac, AtMmi

\* The same for a step by which the request ends.
LEMMA CalmEnd ==
  ASSUME ProdInv, NEW t \in Threads, Ends(t), PartSame, FileSame, BootSame,
         parsed' = parsed, CountsOK', pc[t] # "idle",
         pc[t] \notin AtMac \cup {"write", "mmi_fill"}
  PROVE  ProdInv'
<1>1. parsed' \in BOOLEAN BY DEF ProdInv, TypeInv, TypeOK
<1>2. pc'[t] \notin AtMac \cup {"volup", "put", "write", "mmi_fill", "mmi_open"}
  BY DEF Ends, AtMac
<1>. QED BY <1>1, <1>2, IdleAt, CalmStep DEF Ends

\* The counters stay in their bounds.
LEMMA Counts ==
  ASSUME TypeInv, NEW t \in Threads, UNCHANGED nFault \/ Fault(t), UNCHANGED <<nReq, nKill>>
  PROVE  CountsOK'
BY ProdDataAssumption DEF TypeInv, TypeOK, CountsOK, Fault

-----------------------------------------------------------------------------
(* Requests, and the steps that store nothing *)

\* A request arrives at an idle thread.
LEMMA RequestStep ==
  ASSUME ProdInv, NEW t \in Threads, NEW r \in Requests, Request(t, r)
  PROVE  ProdInv'
<1>. USE DEF ProdInv
<1>1. CountsOK' BY ProdDataAssumption DEF TypeInv, TypeOK, CountsOK, Request
<1>2. LocalOK' BY DEF TypeInv, LocalOK, Request
<1>3. r # NoRequest BY RequestFields DEF NoRequest
<1>4. num' \in [Threads -> 0 .. MaxReqs + MaxInTurn]
  BY ProdDataAssumption DEF TypeInv, TypeOK, Request
<1>5. Own(t) /\ pc'[t] = "start"
  BY <1>2, <1>3, <1>4 DEF TypeInv, TypeOK, LocalOK, Request, Goto, Own, Pcs
<1>6. OpAt(t)' /\ BufAt(t)' BY <1>5 DEF OpAt, BufAt, AtPart, AtMac, AtMmi
<1>7. PartSame /\ FileSame /\ BootSame /\ parsed' \in BOOLEAN
  BY DEF Request, PartSame, FileSame, BootSame, phone, ghost, TypeInv, TypeOK
<1>8. pc[t] = "idle" /\ (serial => \A s \in Threads : pc[s] = "idle") BY DEF Request
<1>. QED BY <1>1, <1>5, <1>6, <1>7, <1>8, CalmStep DEF AtMac

\* Refusals, failures before anything was touched, and reads.
LEMMA QuietStep ==
  ASSUME ProdInv, NEW t \in Threads,
         \/ Other(t) \/ ReadPart(t) \/ GetTestMode(t) \/ MacRead(t) \/ TsxRead(t) \/ MmiRead(t)
  PROVE  ProdInv'
<1>1. pc[t] \in {"start", "mmi_read"} /\ UNCHANGED <<build, phone, ghost, nReq, nKill>>
  BY DEF Other, ReadPart, GetTestMode, MacRead, TsxRead, MmiRead
<1>2. \E ok, d : Reply(t, ok, d)
  BY DEF Other, ReadPart, GetTestMode, MacRead, TsxRead, MmiRead
<1>3. UNCHANGED nFault \/ Fault(t)
  BY DEF Other, ReadPart, GetTestMode, MacRead, TsxRead, MmiRead
<1>4. Ends(t) BY <1>1, <1>2, Replies DEF ProdInv
<1>5. CountsOK' BY <1>1, <1>3, Counts DEF ProdInv
<1>. QED BY <1>1, <1>4, <1>5, CalmEnd
       DEF phone, ghost, PartSame, FileSame, BootSame, AtMac

-----------------------------------------------------------------------------
(* Writing the partition *)

\* A thread that is busy is the only one while the tools take turns.
LEMMA Alone ==
  ASSUME ProdInv, serial, NEW t \in Threads, pc[t] # "idle", NEW s \in Threads, s # t
  PROVE  pc[s] = "idle"
BY DEF ProdInv, PartInv, SerialInv

\* The partition's invariant after a step of one thread that leaves it alone
\* and may be about to write it: what is left to show is about that thread.
LEMMA PartGoes ==
  ASSUME ProdInv, NEW t \in Threads, Own(t), PartSame, pc[t] # "idle",
         torn /\ serial => pc'[t] \notin {"volup", "put"},
         serial /\ nand /\ pc'[t] \in {"volup", "put"} =>
           \A c \in Cells \ Span(req'[t]) : buf'[t][c] = part[c]
  PROVE  PartInv'
<1>1. UNCHANGED <<nand, serial>> BY DEF Own, build
<1>2. SerialInv' BY <1>1 DEF ProdInv, PartInv, SerialInv, Own
<1>3. TornInv' BY <1>1 DEF ProdInv, PartInv, TornInv, Own, PartSame
<1>4. CopyInv'
  <2>. SUFFICES ASSUME serial, nand, NEW s \in Threads, pc'[s] \in {"volup", "put"},
                       NEW c \in Cells \ Span(req'[s])
                PROVE  buf'[s][c] = part[c]
    BY <1>1 DEF CopyInv, Span, SnLen, PartSame
  <2>1. s = t BY Alone DEF Own
  <2>. QED BY <2>1
<1>5. PartStored' BY <1>1 DEF ProdInv, PartInv, PartStored, PartSame
<1>. QED BY <1>2, <1>3, <1>4, <1>5 DEF PartInv

\* The other invariants after a step that is about the partition.
LEMMA PartOnly ==
  ASSUME ProdInv, NEW t \in Threads, Own(t), FileSame, BootSame, pc[t] # "idle",
         pc[t] \notin AtMac \cup {"write", "mmi_fill"},
         pc'[t] \notin AtMac \cup {"write", "mmi_open", "mmi_fill"}
  PROVE  MacInv' /\ FileInv' /\ TurnInv' /\ ModeInv'
<1>1. MacInv' BY MacFrame DEF ProdInv, FileSame
<1>2. FileInv' BY FileFrame DEF ProdInv, FileSame
<1>3. TurnAt(t)' BY DEF TurnAt
<1>4. TurnInv' BY <1>3, TurnMove DEF ProdInv, PartInv, FileSame
<1>. QED BY <1>1, <1>2, <1>4, ModeFrame DEF ProdInv

\* A write to the partition begins: the thread gets the cells that it is to
\* write, or answers that it cannot read them.
LEMMA WriteStartStep ==
  ASSUME ProdInv, NEW t \in Threads, WriteStart(t)
  PROVE  ProdInv'
<1>0. /\ pc[t] = "start" /\ req[t].op \in PartOps
      /\ PartSame /\ FileSame /\ BootSame /\ parsed' = parsed /\ UNCHANGED build
  BY DEF WriteStart, PartOps, phone, ghost, PartSame, FileSame, BootSame
<1>1. CountsOK' BY Counts DEF WriteStart, ProdInv
<1>2. CASE Reply(t, FALSE, <<>>)
  BY <1>0, <1>1, <1>2, Replies, CalmEnd DEF ProdInv, AtMac
<1>3. CASE /\ buf' = [buf EXCEPT ![t] = Patch(t)] /\ Goto(t, IF nand THEN "snap" ELSE "put")
           /\ UNCHANGED <<req, num, addr, bad, ans>>
  <2>. DEFINE l == IF nand THEN "snap" ELSE "put"
  <2>1. Goes(t, l) /\ buf'[t] = Patch(t)
    <3>1. addr[t] \in [Macs -> Contents] /\ addr' = [addr EXCEPT ![t] = addr[t]]
      BY <1>3 DEF ProdInv, TypeInv, LocalOK
    <3>2. bad[t] \in BOOLEAN /\ bad' = [bad EXCEPT ![t] = bad[t]]
      BY <1>3 DEF ProdInv, TypeInv, TypeOK
    <3>3. l \in Pcs \ {"idle"} BY DEF Pcs
    <3>. QED BY <1>0, <1>3, <3>1, <3>2, <3>3, GoesOn DEF ProdInv
  <2>2. req[t] \in Requests BY <1>0 DEF ProdInv, TypeInv, LocalOK, NoRequest, PartOps
  <2>3. DOMAIN Patch(t) = Span(req[t]) /\ \A c \in Span(req[t]) : Patch(t)[c] \in CellValues
    BY <1>0, <2>2, PatchShape DEF ProdInv, TypeInv
  <2>4. UNCHANGED nand BY <1>0 DEF build
  <2>5. OpAt(t)' BY <1>0, <2>1, <2>4 DEF OpAt, Goes, AtPart, AtMac, AtMmi
  <2>6. BufAt(t)'
    <3>1. pc'[t] = l /\ req'[t] = req[t] BY <2>1 DEF Goes
    <3>2. Span(req[t])' = Span(req'[t]) BY DEF Span, SnLen
    <3>3. DOMAIN buf'[t] = Span(req'[t]) /\ \A c \in DOMAIN buf'[t] : buf'[t][c] \in CellValues
      BY <2>1, <2>3, <3>1
    <3>. QED BY <3>1, <3>2, <3>3, <2>4 DEF BufAt, CellValues
  <2>7. TypeInv'
    BY <1>0, <1>1, <2>1, <2>5, <2>6, TypeFrame, StoreSame DEF ProdInv, Goes, TypeInv, TypeOK
  <2>8. PartInv'
    <3>1. pc'[t] \in {"volup", "put"} => ~nand BY <2>1 DEF Goes
    <3>2. torn => nand BY DEF ProdInv, PartInv, TornInv
    <3>. QED BY <1>0, <2>1, <3>1, <3>2, PartGoes DEF Goes
  <2>. QED BY <1>0, <2>1, <2>7, <2>8, PartOnly DEF ProdInv, Goes, AtMac
<1>. QED BY <1>2, <1>3 DEF WriteStart

\* NAND: the volume is read, and the cells to be written are laid over it.
LEMMA SnapStep ==
  ASSUME ProdInv, NEW t \in Threads, Snap(t)
  PROVE  ProdInv'
<1>0. /\ pc[t] = "snap" /\ PartSame /\ FileSame /\ BootSame /\ parsed' = parsed
      /\ UNCHANGED build
  BY DEF Snap, phone, ghost, PartSame, FileSame, BootSame
<1>1. CountsOK' BY Counts DEF Snap, ProdInv
<1>2. CASE Reply(t, FALSE, <<>>)
  BY <1>0, <1>1, <1>2, Replies, CalmEnd DEF ProdInv, AtMac
<1>3. CASE /\ Readable /\ buf' = [buf EXCEPT ![t] = Over(buf[t], part)] /\ Goto(t, "volup")
           /\ UNCHANGED <<req, num, addr, bad, ans>>
  <2>1. Goes(t, "volup") /\ buf'[t] = Over(buf[t], part)
    <3>1. addr[t] \in [Macs -> Contents] /\ addr' = [addr EXCEPT ![t] = addr[t]]
      BY <1>3 DEF ProdInv, TypeInv, LocalOK
    <3>2. bad[t] \in BOOLEAN /\ bad' = [bad EXCEPT ![t] = bad[t]]
      BY <1>3 DEF ProdInv, TypeInv, TypeOK
    <3>. QED BY <1>0, <1>3, <3>1, <3>2, GoesOn DEF ProdInv, Pcs
  <2>2. nand /\ req[t].op \in PartOps /\ req[t] \in Requests
    BY <1>0 DEF ProdInv, TypeInv, LocalOK, ThreadInv, OpAt, AtPart, NoRequest, PartOps
  <2>3. DOMAIN buf[t] = Span(req[t]) /\ \A c \in DOMAIN buf[t] : buf[t][c] \in CellValues
    BY <1>0 DEF ProdInv, TypeInv, ThreadInv, BufAt, AtPart
  <2>4. Span(req[t]) \subseteq Cells BY <2>2, PatchShape DEF ProdInv, TypeInv
  <2>5. DOMAIN part = Cells /\ \A c \in Cells : part[c] \in CellValues
    BY DEF ProdInv, TypeInv, TypeOK, CellValues, Contents
  <2>6. DOMAIN buf'[t] = Cells /\ \A c \in Cells : buf'[t][c] \in CellValues
    BY <2>1, <2>3, <2>4, <2>5 DEF Over
  <2>7. UNCHANGED nand BY <1>0 DEF build
  <2>8. OpAt(t)' BY <2>1, <2>2, <2>7 DEF OpAt, Goes, AtPart, AtMac, AtMmi
  <2>9. BufAt(t)' BY <2>1, <2>2, <2>6, <2>7 DEF BufAt, Goes, CellValues, Cells
  <2>10. TypeInv'
    BY <1>0, <1>1, <2>1, <2>8, <2>9, TypeFrame, StoreSame DEF ProdInv, Goes, TypeInv, TypeOK
  <2>11. PartInv'
    <3>1. \A c \in Cells \ Span(req[t]) : buf'[t][c] = part[c]
      BY <2>1, <2>3, <2>5 DEF Over
    <3>2. ~torn BY <1>3 DEF Readable
    <3>. QED BY <1>0, <2>1, <3>1, <3>2, PartGoes DEF Goes
  <2>. QED BY <1>0, <2>1, <2>10, <2>11, PartOnly DEF ProdInv, Goes, AtMac
<1>. QED BY <1>2, <1>3 DEF Snap

\* NAND: the update of the volume begins.
LEMMA VolUpStep ==
  ASSUME ProdInv, NEW t \in Threads, VolUp(t)
  PROVE  ProdInv'
<1>0. /\ pc[t] = "volup" /\ PartSame /\ FileSame /\ BootSame /\ parsed' = parsed
      /\ UNCHANGED build
  BY DEF VolUp, phone, ghost, PartSame, FileSame, BootSame
<1>1. CountsOK' BY Counts DEF VolUp, ProdInv
<1>2. CASE Reply(t, FALSE, <<>>)
  BY <1>0, <1>1, <1>2, Replies, CalmEnd DEF ProdInv, AtMac
<1>3. CASE Goto(t, "put") /\ UNCHANGED <<local, ans>>
  <2>1. Goes(t, "put") /\ buf'[t] = buf[t] BY <1>0, <1>3, GoesSame DEF ProdInv, Pcs
  <2>2. UNCHANGED nand BY <1>0 DEF build
  <2>3. nand /\ req[t].op \in PartOps
    BY <1>0 DEF ProdInv, TypeInv, ThreadInv, OpAt, AtPart
  <2>4. OpAt(t)' BY <2>1, <2>2, <2>3 DEF OpAt, Goes, AtPart, AtMac, AtMmi
  <2>5. DOMAIN buf[t] = Cells /\ \A c \in Cells : buf[t][c] \in CellValues
    BY <1>0, <2>3 DEF ProdInv, TypeInv, ThreadInv, BufAt, AtPart
  <2>6. BufAt(t)' BY <2>1, <2>2, <2>3, <2>5 DEF BufAt, Goes, CellValues, Cells
  <2>7. TypeInv'
    BY <1>0, <1>1, <2>1, <2>4, <2>6, TypeFrame, StoreSame DEF ProdInv, Goes, TypeInv, TypeOK
  <2>8. PartInv'
    <3>1. serial /\ nand => \A c \in Cells \ Span(req[t]) : buf[t][c] = part[c]
      BY <1>0 DEF ProdInv, PartInv, CopyInv
    <3>2. torn => ~serial BY <1>0 DEF ProdInv, PartInv, TornInv
    <3>. QED BY <1>0, <2>1, <3>1, <3>2, PartGoes DEF Goes
  <2>. QED BY <1>0, <2>1, <2>7, <2>8, PartOnly DEF ProdInv, Goes, AtMac
<1>. QED BY <1>2, <1>3 DEF VolUp

\* The write to the partition itself.
LEMMA PutStep ==
  ASSUME ProdInv, NEW t \in Threads, Put(t)
  PROVE  ProdInv'
<1>. DEFINE S == Span(req[t])
            fresh == IF req[t].op = "write16" THEN DOMAIN Patch(t) \cap Named16(t)
                                              ELSE DOMAIN Patch(t)
<1>0. /\ pc[t] = "put" /\ UNCHANGED <<nand, serial>> /\ UNCHANGED build /\ parsed' = parsed
      /\ BootSame /\ UNCHANGED file
  BY DEF Put, build, BootSame
<1>1. FileSame BY <1>0 DEF Put, Asked, FileSame
<1>2. CountsOK' BY Counts DEF Put, ProdInv
<1>3. req[t] \in Requests /\ req[t].op \in PartOps
  BY <1>0 DEF ProdInv, TypeInv, LocalOK, ThreadInv, OpAt, AtPart, NoRequest, PartOps
<1>4. S \subseteq Cells /\ DOMAIN Patch(t) = S BY <1>3, PatchShape DEF ProdInv, TypeInv
<1>5. /\ DOMAIN buf[t] = IF nand THEN Cells ELSE S
      /\ \A c \in DOMAIN buf[t] : buf[t][c] \in CellValues
  BY <1>0 DEF ProdInv, TypeInv, ThreadInv, BufAt, AtPart
<1>6. DOMAIN part = Cells /\ DOMAIN want = Cells
      /\ \A c \in Cells : part[c] \in CellValues /\ want[c] \in Contents
  BY DEF ProdInv, TypeInv, TypeOK, CellValues, Contents
<1>7. Own(t) /\ pc'[t] \in {"idle", "free"} /\ OpAt(t)' /\ BufAt(t)'
  <2>1. CASE \E ok, d : Reply(t, ok, d)
    <3>1. Ends(t) BY <1>0, <2>1, Replies DEF ProdInv
    <3>. QED BY <3>1, IdleAt DEF Ends
  <2>2. CASE req[t].op = "mode_set" /\ Goto(t, "free") /\ UNCHANGED <<local, ans>>
    <3>1. Goes(t, "free") BY <1>0, <2>2, GoesSame DEF ProdInv, Pcs
    <3>. QED BY <2>2, <3>1 DEF Goes, OpAt, BufAt, AtPart, AtMac, AtMmi
  <2>. QED BY <2>1, <2>2 DEF Put
<1>8. SerialInv' BY <1>0, <1>7 DEF ProdInv, PartInv, SerialInv, Own
<1>9. serial => \A s \in Threads : pc'[s] \notin {"volup", "put"}
  BY <1>0, <1>7, Alone DEF Own
<1>10. CopyInv' BY <1>0, <1>9 DEF CopyInv
<1>11. CASE part' = Over(buf[t], part) /\ torn' = FALSE /\ Asked(t)
  <2>1. DOMAIN part' = Cells /\ \A c \in Cells : part'[c] =
          IF nand \/ c \in S THEN buf[t][c] ELSE part[c]
    BY <1>4, <1>5, <1>6, <1>11 DEF Over
  <2>2. /\ want' = [c \in Cells |-> IF c \in fresh THEN buf[t][c]
                                    ELSE IF c \in Missed(t) THEN Content("data", num[t])
                                    ELSE want[c]]
        /\ unsure' = unsure \ fresh
        /\ spoiled' = (spoiled \ fresh) \cup Missed(t) \cup Stale(t)
    BY <1>11 DEF Asked
  <2>3. fresh \subseteq S /\ unsure' \subseteq Cells /\ spoiled' \subseteq Cells
    <3>1. unsure \subseteq Cells /\ spoiled \subseteq Cells BY DEF ProdInv, TypeInv, TypeOK
    <3>2. req[t].op = "write16" => Named16(t) \subseteq Cells
      BY <1>3, RequestFields, ProdDataAssumption DEF Cells, Named16
    <3>3. Missed(t) \subseteq Cells BY <3>2 DEF Missed
    <3>4. Stale(t) \subseteq Cells BY <1>4 DEF Stale
    <3>5. fresh \subseteq S BY <1>4
    <3>. HIDE DEF fresh
    <3>. QED BY <2>2, <3>1, <3>3, <3>4, <3>5
  <2>4. StoreOK'
    <3>1. \A c \in Cells : part'[c] \in CellValues BY <1>4, <1>5, <1>6, <2>1
    <3>2. \A c \in Cells : want'[c] \in Contents
      <4>1. \A c \in S : buf[t][c] \in CellValues BY <1>4, <1>5
      <4>2. \A v \in CellValues : v \in Contents BY DEF CellValues, Contents, Kinds
      <4>3. Content("data", num[t]) \in Contents
        BY ProdDataAssumption DEF ProdInv, TypeInv, TypeOK, Content, Contents, Kinds
      <4>. HIDE DEF fresh, S
      <4>. QED BY <4>1, <4>2, <4>3, <1>6, <2>2, <2>3
    <3>3. part' = [c \in Cells |-> part'[c]] BY <2>1, <1>11 DEF Over
    <3>4. want' = [c \in Cells |-> want'[c]] BY <2>2
    <3>5. part' \in [Cells -> Contents] /\ \A c \in Cells : part'[c].kind \in
            {"data", "sp09", "sp15", "mode"}
      BY <3>1, <3>3 DEF CellValues, Contents, Kinds
    <3>6. want' \in [Cells -> Contents] BY <3>2, <3>4
    <3>7. /\ file' \in [Files -> Contents] /\ wantFile' \in [Files -> Contents]
          /\ unsureFile' \subseteq Files /\ spoiledFile' \subseteq Files
          /\ parsed' \in BOOLEAN
      BY <1>0, <1>1 DEF FileSame, ProdInv, TypeInv, TypeOK
    <3>. QED BY <1>11, <2>3, <3>5, <3>6, <3>7 DEF StoreOK
  <2>5. TypeInv' BY <1>2, <1>7, <2>4, TypeFrame DEF ProdInv
  <2>6. TornInv' BY <1>11 DEF TornInv
  <2>7. PartStored'
    <3>. SUFFICES ASSUME ~nand \/ serial, NEW c \in Cells, c \notin unsure' \cup spoiled'
                  PROVE  part'[c] = want'[c]
      BY <1>0 DEF PartStored, Cells
    <3>1. CASE c \in fresh
      <4>. HIDE DEF fresh
      <4>. QED BY <2>1, <2>2, <2>3, <3>1
    <3>2. CASE c \notin fresh
      <4>1. c \notin unsure \cup spoiled \cup Missed(t) \cup Stale(t)
        <5>. HIDE DEF fresh
        <5>. QED BY <2>2, <3>2
      <4>2. torn => ~(serial \/ ~nand) BY <1>0 DEF ProdInv, PartInv, TornInv
      <4>3. part[c] = want[c] BY <4>1, <4>2 DEF ProdInv, PartInv, PartStored
      <4>4. part'[c] = part[c]
        <5>1. CASE c \in S
          <6>1. req[t].op = "write16" /\ c \in DOMAIN Patch(t) \ Named16(t)
            BY <1>4, <3>2, <5>1
          <6>2. buf[t][c] = part[c] BY <4>1, <6>1 DEF Stale
          <6>. QED BY <2>1, <5>1, <6>2
        <5>2. CASE c \notin S BY <1>0, <2>1, <5>2 DEF ProdInv, PartInv, CopyInv
        <5>. QED BY <5>1, <5>2
      <4>5. want'[c] = want[c]
        <5>. HIDE DEF fresh
        <5>. QED BY <2>2, <3>2, <4>1
      <4>. QED BY <4>3, <4>4, <4>5
    <3>. QED BY <3>1, <3>2
  <2>8. PartInv' BY <1>8, <1>10, <2>6, <2>7 DEF PartInv
  <2>. QED BY <1>0, <1>1, <1>7, <2>5, <2>8, PartOnly DEF ProdInv, AtMac
<1>12. CASE /\ torn' = nand /\ unsure' = unsure \cup DOMAIN Patch(t)
            /\ UNCHANGED <<part, want, spoiled>>
  <2>1. StoreOK'
    BY <1>0, <1>1, <1>4, <1>12 DEF StoreOK, FileSame, ProdInv, TypeInv, TypeOK
  <2>2. TypeInv' BY <1>2, <1>7, <2>1, TypeFrame DEF ProdInv
  <2>3. TornInv' BY <1>0, <1>9, <1>12 DEF TornInv
  <2>4. PartStored'
    <3>1. torn => nand BY DEF ProdInv, PartInv, TornInv
    <3>. QED BY <1>0, <1>12, <3>1 DEF ProdInv, PartInv, PartStored
  <2>5. PartInv' BY <1>8, <1>10, <2>3, <2>4 DEF PartInv
  <2>. QED BY <1>0, <1>1, <1>7, <2>2, <2>5, PartOnly DEF ProdInv, AtMac
<1>. QED BY <1>11, <1>12 DEF Put

-----------------------------------------------------------------------------
(* Writing the addresses *)

\* The order of the bytes: a file's contents remain contents, reversing twice
\* changes nothing, and what is not an address is left as it is.
LEMMA Turned ==
  ASSUME NEW a, NEW c \in Contents
  PROVE  /\ InFile(a, c) \in Contents /\ InFile(a, InFile(a, c)) = c
         /\ InFile(a, c) = Empty <=> c = Empty
         /\ InFile(a, c) = NoFile <=> c = NoFile
BY DEF InFile, Reversed, Content, Contents, Kinds, Empty, NoFile

\* Reading an address gives contents, never the absence of a file.
LEMMA ReadsContents ==
  ASSUME file \in [Files -> Contents], NEW a \in Macs
  PROVE  eng_btwifimac_read(a) \in Contents \ {NoFile}
<1>1. a \in Files /\ Root(a) \in Files BY DEF Root, Files, Macs
<1>2. Empty \in Contents /\ Empty # NoFile BY DEF Empty, NoFile, Contents, Kinds
<1>. QED BY <1>1, <1>2 DEF eng_btwifimac_read

\* The addresses that t is going to write are contents.
LEMMA AddrContents ==
  ASSUME TypeInv, NEW t \in Threads, NEW lost
  PROVE  /\ MacAddr(t, lost) \in [Macs -> Contents]
         /\ \A a \in Macs : MacAddr(t, lost)[a] # NoFile
<1>1. Content("data", num[t]) \in Contents /\ Content("data", num[t]) # NoFile
  BY ProdDataAssumption DEF TypeInv, TypeOK, Content, Contents, Kinds, NoFile
<1>2. Random \in Contents /\ Random # NoFile BY DEF Random, Contents, Kinds, NoFile
<1>3. file \in [Files -> Contents] BY DEF TypeInv, TypeOK
<1>4. \A a \in Macs : InFile(a, Content("data", num[t])) \in Contents \ {NoFile}
  BY <1>1, Turned
<1>. QED BY <1>2, <1>3, <1>4, ReadsContents DEF MacAddr

\* The invariants of the rest after a step that is about files.
LEMMA FileOnly ==
  ASSUME ProdInv, NEW t \in Threads, Own(t), PartSame, BootSame, pc[t] # "idle",
         pc'[t] \notin {"volup", "put"}
  PROVE  PartInv' /\ ModeInv'
BY PartFrame, ModeFrame DEF ProdInv, PartSame

\* While the tools take turns, only the thread that moves is at an address.
LEMMA OneWriter ==
  ASSUME ProdInv, NEW t \in Threads, Own(t), pc[t] # "idle", serial => AddrAt(t)' /\ MacStored'
  PROVE  MacInv'
<1>1. serial' = serial BY DEF Own, build
<1>2. ASSUME serial, NEW s \in Threads, s # t PROVE pc'[s] \notin AtMac
  BY <1>2, Alone DEF Own, AtMac
<1>3. serial => AddrInv' BY <1>2 DEF AddrInv, AddrAt
<1>. QED BY <1>1, <1>3 DEF MacInv

\* An address is read while nobody writes.
LEMMA NoWriter ==
  ASSUME ProdInv, serial, NEW t \in Threads, pc[t] \notin {"idle", "wifi_write", "bt_open", "bt_write"},
         NEW a \in Macs
  PROVE  Keeps(a, eng_btwifimac_read(a))
<1>1. ASSUME NEW s \in Threads PROVE a \notin HalfFiles(s)
  BY MacHalf, Alone
<1>. QED BY <1>1 DEF ProdInv, MacInv, MacStored, Writing

\* A write of the addresses begins: the one that the request does not name is
\* read back.
LEMMA MacStartStep ==
  ASSUME ProdInv, NEW t \in Threads, MacStart(t)
  PROVE  ProdInv'
<1>0. /\ pc[t] = "start" /\ req[t].op = "mac_w" /\ PartSame /\ BootSame /\ parsed' = parsed
      /\ UNCHANGED <<build, file>>
  BY DEF MacStart, phone, ghost, PartSame, BootSame, Doubt
<1>1. CountsOK' BY Counts DEF MacStart, ProdInv
<1>2. CASE Reply(t, FALSE, <<>>) /\ UNCHANGED ghost
  <2>1. FileSame BY <1>0, <1>2 DEF ghost, FileSame
  <2>. QED BY <1>0, <1>1, <1>2, <2>1, Replies, CalmEnd DEF ProdInv, AtMac
<1>3. ASSUME NEW lost \in SUBSET (Macs \ Named(t)), Goto(t, "wifi_open"),
             UNCHANGED <<req, num, buf, ans>>,
             addr' = [addr EXCEPT ![t] = MacAddr(t, lost)],
             bad' = [bad EXCEPT ![t] = TRUE] \/ UNCHANGED bad,
             UNCHANGED <<wantFile, spoiledFile>>, unsureFile' = unsureFile \cup lost
      PROVE  ProdInv'
  <2>1. Goes(t, "wifi_open") /\ addr'[t] = MacAddr(t, lost)
    <3>1. buf' = [buf EXCEPT ![t] = buf[t]] BY <1>3 DEF ProdInv, TypeInv, LocalOK
    <3>2. \E k \in BOOLEAN : bad' = [bad EXCEPT ![t] = k]
      BY <1>3 DEF ProdInv, TypeInv, TypeOK
    <3>3. MacAddr(t, lost) \in [Macs -> Contents] BY AddrContents DEF ProdInv
    <3>. QED BY <1>0, <1>3, <3>1, <3>2, <3>3, GoesOn DEF ProdInv, Pcs
  <2>2. OpAt(t)' /\ BufAt(t)' BY <1>0, <2>1 DEF Goes, OpAt, BufAt, AtPart, AtMac, AtMmi
  <2>3. lost \subseteq Files BY DEF Files
  <2>4. StoreOK' BY <1>0, <1>3, <2>3, StoreFile DEF ProdInv, TypeInv, TypeOK
  <2>5. TypeInv' BY <1>1, <2>1, <2>2, <2>4, TypeFrame DEF ProdInv, Goes
  <2>6. FileInv' BY <1>0, <1>3, <2>1, FileFrame DEF ProdInv, Goes
  <2>7. MacInv'
    <3>. SUFFICES ASSUME serial PROVE AddrAt(t)' /\ MacStored'
      BY <1>0, <2>1, OneWriter DEF Goes
    <3>1. \A a \in Macs : Keeps(a, eng_btwifimac_read(a)) BY <1>0, NoWriter
    <3>2. ASSUME NEW a \in Macs
          PROVE  /\ MacAddr(t, lost)[a] # NoFile
                 /\ IF a \in Named(t)
                      THEN MacAddr(t, lost)[a] = InFile(a, Content("data", num[t]))
                      ELSE \/ a \in unsureFile' \/ wantFile[a] = Empty
                           \/ InFile(a, MacAddr(t, lost)[a]) = wantFile[a]
      <4>1. MacAddr(t, lost)[a] # NoFile BY AddrContents DEF ProdInv
      <4>2. CASE a \in Named(t) BY <4>1, <4>2 DEF MacAddr
      <4>3. CASE a \notin Named(t) /\ a \in lost BY <1>3, <4>1, <4>3
      <4>4. CASE a \notin Named(t) /\ a \notin lost
        <5>1. CASE eng_btwifimac_read(a) = Empty
          <6>1. InFile(a, Empty) = Empty BY DEF InFile, Reversed, Empty
          <6>. QED BY <3>1, <4>1, <4>4, <5>1, <6>1, <1>3 DEF Keeps
        <5>2. CASE eng_btwifimac_read(a) # Empty
          <6>1. MacAddr(t, lost)[a] = eng_btwifimac_read(a) BY <4>4, <5>2 DEF MacAddr
          <6>. QED BY <3>1, <4>1, <4>4, <6>1, <1>3 DEF Keeps
        <5>. QED BY <5>1, <5>2
      <4>. QED BY <4>2, <4>3, <4>4
    <3>3. AddrAt(t)'
      <4>1. /\ pc'[t] = "wifi_open" /\ req'[t] = req[t] /\ num'[t] = num[t]
            /\ addr'[t] = MacAddr(t, lost) /\ wantFile' = wantFile
        BY <1>3, <2>1 DEF Goes
      <4>2. \A a \in Macs : ToWrite(t, a)' BY <4>1 DEF ToWrite
      <4>3. Named(t)' = Named(t) BY <4>1 DEF Named
      <4>. QED BY <3>2, <4>1, <4>2, <4>3 DEF AddrAt, Keeps
    <3>4. MacStored'
      <4>1. \A a \in Macs : eng_btwifimac_read(a)' = eng_btwifimac_read(a)
        BY <1>0 DEF eng_btwifimac_read, Root
      <4>. QED BY <1>3, <3>1, <4>1 DEF MacStored, Keeps
    <3>. QED BY <3>3, <3>4
  <2>8. TurnAt(t)' BY <2>1 DEF Goes, TurnAt
  <2>9. TurnInv' BY <1>0, <1>3, <2>1, <2>8, TurnMove DEF ProdInv, PartInv, Goes
  <2>. QED BY <1>0, <2>1, <2>5, <2>6, <2>7, <2>9, FileOnly DEF ProdInv, Goes
<1>4. CASE /\ Goto(t, "wifi_open") /\ UNCHANGED <<req, num, buf, ans, bad, ghost>>
           /\ addr' = [addr EXCEPT ![t] = MacAddr(t, {})]
  <2>1. unsureFile' = unsureFile \cup {} /\ UNCHANGED <<wantFile, spoiledFile>>
    BY <1>4 DEF ghost
  <2>. QED BY <1>4, <2>1, <1>3
<1>5. ASSUME NEW a \in Macs \ Named(t), Goto(t, "wifi_open"), UNCHANGED <<req, num, buf, ans>>,
             addr' = [addr EXCEPT ![t] = MacAddr(t, {a})],
             bad' = [bad EXCEPT ![t] = TRUE], Doubt({a})
      PROVE  ProdInv'
  <2>1. unsureFile' = unsureFile \cup {a} /\ UNCHANGED <<wantFile, spoiledFile>>
    BY <1>5 DEF Doubt
  <2>. QED BY <1>5, <2>1, <1>3
<1>. QED BY <1>2, <1>4, <1>5 DEF MacStart

\* A step inside the writing of the addresses.
LEMMA MacMove ==
  ASSUME ProdInv, NEW t \in Threads, Own(t), pc[t] \in AtMac, pc'[t] \in AtMac \cup {"idle"},
         pc'[t] # "idle" => req'[t] = req[t],
         PartSame, BootSame, parsed' = parsed, CountsOK', MacInv',
         file' \in [Files -> Contents], wantFile' \in [Files -> Contents],
         unsureFile' \subseteq Files, spoiledFile' \subseteq spoiledFile,
         \A f \in Kept : file'[f] = file[f] /\ wantFile'[f] = wantFile[f],
         unsureFile \cap Kept \subseteq unsureFile',
         spoiledFile \cap Kept \subseteq spoiledFile'
  PROVE  ProdInv'
<1>0. req[t].op = "mac_w" BY DEF ProdInv, TypeInv, ThreadInv, OpAt
<1>1. OpAt(t)' /\ BufAt(t)' BY <1>0 DEF OpAt, BufAt, AtPart, AtMac, AtMmi
<1>2. StoreOK'
  <2>1. spoiledFile' \subseteq Files BY DEF ProdInv, TypeInv, TypeOK
  <2>. QED BY <2>1, StoreFile DEF ProdInv
<1>3. TypeInv' BY <1>1, <1>2, TypeFrame DEF ProdInv
<1>4. FileInv' BY FileFrame DEF ProdInv, AtMac
<1>5. TurnAt(t)' BY DEF TurnAt, AtMac
<1>6. TurnInv' BY <1>5, TurnMove DEF ProdInv, PartInv, AtMac
<1>. QED BY <1>3, <1>4, <1>6, FileOnly DEF ProdInv, AtMac

\* The addresses have files of their own.
LEMMA Apart == /\ Macs \cup {"btroot", "wifiroot"} \subseteq Files \ Kept
               /\ Empty \in Contents /\ NoFile \in Contents
BY DEF Macs, Files, Kept, Tests, Empty, NoFile, Contents, Kinds

\* One of the files of the addresses is emptied.
LEMMA MacOpenStep ==
  ASSUME ProdInv, NEW t \in Threads, MacOpen(t)
  PROVE  ProdInv'
<1>. DEFINE a0 == IF pc[t] = "wifi_open" THEN "wifi" ELSE "bt"
<1>0. /\ pc[t] \in {"wifi_open", "bt_open"} /\ PartSame /\ BootSame /\ parsed' = parsed
      /\ UNCHANGED build
  BY DEF MacOpen, ghost, Doubt, PartSame, BootSame
<1>1. CountsOK' BY Counts DEF MacOpen, ProdInv
<1>2. /\ file \in [Files -> Contents] /\ wantFile \in [Files -> Contents]
      /\ unsureFile \subseteq Files
  BY DEF ProdInv, TypeInv, TypeOK
<1>3. CASE OpenTrunc(t, a0) /\ UNCHANGED ghost
  <2>. DEFINE l == IF a0 = "wifi" THEN "wifi_write" ELSE "bt_write"
  <2>1. Goes(t, l) /\ addr'[t] = addr[t]
    <3>1. Goto(t, l) /\ UNCHANGED <<local, ans>> BY <1>3 DEF OpenTrunc
    <3>2. l \in Pcs \ {"idle"} BY DEF Pcs
    <3>. QED BY <1>0, <3>1, <3>2, GoesSame DEF ProdInv
  <2>2. UNCHANGED <<wantFile, unsureFile, spoiledFile>> /\ file' = [file EXCEPT ![a0] = Empty]
    BY <1>3 DEF ghost, OpenTrunc
  <2>3. a0 \in Macs BY DEF Macs
  <2>4. MacInv'
    <3>. SUFFICES ASSUME serial PROVE AddrAt(t)' /\ MacStored'
      BY <1>0, <2>1, OneWriter DEF Goes
    <3>1. pc'[t] = l /\ req'[t] = req[t] /\ num'[t] = num[t] BY <2>1 DEF Goes
    <3>2. Named(t)' = Named(t) BY <3>1 DEF Named
    <3>3. \A a \in Macs : ToWrite(t, a)' <=> ToWrite(t, a) BY <1>0, <3>1 DEF ToWrite
    <3>4. \A a \in Macs : ~ToWrite(t, a) => file'[a] = file[a]
      BY <1>0, <1>2, <2>2, Apart DEF ToWrite
    <3>5. AddrAt(t) BY DEF ProdInv, MacInv, AddrInv
    <3>6. AddrAt(t)'
      BY <1>0, <2>1, <2>2, <3>1, <3>2, <3>3, <3>4, <3>5 DEF AddrAt, AtMac, Keeps
    <3>7. \A a \in Macs : a \in HalfFiles(t)' BY <3>1 DEF HalfFiles
    <3>. QED BY <3>6, <3>7 DEF MacStored, Writing
  <2>5. file' \in [Files -> Contents] BY <1>2, <2>2, Apart
  <2>6. \A f \in Kept : file'[f] = file[f] BY <1>2, <2>2, <2>3, Apart
  <2>. QED BY <1>0, <1>1, <1>2, <2>1, <2>2, <2>4, <2>5, <2>6, MacMove DEF Goes, AtMac
<1>4. CASE Reply(t, "imei" \in req[t].sel, <<>>) /\ Doubt(Macs) /\ UNCHANGED file
  <2>1. Ends(t) BY <1>0, <1>4, Replies DEF ProdInv
  <2>2. UNCHANGED <<file, wantFile, spoiledFile>> /\ unsureFile' = unsureFile \cup Macs
    BY <1>4 DEF Doubt
  <2>3. MacInv'
    <3>1. AddrAt(t)' BY <2>1 DEF Ends, AddrAt, AtMac
    <3>2. MacStored' BY <2>2 DEF MacStored, Keeps
    <3>. QED BY <1>0, <2>1, <3>1, <3>2, OneWriter DEF Ends
  <2>. QED BY <1>0, <1>1, <1>2, <2>1, <2>2, <2>3, Apart, MacMove DEF Ends, AtMac
<1>. QED BY <1>3, <1>4 DEF MacOpen

\* The file of the WiFi address is written.
LEMMA WifiWriteStep ==
  ASSUME ProdInv, NEW t \in Threads, WifiWrite(t)
  PROVE  ProdInv'
<1>0. /\ pc[t] = "wifi_write" /\ PartSame /\ BootSame /\ parsed' = parsed /\ UNCHANGED build
      /\ UNCHANGED <<req, num, buf, addr, ans>> /\ Goto(t, "bt_open")
  BY DEF WifiWrite, ghost, Doubt, Stored, PartSame, BootSame
<1>1. CountsOK' BY Counts DEF WifiWrite, ProdInv
<1>2. /\ file \in [Files -> Contents] /\ wantFile \in [Files -> Contents]
      /\ unsureFile \subseteq Files /\ addr[t] \in [Macs -> Contents]
  BY DEF ProdInv, TypeInv, TypeOK, LocalOK
<1>3. Goes(t, "bt_open") /\ addr'[t] = addr[t]
  <2>1. buf' = [buf EXCEPT ![t] = buf[t]] /\ addr' = [addr EXCEPT ![t] = addr[t]]
    BY <1>0 DEF ProdInv, TypeInv, LocalOK
  <2>2. \E k \in BOOLEAN : bad' = [bad EXCEPT ![t] = k]
    <3>1. bad' = bad \/ bad' = [bad EXCEPT ![t] = TRUE] BY DEF WifiWrite
    <3>2. bad[t] \in BOOLEAN /\ bad = [bad EXCEPT ![t] = bad[t]]
      BY DEF ProdInv, TypeInv, TypeOK
    <3>. QED BY <3>1, <3>2
  <2>. QED BY <1>0, <1>2, <2>1, <2>2, GoesOn DEF ProdInv, Pcs
<1>4. pc'[t] = "bt_open" /\ req'[t] = req[t] /\ num'[t] = num[t] BY <1>3 DEF Goes
<1>5. Named(t)' = Named(t) BY <1>4 DEF Named
<1>6. Content("data", num[t]) \in Contents
  BY ProdDataAssumption DEF ProdInv, TypeInv, TypeOK, Content, Contents, Kinds
<1>7. \/ /\ file' = [file EXCEPT !["wifi"] = addr[t]["wifi"]]
         /\ IF "wifi" \in Named(t)
              THEN wantFile' = [wantFile EXCEPT !["wifi"] = Content("data", num[t])]
                   /\ unsureFile' = unsureFile \ {"wifi"}
                   /\ spoiledFile' = spoiledFile \ {"wifi"}
              ELSE UNCHANGED <<wantFile, unsureFile, spoiledFile>>
      \/ UNCHANGED <<file, wantFile, spoiledFile>> /\ unsureFile' = unsureFile \cup {"wifi"}
  BY DEF WifiWrite, Stored, Doubt, ghost
<1>8. /\ file' \in [Files -> Contents] /\ wantFile' \in [Files -> Contents]
      /\ unsureFile' \subseteq Files
  <2>1. "wifi" \in Files /\ addr[t]["wifi"] \in Contents BY <1>2, Apart DEF Macs
  <2>. QED BY <1>2, <1>6, <1>7, <2>1
<1>9. /\ \A f \in Kept \cup {"bt"} : file'[f] = file[f] /\ wantFile'[f] = wantFile[f]
      /\ unsureFile \cap Kept \subseteq unsureFile' /\ ("bt" \in unsureFile => "bt" \in unsureFile')
      /\ spoiledFile' \subseteq spoiledFile /\ spoiledFile \cap Kept \subseteq spoiledFile'
  <2>1. "wifi" \notin Kept \cup {"bt"} /\ Kept \cup {"bt"} \subseteq Files
    BY Apart DEF Macs, Kept, Files, Tests
  <2>. QED BY <1>2, <1>7, <2>1
<1>10. MacInv'
  <2>. SUFFICES ASSUME serial PROVE AddrAt(t)' /\ MacStored'
    BY <1>0, <1>3, OneWriter DEF Goes
  <2>1. AddrAt(t) BY DEF ProdInv, MacInv, AddrInv
  <2>2. \A a \in Macs : ToWrite(t, a) BY <1>0 DEF ToWrite
  <2>3. \A a \in Macs : ToWrite(t, a)' <=> a = "bt" BY <1>4 DEF ToWrite
  <2>4. "wifi" \in Macs /\ "wifi" \in Files /\ \A c : InFile("wifi", c) = c
    BY DEF InFile, Macs, Files
  <2>5. "wifi" \in unsureFile' \/
          (file'["wifi"] # NoFile /\ (wantFile'["wifi"] = Empty \/ file'["wifi"] = wantFile'["wifi"]))
    <3>1. addr[t]["wifi"] # NoFile /\ IF "wifi" \in Named(t)
            THEN addr[t]["wifi"] = Content("data", num[t])
            ELSE \/ "wifi" \in unsureFile \/ wantFile["wifi"] = Empty
                 \/ addr[t]["wifi"] = wantFile["wifi"]
      BY <1>0, <2>1, <2>2, <2>4 DEF AddrAt, AtMac, Keeps
    <3>. QED BY <1>2, <1>7, <2>4, <3>1
  <2>6. "bt" \in Macs => /\ addr[t]["bt"] # NoFile
             /\ IF "bt" \in Named(t) THEN addr[t]["bt"] = InFile("bt", Content("data", num[t]))
                ELSE Keeps("bt", addr[t]["bt"])
    BY <1>0, <2>1, <2>2 DEF AddrAt, AtMac
  <2>7. \A a \in Macs : a = "bt" \/ a = "wifi" BY DEF Macs
  <2>8. AddrAt(t)'
    <3>. SUFFICES ASSUME NEW a \in Macs
                  PROVE  IF a = "bt"
                    THEN /\ addr[t][a] # NoFile
                         /\ IF a \in Named(t) THEN addr[t][a] = InFile(a, Content("data", num[t]))
                            ELSE \/ a \in unsureFile' \/ wantFile'[a] = Empty
                                 \/ InFile(a, addr[t][a]) = wantFile'[a]
                    ELSE a \in unsureFile' \/ (file'[a] # NoFile /\
                           (\/ a \in unsureFile' \/ wantFile'[a] = Empty
                            \/ InFile(a, file'[a]) = wantFile'[a]))
      BY <1>3, <1>4, <1>5, <2>3 DEF AddrAt, Keeps
    <3>. QED BY <1>9, <2>4, <2>5, <2>6, <2>7 DEF Keeps
  <2>9. \A a \in Macs : a \in HalfFiles(t)' BY <1>4 DEF HalfFiles
  <2>. QED BY <2>8, <2>9 DEF MacStored, Writing
<1>. QED BY <1>0, <1>1, <1>3, <1>4, <1>8, <1>9, <1>10, MacMove DEF Goes, AtMac

\* The file of the Bluetooth address is written, and the older one removed.
LEMMA BtWriteStep ==
  ASSUME ProdInv, NEW t \in Threads, BtWrite(t)
  PROVE  ProdInv'
<1>0. /\ pc[t] = "bt_write" /\ PartSame /\ BootSame /\ parsed' = parsed /\ UNCHANGED build
  BY DEF BtWrite, ghost, Doubt, Stored, PartSame, BootSame
<1>1. CountsOK' BY Counts DEF BtWrite, ProdInv
<1>2. /\ file \in [Files -> Contents] /\ wantFile \in [Files -> Contents]
      /\ unsureFile \subseteq Files /\ addr[t] \in [Macs -> Contents]
  BY DEF ProdInv, TypeInv, TypeOK, LocalOK
<1>3. Ends(t) BY <1>0, Replies DEF ProdInv, BtWrite
<1>4. Content("data", num[t]) \in Contents
  BY ProdDataAssumption DEF ProdInv, TypeInv, TypeOK, Content, Contents, Kinds
<1>5. \/ /\ file' = [file EXCEPT !["bt"] = addr[t]["bt"], !["btroot"] = NoFile]
         /\ IF "bt" \in Named(t)
              THEN wantFile' = [wantFile EXCEPT !["bt"] = Content("data", num[t])]
                   /\ unsureFile' = unsureFile \ {"bt"}
                   /\ spoiledFile' = spoiledFile \ {"bt"}
              ELSE UNCHANGED <<wantFile, unsureFile, spoiledFile>>
      \/ /\ file' = [file EXCEPT !["btroot"] = NoFile] /\ UNCHANGED <<wantFile, spoiledFile>>
         /\ unsureFile' = unsureFile \cup {"bt"}
  BY DEF BtWrite, Stored, Doubt, ghost
<1>6. "bt" \in Macs /\ "wifi" \in Macs /\ \A a \in Macs : a = "bt" \/ a = "wifi" BY DEF Macs
<1>7. /\ file' \in [Files -> Contents] /\ wantFile' \in [Files -> Contents]
      /\ unsureFile' \subseteq Files
  <2>1. {"bt", "btroot"} \subseteq Files /\ addr[t]["bt"] \in Contents BY <1>2, <1>6, Apart
  <2>. QED BY <1>2, <1>4, <1>5, <2>1, Apart
<1>8. /\ \A f \in Kept \cup {"wifi"} : file'[f] = file[f] /\ wantFile'[f] = wantFile[f]
      /\ unsureFile \cap Kept \subseteq unsureFile'
      /\ spoiledFile' \subseteq spoiledFile /\ spoiledFile \cap Kept \subseteq spoiledFile'
      /\ ("wifi" \in unsureFile => "wifi" \in unsureFile')
  <2>1. /\ {"bt", "btroot"} \cap (Kept \cup {"wifi"}) = {} /\ Kept \cup {"wifi"} \subseteq Files
    BY DEF Macs, Kept, Files, Tests
  <2>. QED BY <1>2, <1>5, <2>1
<1>9. MacInv'
  <2>. SUFFICES ASSUME serial PROVE AddrAt(t)' /\ MacStored'
    BY <1>0, <1>3, OneWriter DEF Ends
  <2>1. AddrAt(t) BY DEF ProdInv, MacInv, AddrInv
  <2>2. AddrAt(t)' BY <1>3 DEF Ends, AddrAt, AtMac
  <2>3. ToWrite(t, "bt") /\ ~ToWrite(t, "wifi") BY <1>0 DEF ToWrite
  <2>. DEFINE Still(a, c) == \/ a \in unsureFile' \/ wantFile'[a] = Empty
                              \/ InFile(a, c) = wantFile'[a]
              now(a) == eng_btwifimac_read(a)'
  <2>4. Still("wifi", now("wifi"))
    <3>1. "wifi" \in unsureFile \/ (file["wifi"] # NoFile /\ Keeps("wifi", file["wifi"]))
      BY <1>0, <1>6, <2>1, <2>3 DEF AddrAt, AtMac
    <3>2. file'["wifi"] # NoFile => now("wifi") = file'["wifi"] BY DEF eng_btwifimac_read
    <3>. QED BY <1>8, <3>1, <3>2 DEF Keeps
  <2>5. Still("bt", now("bt"))
    <3>1. CASE "bt" \in unsureFile' BY <3>1
    <3>2. CASE "bt" \notin unsureFile'
      <4>1. /\ addr[t]["bt"] # NoFile
            /\ IF "bt" \in Named(t) THEN addr[t]["bt"] = InFile("bt", Content("data", num[t]))
                                    ELSE Keeps("bt", addr[t]["bt"])
        BY <1>0, <1>6, <2>1, <2>3 DEF AddrAt, AtMac
      <4>2. "bt" \in Files /\ "bt" # "btroot" BY <1>6, Apart
      <4>3. file'["bt"] = addr[t]["bt"] BY <1>2, <1>5, <3>2, <4>2
      <4>4. now("bt") = addr[t]["bt"] BY <4>1, <4>3 DEF eng_btwifimac_read
      <4>5. InFile("bt", InFile("bt", Content("data", num[t]))) = Content("data", num[t])
        BY <1>4, Turned
      <4>6. CASE "bt" \in Named(t)
        <5>1. wantFile'["bt"] = Content("data", num[t]) BY <1>2, <1>5, <3>2, <4>2, <4>6
        <5>. QED BY <4>1, <4>4, <4>5, <4>6, <5>1
      <4>7. CASE "bt" \notin Named(t)
        <5>1. UNCHANGED <<wantFile, unsureFile>> BY <1>5, <3>2, <4>7
        <5>. QED BY <4>1, <4>4, <4>7, <5>1 DEF Keeps
      <4>. QED BY <4>6, <4>7
    <3>. QED BY <3>1, <3>2
  <2>6. \A a \in Macs : Still(a, now(a)) BY <1>6, <2>4, <2>5
  <2>7. MacStored' BY <2>6 DEF MacStored, Keeps
  <2>. QED BY <2>2, <2>7
<1>. QED BY <1>0, <1>1, <1>3, <1>7, <1>8, <1>9, MacMove DEF Ends, AtMac

-----------------------------------------------------------------------------
(* Writing the other files *)

\* A step that is about one of the other files, f.
LEMMA KeptMove ==
  ASSUME ProdInv, NEW t \in Threads, Own(t), pc[t] \notin AtMac \cup {"idle"},
         pc'[t] \notin AtMac \cup {"volup", "put"}, OpAt(t)', BufAt(t)',
         PartSame, BootSame, parsed' = parsed, CountsOK',
         NEW f \in Kept, NEW c \in Contents,
         file' = [file EXCEPT ![f] = c] \/ UNCHANGED file,
         NEW w \in Contents,
         wantFile' = [wantFile EXCEPT ![f] = w] \/ UNCHANGED wantFile,
         unsureFile' \cup {f} = unsureFile \cup {f},
         spoiledFile' \cup {f} = spoiledFile \cup {f},
         \A g \in Kept \ {f} : Opened(t, g) => Opened(t, g)',
         f \in unsureFile' \cup spoiledFile' \/ Opened(t, f)' \/ file'[f] = wantFile'[f],
         WantOK', serial => spoiledFile' \subseteq spoiledFile /\ TurnAt(t)'
  PROVE  ProdInv'
<1>0. Kept \subseteq Files /\ Kept \cap (Macs \cup {"wifiroot", "btroot"}) = {}
  BY DEF Kept, Files, Macs, Tests
<1>1. /\ file \in [Files -> Contents] /\ wantFile \in [Files -> Contents]
      /\ unsureFile \subseteq Files /\ spoiledFile \subseteq Files
  BY DEF ProdInv, TypeInv, TypeOK
<1>2. /\ file' \in [Files -> Contents] /\ wantFile' \in [Files -> Contents]
      /\ unsureFile' \subseteq Files /\ spoiledFile' \subseteq Files
  BY <1>0, <1>1
<1>3. \A g \in Files \ {f} : /\ file'[g] = file[g] /\ wantFile'[g] = wantFile[g]
                             /\ g \in unsureFile <=> g \in unsureFile'
                             /\ g \in spoiledFile <=> g \in spoiledFile'
  BY <1>1
<1>4. TypeInv' BY <1>2, StoreFile, TypeFrame DEF ProdInv
<1>5. MacInv'
  <2>1. \A g \in Macs \cup {"wifiroot", "btroot"} : g \in Files \ {f}
    BY <1>0 DEF Files
  <2>. QED BY <1>3, <2>1, MacFrame DEF ProdInv
<1>6. FileStored'
  <2>. SUFFICES ASSUME NEW g \in Kept, g # f
                PROVE  \/ g \in unsureFile' \cup spoiledFile'
                       \/ \E s \in Threads : Opened(s, g)'
                       \/ file'[g] = wantFile'[g]
    BY DEF FileStored
  <2>1. \A s \in Threads : Opened(s, g) => Opened(s, g)'
    BY DEF Opened, Own, TsxFile
  <2>. QED BY <1>0, <1>3, <2>1 DEF ProdInv, FileInv, FileStored
<1>7. TurnInv' BY TurnMove DEF ProdInv, PartInv
<1>. QED BY <1>4, <1>5, <1>6, <1>7, FileOnly DEF ProdInv, FileInv

\* The names and contents that the steps below use.
LEMMA TsxKept ==
  ASSUME NEW t, req[t].op \in TsxOps
  PROVE  /\ TsxFile(req[t].op) \in {"tsx", "tsxraw"}
         /\ TsxFile(req[t].op) = "tsxraw" <=> req[t].op = "raw_w"
BY DEF TsxFile, TsxOps

\* What a request writes to a file is neither nothing nor a missing file.
LEMMA DataContents ==
  ASSUME TypeInv, NEW t \in Threads, NEW k \in {"data", "ext", "plain"}
  PROVE  Content(k, num[t]) \in Contents /\ Content(k, num[t]).kind = k
         /\ Content(k, num[t]) # Empty
BY ProdDataAssumption DEF TypeInv, TypeOK, Content, Contents, Kinds, Empty

\* A file of the TSX calibration is emptied.
LEMMA TsxOpenStep ==
  ASSUME ProdInv, NEW t \in Threads, TsxOpen(t)
  PROVE  ProdInv'
<1>. DEFINE f == TsxFile(req[t].op)
<1>0. /\ pc[t] = "start" /\ req[t].op \in TsxOps /\ PartSame /\ BootSame /\ parsed' = parsed
      /\ UNCHANGED <<build, wantFile, unsureFile, spoiledFile>>
  BY DEF TsxOpen, ghost, PartSame, BootSame, TsxOps
<1>1. CountsOK' BY Counts DEF TsxOpen, ProdInv
<1>2. CASE Reply(t, FALSE, <<>>) /\ UNCHANGED file
  <2>1. FileSame BY <1>0, <1>2 DEF FileSame
  <2>. QED BY <1>0, <1>1, <1>2, <2>1, Replies, CalmEnd DEF ProdInv, AtMac
<1>3. CASE file' = [file EXCEPT ![f] = Empty] /\ Goto(t, "write") /\ UNCHANGED <<local, ans>>
  <2>1. Goes(t, "write") BY <1>0, <1>3, GoesSame DEF ProdInv, Pcs
  <2>2. OpAt(t)' /\ BufAt(t)' BY <1>0, <2>1 DEF Goes, OpAt, BufAt, AtPart, AtMac, AtMmi
  <2>3. f \in Kept BY <1>0, TsxKept DEF Kept
  <2>4. Opened(t, f)' BY <2>1 DEF Opened, Goes, TsxFile
  <2>5. \A g \in Kept \ {f} : ~Opened(t, g) BY <1>0 DEF Opened
  <2>6. WantOK' BY <1>0 DEF ProdInv, FileInv, WantOK
  <2>7. wantFile[f] \in Contents BY <2>3 DEF ProdInv, TypeInv, TypeOK, Kept, Files
  <2>8. TurnAt(t)'
    <3>1. pc'[t] = "write" /\ req'[t] = req[t] BY <2>1 DEF Goes
    <3>2. f \in Files BY <2>3 DEF Kept, Files
    <3>3. file'[f] = Empty BY <1>3, <3>2 DEF ProdInv, TypeInv, TypeOK
    <3>4. TsxFile(req[t].op)' = f BY <3>1 DEF TsxFile
    <3>. QED BY <3>1, <3>3, <3>4 DEF TurnAt
  <2>. QED BY <1>0, <1>1, <1>3, <2>1, <2>2, <2>3, <2>4, <2>5, <2>6, <2>7, <2>8, Apart, KeptMove
           DEF Goes, AtMac
<1>. QED BY <1>2, <1>3 DEF TsxOpen

\* A record of the TSX calibration is written.
LEMMA TsxWriteStep ==
  ASSUME ProdInv, NEW t \in Threads, TsxWrite(t)
  PROVE  ProdInv'
<1>. DEFINE f == TsxFile(req[t].op)  new == Content(TsxKind(req[t].op), num[t])
<1>0. /\ pc[t] = "write" /\ PartSame /\ BootSame /\ parsed' = parsed /\ UNCHANGED build
  BY DEF TsxWrite, Stored, Doubt, Spoil, PartSame, BootSame
<1>1. CountsOK' BY Counts DEF TsxWrite, ProdInv
<1>2. req[t].op \in TsxOps BY <1>0 DEF ProdInv, TypeInv, ThreadInv, OpAt
<1>3. f \in Kept /\ f \notin Tests /\ (f = "tsxraw" => TsxKind(req[t].op) = "data")
  BY <1>2, TsxKept DEF Kept, TsxKind, Tests
<1>4. TsxKind(req[t].op) \in {"data", "ext", "plain"} BY DEF TsxKind
<1>5. new \in Contents /\ (f = "tsxraw" => new.kind = "data")
  BY <1>3, <1>4, DataContents DEF ProdInv
<1>6. Own(t) /\ OpAt(t)' /\ BufAt(t)' /\ pc'[t] \in {"idle", "unbak"}
  <2>1. CASE \E ok, d : Reply(t, ok, d)
    <3>1. Ends(t) BY <1>0, <2>1, Replies DEF ProdInv
    <3>. QED BY <3>1, IdleAt DEF Ends
  <2>2. CASE req[t].op = "ext_w" /\ Goto(t, "unbak") /\ UNCHANGED <<local, ans>>
    <3>1. Goes(t, "unbak") BY <1>0, <2>2, GoesSame DEF ProdInv, Pcs
    <3>. QED BY <2>2, <3>1 DEF Goes, OpAt, BufAt, AtPart, AtMac, AtMmi
  <2>. QED BY <2>1, <2>2 DEF TsxWrite
<1>7. \A g \in Kept \ {f} : ~Opened(t, g) BY <1>0 DEF Opened
<1>8. file \in [Files -> Contents] /\ wantFile \in [Files -> Contents] /\ f \in Files
      /\ Junk \in Contents
  BY <1>3 DEF ProdInv, TypeInv, TypeOK, Kept, Files, Junk, Contents, Kinds
<1>. HIDE DEF new
<1>t. TurnAt(t)' BY <1>6 DEF TurnAt
<1>9. CASE file' = [file EXCEPT ![f] = new] /\ Stored(f, new)
  <2>1. /\ wantFile' = [wantFile EXCEPT ![f] = new] /\ unsureFile' = unsureFile \ {f}
        /\ spoiledFile' = spoiledFile \ {f}
    BY <1>9 DEF Stored
  <2>2. WantOK'
    BY <1>3, <1>5, <1>8, <2>1 DEF ProdInv, FileInv, WantOK, Files
  <2>3. file'[f] = wantFile'[f] BY <1>8, <1>9, <2>1
  <2>. QED BY <1>0, <1>1, <1>3, <1>5, <1>6, <1>7, <1>t, <1>9, <2>1, <2>2, <2>3, KeptMove
           DEF AtMac
<1>10. CASE UNCHANGED file /\ Doubt({f})
  <2>1. UNCHANGED <<wantFile, spoiledFile>> /\ unsureFile' = unsureFile \cup {f}
    BY <1>10 DEF Doubt
  <2>2. WantOK' BY <2>1 DEF ProdInv, FileInv, WantOK
  <2>. QED BY <1>0, <1>1, <1>3, <1>5, <1>6, <1>7, <1>t, <1>8, <1>10, <2>1, <2>2, KeptMove
           DEF AtMac
<1>11. CASE file' = [file EXCEPT ![f] = Junk] /\ Spoil(f) /\ Mixes(new.kind, file[f])
  <2>1. UNCHANGED <<wantFile, unsureFile>> /\ spoiledFile' = spoiledFile \cup {f}
    BY <1>11 DEF Spoil
  <2>2. WantOK' BY <2>1 DEF ProdInv, FileInv, WantOK
  <2>3. ~serial
    <3>1. serial => file[f] = Empty BY <1>0 DEF ProdInv, TurnInv, TurnAt
    <3>. QED BY <1>11, <3>1 DEF Mixes, Empty
  <2>. QED BY <1>0, <1>1, <1>3, <1>5, <1>6, <1>7, <1>8, <1>11, <2>1, <2>2, <2>3, KeptMove
           DEF AtMac
<1>12. \/ UNCHANGED file /\ Doubt({f})
       \/ file' = [file EXCEPT ![f] = new] /\ Stored(f, new)
       \/ file' = [file EXCEPT ![f] = Junk] /\ Spoil(f) /\ Mixes(new.kind, file[f])
  <2>1. new # Junk BY <1>4 DEF new, Content, Junk
  <2>. QED BY <2>1 DEF TsxWrite, new
<1>. QED BY <1>9, <1>10, <1>11, <1>12

\* The file of the older TSX format is removed.
LEMMA TsxUnbakStep ==
  ASSUME ProdInv, NEW t \in Threads, TsxUnbak(t)
  PROVE  ProdInv'
<1>0. /\ pc[t] = "unbak" /\ PartSame /\ BootSame /\ parsed' = parsed /\ UNCHANGED build
  BY DEF TsxUnbak, Stored, Doubt, PartSame, BootSame
<1>1. CountsOK' BY Counts DEF TsxUnbak, ProdInv
<1>2. Ends(t) BY <1>0, Replies DEF TsxUnbak, ProdInv
<1>3. OpAt(t)' /\ BufAt(t)' BY <1>2, IdleAt DEF Ends
<1>4. "tsxbak" \in Kept /\ "tsxbak" \in Files BY DEF Kept, Files
<1>5. file \in [Files -> Contents] /\ wantFile \in [Files -> Contents]
  BY DEF ProdInv, TypeInv, TypeOK
<1>6. \A g \in Kept : ~Opened(t, g) BY <1>0 DEF Opened
<1>7. WantOK' BY <1>5 DEF ProdInv, FileInv, WantOK, TsxUnbak, Stored, Doubt, Files, Tests
<1>t. TurnAt(t)' BY <1>2 DEF Ends, TurnAt
<1>8. CASE file' = [file EXCEPT !["tsxbak"] = NoFile] /\ Stored("tsxbak", NoFile)
  BY <1>0, <1>1, <1>2, <1>3, <1>4, <1>5, <1>6, <1>7, <1>t, <1>8, Apart, KeptMove
     DEF Stored, Ends, AtMac
<1>9. CASE UNCHANGED file /\ Doubt({"tsxbak"})
  BY <1>0, <1>1, <1>2, <1>3, <1>4, <1>5, <1>6, <1>7, <1>t, <1>9, Apart, KeptMove
     DEF Doubt, Ends, AtMac
<1>. QED BY <1>8, <1>9 DEF TsxUnbak

\* The results of a test are written in place.
LEMMA MmiWriteStep ==
  ASSUME ProdInv, NEW t \in Threads, MmiWrite(t)
  PROVE  ProdInv'
<1>. DEFINE f == req[t].type  new == Content("data", num[t])
<1>0. /\ pc[t] = "start" /\ req[t].op = "mmi_w" /\ PartSame /\ BootSame /\ parsed' = parsed
      /\ UNCHANGED build
  BY DEF MmiWrite, Stored, Doubt, ghost, PartSame, BootSame
<1>1. CountsOK' BY Counts DEF MmiWrite, ProdInv
<1>2. Ends(t) BY <1>0, Replies DEF MmiWrite, ProdInv
<1>3. OpAt(t)' /\ BufAt(t)' BY <1>2, IdleAt DEF Ends
<1>t. TurnAt(t)' BY <1>2 DEF Ends, TurnAt
<1>4. CASE UNCHANGED <<file, ghost>>
  BY <1>0, <1>1, <1>2, <1>4, CalmEnd DEF ghost, FileSame, AtMac
<1>5. CASE f # "?" /\ file[f] # NoFile
  <2>1. req[t] \in Requests BY <1>0 DEF ProdInv, TypeInv, LocalOK, NoRequest
  <2>2. f \in Tests BY <1>0, <1>5, <2>1, RequestFields
  <2>3. f \in Kept /\ f \in Files /\ f # "tsxraw" BY <2>2 DEF Kept, Files, Tests
  <2>4. new \in Contents /\ new # Empty BY DataContents DEF ProdInv
  <2>5. file \in [Files -> Contents] /\ wantFile \in [Files -> Contents]
    BY DEF ProdInv, TypeInv, TypeOK
  <2>6. \A g \in Kept : ~Opened(t, g) BY <1>0 DEF Opened
  <2>7. CASE file' = [file EXCEPT ![f] = new] /\ Stored(f, new)
    <3>1. /\ wantFile' = [wantFile EXCEPT ![f] = new] /\ unsureFile' = unsureFile \ {f}
          /\ spoiledFile' = spoiledFile \ {f}
      BY <2>7 DEF Stored
    <3>2. WantOK' BY <2>3, <2>4, <2>5, <3>1 DEF ProdInv, FileInv, WantOK, Files
    <3>3. file'[f] = wantFile'[f] BY <2>3, <2>5, <2>7, <3>1
    <3>. QED BY <1>0, <1>1, <1>2, <1>3, <1>t, <2>3, <2>4, <2>6, <2>7, <3>1, <3>2, <3>3, KeptMove
             DEF Ends, AtMac
  <2>8. CASE UNCHANGED file /\ Doubt({f})
    <3>1. UNCHANGED <<wantFile, spoiledFile>> /\ unsureFile' = unsureFile \cup {f}
      BY <2>8 DEF Doubt
    <3>2. WantOK' BY <3>1 DEF ProdInv, FileInv, WantOK
    <3>. QED BY <1>0, <1>1, <1>2, <1>3, <1>t, <2>3, <2>4, <2>6, <2>8, <3>1, <3>2, KeptMove
             DEF Ends, AtMac
  <2>. QED BY <1>4, <1>5, <2>7, <2>8 DEF MmiWrite
<1>. QED BY <1>4, <1>5 DEF MmiWrite

\* The steps of reading the results that write no results.
LEMMA MmiReadySteps ==
  ASSUME ProdInv, NEW t \in Threads, MmiStart(t) \/ MmiConf(t)
  PROVE  ProdInv'
<1>0. /\ PartSame /\ BootSame /\ FileSame /\ UNCHANGED build /\ parsed' \in BOOLEAN
      /\ pc[t] \in {"start", "mmi_conf"}
  BY DEF MmiStart, MmiConf, ghost, PartSame, FileSame, BootSame, ProdInv, TypeInv, TypeOK
<1>1. CountsOK' BY Counts DEF MmiStart, MmiConf, ProdInv
<1>2. req[t].op = "mmi_r"
  BY DEF MmiStart, MmiConf, ProdInv, TypeInv, ThreadInv, OpAt, AtMmi
<1>3. Goes(t, "mmi_conf") \/ Goes(t, "mmi_open")
  <2>1. CASE MmiStart(t)
    BY <1>0, <2>1, GoesSame DEF MmiStart, ProdInv, Pcs
  <2>2. CASE MmiConf(t)
    <3>1. buf' = [buf EXCEPT ![t] = buf[t]] /\ addr' = [addr EXCEPT ![t] = addr[t]]
          /\ addr[t] \in [Macs -> Contents]
      BY <2>2 DEF MmiConf, ProdInv, TypeInv, LocalOK
    <3>2. \E k \in BOOLEAN : bad' = [bad EXCEPT ![t] = k]
      <4>1. bad' = bad \/ bad' = [bad EXCEPT ![t] = TRUE] BY <2>2 DEF MmiConf
      <4>2. bad[t] \in BOOLEAN /\ bad = [bad EXCEPT ![t] = bad[t]]
        BY DEF ProdInv, TypeInv, TypeOK
      <4>. QED BY <4>1, <4>2
    <3>3. Goto(t, "mmi_open") /\ UNCHANGED <<req, num, ans>> BY <2>2 DEF MmiConf
    <3>. QED BY <1>0, <3>1, <3>2, <3>3, GoesOn DEF ProdInv, Pcs
  <2>. QED BY <2>1, <2>2
<1>4. OpAt(t)' /\ BufAt(t)' BY <1>2, <1>3 DEF Goes, OpAt, BufAt, AtPart, AtMac, AtMmi
<1>5. pc'[t] = "mmi_open" => parsed' \/ bad'[t]
  <2>1. CASE MmiStart(t)
    <3>1. Goto(t, "mmi_conf") BY <2>1 DEF MmiStart
    <3>. QED BY <3>1 DEF Goto, ProdInv, TypeInv, TypeOK
  <2>2. CASE MmiConf(t) BY <2>2 DEF MmiConf, ProdInv, TypeInv, TypeOK
  <2>. QED BY <2>1, <2>2
<1>. QED BY <1>0, <1>1, <1>3, <1>4, <1>5, CalmStep DEF Goes, AtMac

\* The file of the BBAT results is created if there is none.
LEMMA MmiOpenStep ==
  ASSUME ProdInv, NEW t \in Threads, MmiOpen(t)
  PROVE  ProdInv'
<1>0. /\ pc[t] = "mmi_open" /\ PartSame /\ BootSame /\ parsed' = parsed
      /\ UNCHANGED <<build, wantFile, unsureFile, spoiledFile, local, ans>>
  BY DEF MmiOpen, ghost, PartSame, BootSame
<1>1. CountsOK' BY Counts DEF MmiOpen, ProdInv
<1>2. req[t].op = "mmi_r" BY <1>0 DEF ProdInv, TypeInv, ThreadInv, OpAt, AtMmi
<1>3. CASE UNCHANGED file /\ Goto(t, "mmi_read")
  <2>1. Goes(t, "mmi_read") BY <1>0, <1>3, GoesSame DEF ProdInv, Pcs
  <2>2. OpAt(t)' /\ BufAt(t)' BY <1>2, <2>1 DEF Goes, OpAt, BufAt, AtPart, AtMac, AtMmi
  <2>3. FileSame /\ parsed' \in BOOLEAN BY <1>0, <1>3 DEF FileSame, ProdInv, TypeInv, TypeOK
  <2>. QED BY <1>0, <1>1, <2>1, <2>2, <2>3, CalmStep DEF Goes, AtMac
<1>4. CASE file' = [file EXCEPT !["bbat"] = Empty] /\ Goto(t, "mmi_fill")
  <2>1. Goes(t, "mmi_fill") BY <1>0, <1>4, GoesSame DEF ProdInv, Pcs
  <2>2. OpAt(t)' /\ BufAt(t)' BY <1>2, <2>1 DEF Goes, OpAt, BufAt, AtPart, AtMac, AtMmi
  <2>3. "bbat" \in Kept BY DEF Kept, Tests
  <2>4. Opened(t, "bbat")' BY <2>1 DEF Goes, Opened
  <2>5. \A g \in Kept : ~Opened(t, g) BY <1>0 DEF Opened
  <2>6. WantOK' BY <1>0 DEF ProdInv, FileInv, WantOK
  <2>7. serial => TurnAt(t)'
    <3>1. serial => parsed \/ bad[t] BY <1>0 DEF ProdInv, TurnInv, TurnAt
    <3>2. pc'[t] = "mmi_fill" /\ parsed' = parsed /\ bad' = bad
      BY <1>0, <2>1 DEF Goes, local
    <3>3. file'["bbat"] = Empty BY <1>4 DEF ProdInv, TypeInv, TypeOK, Files, Tests
    <3>. QED BY <3>1, <3>2, <3>3 DEF TurnAt
  <2>. QED BY <1>0, <1>1, <1>4, <2>1, <2>2, <2>3, <2>4, <2>5, <2>6, <2>7, Apart, KeptMove
           DEF Goes, AtMac
<1>. QED BY <1>3, <1>4 DEF MmiOpen

\* The new file gets the table of the supported tests.
LEMMA MmiFillStep ==
  ASSUME ProdInv, NEW t \in Threads, MmiFill(t)
  PROVE  ProdInv'
<1>. DEFINE new == IF parsed THEN Content("data", 0) ELSE Flat
<1>0. /\ pc[t] = "mmi_fill" /\ PartSame /\ BootSame /\ parsed' = parsed
      /\ UNCHANGED <<build, local, ans>> /\ Goto(t, "mmi_read")
  BY DEF MmiFill, Stored, Doubt, Spoil, PartSame, BootSame
<1>1. CountsOK' BY Counts DEF MmiFill, ProdInv
<1>2. req[t].op = "mmi_r" BY <1>0 DEF ProdInv, TypeInv, ThreadInv, OpAt, AtMmi
<1>3. Goes(t, "mmi_read") BY <1>0, GoesSame DEF ProdInv, Pcs
<1>4. OpAt(t)' /\ BufAt(t)' BY <1>2, <1>3 DEF Goes, OpAt, BufAt, AtPart, AtMac, AtMmi
<1>5. "bbat" \in Kept /\ "bbat" \in Files /\ new \in Contents /\ new # Empty
  BY DEF Kept, Tests, Files, Content, Flat, Contents, Kinds, Empty
<1>6. \A g \in Kept \ {"bbat"} : ~Opened(t, g) BY <1>0 DEF Opened
<1>7. file \in [Files -> Contents] /\ wantFile \in [Files -> Contents]
  BY DEF ProdInv, TypeInv, TypeOK
<1>t. TurnAt(t)' BY <1>3 DEF Goes, TurnAt
<1>8. CASE file' = [file EXCEPT !["bbat"] = new] /\ Stored("bbat", new)
  <2>1. /\ wantFile' = [wantFile EXCEPT !["bbat"] = new] /\ unsureFile' = unsureFile \ {"bbat"}
        /\ spoiledFile' = spoiledFile \ {"bbat"}
    BY <1>8 DEF Stored
  <2>2. WantOK' BY <1>5, <1>7, <2>1 DEF ProdInv, FileInv, WantOK, Files, Tests
  <2>3. file'["bbat"] = wantFile'["bbat"] BY <1>5, <1>7, <1>8, <2>1
  <2>. HIDE DEF new
  <2>. QED BY <1>0, <1>1, <1>3, <1>4, <1>5, <1>6, <1>t, <1>8, <2>1, <2>2, <2>3, KeptMove
           DEF Goes, AtMac
<1>9. CASE (file' = [file EXCEPT !["bbat"] = new] \/ UNCHANGED file) /\ Doubt({"bbat"})
  <2>1. UNCHANGED <<wantFile, spoiledFile>> /\ unsureFile' = unsureFile \cup {"bbat"}
    BY <1>9 DEF Doubt
  <2>2. WantOK' BY <2>1 DEF ProdInv, FileInv, WantOK
  <2>. HIDE DEF new
  <2>. QED BY <1>0, <1>1, <1>3, <1>4, <1>5, <1>6, <1>t, <1>9, <2>1, <2>2, KeptMove
           DEF Goes, AtMac
<1>10. CASE /\ file' = [file EXCEPT !["bbat"] = new] /\ Spoil("bbat")
            /\ file["bbat"] # Empty \/ (new = Flat /\ ~bad[t])
  <2>1. UNCHANGED <<wantFile, unsureFile>> /\ spoiledFile' = spoiledFile \cup {"bbat"}
    BY <1>10 DEF Spoil
  <2>2. WantOK' BY <2>1 DEF ProdInv, FileInv, WantOK
  <2>3. ~serial
    <3>1. serial => file["bbat"] = Empty /\ (parsed \/ bad[t])
      BY <1>0 DEF ProdInv, TurnInv, TurnAt
    <3>2. Content("data", 0) # Flat BY DEF Content, Flat
    <3>. QED BY <1>10, <3>1, <3>2
  <2>. HIDE DEF new
  <2>. QED BY <1>0, <1>1, <1>3, <1>4, <1>5, <1>6, <1>10, <2>1, <2>2, <2>3, KeptMove
           DEF Goes, AtMac
<1>. QED BY <1>8, <1>9, <1>10 DEF MmiFill

-----------------------------------------------------------------------------
(* The end of the program, and the start of the phone *)

\* Whatever the threads were doing: what they had begun is in doubt.
LEMMA DieStep ==
  ASSUME ProdInv, Die, CountsOK'
  PROVE  TypeInv' /\ PartInv' /\ MacInv' /\ FileInv' /\ TurnInv'
<1>0. /\ \A t \in Threads : pc'[t] = "idle" /\ req'[t] = NoRequest
      /\ UNCHANGED <<nand, serial, part, file, want, wantFile, spoiled, spoiledFile>>
  BY DEF Die, build
<1>1. \A t \in HalfPut : DOMAIN Patch(t) \subseteq Cells
  <2>. SUFFICES ASSUME NEW t \in Threads, pc[t] = "put" PROVE DOMAIN Patch(t) \subseteq Cells
    BY DEF HalfPut
  <2>1. req[t] \in Requests /\ req[t].op \in PartOps
    BY DEF ProdInv, TypeInv, LocalOK, ThreadInv, OpAt, AtPart, NoRequest, PartOps
  <2>. QED BY <2>1, PatchShape DEF ProdInv, TypeInv
<1>2. \A t \in Threads : HalfFiles(t) \subseteq Files
  BY DEF HalfFiles, Files, TsxFile, Macs, Tests
<1>3. unsure' \subseteq Cells /\ unsureFile' \subseteq Files
  <2>1. UNION {DOMAIN Patch(t) : t \in HalfPut} \subseteq Cells BY <1>1
  <2>2. UNION {HalfFiles(t) : t \in Threads} \subseteq Files BY <1>2
  <2>3. unsure \subseteq Cells /\ unsureFile \subseteq Files BY DEF ProdInv, TypeInv, TypeOK
  <2>. HIDE DEF Cells, Files, Patch, HalfFiles, HalfPut
  <2>. QED BY <2>1, <2>2, <2>3 DEF Die
<1>4. NoAddr \in [Macs -> Contents] BY DEF NoAddr, Empty, Contents, Kinds
<1>5. TypeInv'
  <2>1. torn' \in BOOLEAN BY DEF Die, ProdInv, TypeInv, TypeOK
  <2>2. TypeOK'
    <3>1. pc' \in [Threads -> Pcs] BY DEF Die, Pcs
    <3>2. 0 \in 0 .. MaxReqs + MaxInTurn BY ProdDataAssumption
    <3>3. num' \in [Threads -> 0 .. MaxReqs + MaxInTurn] BY <3>2 DEF Die
    <3>4. bad' \in [Threads -> BOOLEAN] /\ parsed' \in BOOLEAN BY DEF Die
    <3>. QED BY <1>0, <1>3, <2>1, <3>1, <3>3, <3>4 DEF ProdInv, TypeInv, TypeOK, CountsOK
  <2>3. LocalOK' BY <1>0, <1>4 DEF LocalOK, Die
  <2>4. ThreadInv' BY <1>0, IdleAt DEF ThreadInv
  <2>. QED BY <2>2, <2>3, <2>4 DEF TypeInv
<1>6. PartInv'
  <2>1. SerialInv' /\ CopyInv' BY <1>0 DEF SerialInv, CopyInv
  <2>2. TornInv' BY <1>0 DEF TornInv, Die, ProdInv, PartInv
  <2>3. unsure \subseteq unsure' /\ (~torn' => ~torn) BY DEF Die
  <2>4. PartStored' BY <1>0, <2>3 DEF PartStored, ProdInv, PartInv
  <2>. QED BY <2>1, <2>2, <2>4 DEF PartInv
<1>7. unsureFile \subseteq unsureFile' /\ \A t \in Threads : HalfFiles(t) \subseteq unsureFile'
  BY DEF Die
<1>8. MacInv'
  <2>1. AddrInv' BY <1>0 DEF AddrInv, AddrAt, AtMac
  <2>2. \A a \in Macs : eng_btwifimac_read(a)' = eng_btwifimac_read(a)
    BY <1>0 DEF eng_btwifimac_read, Root
  <2>3. ASSUME serial PROVE MacStored'
    <3>. SUFFICES ASSUME NEW a \in Macs
                  PROVE  \/ a \in unsureFile' \/ wantFile[a] = Empty
                         \/ InFile(a, eng_btwifimac_read(a)) = wantFile[a]
      BY <1>0, <2>2 DEF MacStored, Keeps
    <3>1. CASE Writing(a) BY <1>7, <3>1 DEF Writing
    <3>2. CASE Keeps(a, eng_btwifimac_read(a)) BY <1>7, <3>2 DEF Keeps
    <3>. QED BY <2>3, <3>1, <3>2 DEF ProdInv, MacInv, MacStored
  <2>. QED BY <1>0, <2>1, <2>3 DEF MacInv
<1>9. FileInv'
  <2>1. \A f \in Kept, t \in Threads : Opened(t, f) => f \in HalfFiles(t)
    BY DEF Opened, HalfFiles
  <2>2. FileStored' BY <1>0, <1>7, <2>1 DEF ProdInv, FileInv, FileStored
  <2>3. WantOK' BY <1>0 DEF ProdInv, FileInv, WantOK
  <2>. QED BY <2>2, <2>3 DEF FileInv
<1>10. TurnInv' BY <1>0 DEF ProdInv, TurnInv, TurnAt
<1>. QED BY <1>5, <1>6, <1>8, <1>9, <1>10

\* setTestMode() frees its copy of the request: it goes on, or the program ends.
LEMMA FreeStep ==
  ASSUME ProdInv, NEW t \in Threads, SetTestModeFree(t)
  PROVE  ProdInv'
<1>0. pc[t] = "free" /\ UNCHANGED <<nReq, nFault, nKill>> BY DEF SetTestModeFree, Die
<1>1. CountsOK' BY <1>0, Counts DEF ProdInv
<1>2. CASE Reply(t, TRUE, <<>>) /\ UNCHANGED <<build, phone, ghost>>
  <2>1. Ends(t) BY <1>2, Replies DEF ProdInv
  <2>. QED BY <1>0, <1>1, <1>2, <2>1, CalmEnd
           DEF phone, ghost, PartSame, FileSame, BootSame, AtMac
<1>3. CASE Die /\ UNCHANGED <<cmdline, booted>>
  BY <1>1, <1>3, DieStep, ModeFrame DEF BootSame, ProdInv
<1>. QED BY <1>2, <1>3 DEF SetTestModeFree

\* The program is killed.
LEMMA KillStep ==
  ASSUME ProdInv, Kill
  PROVE  ProdInv'
<1>1. CountsOK'
  BY ProdDataAssumption DEF Kill, Die, CountsOK, ProdInv, TypeInv, TypeOK
<1>. QED BY <1>1, DieStep, ModeFrame DEF Kill, BootSame, ProdInv

\* The boot loader writes the mode in the base in which engpc reads it.
LEMMA ResetStep ==
  ASSUME ProdInv, Reset
  PROVE  ProdInv'
<1>. DEFINE word == part[TESTMODE_OFFSET]
            mode == IF torn \/ (nand /\ HalfPut # {}) \/ word.kind # "mode" THEN 0 ELSE word.n
<1>1. CountsOK'
  BY ProdDataAssumption DEF Reset, Die, CountsOK, ProdInv, TypeInv, TypeOK
<1>2. mode \in Nat
  BY ProdDataAssumption DEF ProdInv, TypeInv, TypeOK, Contents, Cells
<1>3. /\ cmdline' = [key |-> "first_mode=", digits |-> <<mode \div 16, mode % 16>>]
      /\ booted' = findNameWithId(mode, id_first_mode) /\ Die
  BY DEF Reset
<1>. HIDE DEF mode
<1>4. parse_key_value(<<mode \div 16, mode % 16>>, 0) = mode
  <2>1. ((mode \div 16) * 16) + (mode % 16) = mode BY <1>2
  <2>2. parse_key_value(<<mode \div 16, mode % 16>>, 0) = ((mode \div 16) * 16) + (mode % 16)
    BY DEF parse_key_value
  <2>. QED BY <2>1, <2>2
<1>5. getTestMode(cmdline') = findNameWithId(mode, id_first_mode)
  BY <1>3, <1>4 DEF getTestMode
<1>6. getTestMode(cmdline)' = getTestMode(cmdline')
  BY DEF getTestMode, findNameWithId, parse_key_value, id_first_mode, id_cali_mode
<1>7. ModeInv' BY <1>3, <1>5, <1>6 DEF ModeInv
<1>. QED BY <1>1, <1>3, <1>7, DieStep DEF ProdInv

-----------------------------------------------------------------------------
(* The invariant *)

\* The tables have one name for a mode.
LEMMA FirstNames ==
  /\ findNameWithId(0, id_first_mode) = "NORMAL"
  /\ findNameWithId(24, id_cali_mode) = "NRCAL"
<1>1. \A e \in id_first_mode : e[1] = 0 => e[2] = "NORMAL" BY DEF id_first_mode
<1>2. \A e \in id_cali_mode : e[1] = 24 => e[2] = "NRCAL" BY DEF id_cali_mode
<1>3. \E e \in id_first_mode : e[1] = 0
  <2>1. <<0, "NORMAL">> \in id_first_mode /\ <<0, "NORMAL">>[1] = 0 BY DEF id_first_mode
  <2>. QED BY <2>1
<1>4. \E e \in id_cali_mode : e[1] = 24
  <2>1. <<24, "NRCAL">> \in id_cali_mode /\ <<24, "NRCAL">>[1] = 24 BY DEF id_cali_mode
  <2>. QED BY <2>1
<1>. HIDE DEF id_first_mode, id_cali_mode
<1>5. (CHOOSE e \in id_first_mode : e[1] = 0)[2] = "NORMAL" BY <1>1, <1>3
<1>6. (CHOOSE e \in id_cali_mode : e[1] = 24)[2] = "NRCAL" BY <1>2, <1>4
<1>. QED BY <1>3, <1>4, <1>5, <1>6 DEF findNameWithId

\* The files of a phone that has all of them, those of an older release, or
\* none: what they hold, and that what is wanted is what they hold.
LEMMA FirstFiles ==
  ASSUME Init
  PROVE  /\ file \in [Files -> Contents] /\ wantFile \in [Files -> Contents]
         /\ \A a \in Macs : wantFile[a] = InFile(a, eng_btwifimac_read(a))
         /\ \A f \in Kept : wantFile[f] = file[f]
         /\ \A f \in Tests \cup {"tsxraw"} : file[f] = NoFile \/ file[f] = Content("data", 0)
<1>1. PICK age \in {"new", "older", "complete"} :
        file = [f \in Files |->
                 CASE \/ age = "new"
                      \/ age = "older" /\ f \in Macs -> NoFile
                   [] f \in {"bt", "btroot"} -> Reversed(Content("data", 0))
                   [] f = "tsx"              -> Content("plain", 0)
                   [] OTHER                  -> Content("data", 0)]
  BY DEF Init
<1>2. /\ NoFile \in Contents /\ Content("plain", 0) \in Contents
      /\ Content("data", 0) \in Contents /\ Reversed(Content("data", 0)) \in Contents
  BY DEF NoFile, Content, Reversed, Contents, Kinds
<1>3. file \in [Files -> Contents] BY <1>1, <1>2
<1>4. \A f \in Tests \cup {"tsxraw"} : file[f] = NoFile \/ file[f] = Content("data", 0)
  BY <1>1 DEF Files, Tests, Macs
<1>5. wantFile = [f \in Files |-> IF f \in Macs THEN InFile(f, eng_btwifimac_read(f))
                                              ELSE file[f]]
  BY DEF Init
<1>6. \A a \in Macs : InFile(a, eng_btwifimac_read(a)) \in Contents
  BY <1>3, ReadsContents, Turned
<1>7. wantFile \in [Files -> Contents] BY <1>3, <1>5, <1>6
<1>8. \A f \in Kept : wantFile[f] = file[f] BY <1>5 DEF Kept, Tests, Files, Macs
<1>9. \A a \in Macs : wantFile[a] = InFile(a, eng_btwifimac_read(a)) BY <1>5 DEF Files
<1>. QED BY <1>3, <1>4, <1>7, <1>8, <1>9

\* The invariant holds when engpc is first started.
LEMMA ProdInit == Init => ProdInv
<1>. SUFFICES ASSUME Init PROVE ProdInv OBVIOUS
<1>1. \A t \in Threads : pc[t] = "idle" /\ req[t] = NoRequest BY DEF Init
<1>2. TypeOK
  <2>1. part \in [Cells -> Contents] /\ \A c \in Cells : part[c].kind \in {"data", "mode"}
    <3>1. \A c \in Cells : part[c] = Content(IF c = TESTMODE_OFFSET THEN "mode" ELSE "data", 0)
      BY DEF Init
    <3>2. Content("mode", 0) \in Contents /\ Content("data", 0) \in Contents
      BY DEF Content, Contents, Kinds
    <3>3. part \in [Cells -> Contents] BY <3>2 DEF Init
    <3>. QED BY <3>1, <3>3 DEF Content
  <2>2. pc \in [Threads -> Pcs] BY DEF Init, Pcs
  <2>3. 0 \in 0 .. MaxReqs + MaxInTurn /\ 0 \in 0 .. MaxFaults /\ 0 \in 0 .. MaxKills
    BY ProdDataAssumption
  <2>4. num \in [Threads -> 0 .. MaxReqs + MaxInTurn] BY <2>3 DEF Init
  <2>5. bad \in [Threads -> BOOLEAN] BY DEF Init
  <2>6. /\ unsure \subseteq Cells /\ unsureFile \subseteq Files
        /\ spoiled \subseteq Cells /\ spoiledFile \subseteq Files
    BY DEF Init
  <2>7. want = part /\ nand \in BOOLEAN /\ serial \in BOOLEAN /\ torn \in BOOLEAN
        /\ parsed \in BOOLEAN /\ nReq = 0 /\ nFault = 0 /\ nKill = 0
    BY DEF Init
  <2>. QED BY <1>1, <2>1, <2>2, <2>3, <2>4, <2>5, <2>6, <2>7, FirstFiles DEF TypeOK
<1>3. TypeInv
  <2>1. NoAddr \in [Macs -> Contents] BY DEF NoAddr, Empty, Contents, Kinds
  <2>2. LocalOK BY <2>1 DEF Init, LocalOK
  <2>3. ThreadInv BY <1>1 DEF ThreadInv, OpAt, BufAt, AtPart, AtMac, AtMmi
  <2>. QED BY <1>2, <2>2, <2>3 DEF TypeInv
<1>4. PartInv
  <2>1. torn = FALSE /\ want = part BY DEF Init
  <2>. QED BY <1>1, <2>1 DEF PartInv, SerialInv, TornInv, CopyInv, PartStored
<1>5. MacInv
  <2>1. AddrInv BY <1>1 DEF AddrInv, AddrAt, AtMac
  <2>2. MacStored BY FirstFiles DEF MacStored, Keeps
  <2>. QED BY <2>1, <2>2 DEF MacInv
<1>6. FileInv
  <2>1. FileStored BY FirstFiles DEF FileStored
  <2>2. \A f \in Tests \cup {"tsxraw"} : wantFile[f] = NoFile \/ wantFile[f] = Content("data", 0)
    BY FirstFiles DEF Kept
  <2>3. WantOK BY <2>2 DEF WantOK, NoFile, Content, Empty
  <2>. QED BY <2>1, <2>3 DEF FileInv
<1>7. ModeInv
  <2>1. \/ cmdline = [key |-> "calibration=", digits |-> <<2, 4>>] /\ booted = "NRCAL"
        \/ cmdline = [key |-> "none", digits |-> <<0, 0>>] /\ booted = "NORMAL"
    BY DEF Init
  <2>2. parse_key_value(<<2, 4>>, 1) = 24 BY DEF parse_key_value
  <2>. QED BY <2>1, <2>2, FirstNames DEF ModeInv, getTestMode
<1>8. TurnInv BY <1>1 DEF Init, TurnInv, TurnAt
<1>. QED BY <1>3, <1>4, <1>5, <1>6, <1>7, <1>8 DEF ProdInv

\* Every step of a thread, of a tool and of the phone keeps the invariant.
LEMMA ProdStep == ProdInv /\ [Next]_vars => ProdInv'
<1>. SUFFICES ASSUME ProdInv, [Next]_vars PROVE ProdInv' OBVIOUS
<1>1. ASSUME NEW t \in Threads, Step(t) PROVE ProdInv'
  <2>1. CASE \/ Other(t) \/ ReadPart(t) \/ GetTestMode(t) \/ MacRead(t) \/ TsxRead(t)
             \/ MmiRead(t)
    BY <2>1, QuietStep
  <2>2. CASE WriteStart(t) \/ Snap(t) \/ VolUp(t) \/ Put(t) \/ SetTestModeFree(t)
    BY <2>2, WriteStartStep, SnapStep, VolUpStep, PutStep, FreeStep
  <2>3. CASE MacStart(t) \/ MacOpen(t) \/ WifiWrite(t) \/ BtWrite(t)
    BY <2>3, MacStartStep, MacOpenStep, WifiWriteStep, BtWriteStep
  <2>4. CASE TsxOpen(t) \/ TsxWrite(t) \/ TsxUnbak(t)
    BY <2>4, TsxOpenStep, TsxWriteStep, TsxUnbakStep
  <2>5. CASE MmiWrite(t) \/ MmiStart(t) \/ MmiConf(t) \/ MmiOpen(t) \/ MmiFill(t)
    BY <2>5, MmiWriteStep, MmiReadySteps, MmiOpenStep, MmiFillStep
  <2>. QED BY <1>1, <2>1, <2>2, <2>3, <2>4, <2>5 DEF Step
<1>2. ASSUME NEW t \in Threads, NEW r \in Requests, Request(t, r) PROVE ProdInv'
  BY <1>2, RequestStep
<1>3. CASE Kill BY <1>3, KillStep
<1>4. CASE Reset BY <1>4, ResetStep
<1>5. CASE UNCHANGED vars
  <2>1. UNCHANGED <<nand, serial, part, torn, file, cmdline, parsed, booted, pc, req, num, buf,
                    addr, bad, ans, want, wantFile, unsure, unsureFile, spoiled, spoiledFile,
                    nReq, nFault, nKill>>
    BY <1>5 DEF vars, build, phone, local, ghost
  <2>2. TypeInv'
    BY <2>1 DEF ProdInv, TypeInv, TypeOK, LocalOK, ThreadInv, OpAt, BufAt, Span, SnLen
  <2>3. PartInv'
    BY <2>1 DEF ProdInv, PartInv, SerialInv, TornInv, CopyInv, PartStored, Span, SnLen
  <2>4. MacInv'
    <3>1. \A a \in Macs : /\ eng_btwifimac_read(a)' = eng_btwifimac_read(a)
                          /\ Writing(a)' <=> Writing(a)
      BY <2>1 DEF eng_btwifimac_read, Root, Writing, HalfFiles, TsxFile
    <3>2. AddrInv => AddrInv' BY <2>1 DEF AddrInv, AddrAt, ToWrite, Named, Keeps
    <3>3. MacStored => MacStored' BY <2>1, <3>1 DEF MacStored, Keeps
    <3>. QED BY <2>1, <3>2, <3>3 DEF ProdInv, MacInv
  <2>5. FileInv' BY <2>1 DEF ProdInv, FileInv, FileStored, Opened, TsxFile, WantOK
  <2>6. TurnInv' BY <2>1 DEF ProdInv, TurnInv, TurnAt, TsxFile
  <2>. QED BY <2>1, <2>2, <2>3, <2>4, <2>5, <2>6, ModeFrame DEF ProdInv, BootSame
<1>. QED BY <1>1, <1>2, <1>3, <1>4, <1>5 DEF Next

\* The inductive invariant, for every number of threads, every size of the
\* partition, every set of requests and every bound.
THEOREM ProdInvariant == Spec => []ProdInv
BY ProdInit, ProdStep, PTL DEF Spec

\* Every variable keeps its type: a cell of the partition never holds anything
\* but a record or a mode word, an idle thread has no request.
THEOREM TypeCorrect == Spec => []TypeOK
<1>1. ProdInv => TypeOK BY DEF ProdInv, TypeInv
<1>. QED BY <1>1, ProdInvariant, PTL

-----------------------------------------------------------------------------
(* What the tools may rely on *)

\* A file that is not half written holds what was acknowledged, unless it is in
\* doubt or spoiled.
LEMMA KeptFile ==
  ASSUME ProdInv, NEW f \in Kept, f \notin unsureFile \cup spoiledFile, ~Writing(f)
  PROVE  file[f] = wantFile[f]
<1>1. \A t \in Threads : Opened(t, f) => f \in HalfFiles(t) BY DEF Opened, HalfFiles
<1>. QED BY <1>1 DEF ProdInv, FileInv, FileStored, Writing

\* What engpc has acknowledged is what the phone keeps, through every order of
\* the threads' steps, the calls that fail, the kills and the restarts.  It is not
\* where a request failed or was cut off, nor where the code spoiled it with
\* nothing failing: the cells past its data that a 16-bit product control write
\* names, those before its offset that were written since it read them, a TSX
\* record mixed of two and the BBAT results that eng_init_test_file()
\* overwrites; no file is spoiled while the tools take turns.
THEOREM StoredWhatIsAcked == Spec => []AckedIsStored
<1>1. ASSUME ProdInv PROVE AckedIsStored
  <2>1. ~nand \/ (serial /\ ~torn)
          => \A c \in Cells \ (unsure \cup spoiled) : part[c] = want[c]
    BY <1>1 DEF ProdInv, PartInv, PartStored
  <2>2. serial => \A a \in Macs \ unsureFile :
                    wantFile[a] = Empty \/ Writing(a)
                      \/ InFile(a, eng_btwifimac_read(a)) = wantFile[a]
    BY <1>1 DEF ProdInv, MacInv, MacStored, Keeps
  <2>3. \A f \in {"tsx", "tsxbak", "tsxraw"} \cup Tests :
          f \in unsureFile \cup spoiledFile \/ Writing(f) \/ file[f] = wantFile[f]
    BY <1>1, KeptFile DEF Kept
  <2>4. serial => spoiledFile = {} BY <1>1 DEF ProdInv, TurnInv
  <2>. QED BY <2>1, <2>2, <2>3, <2>4 DEF AckedIsStored
<1>. QED BY <1>1, ProdInvariant, PTL

\* The step that answers a request is one of its own thread: a request, the
\* steps of other threads, a kill and a restart answer nobody.
LEMMA AnswerIsOwn ==
  ASSUME ProdInv, [Next]_vars, NEW t \in Threads, Answered(t)
  PROVE  Step(t) /\ ~Die
<1>1. pc \in [Threads -> Pcs] /\ pc[t] # "idle" /\ pc'[t] = "idle" /\ ans'[t].op # "none"
  BY DEF Answered, ProdInv, TypeInv, TypeOK
<1>2. ~Die BY <1>1 DEF Die, NoAnswer
<1>3. ASSUME NEW s \in Threads, NEW l, Goto(s, l) PROVE s = t
  BY <1>1, <1>3 DEF Goto
<1>4. ASSUME NEW s \in Threads, Step(s) PROVE s = t
  <2>1. CASE Other(s) \/ ReadPart(s) \/ WriteStart(s) \/ Snap(s) \/ VolUp(s)
    BY <1>3, <2>1 DEF Other, ReadPart, WriteStart, Snap, VolUp, Reply
  <2>2. CASE Put(s) \/ GetTestMode(s) \/ SetTestModeFree(s)
    BY <1>2, <1>3, <2>2 DEF Put, GetTestMode, SetTestModeFree, Reply
  <2>3. CASE MacStart(s) \/ MacOpen(s) \/ WifiWrite(s) \/ BtWrite(s) \/ MacRead(s)
    BY <1>3, <2>3 DEF MacStart, MacOpen, OpenTrunc, WifiWrite, BtWrite, MacRead, Reply
  <2>4. CASE TsxOpen(s) \/ TsxWrite(s) \/ TsxUnbak(s) \/ TsxRead(s)
    BY <1>3, <2>4 DEF TsxOpen, TsxWrite, TsxUnbak, TsxRead, Reply
  <2>5. CASE MmiWrite(s) \/ MmiStart(s) \/ MmiConf(s) \/ MmiOpen(s) \/ MmiFill(s) \/ MmiRead(s)
    BY <1>3, <2>5 DEF MmiWrite, MmiStart, MmiConf, MmiOpen, MmiFill, MmiRead, Reply
  <2>. QED BY <1>4, <2>1, <2>2, <2>3, <2>4, <2>5 DEF Step
<1>5. ASSUME NEW s \in Threads, NEW r \in Requests, Request(s, r) PROVE FALSE
  <2>1. s = t BY <1>3, <1>5 DEF Request
  <2>. QED BY <1>1, <1>5, <2>1 DEF Request
<1>6. ~Kill /\ ~Reset BY <1>2 DEF Kill, Reset
<1>7. ~UNCHANGED vars BY <1>1 DEF vars
<1>. QED BY <1>2, <1>4, <1>5, <1>6, <1>7 DEF Next

\* What the answer says.
LEMMA AnswerSays ==
  ASSUME ProdInv, NEW t \in Threads, NEW ok, NEW d, Reply(t, ok, d)
  PROVE  ans'[t].op = req[t].op /\ ans'[t].ok = ok /\ ans'[t].data = d
BY DEF ProdInv, TypeInv, LocalOK, Reply

\* A thread that goes on with its request has not answered it.
LEMMA NoReply ==
  ASSUME ProdInv, NEW t \in Threads, NEW l, Goto(t, l), pc'[t] = "idle"
  PROVE  l = "idle"
BY DEF ProdInv, TypeInv, TypeOK, Goto

\* A call that fails is counted.
LEMMA NoFault == ASSUME ProdInv, NEW t, nFault' = nFault PROVE ~Fault(t)
BY ProdDataAssumption DEF ProdInv, TypeInv, TypeOK, Fault

\* Reads are answered with success by the handlers of the reads only.
LEMMA WhoReads ==
  ASSUME ProdInv, NEW t \in Threads, Step(t), ~Die, pc'[t] = "idle", ans'[t].ok,
         req[t].op \in ReadOps
  PROVE  ReadPart(t) \/ GetTestMode(t) \/ MacRead(t) \/ TsxRead(t) \/ MmiRead(t)
<1>1. ~Other(t) BY AnswerSays DEF Other
<1>2. OpAt(t) BY DEF ProdInv, TypeInv, ThreadInv
<1>3. ~WriteStart(t) /\ ~Snap(t) /\ ~VolUp(t) /\ ~Put(t) /\ ~SetTestModeFree(t)
  BY <1>2 DEF WriteStart, Snap, VolUp, Put, SetTestModeFree, OpAt, AtPart, PartOps, ReadOps
<1>4. ~MacStart(t) /\ ~MacOpen(t) /\ ~WifiWrite(t) /\ ~BtWrite(t)
  BY <1>2 DEF MacStart, MacOpen, WifiWrite, BtWrite, OpAt, AtMac, ReadOps
<1>5. ~TsxOpen(t) /\ ~TsxWrite(t) /\ ~TsxUnbak(t)
  BY <1>2 DEF TsxOpen, TsxWrite, TsxUnbak, OpAt, TsxOps, ReadOps
<1>6. ~MmiWrite(t) BY DEF MmiWrite, ReadOps
<1>7. ~MmiStart(t) /\ ~MmiConf(t) /\ ~MmiOpen(t) /\ ~MmiFill(t)
  BY NoReply DEF MmiStart, MmiConf, MmiOpen, MmiFill
<1>. QED BY <1>1, <1>3, <1>4, <1>5, <1>6, <1>7 DEF Step

\* The cells that are read are those that were acknowledged.
LEMMA PartTrue ==
  ASSUME ProdInv, NEW t \in Threads, ReadPart(t), ans'[t].ok, nFault' = nFault, ~nand \/ serial
  PROVE  /\ req[t].op = "phs_r" /\ {0, 1} \cap (unsure \cup spoiled) = {} =>
              ans'[t].data = [i \in 0 .. SnLen(want[0].kind) - 1 |-> want[i]]
         /\ \/ req[t].op = "read32"
            \/ req[t].op = "read16" /\ req[t].off = 0
            => ((req[t].off .. req[t].off + req[t].len - 1) \cap (unsure \cup spoiled) = {} =>
                  ans'[t].data = [i \in 0 .. req[t].len - 1 |-> want[req[t].off + i]])
<1>. DEFINE r == req[t]
<1>1. Readable /\ ans'[t].data = CASE r.op = "read16" -> Cut(0, r.len)
                                   [] r.op = "read32" -> Cut(r.off, r.len)
                                   [] r.op = "phs_r"  -> Cut(0, SnLen(part[0].kind))
  BY NoFault, AnswerSays DEF ReadPart
<1>2. \A c \in Cells \ (unsure \cup spoiled) : part[c] = want[c]
  BY <1>1 DEF Readable, ProdInv, PartInv, PartStored
<1>3. r \in Requests
  <2>1. pc[t] = "start" BY DEF ReadPart
  <2>. QED BY <2>1 DEF ProdInv, TypeInv, TypeOK, LocalOK
<1>4. ASSUME r.op = "phs_r", {0, 1} \cap (unsure \cup spoiled) = {}
      PROVE  ans'[t].data = [i \in 0 .. SnLen(want[0].kind) - 1 |-> want[i]]
  <2>1. 0 \in Cells /\ 1 \in Cells BY ProdDataAssumption DEF Cells
  <2>2. part[0] = want[0] /\ part[1] = want[1] BY <1>2, <1>4, <2>1
  <2>3. ASSUME NEW i \in 0 .. SnLen(want[0].kind) - 1 PROVE part[0 + i] = want[i]
    <3>1. SnLen(want[0].kind) \in {0, 1, 2} BY DEF SnLen
    <3>2. i = 0 \/ i = 1 BY <3>1
    <3>. QED BY <2>2, <3>2
  <2>4. ans'[t].data = Cut(0, SnLen(want[0].kind)) BY <1>1, <1>4, <2>2
  <2>. QED BY <2>3, <2>4 DEF Cut
<1>5. ASSUME \/ r.op = "read32"
             \/ r.op = "read16" /\ r.off = 0,
             (r.off .. r.off + r.len - 1) \cap (unsure \cup spoiled) = {}
      PROVE  ans'[t].data = [i \in 0 .. r.len - 1 |-> want[r.off + i]]
  <2>1. r.off \in Nat /\ r.len \in Nat /\ r.off + r.len <= MiscSize BY <1>3, <1>5, RequestFields
  <2>2. ans'[t].data = Cut(r.off, r.len) BY <1>1, <1>5
  <2>3. ASSUME NEW i \in 0 .. r.len - 1 PROVE part[r.off + i] = want[r.off + i]
    <3>1. r.off + i \in r.off .. r.off + r.len - 1 /\ r.off + i \in Cells
      BY <2>1, ProdDataAssumption DEF Cells
    <3>. QED BY <1>2, <1>5, <3>1
  <2>. QED BY <2>2, <2>3 DEF Cut
<1>. QED BY <1>4, <1>5

\* The addresses that are read are those that were acknowledged.
LEMMA MacTrue ==
  ASSUME ProdInv, NEW t \in Threads, MacRead(t), nFault' = nFault, serial,
         NEW a \in DOMAIN ans'[t].data, a \notin unsureFile, ~Writing(a), wantFile[a] # Empty
  PROVE  ans'[t].data[a] = wantFile[a]
<1>1. ans'[t].data = [b \in Named(t) |-> InFile(b, eng_btwifimac_read(b))]
  <2>1. PICK lost \in {{}} \cup {{b} : b \in Named(t)} :
          /\ IF lost = {} THEN UNCHANGED nFault ELSE Fault(t)
          /\ Reply(t, TRUE, [b \in Named(t) |-> IF b \in lost THEN Empty
                                                ELSE InFile(b, eng_btwifimac_read(b))])
    BY DEF MacRead
  <2>2. lost = {} BY <2>1, NoFault
  <2>3. [b \in Named(t) |-> IF b \in lost THEN Empty ELSE InFile(b, eng_btwifimac_read(b))]
          = [b \in Named(t) |-> InFile(b, eng_btwifimac_read(b))]
    BY <2>2
  <2>. QED BY <2>1, <2>3, AnswerSays
<1>2. a \in Named(t) /\ a \in Macs BY <1>1 DEF Named
<1>3. Keeps(a, eng_btwifimac_read(a)) BY <1>2 DEF ProdInv, MacInv, MacStored
<1>. QED BY <1>1, <1>2, <1>3 DEF Keeps

\* The records that are read are those that were acknowledged, in the format
\* that was asked for.
LEMMA TsxTrue ==
  ASSUME ProdInv, NEW t \in Threads, TsxRead(t), ans'[t].ok, nFault' = nFault,
         TsxFile(req[t].op) \notin unsureFile \cup spoiledFile, ~Writing(TsxFile(req[t].op)),
         \/ req[t].op # "raw_r" /\ wantFile["tsx"].kind = TsxKind(req[t].op)
         \/ req[t].op = "raw_r" /\ wantFile["tsxraw"] # NoFile
  PROVE  ans'[t].data = wantFile[TsxFile(req[t].op)]
<1>. DEFINE op == req[t].op  f == TsxFile(op)
<1>1. f \in Kept BY DEF TsxFile, Kept
<1>2. file[f] = wantFile[f] BY <1>1, KeptFile
<1>3. op \in {"tsx_r", "ext_r", "raw_r"} BY DEF TsxRead
<1>4. wantFile[f].kind = TsxKind(op)
  BY <1>3 DEF TsxFile, TsxKind, ProdInv, FileInv, WantOK
<1>5. wantFile[f] \notin {NoFile, Empty} BY <1>3, <1>4 DEF TsxKind, NoFile, Empty
<1>6. Reply(t, TRUE, file[f])
  <2>1. \/ Reply(t, FALSE, <<>>)
        \/ Reply(t, TRUE, IF file[f].kind = TsxKind(op) THEN file[f] ELSE Junk)
    BY <1>2, <1>5, NoFault DEF TsxRead
  <2>. QED BY <1>2, <1>4, <2>1, AnswerSays
<1>. QED BY <1>2, <1>6, AnswerSays

\* The results that are read are those that were acknowledged.
LEMMA MmiTrue ==
  ASSUME ProdInv, NEW t \in Threads, MmiRead(t), ans'[t].ok, nFault' = nFault,
         req[t].type \notin unsureFile \cup spoiledFile, ~Writing(req[t].type)
  PROVE  ans'[t].data = wantFile[req[t].type]
<1>. DEFINE f == req[t].type
<1>1. pc[t] = "mmi_read" BY DEF MmiRead
<1>2. req[t].op = "mmi_r" BY <1>1 DEF ProdInv, TypeInv, ThreadInv, OpAt, AtMmi
<1>3. req[t] \in Requests BY <1>1 DEF ProdInv, TypeInv, TypeOK, LocalOK
<1>4. f # "?" /\ Reply(t, TRUE, IF file[f] = Empty THEN Junk ELSE file[f])
  BY NoFault, AnswerSays DEF MmiRead
<1>5. f \in Tests BY <1>2, <1>3, <1>4, RequestFields
<1>6. file[f] = wantFile[f] BY <1>5, KeptFile DEF Kept
<1>7. wantFile[f] # Empty BY <1>5 DEF ProdInv, FileInv, WantOK
<1>. QED BY <1>4, <1>6, <1>7, AnswerSays

\* What engpc answers with success, all of whose calls have succeeded, is what
\* was last acknowledged, in the byte order and the format that was asked for.
THEOREM AnswersAreTrue == Spec => ReadsTrue
<1>. DEFINE
       sure(C) == C \cap (unsure \cup spoiled) = {} /\ (~nand \/ serial)
       kept(f) == f \notin unsureFile \cup spoiledFile /\ ~Writing(f)
       True(t) ==
         LET r == req[t] d == ans'[t].data
         IN CASE r.op \in {"read16", "read32"} ->
                   (r.op = "read32" \/ r.off = 0) /\ sure(r.off .. r.off + r.len - 1)
                     => d = [i \in 0 .. r.len - 1 |-> want[r.off + i]]
              [] r.op = "phs_r" ->
                   sure({0, 1})
                     => d = [i \in 0 .. SnLen(want[0].kind) - 1 |-> want[i]]
              [] r.op = "mac_r" ->
                   \A a \in DOMAIN d :
                     serial /\ kept(a) /\ wantFile[a] # Empty => d[a] = wantFile[a]
              [] r.op = "mode_get" -> d = booted
              [] r.op \in {"tsx_r", "ext_r"} ->
                   kept("tsx") /\ wantFile["tsx"].kind = TsxKind(r.op)
                     => d = wantFile["tsx"]
              [] r.op = "raw_r" ->
                   kept("tsxraw") /\ wantFile["tsxraw"] # NoFile
                     => d = wantFile["tsxraw"]
              [] r.op = "mmi_r" -> kept(r.type) => d = wantFile[r.type]
       Good == \A t \in Threads :
                 Answered(t) /\ ans'[t].ok /\ req[t].op \in ReadOps /\ nFault' = nFault
                   /\ ~bad[t] => True(t)
<1>1. ASSUME ProdInv, [Next]_vars PROVE Good
  <2>. SUFFICES ASSUME NEW t \in Threads, Answered(t), ans'[t].ok, req[t].op \in ReadOps,
                       nFault' = nFault
                PROVE  True(t)
    OBVIOUS
  <2>1. Step(t) /\ ~Die /\ pc'[t] = "idle" BY <1>1, AnswerIsOwn DEF Answered
  <2>2. CASE ReadPart(t)
    <3>1. req[t].op \in {"read16", "read32", "phs_r"} BY <2>2 DEF ReadPart
    <3>2. CASE req[t].op \in {"read16", "read32"} BY <1>1, <2>2, <3>2, PartTrue
    <3>3. CASE req[t].op = "phs_r" BY <1>1, <2>2, <3>3, PartTrue
    <3>. QED BY <3>1, <3>2, <3>3
  <2>3. CASE GetTestMode(t)
    <3>1. req[t].op = "mode_get" BY <2>3 DEF GetTestMode
    <3>2. ans'[t].data = booted
      BY <1>1, <2>3, AnswerSays DEF GetTestMode, ProdInv, ModeInv
    <3>. QED BY <3>1, <3>2
  <2>4. CASE MacRead(t)
    <3>1. req[t].op = "mac_r" BY <2>4 DEF MacRead
    <3>2. \A a \in DOMAIN ans'[t].data :
            serial /\ kept(a) /\ wantFile[a] # Empty => ans'[t].data[a] = wantFile[a]
      BY <1>1, <2>4, MacTrue
    <3>. QED BY <3>1, <3>2
  <2>5. CASE TsxRead(t)
    <3>1. req[t].op \in {"tsx_r", "ext_r", "raw_r"} BY <2>5 DEF TsxRead
    <3>2. CASE req[t].op \in {"tsx_r", "ext_r"}
      <4>1. TsxFile(req[t].op) = "tsx" BY <3>2 DEF TsxFile
      <4>2. kept("tsx") /\ wantFile["tsx"].kind = TsxKind(req[t].op)
              => ans'[t].data = wantFile["tsx"]
        BY <1>1, <2>5, <3>2, <4>1, TsxTrue
      <4>. QED BY <3>2, <4>2
    <3>3. CASE req[t].op = "raw_r"
      <4>1. TsxFile(req[t].op) = "tsxraw" BY <3>3 DEF TsxFile
      <4>2. kept("tsxraw") /\ wantFile["tsxraw"] # NoFile => ans'[t].data = wantFile["tsxraw"]
        BY <1>1, <2>5, <3>3, <4>1, TsxTrue
      <4>. QED BY <3>3, <4>2
    <3>. QED BY <3>1, <3>2, <3>3
  <2>6. CASE MmiRead(t)
    <3>1. req[t].op = "mmi_r"
      BY <1>1, <2>6 DEF MmiRead, ProdInv, TypeInv, ThreadInv, OpAt, AtMmi
    <3>2. kept(req[t].type) => ans'[t].data = wantFile[req[t].type] BY <1>1, <2>6, MmiTrue
    <3>. QED BY <3>1, <3>2
  <2>. QED BY <1>1, <2>1, <2>2, <2>3, <2>4, <2>5, <2>6, WhoReads
<1>. QED BY <1>1, ProdInvariant, PTL DEF Spec, ReadsTrue

\* A volume that a write finds closed is one whose update was interrupted, or
\* that another tool's request is updating.
LEMMA Closed ==
  ASSUME ProdInv, NEW t \in Threads, pc[t] \notin {"idle", "put"}, ~Readable
  PROVE  nand /\ (~serial \/ torn)
BY DEF Readable, ProdInv, PartInv, TornInv, SerialInv

\* After a failed call, a kill or a restart at any point, a write all of whose
\* own calls succeed is acknowledged, except on a NAND volume whose update was
\* interrupted and for results whose file does not exist.
THEOREM WritesCanBeRepeated == Spec => RetrySucceeds
<1>. DEFINE
       Done(t) ==
         \/ ans'[t].ok
         \/ nand /\ (~serial \/ torn)
         \/ req[t].op = "mac_w" /\ (req[t].group \/ Named(t) = {})
         \/ req[t].op = "mmi_w" /\ (req[t].type = "?" \/ file[req[t].type] = NoFile)
       Good == \A t \in Threads :
                 Answered(t) /\ req[t].op \in WriteOps /\ nFault' = nFault /\ ~bad[t] => Done(t)
<1>1. ASSUME ProdInv, [Next]_vars PROVE Good
  <2>. SUFFICES ASSUME NEW t \in Threads, Answered(t), req[t].op \in WriteOps, nFault' = nFault
                PROVE  Done(t)
    OBVIOUS
  <2>1. Step(t) /\ ~Die /\ pc'[t] = "idle" BY <1>1, AnswerIsOwn DEF Answered
  <2>2. OpAt(t) /\ ~Fault(t) BY <1>1, NoFault DEF ProdInv, TypeInv, ThreadInv
  <2>3. CASE Other(t) BY <2>3 DEF Other, Named, WriteOps
  <2>4. CASE ReadPart(t) \/ GetTestMode(t) \/ MacRead(t) \/ TsxRead(t) \/ MmiRead(t)
    BY <2>2, <2>4 DEF ReadPart, GetTestMode, MacRead, TsxRead, MmiRead, OpAt, AtMmi, WriteOps
  <2>5. CASE WriteStart(t)
    <3>1. ~Readable \/ \E l \in {"snap", "put"} : Goto(t, l) BY <2>2, <2>5 DEF WriteStart
    <3>2. ~Readable BY <1>1, <2>1, <3>1, NoReply
    <3>. QED BY <1>1, <2>5, <3>2, Closed DEF WriteStart
  <2>6. CASE Snap(t)
    <3>1. ~Readable BY <1>1, <2>1, <2>2, <2>6, NoReply DEF Snap
    <3>. QED BY <1>1, <2>6, <3>1, Closed DEF Snap
  <2>7. CASE VolUp(t)
    <3>1. pc[t] = "volup" /\ nand BY <2>2, <2>7 DEF VolUp, OpAt
    <3>2. \E s \in Threads : pc[s] = "put" BY <1>1, <2>1, <2>2, <2>7, NoReply DEF VolUp
    <3>3. ~Readable BY <3>1, <3>2 DEF Readable
    <3>. QED BY <1>1, <3>1, <3>3, Closed
  <2>8. CASE Put(t)
    <3>1. Goto(t, "free") \/ Reply(t, TRUE, <<>>) BY <2>2, <2>8 DEF Put
    <3>. QED BY <1>1, <2>1, <3>1, NoReply, AnswerSays
  <2>9. CASE SetTestModeFree(t) BY <1>1, <2>1, <2>9, AnswerSays DEF SetTestModeFree
  <2>10. CASE MacStart(t)
    <3>1. req[t].group \/ Goto(t, "wifi_open") BY <2>10 DEF MacStart
    <3>2. req[t].op = "mac_w" BY <2>10 DEF MacStart
    <3>. QED BY <1>1, <2>1, <3>1, <3>2, NoReply
  <2>11. CASE MacOpen(t) \/ WifiWrite(t)
    <3>1. \E l \in {"wifi_write", "bt_write", "bt_open"} : Goto(t, l)
      BY <2>2, <2>11 DEF MacOpen, OpenTrunc, WifiWrite
    <3>. QED BY <1>1, <2>1, <3>1, NoReply
  <2>12. CASE BtWrite(t) BY <1>1, <2>2, <2>12, AnswerSays DEF BtWrite
  <2>13. CASE TsxOpen(t) \/ TsxWrite(t) \/ TsxUnbak(t)
    <3>1. (\E l \in {"write", "unbak"} : Goto(t, l)) \/ Reply(t, TRUE, <<>>)
      BY <2>2, <2>13 DEF TsxOpen, TsxWrite, TsxUnbak
    <3>. QED BY <1>1, <2>1, <3>1, NoReply, AnswerSays
  <2>14. CASE MmiWrite(t) BY <1>1, <2>2, <2>14, AnswerSays DEF MmiWrite
  <2>15. CASE MmiStart(t) \/ MmiConf(t) \/ MmiOpen(t) \/ MmiFill(t)
    <3>1. \E l \in {"mmi_conf", "mmi_open", "mmi_fill", "mmi_read"} : Goto(t, l)
      BY <2>15 DEF MmiStart, MmiConf, MmiOpen, MmiFill
    <3>. QED BY <1>1, <2>1, <3>1, NoReply
  <2>. QED BY <2>1, <2>3, <2>4, <2>5, <2>6, <2>7, <2>8, <2>9, <2>10, <2>11, <2>12, <2>13,
              <2>14, <2>15 DEF Step
<1>. QED BY <1>1, ProdInvariant, PTL DEF Spec, RetrySucceeds
=============================================================================
