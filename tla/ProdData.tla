------------------------------ MODULE ProdData ------------------------------
(***************************************************************************)
(* The production data that engpc stores for the factory tools:            *)
(*  - the miscdata partition (modules/libmiscdata/miscdata.c, and its copy *)
(*    in modules/libftmode): the phase check record at its start, the test *)
(*    mode word, and whatever the product control commands put there;      *)
(*  - the files of the Bluetooth and WiFi addresses                        *)
(*    (libmiscdata/bt_wifi_mac.c), of the TSX calibration (libtsxdata) and *)
(*    of the test results (libap_opt/mmiresult.c).                         *)
(*                                                                         *)
(* The callbacks run in the channel threads, without a lock, and the       *)
(* program may be killed, or the phone reset, between any two calls.  A    *)
(* build for NAND rewrites the whole partition by a UBI volume update, one *)
(* for eMMC writes in place.                                               *)
(***************************************************************************)
EXTENDS Naturals, FiniteSets, Sequences, TLC

CONSTANTS
  Threads,          \* the channel threads
  MiscSize,         \* size of the partition, in cells
  TESTMODE_OFFSET,  \* the cell of the test mode word
  Requests,         \* the requests a tool may send, a subset of AllRequests
  MaxReqs,          \* bound on the number of requests of several tools ...
  MaxInTurn,        \* ... and of requests sent in turn
  MaxFaults,        \* bound on the number of calls that fail
  MaxKills          \* bound on kills and resets

ASSUME ProdDataAssumption ==
  /\ MiscSize \in Nat /\ MiscSize > 1     \* room for the longer phase check record
  /\ TESTMODE_OFFSET \in 0 .. MiscSize - 1
  /\ {MaxReqs, MaxInTurn, MaxFaults, MaxKills} \subseteq Nat

Cells  == 0 .. MiscSize - 1
Macs   == {"wifi", "bt"}
Tests  == {"whole", "pcba", "bbat"}      \* uType 0, 1, 2
Files  == Macs \cup Tests \cup
          {"wifiroot", "btroot",         \* where older releases kept them
           "tsx", "tsxbak", "tsxraw"}

NoFile == [kind |-> "none",  n |-> 0]    \* the file does not exist
Empty  == [kind |-> "empty", n |-> 0]    \* it has no contents
Junk   == [kind |-> "junk",  n |-> 0]    \* what an unset buffer holds
Random == [kind |-> "random", n |-> 0]   \* what mac_rand() makes or finds
Flat   == [kind |-> "flat", n |-> 0]     \* a table of tests, none supported
Kinds  == {"none", "empty", "junk", "random", "data", "reversed", "sp09",
           "sp15", "mode", "plain", "ext", "flat"}
Content(k, i) == [kind |-> k, n |-> i]

\* f, laid over g.
Over(f, g) == [c \in DOMAIN f \cup DOMAIN g |-> IF c \in DOMAIN f THEN f[c] ELSE g[c]]

(* The boot modes: libftmode/ftmode.c.                                     *)
id_first_mode ==
  {<<0, "NORMAL">>, <<1, "GSMCAL">>, <<2, "GSMFT">>, <<3, "WCDMACAL">>,
   <<4, "WCDMAFT">>, <<5, "TDSCAL">>, <<6, "TDSFT">>, <<7, "LTECAL">>,
   <<8, "LTEFT">>, <<11, "NRCAL">>, <<12, "NRFT">>, <<13, "NRMMWCAL">>,
   <<14, "NRMMWFT">>, <<15, "C2KCAL">>, <<16, "C2KFT">>, <<17, "BBAT">>,
   <<18, "NATIVEMMI">>, <<19, "APKMMI">>, <<20, "NBIOTCAL">>,
   <<21, "NBIOTFT">>, <<22, "UPT">>}

id_cali_mode ==
  {<<0, "NORMAL">>, <<1, "GSMCAL">>, <<5, "GSMFT">>, <<7, "TDSCAL">>,
   <<8, "TDSFT">>, <<11, "WCDMACAL">>, <<12, "WCDMAFT">>, <<16, "LTECAL">>,
   <<17, "LTEFT">>, <<18, "C2KCAL">>, <<19, "C2KFT">>, <<24, "NRCAL">>,
   <<25, "NRFT">>}

findIdWithName(name) ==
  IF \E e \in id_first_mode : e[2] = name
    THEN (CHOOSE e \in id_first_mode : e[2] = name)[1]
    ELSE 255

findNameWithId(id, table) ==
  IF \E e \in table : e[1] = id THEN (CHOOSE e \in table : e[1] = id)[2] ELSE "0x"

\* The argument of AT+SETTESTMODE=: a name, or a number written in either
\* base.  Letters that are all hexadecimal digits, without the 0x, are read in
\* base 10 and count as 0.
TestModeId(arg) == CASE arg.form = "name" -> findIdWithName(arg.name)
                     [] arg.form = "bare" -> 0
                     [] OTHER             -> arg.x

\* Mutation: both keys are read as decimal numbers.
parse_key_valueDec(digits, mode_flag) == digits[1] * 10 + digits[2]

\* The two digits after the key: first_mode= is written in base 16,
\* calibration= in base 10.
parse_key_value(digits, mode_flag) ==
  digits[1] * (IF mode_flag = 1 THEN 10 ELSE 16) + digits[2]

getTestMode(line) ==
  CASE line.key = "first_mode="  ->
         findNameWithId(parse_key_value(line.digits, 0), id_first_mode)
    [] line.key = "calibration=" ->
         findNameWithId(parse_key_value(line.digits, 1), id_cali_mode)
    [] OTHER -> findNameWithId(0, id_first_mode)

-----------------------------------------------------------------------------
NoRequest == [op |-> "none"]

ReadOps  == {"read16", "read32", "phs_r", "mac_r", "mode_get", "tsx_r",
             "ext_r", "raw_r", "mmi_r"}
WriteOps == {"write16", "write32", "phs_w", "mac_w", "mode_set", "tsx_w",
             "ext_w", "raw_w", "mmi_w"}

\* A request by a wrong checksum, or for an operation that does not exist, is
\* "other".
AllRequests ==
  [op : {"read16", "write16", "read32", "write32"}, off : Cells,
   len : 1 .. MiscSize]
    \cup [op : {"phs_w"}, magic : {"sp09", "sp15"}]
    \cup [op : {"mac_w", "mac_r"}, sel : SUBSET {"bt", "wifi", "imei"},
          group : BOOLEAN]             \* a group or local WiFi address
    \cup [op : {"mode_set"}, form : {"name", "dec", "hex", "bare"},
          name : {"BBAT", "NATIVEMMI", ""}, x : 0 .. 22,
          raw : BOOLEAN]              \* not in a diag frame
    \cup [op : {"phs_r", "mode_get", "tsx_w", "tsx_r", "ext_w", "ext_r",
                "raw_w", "raw_r", "other"}]
    \cup [op : {"mmi_w", "mmi_r"}, type : Tests \cup {"?"}]

ASSUME RequestsAssumption ==
  /\ Requests \subseteq AllRequests
  /\ \A r \in Requests : r.op \in {"read16", "write16", "read32", "write32"}
                           => r.off + r.len <= MiscSize

VARIABLES
  nand,         \* the build
  serial,       \* the tools send one request at a time
  part,         \* the cells of the partition
  torn,         \* NAND: a volume update was interrupted
  file,         \* the files
  cmdline,      \* /proc/cmdline
  parsed,       \* bbat_support_result[] has the tests of the configuration
  pc, req, num, \* where a thread is, its request and that request's number
  buf,          \* its copy of the partition
  addr,         \* the addresses that it is going to store
  bad,          \* a call that this request made has failed
  ans,          \* the answers since the last request
  want, wantFile,     \* what was last acknowledged (history variables)
  unsure, unsureFile, \* where a request that failed, or was cut off by the
                      \* end of the program, was writing, and
  spoiled, spoiledFile, \* where the code stored something else than it has
                      \* acknowledged though nothing failed (history variables)
  booted,       \* the mode asked for when the phone started (history variable)
  nReq, nFault, nKill

build == <<nand, serial>>
phone == <<part, torn, file, cmdline, parsed, booted>>
ghost == <<want, wantFile, unsure, unsureFile, spoiled, spoiledFile>>
local == <<req, num, buf, addr, bad>>
vars  == <<build, phone, pc, local, ans, ghost, nReq, nFault, nKill>>

Pcs == {"idle", "start", "snap", "volup", "put", "wifi_open", "wifi_write",
        "bt_open", "bt_write", "write", "unbak", "mmi_conf", "mmi_open",
        "mmi_fill", "mmi_read", "free"}

Contents == [kind : Kinds, n : Nat]

TypeOK ==
  /\ nand \in BOOLEAN /\ serial \in BOOLEAN /\ torn \in BOOLEAN
  /\ parsed \in BOOLEAN
  /\ part \in [Cells -> Contents] /\ want \in [Cells -> Contents]
  /\ \A c \in Cells : part[c].kind \in {"data", "sp09", "sp15", "mode"}
  /\ file \in [Files -> Contents] /\ wantFile \in [Files -> Contents]
  /\ unsure \subseteq Cells /\ unsureFile \subseteq Files
  /\ spoiled \subseteq Cells /\ spoiledFile \subseteq Files
  /\ pc \in [Threads -> Pcs] /\ num \in [Threads -> 0 .. MaxReqs + MaxInTurn]
  /\ bad \in [Threads -> BOOLEAN]
  /\ \A t \in Threads : (pc[t] = "idle") = (req[t] = NoRequest)
  /\ nReq \in 0 .. MaxReqs + MaxInTurn /\ nFault \in 0 .. MaxFaults
  /\ nKill \in 0 .. MaxKills

NoAddr == [a \in Macs |-> Empty]
NoAnswer == [op |-> "none", ok |-> FALSE]

\* The address that eng_btwifimac_read() finds, Empty if there is none, in
\* the byte order of the file.
Root(a) == IF a = "wifi" THEN "wifiroot" ELSE "btroot"
eng_btwifimac_read(a) ==
  LET f == IF file[a] # NoFile THEN a ELSE Root(a)
  IN  IF file[f] = NoFile THEN Empty ELSE file[f]

\* The Bluetooth address is written to the file in the reverse order of its
\* bytes, and reversed again when it is read.
Reversed(c) == CASE c.kind = "data"     -> Content("reversed", c.n)
                 [] c.kind = "reversed" -> Content("data", c.n)
                 [] OTHER               -> c
InFile(a, c) == IF a = "bt" THEN Reversed(c) ELSE c

\* A phone that has every file, one that has those of an older release, or
\* one that has none of them yet.
Init ==
  /\ nand \in BOOLEAN /\ serial \in BOOLEAN /\ torn = FALSE
  /\ parsed = FALSE
  /\ part = [c \in Cells |-> Content(IF c = TESTMODE_OFFSET THEN "mode"
                                                           ELSE "data", 0)]
  /\ \E age \in {"new", "older", "complete"} :
       /\ file = [f \in Files |->
                 CASE \/ age = "new"
                      \/ age = "older" /\ f \in Macs -> NoFile
                   [] f \in {"bt", "btroot"} -> Reversed(Content("data", 0))
                   [] f = "tsx"              -> Content("plain", 0)
                   [] OTHER                  -> Content("data", 0)]
       /\ cmdline = IF age = "older"
                      THEN [key |-> "calibration=", digits |-> <<2, 4>>]
                      ELSE [key |-> "none", digits |-> <<0, 0>>]
       /\ booted = IF age = "older" THEN "NRCAL" ELSE "NORMAL"
  /\ pc = [t \in Threads |-> "idle"] /\ req = [t \in Threads |-> NoRequest]
  /\ num = [t \in Threads |-> 0] /\ buf = [t \in Threads |-> <<>>]
  /\ addr = [t \in Threads |-> NoAddr]
  /\ bad = [t \in Threads |-> FALSE] /\ ans = [t \in Threads |-> NoAnswer]
  /\ want = part /\ unsure = {} /\ unsureFile = {}
  /\ spoiled = {} /\ spoiledFile = {}
  /\ wantFile = [f \in Files |-> IF f \in Macs
                                 THEN InFile(f, eng_btwifimac_read(f))
                                 ELSE file[f]]
  /\ nReq = 0 /\ nFault = 0 /\ nKill = 0

-----------------------------------------------------------------------------
Goto(t, l) == pc' = [pc EXCEPT ![t] = l]

\* The callback returns, and the tool has its answer.
Reply(t, ok, data) ==
  /\ ans' = [ans EXCEPT ![t] = [op |-> req[t].op, ok |-> ok, data |-> data]]
  /\ Goto(t, "idle")
  /\ req' = [req EXCEPT ![t] = NoRequest]
  /\ num' = [num EXCEPT ![t] = 0] /\ buf' = [buf EXCEPT ![t] = <<>>]
  /\ addr' = [addr EXCEPT ![t] = NoAddr]
  /\ bad' = [bad EXCEPT ![t] = FALSE]

\* A call made by t fails.
Fault(t) ==
  /\ nFault < MaxFaults /\ nFault' = nFault + 1

Request(t, r) ==
  /\ pc[t] = "idle" /\ nReq < (IF serial THEN MaxInTurn ELSE MaxReqs)
  /\ serial => \A s \in Threads : pc[s] = "idle"
  /\ nReq' = nReq + 1
  /\ req' = [req EXCEPT ![t] = r] /\ num' = [num EXCEPT ![t] = nReq + 1]
  /\ ans' = [s \in Threads |-> NoAnswer]
  /\ Goto(t, "start")
  /\ UNCHANGED <<build, phone, buf, addr, bad, ghost, nFault, nKill>>

\* An operation that no callback knows, or a frame whose checksum is wrong:
\* the partition and the files are not touched.
Other(t) ==
  /\ pc[t] = "start"
  /\ \/ req[t].op = "other"
     \/ req[t].op \in {"mac_w", "mac_r"} /\ req[t].sel \cap Macs = {}
  /\ Reply(t, FALSE, <<>>)
  /\ UNCHANGED <<build, phone, ghost, nReq, nFault, nKill>>

-----------------------------------------------------------------------------
(* The partition *)

\* A UBI volume that is being updated cannot be opened, and one whose update
\* was interrupted cannot be read.
Readable == ~torn /\ ~(nand /\ \E s \in Threads : pc[s] = "put")

Cut(off, len) == [i \in 0 .. len - 1 |-> part[off + i]]

\* The record's length follows from its magic number.
SnLen(magic) == CASE magic = "sp09" -> 1 [] magic = "sp15" -> 2 [] OTHER -> 0

\* eng_diag_product_ctrl() reads at 0 whatever offset it is given.
ReadPart(t) ==
  /\ pc[t] = "start" /\ req[t].op \in {"read16", "read32", "phs_r"}
  /\ \/ /\ Readable /\ UNCHANGED nFault
        /\ Reply(t, TRUE,
                 CASE req[t].op = "read16" -> Cut(0, req[t].len)
                   [] req[t].op = "read32" -> Cut(req[t].off, req[t].len)
                   [] req[t].op = "phs_r"  -> Cut(0, SnLen(part[0].kind)))
     \/ /\ ~Readable /\ UNCHANGED nFault /\ Reply(t, FALSE, <<>>)
     \/ /\ Fault(t) /\ Reply(t, FALSE, <<>>)
  /\ UNCHANGED <<build, phone, ghost, nReq, nKill>>

\* The cells that a request writes, and what it writes there.
\* eng_diag_product_ctrl() puts the data at the offset of a buffer of
\* data_len bytes that it has read at 0, and writes that buffer back to 0.
Patch(t) ==
  LET r == req[t] new == Content("data", num[t])
  IN CASE r.op = "write16" ->
            [c \in 0 .. r.len - 1 |-> IF c >= r.off THEN new ELSE part[c]]
       [] r.op = "write32" -> [c \in r.off .. r.off + r.len - 1 |-> new]
       [] r.op = "phs_w"   ->
            [c \in 0 .. SnLen(r.magic) - 1 |->
               IF c = 0 THEN Content(r.magic, num[t]) ELSE new]
       [] r.op = "mode_set" ->
            [c \in {TESTMODE_OFFSET} |-> Content("mode", TestModeId(r))]

\* The cells that the tool wants written, those of them that a 16-bit request
\* acknowledges and does not write, and those that it does not name and
\* writes back as they were when it read them, over what other threads have
\* stored since.
Named16(t) == req[t].off .. req[t].off + req[t].len - 1
Missed(t) == IF req[t].op = "write16" THEN Named16(t) \ DOMAIN Patch(t) ELSE {}
Stale(t) ==
  IF req[t].op = "write16"
    THEN {c \in DOMAIN Patch(t) \ Named16(t) : buf[t][c] # part[c]} ELSE {}

\* What the tool believes to be stored.
Asked(t) ==
  LET fresh == IF req[t].op = "write16" THEN DOMAIN Patch(t) \cap Named16(t)
                                        ELSE DOMAIN Patch(t)
  IN /\ want' = [c \in Cells |->
                  IF c \in fresh THEN buf[t][c]
                  ELSE IF c \in Missed(t) THEN Content("data", num[t])
                  ELSE want[c]]
     /\ unsure' = unsure \ fresh
     /\ spoiled' = (spoiled \ fresh) \cup Missed(t) \cup Stale(t)
     /\ UNCHANGED <<wantFile, unsureFile, spoiledFile>>

\* Product control reads before it writes.
WriteStart(t) ==
  /\ pc[t] = "start" /\ req[t].op \in {"write16", "write32", "phs_w", "mode_set"}
  /\ \/ /\ req[t].op \in {"write16", "write32"} => Readable
        /\ buf' = [buf EXCEPT ![t] = Patch(t)]
        /\ Goto(t, IF nand THEN "snap" ELSE "put")
        /\ UNCHANGED <<req, num, addr, bad, ans, nFault>>
     \/ /\ req[t].op \in {"write16", "write32"}
        /\ \/ ~Readable /\ UNCHANGED nFault
           \/ Fault(t)
        /\ Reply(t, FALSE, <<>>)
  /\ UNCHANGED <<build, phone, ghost, nReq, nKill>>

\* eng_write_miscdata_with_offset() in the NAND build: the whole partition is
\* read and changed in memory ...
Snap(t) ==
  /\ pc[t] = "snap"
  /\ \/ /\ Readable /\ UNCHANGED nFault
        /\ buf' = [buf EXCEPT ![t] = Over(buf[t], part)]
        /\ Goto(t, "volup")
        /\ UNCHANGED <<req, num, addr, bad, ans>>
     \/ /\ \/ ~Readable /\ UNCHANGED nFault
           \/ Fault(t)
        /\ Reply(t, FALSE, <<>>)
  /\ UNCHANGED <<build, phone, ghost, nReq, nKill>>

\* ... and eng_write_miscdata() opens the volume, which has one writer at a
\* time, starts its update ...
VolUp(t) ==
  /\ pc[t] = "volup"
  /\ \/ /\ \A s \in Threads : pc[s] # "put"
        /\ Goto(t, "put")
        /\ UNCHANGED <<local, ans, nFault>>
     \/ /\ \/ (\E s \in Threads : pc[s] = "put") /\ UNCHANGED nFault
           \/ Fault(t)
        /\ Reply(t, FALSE, <<>>)
  /\ UNCHANGED <<build, phone, ghost, nReq, nKill>>

\* ... and writes it; in the eMMC build the cells are written in place.  A
\* write that fails leaves a volume half updated.
Put(t) ==
  /\ pc[t] = "put"
  /\ \/ /\ part' = Over(buf[t], part) /\ torn' = FALSE
        /\ Asked(t)
        /\ IF req[t].op = "mode_set" /\ req[t].raw
             THEN Goto(t, "free") /\ UNCHANGED <<local, ans>>
             ELSE Reply(t, TRUE, <<>>)
        /\ UNCHANGED nFault
     \/ /\ Fault(t) /\ torn' = nand
        /\ unsure' = unsure \cup DOMAIN Patch(t)
        /\ Reply(t, FALSE, <<>>)
        /\ UNCHANGED <<part, want, wantFile, unsureFile, spoiled, spoiledFile>>
  /\ UNCHANGED <<build, file, cmdline, parsed, booted, nReq, nKill>>

\* /proc/cmdline is that of the last start of the phone.
GetTestMode(t) ==
  /\ pc[t] = "start" /\ req[t].op = "mode_get"
  /\ Reply(t, TRUE, getTestMode(cmdline))
  /\ UNCHANGED <<build, phone, ghost, nReq, nFault, nKill>>

-----------------------------------------------------------------------------
(* The addresses *)

\* What the tool believes f to hold; that the files in F are in doubt after a
\* failure; and that f is spoiled although nothing failed.
Stored(f, c) ==
  /\ wantFile' = [wantFile EXCEPT ![f] = c]
  /\ unsureFile' = unsureFile \ {f} /\ spoiledFile' = spoiledFile \ {f}
  /\ UNCHANGED <<want, unsure, spoiled>>
Doubt(F) ==
  /\ unsureFile' = unsureFile \cup F
  /\ UNCHANGED <<want, wantFile, unsure, spoiled, spoiledFile>>
Spoil(f) ==
  /\ spoiledFile' = spoiledFile \cup {f}
  /\ UNCHANGED <<want, wantFile, unsure, unsureFile, spoiled>>

Named(t) == req[t].sel \cap Macs

\* Mutation: the address that the request does not name is not read back.
MacAddrNew(t, lost) ==
  [a \in Macs |-> IF a \in Named(t) THEN InFile(a, Content("data", num[t]))
                                    ELSE Random]

\* eng_btwifimac_write(): both files are always written.  An address that the
\* request does not name is the one that the phone has, or a random one if
\* that cannot be read.
MacAddr(t, lost) ==
  [a \in Macs |->
     IF a \in Named(t) THEN InFile(a, Content("data", num[t]))
     ELSE IF eng_btwifimac_read(a) = Empty \/ a \in lost THEN Random
     ELSE eng_btwifimac_read(a)]

\* A WiFi address that is a group or a local one is refused.
MacStart(t) ==
  /\ pc[t] = "start" /\ req[t].op = "mac_w" /\ Named(t) # {}
  /\ IF "wifi" \in Named(t) /\ req[t].group
       THEN Reply(t, FALSE, <<>>) /\ UNCHANGED <<ghost, nFault>>
       ELSE /\ Goto(t, "wifi_open")
            /\ UNCHANGED <<req, num, buf, ans>>
            /\ \/ addr' = [addr EXCEPT ![t] = MacAddr(t, {})]
                  /\ UNCHANGED <<bad, ghost, nFault>>
               \/ \E a \in Macs \ Named(t) :
                    /\ Fault(t)
                    /\ addr' = [addr EXCEPT ![t] = MacAddr(t, {a})]
                    /\ bad' = [bad EXCEPT ![t] = TRUE]
                    /\ Doubt({a})
  /\ UNCHANGED <<build, phone, nReq, nKill>>

\* Mutation: the file is opened without O_CREAT.
OpenNoCreate(t, a) ==
  IF file[a] = NoFile
    THEN Reply(t, FALSE, <<>>) /\ UNCHANGED file
    ELSE /\ file' = [file EXCEPT ![a] = Empty]
         /\ Goto(t, IF a = "wifi" THEN "wifi_write" ELSE "bt_write")
         /\ UNCHANGED <<local, ans>>

\* O_CREAT | O_TRUNC
OpenTrunc(t, a) ==
  /\ file' = [file EXCEPT ![a] = Empty]
  /\ Goto(t, IF a = "wifi" THEN "wifi_write" ELSE "bt_write")
  /\ UNCHANGED <<local, ans>>

\* write_mac2file(): the first half of it for WiFi and the second for
\* Bluetooth.
MacOpen(t) ==
  /\ pc[t] \in {"wifi_open", "bt_open"}
  /\ \/ /\ OpenTrunc(t, IF pc[t] = "wifi_open" THEN "wifi" ELSE "bt")
        /\ UNCHANGED <<nFault, ghost>>
     \/ /\ Fault(t) /\ Reply(t, "imei" \in req[t].sel, <<>>)
        /\ Doubt(Macs)
        /\ UNCHANGED file
  /\ UNCHANGED <<build, part, torn, cmdline, parsed, booted, nReq, nKill>>

\* What comes of the WiFi file is forgotten: ret is assigned again.
WifiWrite(t) ==
  /\ pc[t] = "wifi_write"
  /\ \/ /\ file' = [file EXCEPT !["wifi"] = addr[t]["wifi"]]
        /\ IF "wifi" \in Named(t) THEN Stored("wifi", Content("data", num[t]))
                                   ELSE UNCHANGED ghost
        /\ UNCHANGED <<bad, nFault>>
     \/ /\ Fault(t) /\ Doubt({"wifi"})
        /\ bad' = [bad EXCEPT ![t] = TRUE] /\ UNCHANGED file
  /\ Goto(t, "bt_open")
  /\ UNCHANGED <<build, part, torn, cmdline, parsed, booted, req, num, buf, addr, ans,
                 nReq, nKill>>

\* A request that names an IMEI as well goes on to the modem, which answers.
BtWrite(t) ==
  /\ pc[t] = "bt_write"
  /\ \/ /\ file' = [file EXCEPT !["bt"] = addr[t]["bt"], !["btroot"] = NoFile]
        /\ IF "bt" \in Named(t) THEN Stored("bt", Content("data", num[t]))
                                 ELSE UNCHANGED ghost
        /\ Reply(t, TRUE, <<>>) /\ UNCHANGED nFault
     \/ /\ Fault(t) /\ Doubt({"bt"})
        /\ file' = [file EXCEPT !["btroot"] = NoFile]
        /\ Reply(t, "imei" \in req[t].sel, <<>>)
  /\ UNCHANGED <<build, part, torn, cmdline, parsed, booted, nReq, nKill>>

\* An address that cannot be read is answered as zeros, with success.
MacRead(t) ==
  /\ pc[t] = "start" /\ req[t].op = "mac_r" /\ Named(t) # {}
  /\ \E lost \in {{}} \cup {{a} : a \in Named(t)} :
       /\ IF lost = {} THEN UNCHANGED nFault ELSE Fault(t)
       /\ Reply(t, TRUE, [a \in Named(t) |->
                            IF a \in lost THEN Empty
                            ELSE InFile(a, eng_btwifimac_read(a))])
  /\ UNCHANGED <<build, phone, ghost, nReq, nKill>>

-----------------------------------------------------------------------------
(* The TSX calibration *)

TsxFile(op) == IF op \in {"raw_w", "raw_r"} THEN "tsxraw" ELSE "tsx"
TsxKind(op) == CASE op \in {"raw_w", "raw_r"} -> "data"
                 [] op \in {"ext_w", "ext_r"} -> "ext"
                 [] OTHER                     -> "plain"

\* fopen(, "w+") leaves an empty file.
TsxOpen(t) ==
  /\ pc[t] = "start" /\ req[t].op \in {"tsx_w", "ext_w", "raw_w"}
  /\ \/ /\ file' = [file EXCEPT ![TsxFile(req[t].op)] = Empty]
        /\ Goto(t, "write") /\ UNCHANGED <<local, ans, nFault>>
     \/ Fault(t) /\ Reply(t, FALSE, <<>>) /\ UNCHANGED file
  /\ UNCHANGED <<build, part, torn, cmdline, parsed, booted, ghost, nReq, nKill>>

\* Data written over what another thread wrote since: the end of a longer
\* record remains.
Mixes(kind, old) == \/ kind = "plain" /\ old.kind \in {"ext", "junk"}
                    \/ kind = "data" /\ old # Empty

TsxWrite(t) ==
  LET f   == TsxFile(req[t].op)
      new == Content(TsxKind(req[t].op), num[t])
  IN /\ pc[t] = "write"
     /\ \/ /\ \E c \in {new} \cup (IF Mixes(new.kind, file[f]) THEN {Junk} ELSE {}) :
             /\ file' = [file EXCEPT ![f] = c]
             /\ IF c = Junk THEN Spoil(f) ELSE Stored(f, new)
           /\ IF req[t].op = "ext_w"
                THEN Goto(t, "unbak") /\ UNCHANGED <<local, ans>>
                ELSE Reply(t, TRUE, <<>>)
           /\ UNCHANGED nFault
        \/ Fault(t) /\ Doubt({f}) /\ Reply(t, FALSE, <<>>) /\ UNCHANGED file
     /\ UNCHANGED <<build, part, torn, cmdline, parsed, booted, nReq, nKill>>

\* tsxdata_ex_handler() removes the file of the older format last.
TsxUnbak(t) ==
  /\ pc[t] = "unbak"
  /\ \/ /\ file' = [file EXCEPT !["tsxbak"] = NoFile]
        /\ Stored("tsxbak", NoFile) /\ UNCHANGED nFault
     \/ Fault(t) /\ Doubt({"tsxbak"}) /\ UNCHANGED file
  /\ Reply(t, TRUE, <<>>)
  /\ UNCHANGED <<build, part, torn, cmdline, parsed, booted, nReq, nKill>>

\* Nothing in the file says which record it holds.  read_tsx_rawdata() returns
\* a count that it has not set when there is no file.
TsxRead(t) ==
  LET op == req[t].op  c == file[TsxFile(op)]
  IN /\ pc[t] = "start" /\ op \in {"tsx_r", "ext_r", "raw_r"}
     /\ \/ /\ \/ c \in {NoFile, Empty} /\ Reply(t, FALSE, <<>>)
              \/ op = "raw_r" /\ c = NoFile /\ Reply(t, TRUE, Empty)
              \/ /\ c \notin {NoFile, Empty}
                 /\ Reply(t, TRUE, IF c.kind = TsxKind(op) THEN c ELSE Junk)
           /\ UNCHANGED nFault
        \/ Fault(t) /\ Reply(t, FALSE, <<>>)
     /\ UNCHANGED <<build, phone, ghost, nReq, nKill>>

-----------------------------------------------------------------------------
(* The results of the tests *)

\* The file must exist, and is written in place.
MmiWrite(t) ==
  LET f == req[t].type
  IN /\ pc[t] = "start" /\ req[t].op = "mmi_w"
     /\ IF f = "?" \/ file[f] = NoFile
          THEN Reply(t, FALSE, <<>>) /\ UNCHANGED <<file, ghost, nFault>>
          ELSE \/ /\ file' = [file EXCEPT ![f] = Content("data", num[t])]
                  /\ Stored(f, Content("data", num[t]))
                  /\ Reply(t, TRUE, <<>>) /\ UNCHANGED nFault
               \/ Fault(t) /\ Doubt({f}) /\ Reply(t, FALSE, <<>>) /\ UNCHANGED file
     /\ UNCHANGED <<build, part, torn, cmdline, parsed, booted, nReq, nKill>>

\* eng_init_test_file(), at every read: the table of the supported tests,
\* which all threads share, is cleared ...
MmiStart(t) ==
  /\ pc[t] = "start" /\ req[t].op = "mmi_r"
  /\ parsed' = FALSE
  /\ Goto(t, "mmi_conf")
  /\ UNCHANGED <<build, part, torn, file, cmdline, booted, local, ans, ghost, nReq,
                 nFault, nKill>>

\* ... and filled from the configuration; ...
MmiConf(t) ==
  /\ pc[t] = "mmi_conf"
  /\ \/ parsed' = TRUE /\ UNCHANGED <<bad, nFault>>
     \/ Fault(t) /\ bad' = [bad EXCEPT ![t] = TRUE] /\ UNCHANGED parsed
  /\ Goto(t, "mmi_open")
  /\ UNCHANGED <<build, part, torn, file, cmdline, booted, req, num, buf, addr, ans,
                 ghost, nReq, nKill>>

\* ... the file of the BBAT results is created if it does not exist ...
MmiOpen(t) ==
  /\ pc[t] = "mmi_open"
  /\ \/ /\ file["bbat"] = NoFile
        /\ file' = [file EXCEPT !["bbat"] = Empty]
        /\ Goto(t, "mmi_fill") /\ UNCHANGED nFault
     \/ /\ file["bbat"] # NoFile /\ UNCHANGED <<file, nFault>>
        /\ Goto(t, "mmi_read")
     \/ /\ file["bbat"] = NoFile /\ Fault(t)
        /\ Goto(t, "mmi_read") /\ UNCHANGED file
  /\ UNCHANGED <<build, part, torn, cmdline, parsed, booted, local, ans, ghost, nReq,
                 nKill>>

\* ... and gets the table, which another thread's read may have cleared, over
\* results that another thread has stored in the meantime.
MmiFill(t) ==
  LET new == IF parsed THEN Content("data", 0) ELSE Flat
  IN /\ pc[t] = "mmi_fill"
     /\ \/ /\ file' = [file EXCEPT !["bbat"] = new]
           /\ IF file["bbat"] # Empty \/ (new = Flat /\ ~bad[t])
                THEN Spoil("bbat")
              ELSE IF new = Flat THEN Doubt({"bbat"})
              ELSE Stored("bbat", new)
           /\ UNCHANGED nFault
        \/ Fault(t) /\ Doubt({"bbat"}) /\ UNCHANGED file
     /\ Goto(t, "mmi_read")
     /\ UNCHANGED <<build, part, torn, cmdline, parsed, booted, local, ans, nReq, nKill>>

\* The rest of the answer's buffer is not set.
MmiRead(t) ==
  LET f == req[t].type
  IN /\ pc[t] = "mmi_read"
     /\ IF f = "?" \/ file[f] = NoFile
          THEN Reply(t, FALSE, <<>>) /\ UNCHANGED nFault
          ELSE \/ /\ Reply(t, TRUE, IF file[f] = Empty THEN Junk ELSE file[f])
                  /\ UNCHANGED nFault
               \/ Fault(t) /\ Reply(t, FALSE, <<>>)
     /\ UNCHANGED <<build, phone, ghost, nReq, nKill>>

-----------------------------------------------------------------------------
(* The end of the program *)

HalfPut == {t \in Threads : pc[t] = "put"}

\* The files that t has opened for writing and not yet written.
HalfFiles(t) == CASE pc[t] \in {"wifi_write", "bt_open", "bt_write"} -> Macs
                  [] pc[t] = "write"    -> {TsxFile(req[t].op)}
                  [] pc[t] = "unbak"    -> {"tsx", "tsxbak"}
                  [] pc[t] = "mmi_fill" -> {"bbat"}
                  [] OTHER              -> {}

\* The program ends, its threads with it, and what they had in memory.
Die ==
  /\ pc' = [t \in Threads |-> "idle"]
  /\ req' = [t \in Threads |-> NoRequest] /\ num' = [t \in Threads |-> 0]
  /\ buf' = [t \in Threads |-> <<>>]
  /\ addr' = [t \in Threads |-> NoAddr]
  /\ bad' = [t \in Threads |-> FALSE]
  /\ ans' = [t \in Threads |-> NoAnswer]
  /\ parsed' = FALSE
  /\ torn' = (torn \/ (nand /\ HalfPut # {}))
  /\ unsure' = unsure \cup UNION {DOMAIN Patch(t) : t \in HalfPut}
  /\ unsureFile' = unsureFile \cup UNION {HalfFiles(t) : t \in Threads}
  /\ UNCHANGED <<build, part, file, want, wantFile, spoiled, spoiledFile, nReq, nFault>>

\* setTestMode() gives free() an address inside the copy that it has made of a
\* request without a frame: the program goes on or is aborted.
SetTestModeFree(t) ==
  /\ pc[t] = "free"
  /\ \/ Reply(t, TRUE, <<>>) /\ UNCHANGED <<build, phone, ghost, nReq, nFault>>
     \/ Die /\ UNCHANGED <<cmdline, booted>>
  /\ UNCHANGED nKill

Kill ==
  /\ nKill < MaxKills /\ nKill' = nKill + 1
  /\ \E t \in Threads : pc[t] # "idle"
  /\ Die /\ UNCHANGED <<cmdline, booted>>

\* The phone is restarted, and the boot loader puts the test mode on the
\* command line, in base 16.
Reset ==
  LET word == part[TESTMODE_OFFSET]
      mode == IF torn \/ (nand /\ HalfPut # {}) \/ word.kind # "mode" THEN 0 ELSE word.n
  IN /\ nKill < MaxKills /\ nKill' = nKill + 1
     /\ Die
     /\ cmdline' = [key |-> "first_mode=", digits |-> <<mode \div 16, mode % 16>>]
     /\ booted' = findNameWithId(mode, id_first_mode)

-----------------------------------------------------------------------------
Step(t) ==
  \/ Other(t) \/ ReadPart(t) \/ WriteStart(t) \/ Snap(t) \/ VolUp(t) \/ Put(t)
  \/ GetTestMode(t) \/ SetTestModeFree(t)
  \/ MacStart(t) \/ MacOpen(t) \/ WifiWrite(t) \/ BtWrite(t) \/ MacRead(t)
  \/ TsxOpen(t) \/ TsxWrite(t) \/ TsxUnbak(t) \/ TsxRead(t)
  \/ MmiWrite(t) \/ MmiStart(t) \/ MmiConf(t) \/ MmiOpen(t) \/ MmiFill(t)
  \/ MmiRead(t)

Next ==
  \/ \E t \in Threads : Step(t) \/ \E r \in Requests : Request(t, r)
  \/ Kill
  \/ Reset

Spec == Init /\ [][Next]_vars

-----------------------------------------------------------------------------
Writing(f) == \E t \in Threads : f \in HalfFiles(t)

\* What engpc has acknowledged is what the phone keeps, through every order of
\* the steps of the threads, the failures and the kills, except
\*  - where a request failed or was cut off while it wrote (unsure,
\*    unsureFile), until the next write there is acknowledged;
\*  - where the code itself, with nothing failing, stored something else than
\*    it acknowledged (spoiled, spoiledFile), until the same.  These are the
\*    cells past its data that a 16-bit product control write names, and the
\*    cells before its offset if another thread wrote them since it read them;
\*    a TSX record written over a longer one by two requests that overlapped;
\*    and the BBAT results, if eng_init_test_file() of one thread overwrote
\*    what another one had stored, or made the file while another one had
\*    cleared its table.  Of the files none is ever spoiled while the tools
\*    take turns;
\*  - in the NAND build the partition while requests overlap, because every
\*    write rewrites the whole volume, and a volume whose update was
\*    interrupted;
\*  - the addresses while requests overlap, because each write rewrites both,
\*    and one of which none is known;
\*  - a file that a request has opened and is about to write.
AckedIsStored ==
  /\ ~nand \/ (serial /\ ~torn)
       => \A c \in Cells \ (unsure \cup spoiled) : part[c] = want[c]
  /\ serial
       => \A a \in Macs \ unsureFile :
            wantFile[a] = Empty \/ Writing(a)
              \/ InFile(a, eng_btwifimac_read(a)) = wantFile[a]
  /\ \A f \in {"tsx", "tsxbak", "tsxraw"} \cup Tests :
       f \in unsureFile \cup spoiledFile \/ Writing(f) \/ file[f] = wantFile[f]
  /\ serial => spoiledFile = {}

\* The step by which t's request is answered.
Answered(t) == pc[t] # "idle" /\ pc'[t] = "idle" /\ ans'[t].op # "none"

\* What engpc answers with success is what was last acknowledged: at the
\* offset that was asked for, with the length that the phase check record has,
\* in the byte order in which the address was given, in the record format
\* that was asked for, and for AT+GETTESTMODE the mode that was set before the
\* phone started.  (The 16-bit product control reads at 0: it tells the truth
\* there.)  The exceptions are those of AckedIsStored.
ReadsTrue ==
  [][\A t \in Threads :
       Answered(t) /\ ans'[t].ok /\ req[t].op \in ReadOps /\ nFault' = nFault /\ ~bad[t] =>
         LET r == req[t] d == ans'[t].data
             sure(C) == C \cap (unsure \cup spoiled) = {} /\ (~nand \/ serial)
             kept(f) == f \notin unsureFile \cup spoiledFile /\ ~Writing(f)
         IN CASE r.op \in {"read16", "read32"} ->
                   (r.op = "read32" \/ r.off = 0) /\ sure(r.off .. r.off + r.len - 1)
                     => d = [i \in 0 .. r.len - 1 |-> want[r.off + i]]
              [] r.op = "phs_r" ->
                   sure({0, 1})
                     => d = [i \in 0 .. SnLen(want[0].kind) - 1 |-> want[i]]
              [] r.op = "mac_r" ->
                   \A a \in DOMAIN d :
                     serial /\ kept(a) /\ wantFile[a] # Empty => d[a] = wantFile[a]
              [] r.op = "mode_get" -> d = booted
              [] r.op \in {"tsx_r", "ext_r"} ->
                   kept("tsx") /\ wantFile["tsx"].kind = TsxKind(r.op)
                     => d = wantFile["tsx"]
              [] r.op = "raw_r" ->
                   kept("tsxraw") /\ wantFile["tsxraw"] # NoFile
                     => d = wantFile["tsxraw"]
              [] r.op = "mmi_r" -> kept(r.type) => d = wantFile[r.type]]_vars

\* Nothing that went before leaves the storage so that a write is refused for
\* ever: after a failed call, a kill or a restart at any point, a write all of
\* whose own calls succeed is acknowledged.  It does not hold of a NAND volume
\* whose update was interrupted, nor of the results of a test whose file does
\* not exist.
RetrySucceeds ==
  [][\A t \in Threads :
       Answered(t) /\ req[t].op \in WriteOps /\ nFault' = nFault /\ ~bad[t] =>
         \/ ans'[t].ok
         \/ nand /\ (~serial \/ torn)
         \/ req[t].op = "mac_w" /\ (req[t].group \/ Named(t) = {})
         \/ req[t].op = "mmi_w" /\ (req[t].type = "?" \/ file[req[t].type] = NoFile)]_vars
=============================================================================
