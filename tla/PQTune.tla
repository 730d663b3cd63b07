------------------------------- MODULE PQTune -------------------------------
(***************************************************************************)
(* Picture quality tuning (modules/PQTune): the commands 0x5D of the PC    *)
(* tool.  PQTuneCore keeps one buffer, ctx, with the parameters of every   *)
(* block of the display unit; a block's parser copies its part from and to *)
(* an XML file (parse_xml, update_xml) and from and to the registers       *)
(* (parse_reg, update_reg).  A whole configuration is sent in pieces that  *)
(* are laid into ctx one after the other and stored by tune_end_write_cfg. *)
(*                                                                         *)
(* Both parse_xml and update_xml rewrite the file, which is not atomic:    *)
(* the program may be killed while a file is written.  ctx, offset and the *)
(* static variables are lost with the process, files and registers stay.   *)
(*                                                                         *)
(* A block's parameters are a tag per group of registers for the picture   *)
(* mode that the registers hold (live), and one for everything else (rest).*)
(***************************************************************************)
EXTENDS Integers, Sequences, FiniteSets

CONSTANTS
  Tools,      \* the sessions: the version of the display unit, the commands
              \* and blocks that the tool uses, the tags and the scene lists
              \* (the items of each scene's table) that it sends, and the
              \* bound on the number of commands
  MaxKills    \* bound on the number of times the program is killed

Versions == {"lite-r2p0", "r2p0", "r3p0", "r4p0"}
Blocks   == {"gamma", "bld", "cms", "abc", "hsv"}
Commands == {"connect", "pattern", "start_read", "midst_read", "start_write",
             "midst_write", "end_write", "rd_reg", "wr_reg", "rd_xml",
             "wr_xml"}
Factory  == 2     \* tag of what the files and the registers hold at first
Junk     == 1     \* tag of memory that nothing was written to
Any      == -1    \* tag for 'not known'

ASSUME PQTuneAssumption ==
  /\ \A t \in Tools :
       /\ t.ver \in Versions /\ t.cmds \subseteq Commands
       /\ t.blocks \subseteq Blocks /\ t.limit \in Nat
       /\ t.values \subseteq Nat \ {Factory, Junk}
       \* a tag that a register cuts to 8 or 10 bits is not taken for Junk
       /\ \A v \in t.values : v % 256 # Junk /\ v % 1024 # Junk
       /\ t.scenes \subseteq Seq(Nat) \ {<<>>}
  /\ MaxKills \in Nat

VARIABLES
  tool,       \* a member of Tools
  ctx,        \* ctx: the parameters of each block
  file, torn, \* the XML files, and those that are not whole
  regs,       \* the registers
  slp_ltm,    \* slp part of CmsParsersR4p0.cpp's slp_ltm_params_l5pro
  offset,     \* offset, in pieces
  flip_en,    \* flip_en of tune_rgb_pattern()
  noflip,     \* the driver's disable_flip
  job,        \* the command that is being executed
  answer,     \* the last answer
  nCmd, nKill,
  \* history variables
  sent,       \* what the tool last sent for each block
  pieces,     \* pieces it has sent since tune_start_write_cfg()
  mixed,      \* blocks whose part of ctx was overwritten since then
  want, known,\* what a file was made to hold, and blocks for which that is so
  loaded,     \* blocks of which ctx holds what the file holds
  lastw,      \* what was last written to each group of registers
  fresh,      \* slp_ltm agrees with the registers
  shown       \* a pattern is on the screen

ghosts == <<sent, pieces, mixed, want, known, loaded, lastw, fresh, shown>>
vars == <<tool, ctx, file, torn, regs, slp_ltm, offset, flip_en, noflip, job,
          answer, nCmd, nKill, ghosts>>
-----------------------------------------------------------------------------
(* The parsers: the groups of registers of a class, and the parts of ctx   *)
(* that its parse_xml sets and its update_xml stores.  Every class reads   *)
(* and writes the parameters of all picture modes and the version; the     *)
(* major version, where there is one, is read and never stored.            *)

\* slp and ltm are one group: on r4p0 parse_reg reads it from PQ/ltm and
\* update_reg writes it to PQ/slp, two files of the driver, which are taken to
\* show the same registers.
GammaParser_reg               == {"lut"}
GammaParserLiteR2p0_reg       == {"lut"}
BldParser_reg                 == {"hsv", "cm"}
BldParserLiteR2p0_reg         == {"cm"}
CmsParser_reg                 == {"hsv", "cm"}
CmsParserLiteR2p0_reg         == {"hsv", "cm", "epf", "bright", "slp", "clip"}
CmsParserR4p0_reg             == {"hsv", "cm", "epf", "bright", "clip"}
AbcParser_reg                 == {"bright", "slp"}
AbcParserLiteR2p0_reg         == {"bright", "slp", "clip", "epf"}
AbcParserR3p0_reg             == {"bright", "slp", "clip", "epf"}
AbcParserR4p0_reg             == {"bright", "slp", "clip", "epf"}
HsvParser_reg                 == {"lut3d"}
Units == {"lut", "hsv", "cm", "epf", "bright", "slp", "clip", "lut3d"}

GammaParser_parse             == {"live", "rest"}
GammaParserLiteR2p0_parse     == {"live", "rest", "major"}
BldParser_parse               == {"live", "rest"}
BldParserLiteR2p0_parse       == {"live", "rest", "major"}
CmsParser_parse               == {"live", "rest"}
CmsParserLiteR2p0_parse       == {"live", "rest", "major"}
CmsParserR4p0_parse           == {"live", "rest", "major"}
AbcParser_parse               == {"live", "rest", "scn"}
AbcParserLiteR2p0_parse       == {"live", "rest", "major", "scn"}
AbcParserR3p0_parse           == {"live", "rest", "major", "scn"}
AbcParserR4p0_parse           == {"live", "rest", "major", "scn"}
HsvParser_parse               == {"live", "rest", "major"}

GammaParser_update            == {"live", "rest"}
GammaParserLiteR2p0_update    == {"live", "rest"}
BldParser_update              == {"live", "rest"}
BldParserLiteR2p0_update      == {"live", "rest"}
CmsParser_update              == {"live", "rest"}
CmsParserLiteR2p0_update      == {"live", "rest"}
CmsParserR4p0_update          == {"live", "rest"}
HsvParser_update              == {"live", "rest"}

\* These store the scenes only in mode 1 (slp); in mode 2 (bl) they store the
\* mapping table of the backlight instead, which rest does not stand for.
AbcParser_update(c) ==
  {"live", "rest"} \cup IF c.slpblMode = 1 THEN {"scn"} ELSE {}

AbcParserLiteR2p0_update(c) ==
  {"live", "rest"} \cup IF c.slpblMode = 1 THEN {"scn"} ELSE {}

AbcParserR3p0_update(c) ==
  {"live", "rest"} \cup IF c.slpblMode = 1 THEN {"scn"} ELSE {}

AbcParserR4p0_update(c) == {"live", "rest", "scn"}
-----------------------------------------------------------------------------
(* The cores: which classes a version has. *)

PQTuneCore(c) ==
  [gamma |-> [reg |-> GammaParser_reg, parse |-> GammaParser_parse,
              update |-> GammaParser_update],
   bld   |-> [reg |-> BldParser_reg, parse |-> BldParser_parse,
              update |-> BldParser_update],
   cms   |-> [reg |-> CmsParser_reg, parse |-> CmsParser_parse,
              update |-> CmsParser_update],
   abc   |-> [reg |-> AbcParser_reg, parse |-> AbcParser_parse,
              update |-> AbcParser_update(c)]]

PQTuneCoreLiteR2p0(c) ==
  [gamma |-> [reg |-> GammaParserLiteR2p0_reg,
              parse |-> GammaParserLiteR2p0_parse,
              update |-> GammaParserLiteR2p0_update],
   bld   |-> [reg |-> BldParserLiteR2p0_reg, parse |-> BldParserLiteR2p0_parse,
              update |-> BldParserLiteR2p0_update],
   cms   |-> [reg |-> CmsParserLiteR2p0_reg, parse |-> CmsParserLiteR2p0_parse,
              update |-> CmsParserLiteR2p0_update],
   abc   |-> [reg |-> AbcParserLiteR2p0_reg, parse |-> AbcParserLiteR2p0_parse,
              update |-> AbcParserLiteR2p0_update(c)]]

PQTuneCoreR3p0(c) ==
  [PQTuneCoreLiteR2p0(c) EXCEPT
     !.abc = [reg |-> AbcParserR3p0_reg, parse |-> AbcParserR3p0_parse,
              update |-> AbcParserR3p0_update(c)]]

\* Only this core has a parser for hsv.
PQTuneCoreR4p0(c) ==
  [gamma |-> PQTuneCoreLiteR2p0(c).gamma,
   bld   |-> PQTuneCoreLiteR2p0(c).bld,
   cms   |-> [reg |-> CmsParserR4p0_reg, parse |-> CmsParserR4p0_parse,
              update |-> CmsParserR4p0_update],
   abc   |-> [reg |-> AbcParserR4p0_reg, parse |-> AbcParserR4p0_parse,
              update |-> AbcParserR4p0_update(c)],
   hsv   |-> [reg |-> HsvParser_reg, parse |-> HsvParser_parse,
              update |-> HsvParser_update]]

\* The parsers of the version, with c as abc's part of ctx.
pq_create_TuneCore(ver, c) ==
  CASE ver = "lite-r2p0" -> PQTuneCoreLiteR2p0(c)
    [] ver = "r2p0"      -> PQTuneCore(c)
    [] ver = "r3p0"      -> PQTuneCoreR3p0(c)
    [] ver = "r4p0"      -> PQTuneCoreR4p0(c)

Core   == pq_create_TuneCore(tool.ver, ctx.abc)
Has    == DOMAIN Core                       \* blocks that have a parser
Reg(b) == IF b \in Has THEN Core[b].reg ELSE {}

\* The pieces of a configuration, in the order of pq_tuning_parm.  tune_sizes
\* is the number of pieces.
Piece      == <<{"gamma", "bld"}, {"cms", "abc", "hsv"}>>
tune_sizes == Len(Piece)

\* The order in which a command on the whole configuration visits them.
Order == <<"abc", "cms", "bld", "gamma", "hsv">>
-----------------------------------------------------------------------------
\* slp_cfg has fields of 8 bits; in r4p0 only ABC's brightness has 8 bits, and
\* CMS's has 16.
Field(b, u, v) ==
  IF tool.ver = "r4p0" THEN IF <<b, u>> = <<"abc", "bright">> THEN v % 256
                                                              ELSE v
  ELSE IF u \in {"bright", "slp"} THEN v % 256 ELSE v

\* What the tool sends for block b, with the tag v.
Cell(b, v, en, scn, mode) ==
  [live |-> [u \in Units |-> IF u \in Reg(b) THEN Field(b, u, v) ELSE Any],
   rest |-> v, major |-> v, enable |-> en,
   scn  |-> IF b = "abc" THEN scn ELSE <<>>, slpblMode |-> mode]

\* The memory after malloc().
Fresh(b) == [live |-> [u \in Units |-> Junk], rest |-> Junk, major |-> Junk,
             enable |-> Junk, scn |-> IF b = "abc" THEN <<1>> ELSE <<>>,
             slpblMode |-> Junk]

Idle  == [cmd |-> "none", block |-> "none", method |-> "none", todo |-> <<>>,
          saving |-> FALSE, hung |-> FALSE]
Quiet == [cmd |-> "none", block |-> "gamma", cell |-> Fresh("gamma"),
          err |-> 0]

\* The answer with the part of ctx that belongs to b, once ctx is c.
Reply(cmd, b, c) == [cmd |-> cmd, block |-> b, cell |-> c[b], err |-> 0]
Done(cmd, err)   == [Quiet EXCEPT !.cmd = cmd, !.err = err]

TypeOK ==
  /\ tool \in Tools
  /\ DOMAIN ctx = Blocks /\ DOMAIN file = Blocks
  /\ \A b \in Blocks : /\ file[b].rest \in Nat /\ ctx[b].rest \in Nat
                       /\ file[b].scn \in Seq(Nat) /\ ctx[b].scn \in Seq(Nat)
                       /\ b = "abc" <=> file[b].scn # <<>>
  /\ torn \subseteq Blocks
  /\ regs \in [Units -> Nat] /\ slp_ltm \in Nat
  /\ offset \in 0 .. tune_sizes /\ flip_en \in BOOLEAN /\ noflip \in BOOLEAN
  /\ job.cmd \in Commands \cup {"none"} /\ job.saving => job.todo # <<>>
  /\ nCmd \in 0 .. tool.limit /\ nKill \in 0 .. MaxKills
  /\ pieces \in 0 .. tune_sizes
  /\ mixed \subseteq Blocks /\ known \subseteq Blocks
  /\ loaded \subseteq Blocks
  /\ lastw \in [Units -> Nat \cup {Any}]
  /\ fresh \in BOOLEAN /\ shown \in BOOLEAN

Init ==
  /\ tool \in Tools
  /\ ctx = [b \in Blocks |-> Fresh(b)]
  /\ file = [b \in Blocks |->
              [live |-> [u \in Units |-> Factory], rest |-> Factory,
               major |-> Factory,
               scn |-> IF b = "abc" THEN <<1>> ELSE <<>>]]
  /\ torn = {}
  /\ regs = [u \in Units |-> Factory] /\ slp_ltm = 0
  /\ offset = 0 /\ flip_en = TRUE /\ noflip = FALSE
  /\ job = Idle /\ answer = Quiet /\ nCmd = 0 /\ nKill = 0
  /\ sent = ctx /\ pieces = tune_sizes /\ mixed = {}
  /\ want = file /\ known = Blocks /\ loaded = {}
  /\ lastw = [u \in Units |-> Any] /\ fresh = FALSE /\ shown = FALSE
-----------------------------------------------------------------------------
\* The tool sends a command when the one before is through.
Receives(cmd) ==
  /\ job = Idle /\ cmd \in tool.cmds /\ nCmd < tool.limit
  /\ nCmd' = nCmd + 1 /\ UNCHANGED <<tool, nKill>>

\* The process is gone and starts again.
Restarts ==
  /\ ctx' = [b \in Blocks |-> Fresh(b)] /\ offset' = 0
  /\ flip_en' = TRUE /\ slp_ltm' = 0
  /\ job' = Idle /\ answer' = Quiet
  /\ loaded' = {} /\ fresh' = FALSE
  /\ UNCHANGED <<tool, file, torn, regs, noflip, sent, pieces, mixed, want,
                 lastw, shown>>

\* hsv is NULL, or was never set: the call is the end of the process.
CallThroughNull == Restarts /\ known' = known

Kill ==
  /\ nKill < MaxKills /\ nKill' = nKill + 1 /\ nCmd' = nCmd
  /\ Restarts
  /\ known' = known \ torn
-----------------------------------------------------------------------------
(* Commands that are through at once. *)

\* The status tells which blocks are on (or cannot be read: asleep).
tune_modules_enable(st) ==
  [b \in Blocks |->
    IF b = "hsv" THEN ctx[b]
    ELSE IF st = {"asleep"} THEN [ctx[b] EXCEPT !.enable = 0]
    ELSE IF b \in st THEN [ctx[b] EXCEPT !.enable = 1] ELSE ctx[b]]

tune_connect ==
  /\ Receives("connect")
  /\ \E st \in {{"asleep"}, {}, tool.blocks} :
       ctx' = tune_modules_enable(st)
  /\ answer' = Done("connect", 0)
  /\ UNCHANGED <<file, torn, regs, slp_ltm, offset, flip_en, noflip, job,
                 ghosts>>

\* Mutation: leaving does not set flip_en again.
tune_rgb_patternOnce(colour) ==
  /\ Receives("pattern")
  /\ noflip' = (colour /\ (flip_en \/ noflip))
  /\ flip_en' = FALSE
  /\ shown' = colour
  /\ answer' = Done("pattern", 0)
  /\ UNCHANGED <<ctx, file, torn, regs, slp_ltm, offset, job, sent, pieces,
                 mixed, want, known, loaded, lastw, fresh>>

\* A colour, or 0xffffffff (colour = FALSE) to leave.
tune_rgb_pattern(colour) ==
  /\ Receives("pattern")
  /\ noflip' = (colour /\ (flip_en \/ noflip))
  /\ flip_en' = ~colour
  /\ shown' = colour
  /\ answer' = Done("pattern", 0)
  /\ UNCHANGED <<ctx, file, torn, regs, slp_ltm, offset, job, sent, pieces,
                 mixed, want, known, loaded, lastw, fresh>>

tune_midst_read_cfg(b) ==
  /\ Receives("midst_read")
  /\ answer' = Reply("midst_read", b, ctx)
  /\ UNCHANGED <<ctx, file, torn, regs, slp_ltm, offset, flip_en, noflip, job,
                 ghosts>>

\* The answer tells the tool that the size it announces is wrong; nothing
\* else depends on it.
tune_start_write_cfg(sizes) ==
  /\ Receives("start_write")
  /\ offset' = 0
  /\ answer' = Done("start_write", IF sizes = tune_sizes THEN 0 ELSE 1)
  /\ pieces' = 0
  /\ UNCHANGED <<ctx, file, torn, regs, slp_ltm, flip_en, noflip, job, sent,
                 mixed, want, known, loaded, lastw, fresh, shown>>

\* The tool sends the next piece; the code lays it at offset, with no check:
\* the tool never sends more than tune_sizes.
tune_midst_write_cfg(v, scn, mode) ==
  /\ Receives("midst_write")
  /\ pieces < tune_sizes
  /\ LET p(b) == Cell(b, v, 1, scn, mode)
         own  == Piece[offset + 1]      \* where it goes
         told == Piece[pieces + 1]      \* what it is
     IN /\ ctx' = [b \in Blocks |-> IF b \in own THEN p(b) ELSE ctx[b]]
        /\ sent' = [b \in Blocks |-> IF b \in told THEN p(b) ELSE sent[b]]
        /\ mixed' = mixed \ told
        /\ loaded' = loaded \ own
  /\ offset' = offset + 1 /\ pieces' = pieces + 1
  /\ answer' = Done("midst_write", 0)
  /\ UNCHANGED <<file, torn, regs, slp_ltm, flip_en, noflip, job, want, known,
                 lastw, fresh, shown>>
-----------------------------------------------------------------------------
(* Registers. *)

\* parse_reg of block b: ctx afterwards.  The other blocks' registers, and
\* b's parameters that are in none, stay as they are.
parse_reg(b) ==
  [ctx EXCEPT ![b].live = [u \in Units |-> IF u \in Reg(b) THEN regs[u]
                                           ELSE ctx[b].live[u]]]

\* What the registers hold after update_reg of block b, with c as its part of
\* ctx.  r4p0's CMS writes the structure that it shares with ABC from a static
\* copy, in which it has set its own fields and of which brightness is 8 bits
\* wide; hsv's entries are 10 bits wide.
Written(b, c, u) ==
  CASE tool.ver = "r4p0" /\ b = "cms" /\ u = "slp"    -> slp_ltm
    [] tool.ver = "r4p0" /\ b = "cms" /\ u = "bright" -> c.live[u] % 256
    [] b = "hsv" /\ u = "lut3d"                       -> c.live[u] % 1024
    [] OTHER                                          -> c.live[u]

\* The registers that b writes.
Writes(b) == Reg(b) \cup IF tool.ver = "r4p0" /\ b = "cms" THEN {"slp"} ELSE {}

\* With enable = 0 the block is switched off and its registers stay.
update_reg(b, c) ==
  [u \in Units |-> IF c.enable # 0 /\ u \in Writes(b) THEN Written(b, c, u)
                                                      ELSE regs[u]]

\* Mutation: CMS does not keep what it has read.
tune_rd_tuning_regStale(b) ==
  /\ Receives("rd_reg")
  /\ IF b \notin Has THEN CallThroughNull
     ELSE /\ ctx' = parse_reg(b)
          /\ answer' = Reply("rd_reg", b, ctx')
          /\ fresh' = (fresh \/ b = "cms")
          /\ mixed' = mixed \cup {b} /\ loaded' = loaded \ {b}
          /\ UNCHANGED <<file, torn, regs, slp_ltm, offset, flip_en, noflip,
                         job, sent, pieces, want, known, lastw, shown>>

tune_rd_tuning_reg(b) ==
  /\ Receives("rd_reg")
  /\ IF b \notin Has THEN CallThroughNull
     ELSE /\ ctx' = parse_reg(b)
          /\ answer' = Reply("rd_reg", b, ctx')
          /\ slp_ltm' = IF tool.ver = "r4p0" /\ b = "cms" THEN regs["slp"]
                                                          ELSE slp_ltm
          /\ fresh' = (fresh \/ b = "cms")
          /\ mixed' = mixed \cup {b} /\ loaded' = loaded \ {b}
          /\ UNCHANGED <<file, torn, regs, offset, flip_en, noflip, job, sent,
                         pieces, want, known, lastw, shown>>

\* (lastw: r4p0's CMS is not told what the slp part should be.)
tune_wr_tuning_reg(b, v, en) ==
  /\ Receives("wr_reg")
  /\ IF b \notin Has THEN CallThroughNull
     ELSE LET c == Cell(b, v, en, <<1>>, 1) IN
          /\ ctx' = [ctx EXCEPT ![b] = c]
          /\ regs' = update_reg(b, c)
          /\ answer' = Done("wr_reg", 0)
          /\ lastw' = [u \in Units |->
                         IF en = 0 \/ u \notin Writes(b) THEN lastw[u]
                         ELSE IF u \in Reg(b)
                              THEN IF v < 256 THEN v ELSE Any
                              ELSE IF fresh THEN lastw[u] ELSE Any]
          /\ fresh' = (fresh /\ ~(b = "abc" /\ en # 0))
          /\ mixed' = mixed \cup {b} /\ loaded' = loaded \ {b}
          /\ UNCHANGED <<file, torn, slp_ltm, offset, flip_en, noflip, job,
                         sent, pieces, want, known, shown>>
-----------------------------------------------------------------------------
(* Files. *)

Start(cmd, b, method, todo) ==
  job' = [cmd |-> cmd, block |-> b, method |-> method, todo |-> todo,
          saving |-> FALSE, hung |-> FALSE]

tune_start_read_cfg ==
  /\ Receives("start_read")
  /\ Start("start_read", "none", "parse_xml", Order)
  /\ answer' = Quiet
  /\ UNCHANGED <<ctx, file, torn, regs, slp_ltm, offset, flip_en, noflip,
                 ghosts>>

\* Mutation: whatever has arrived is stored.
tune_end_write_cfgBlind ==
  /\ Receives("end_write")
  /\ Start("end_write", "none", "update_xml", Order) /\ answer' = Quiet
  /\ UNCHANGED <<ctx, file, torn, regs, slp_ltm, offset, flip_en, noflip,
                 ghosts>>

tune_end_write_cfg ==
  /\ Receives("end_write")
  /\ IF offset = tune_sizes
     THEN Start("end_write", "none", "update_xml", Order) /\ answer' = Quiet
     ELSE answer' = Done("end_write", 1) /\ job' = job
  /\ UNCHANGED <<ctx, file, torn, regs, slp_ltm, offset, flip_en, noflip,
                 ghosts>>

tune_rd_tuning_xml(b) ==
  /\ Receives("rd_xml")
  /\ Start("rd_xml", b, "parse_xml", <<b>>)
  /\ answer' = Quiet
  /\ UNCHANGED <<ctx, file, torn, regs, slp_ltm, offset, flip_en, noflip,
                 ghosts>>

tune_wr_tuning_xml(b, v, scn, mode) ==
  /\ Receives("wr_xml")
  /\ LET c == Cell(b, v, 1, scn, mode) IN
       ctx' = [ctx EXCEPT ![b] = c] /\ sent' = [sent EXCEPT ![b] = c]
  /\ Start("wr_xml", b, "update_xml", <<b>>)
  /\ answer' = Quiet
  /\ mixed' = mixed \ {b} /\ loaded' = loaded \ {b}
  /\ UNCHANGED <<file, torn, regs, slp_ltm, offset, flip_en, noflip, pieces,
                 want, known, lastw, fresh, shown>>

\* Mutation: scenes that are too many stay.
ResizeKeeps(old, new) ==
  LET kept == IF Len(old) < Len(new) THEN Len(old) ELSE Len(new)
  IN [j \in 1 .. kept |-> IF old[j] = 0 THEN 0
                          ELSE IF new[j] = 0 THEN 1 ELSE new[j]]
     \o SubSeq(new, kept + 1, Len(new)) \o SubSeq(old, kept + 1, Len(old))

\* The list of scenes in the file, old, after update_slp_mapping_table() for
\* the list new: scenes that both have get as many items as new says, though
\* at least one, and none if there was none to start from; the others are
\* appended or removed.
Resize(old, new) ==
  LET kept == IF Len(old) < Len(new) THEN Len(old) ELSE Len(new)
  IN [j \in 1 .. kept |-> IF old[j] = 0 THEN 0
                          ELSE IF new[j] = 0 THEN 1 ELSE new[j]]
     \o SubSeq(new, kept + 1, Len(new))

\* Scenes that the code can store exactly.
Regular(scn) == \A j \in 1 .. Len(scn) : scn[j] # 0

\* r4p0 gives a new scene parameters that update_slp_child_config() does not
\* know, and steps over a parameter only when it knows it.
EndlessLoop(b) ==
  /\ tool.ver = "r4p0" /\ b = "abc"
  /\ Len(ctx.abc.scn) > Len(file.abc.scn)

Parsed(b) ==
  LET set == Core[b].parse  f == file[b] IN
    [ctx[b] EXCEPT !.live  = f.live, !.rest = f.rest,
                   !.major = IF "major" \in set THEN f.major ELSE @,
                   !.scn   = IF "scn" \in set THEN f.scn ELSE @]

Updated(b, c) ==
  LET set == Core[b].update IN
    [file[b] EXCEPT !.live  = IF "live" \in set THEN c.live ELSE @,
                    !.rest  = IF "rest" \in set THEN c.rest ELSE @,
                    !.major = IF "major" \in set THEN c.major ELSE @,
                    !.scn   = IF "scn" \in set THEN Resize(@, c.scn) ELSE @]

\* What the file should hold once c is stored: c, and the scenes that c has
\* if it stores them and the code can.
Stored(b, c) ==
  [live |-> c.live, rest |-> c.rest, major |-> want[b].major,
   scn |-> CASE b # "abc" -> <<>>
             [] b = "abc" /\ c.slpblMode = 2 /\ tool.ver # "r4p0" ->
                  IF b \in known THEN want[b].scn ELSE <<Any>>
             [] OTHER -> IF Regular(file[b].scn) /\ Regular(c.scn)
                         THEN c.scn ELSE <<Any>>]

\* parse_xml or update_xml of the next block: the file is read, and opened
\* for writing.
Visit ==
  /\ job.todo # <<>> /\ ~job.saving /\ ~job.hung
  /\ UNCHANGED <<tool, nCmd, nKill>>
  /\ LET b == Head(job.todo) IN
     \/ b \notin Has /\ CallThroughNull
     \/ /\ b \in Has \cap torn              \* not parsed; nobody is told
        /\ job' = [job EXCEPT !.todo = Tail(@)]
        /\ UNCHANGED <<ctx, file, torn, regs, slp_ltm, offset, flip_en,
                       noflip, answer, ghosts>>
     \/ /\ b \in Has \ torn /\ job.method = "parse_xml"
        /\ ctx' = [ctx EXCEPT ![b] = Parsed(b)]
        /\ torn' = torn \cup {b} /\ job' = [job EXCEPT !.saving = TRUE]
        /\ mixed' = mixed \cup {b} /\ loaded' = loaded \cup {b}
        /\ UNCHANGED <<file, regs, slp_ltm, offset, flip_en, noflip, answer,
                       sent, pieces, want, known, lastw, fresh, shown>>
     \/ /\ b \in Has \ torn /\ job.method = "update_xml" /\ EndlessLoop(b)
        /\ job' = [job EXCEPT !.hung = TRUE]
        /\ UNCHANGED <<ctx, file, torn, regs, slp_ltm, offset, flip_en,
                       noflip, answer, ghosts>>
     \/ /\ b \in Has \ torn /\ job.method = "update_xml" /\ ~EndlessLoop(b)
        /\ file' = [file EXCEPT ![b] = Updated(b, ctx[b])]
        /\ torn' = torn \cup {b} /\ job' = [job EXCEPT !.saving = TRUE]
        /\ want' = [want EXCEPT ![b] = Stored(b, sent[b])]
        /\ known' = IF b \in mixed THEN known \ {b} ELSE known \cup {b}
        /\ loaded' = loaded \ {b}
        /\ UNCHANGED <<ctx, regs, slp_ltm, offset, flip_en, noflip, answer,
                       sent, pieces, mixed, lastw, fresh, shown>>

\* Mutation: the same file is visited again.
SavedAgain ==
  /\ job.saving
  /\ torn' = torn \ {Head(job.todo)}
  /\ job' = [job EXCEPT !.saving = FALSE]
  /\ UNCHANGED <<tool, ctx, file, regs, slp_ltm, offset, flip_en, noflip,
                 answer, nCmd, nKill, ghosts>>

\* xmlSaveFormatFileEnc() returns.
Saved ==
  /\ job.saving
  /\ torn' = torn \ {Head(job.todo)}
  /\ job' = [job EXCEPT !.todo = Tail(@), !.saving = FALSE]
  /\ UNCHANGED <<tool, ctx, file, regs, slp_ltm, offset, flip_en, noflip,
                 answer, nCmd, nKill, ghosts>>

\* All files were visited.
Answer ==
  /\ job.cmd # "none" /\ job.todo = <<>>
  /\ answer' = IF job.cmd = "rd_xml" THEN Reply("rd_xml", job.block, ctx)
                                     ELSE Done(job.cmd, 0)
  /\ job' = Idle
  /\ UNCHANGED <<tool, ctx, file, torn, regs, slp_ltm, offset, flip_en,
                 noflip, nCmd, nKill, ghosts>>
-----------------------------------------------------------------------------
Next ==
  \/ tune_connect \/ tune_start_read_cfg \/ tune_end_write_cfg
  \/ \E colour \in BOOLEAN : tune_rgb_pattern(colour)
  \/ \E sizes \in {0, tune_sizes} : tune_start_write_cfg(sizes)
  \/ \E v \in tool.values, scn \in tool.scenes, mode \in {1, 2} :
       \/ tune_midst_write_cfg(v, scn, mode)
       \/ \E b \in tool.blocks : tune_wr_tuning_xml(b, v, scn, mode)
  \/ \E b \in tool.blocks :
       \/ tune_midst_read_cfg(b)
       \/ tune_rd_tuning_reg(b) \/ tune_rd_tuning_xml(b)
       \/ \E v \in tool.values, en \in {0, 1} : tune_wr_tuning_reg(b, v, en)
  \/ Visit \/ Saved \/ Answer
  \/ Kill

\* A command that was begun is carried on: nothing in it waits.
Spec == Init /\ [][Next]_vars /\ WF_vars(Visit \/ Saved \/ Answer)
-----------------------------------------------------------------------------
(* What reading a configuration file returns (tune_rd_tuning_xml, or       *)
(* tune_start_read_cfg and tune_midst_read_cfg) is what the last write     *)
(* that reached the file was told to store (tune_wr_tuning_xml, or the     *)
(* pieces between tune_start_write_cfg and tune_end_write_cfg), across     *)
(* restarts, for the parameters and for the list of scenes, with the       *)
(* file's own major version: unless the program was killed while it wrote  *)
(* this file, the tool itself overwrote a piece before it ended the write, *)
(* or a scene without items is involved.                                   *)
ReadsBack ==
  LET b == answer.block  a == answer.cell IN
    /\ \/ answer.cmd = "rd_xml"
       \/ answer.cmd = "midst_read" /\ b \in loaded
    /\ b \in known \cap Has
    => /\ \A u \in Reg(b) : a.live[u] = want[b].live[u]
       /\ a.rest = want[b].rest
       /\ tool.ver # "r2p0" => a.major = want[b].major
       /\ want[b].scn # <<Any>> => a.scn = want[b].scn

(* Memory that nothing was written to never gets into a file: a restart in *)
(* the middle of a configuration makes tune_end_write_cfg() refuse it.     *)
NoJunkSaved ==
  \A b \in Has : /\ file[b].rest # Junk
                 /\ \A u \in Reg(b) : file[b].live[u] # Junk

(* Reading a block's registers returns, for each group, what was last      *)
(* written to it, by whatever block shares the group, if it fits in 8      *)
(* bits; on r4p0 a write of CMS leaves ABC's part of the shared structure  *)
(* alone if CMS's registers were read since ABC's were written.            *)
RegReadBack ==
  answer.cmd = "rd_reg" =>
    \A u \in Reg(answer.block) :
      lastw[u] # Any => answer.cell.live[u] = lastw[u]

(* Screen updates are disabled exactly while a test pattern is shown, even *)
(* if the program is restarted meanwhile and flip_en is lost.              *)
PatternHolds == shown <=> noflip

(* Every command comes to its end, except that a longer list of scenes     *)
(* hangs r4p0's AbcParserR4p0::update_xml().                               *)
Answered ==
  job.cmd # "none" ~> (job.cmd = "none" \/ (job.hung /\ tool.ver = "r4p0"))
=============================================================================
