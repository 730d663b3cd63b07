---------------------------- MODULE PQTuneProof -----------------------------
(***************************************************************************)
(* What PQTune promises of test patterns, of files and of registers,       *)
(* proved for every session of the tool, with any commands, blocks and     *)
(* tags, and for kills at any moment.                                      *)
(***************************************************************************)
EXTENDS PQTune, SequenceTheorems, TLAPS

-----------------------------------------------------------------------------
(* Test patterns *)

\* flip_en says that a pattern will still have to disable the flips: it is
\* FALSE only while they are disabled.
PatternInv == PatternHolds /\ (flip_en \/ noflip)

\* The restart forgets flip_en, and so forgets nothing that matters.
LEMMA PatternRestarts == PatternInv /\ Restarts => PatternInv'
BY DEF PatternInv, PatternHolds, Restarts

\* PatternInv is inductive.
LEMMA PatternStep == PatternInv /\ [Next]_vars => PatternInv'
<1>. SUFFICES ASSUME PatternInv, [Next]_vars PROVE PatternInv' OBVIOUS
<1>1. ASSUME UNCHANGED <<flip_en, noflip, shown>> PROVE PatternInv'
  BY <1>1 DEF PatternInv, PatternHolds
<1>2. ASSUME NEW colour \in BOOLEAN, tune_rgb_pattern(colour) PROVE PatternInv'
  BY <1>2 DEF tune_rgb_pattern, PatternInv, PatternHolds
<1>3. CASE tune_connect \/ tune_start_read_cfg \/ tune_end_write_cfg \/ Saved \/ Answer
  BY <1>1, <1>3 DEF tune_connect, tune_start_read_cfg, tune_end_write_cfg, Saved, Answer,
                    ghosts
<1>4. ASSUME NEW sizes, tune_start_write_cfg(sizes) PROVE PatternInv'
  BY <1>1, <1>4 DEF tune_start_write_cfg
<1>5. ASSUME NEW v, NEW scn, NEW mode, tune_midst_write_cfg(v, scn, mode) PROVE PatternInv'
  BY <1>1, <1>5 DEF tune_midst_write_cfg
<1>6. ASSUME NEW b, NEW v, NEW scn, NEW mode, tune_wr_tuning_xml(b, v, scn, mode)
      PROVE  PatternInv'
  BY <1>1, <1>6 DEF tune_wr_tuning_xml
<1>7. ASSUME NEW b, tune_midst_read_cfg(b) \/ tune_rd_tuning_xml(b) PROVE PatternInv'
  BY <1>1, <1>7 DEF tune_midst_read_cfg, tune_rd_tuning_xml, ghosts
<1>8. ASSUME NEW b, tune_rd_tuning_reg(b) PROVE PatternInv'
  BY <1>1, <1>8, PatternRestarts DEF tune_rd_tuning_reg, CallThroughNull
<1>9. ASSUME NEW b, NEW v, NEW en, tune_wr_tuning_reg(b, v, en) PROVE PatternInv'
  BY <1>1, <1>9, PatternRestarts DEF tune_wr_tuning_reg, CallThroughNull
<1>10. CASE Visit
  BY <1>1, <1>10, PatternRestarts DEF Visit, CallThroughNull, ghosts
<1>11. CASE Kill BY <1>11, PatternRestarts DEF Kill
<1>12. CASE UNCHANGED vars BY <1>1, <1>12 DEF vars, ghosts
<1>. QED BY <1>2, <1>3, <1>4, <1>5, <1>6, <1>7, <1>8, <1>9, <1>10, <1>11, <1>12 DEF Next

\* Screen updates are off exactly while tune_rgb_pattern() shows a colour,
\* wherever the process was killed and however often a colour is repeated.
THEOREM FlipsComeBack == Spec => []PatternHolds
<1>1. Init => PatternInv BY DEF Init, PatternInv, PatternHolds
<1>2. PatternInv => PatternHolds BY DEF PatternInv
<1>. QED BY <1>1, <1>2, PatternStep, PTL DEF Spec

-----------------------------------------------------------------------------
(* The registers of the parsers *)

\* The groups of registers of each block's parser.  They do not depend on ctx.
RegOf(ver, b) ==
  CASE b = "gamma" -> {"lut"}
    [] b = "bld"   -> IF ver = "r2p0" THEN {"hsv", "cm"} ELSE {"cm"}
    [] b = "cms"   -> CASE ver = "r2p0" -> {"hsv", "cm"}
                        [] ver = "r4p0" -> {"hsv", "cm", "epf", "bright", "clip"}
                        [] OTHER -> {"hsv", "cm", "epf", "bright", "slp", "clip"}
    [] b = "abc"   -> IF ver = "r2p0" THEN {"bright", "slp"}
                                      ELSE {"bright", "slp", "clip", "epf"}
    [] b = "hsv"   -> IF ver = "r4p0" THEN {"lut3d"} ELSE {}

\* What the core of a version has for each block, whatever ctx holds.
LEMMA CoreRegs ==
  ASSUME NEW ver \in Versions, NEW c
  PROVE  LET core == pq_create_TuneCore(ver, c)
         IN /\ DOMAIN core \subseteq Blocks
            /\ \A b \in Blocks :
                 (IF b \in DOMAIN core THEN core[b].reg ELSE {}) = RegOf(ver, b)
<1>. DEFINE core == pq_create_TuneCore(ver, c)
            P(k) == /\ DOMAIN k \subseteq Blocks
                    /\ \A b \in Blocks :
                         (IF b \in DOMAIN k THEN k[b].reg ELSE {}) = RegOf(ver, b)
<1>1. CASE ver = "r2p0"
  <2>1. core = PQTuneCore(c) BY <1>1 DEF pq_create_TuneCore
  <2>2. P(PQTuneCore(c))
    BY <1>1 DEF PQTuneCore, RegOf, Blocks, GammaParser_reg, BldParser_reg, CmsParser_reg,
                AbcParser_reg
  <2>. QED BY <2>1, <2>2
<1>2. CASE ver = "lite-r2p0"
  <2>1. core = PQTuneCoreLiteR2p0(c) BY <1>2 DEF pq_create_TuneCore
  <2>2. P(PQTuneCoreLiteR2p0(c))
    BY <1>2 DEF PQTuneCoreLiteR2p0, RegOf, Blocks, GammaParserLiteR2p0_reg,
                BldParserLiteR2p0_reg, CmsParserLiteR2p0_reg, AbcParserLiteR2p0_reg
  <2>. QED BY <2>1, <2>2
<1>3. CASE ver = "r3p0"
  <2>1. core = PQTuneCoreR3p0(c) BY <1>3 DEF pq_create_TuneCore
  <2>2. P(PQTuneCoreR3p0(c))
    BY <1>3 DEF PQTuneCoreR3p0, PQTuneCoreLiteR2p0, RegOf, Blocks, GammaParserLiteR2p0_reg,
                BldParserLiteR2p0_reg, CmsParserLiteR2p0_reg, AbcParserR3p0_reg
  <2>. QED BY <2>1, <2>2
<1>4. CASE ver = "r4p0"
  <2>1. core = PQTuneCoreR4p0(c) BY <1>4 DEF pq_create_TuneCore
  <2>2. P(PQTuneCoreR4p0(c))
    BY <1>4 DEF PQTuneCoreR4p0, PQTuneCoreLiteR2p0, RegOf, Blocks, GammaParserLiteR2p0_reg,
                BldParserLiteR2p0_reg, CmsParserR4p0_reg, AbcParserR4p0_reg, HsvParser_reg
  <2>. QED BY <2>1, <2>2
<1>. QED BY <1>1, <1>2, <1>3, <1>4 DEF Versions

\* The same of the session's own core, in the state before and after a step.
LEMMA OwnRegs ==
  ASSUME tool \in Tools
  PROVE  /\ Has \subseteq Blocks
         /\ \A b \in Blocks : Reg(b) = RegOf(tool.ver, b) /\ Reg(b) \subseteq Units
<1>1. tool.ver \in Versions BY PQTuneAssumption
<1>2. \A b \in Blocks : RegOf(tool.ver, b) \subseteq Units
  BY <1>1 DEF RegOf, Blocks, Versions, Units
<1>. QED BY <1>1, <1>2, CoreRegs DEF Has, Reg, Core

-----------------------------------------------------------------------------
(* Tags *)

\* What a register or a field makes of a tag is not Junk.
LEMMA CutTags ==
  ASSUME tool \in Tools, NEW b, NEW u, NEW v \in tool.values
  PROVE  LET x == Field(b, u, v)
         IN x # Junk /\ x \in Nat /\ x % 256 # Junk /\ x % 1024 # Junk
<1>1. v \in Nat /\ v # Junk /\ v % 256 # Junk /\ v % 1024 # Junk BY PQTuneAssumption
<1>2. (v % 256) % 256 = v % 256 /\ (v % 256) % 1024 = v % 256 /\ v % 256 \in Nat
  BY <1>1
<1>3. Field(b, u, v) = v \/ Field(b, u, v) = v % 256 BY DEF Field
<1>. QED BY <1>1, <1>2, <1>3

\* The parameters of a block, in ctx or in a file, none of which is Junk.
IsCell(c) == {"live", "rest"} \subseteq DOMAIN c
Clean(c)  == c.rest # Junk /\ \A u \in Units : c.live[u] # Junk

\* What the tool sends is clean, and so is what a register keeps of it.
LEMMA SentClean ==
  ASSUME tool \in Tools, NEW b \in Blocks, NEW v \in tool.values, NEW en, NEW scn, NEW mode
  PROVE  LET c == Cell(b, v, en, scn, mode)
         IN /\ IsCell(c) /\ Clean(c) /\ c.enable = en
            /\ \A u \in Units : c.live[u] % 256 # Junk /\ c.live[u] % 1024 # Junk
<1>. DEFINE c == Cell(b, v, en, scn, mode)
<1>1. IsCell(c) /\ c.rest = v /\ c.enable = en
      /\ c.live = [u \in Units |-> IF u \in Reg(b) THEN Field(b, u, v) ELSE Any]
  BY DEF Cell, IsCell
<1>2. v # Junk BY PQTuneAssumption
<1>3. Any # Junk /\ Any % 256 # Junk /\ Any % 1024 # Junk BY DEF Any, Junk
<1>. QED BY <1>1, <1>2, <1>3, CutTags DEF Clean

-----------------------------------------------------------------------------
(* Junk *)

\* Everything has the parts that the proof looks at.
ShapeInv ==
  /\ tool \in Tools
  /\ DOMAIN ctx = Blocks /\ DOMAIN file = Blocks
  /\ \A b \in Blocks : IsCell(ctx[b]) /\ IsCell(file[b])
  /\ {"cmd", "method", "todo", "saving", "hung"} \subseteq DOMAIN job
  /\ job.todo \in Seq(Blocks) /\ (job.saving => job.todo # <<>>)
  /\ offset \in Nat /\ pieces \in 0 .. tune_sizes /\ offset <= pieces

\* The files and the registers are clean; so are the pieces below offset and
\* what a command that stores has still to store.
CleanInv ==
  /\ \A b \in Blocks : Clean(file[b])
  /\ slp_ltm # Junk /\ \A u \in Units : regs[u] # Junk
  /\ \A i \in 1 .. offset : \A b \in Piece[i] : Clean(ctx[b])
  /\ job.method = "update_xml" => \A i \in 1 .. Len(job.todo) : Clean(ctx[job.todo[i]])

JunkInv == ShapeInv /\ CleanInv

\* There are two pieces, and they are made of blocks.
LEMMA Pieces == tune_sizes = 2 /\ \A i \in 1 .. 2 : Piece[i] \subseteq Blocks
BY DEF tune_sizes, Piece, Blocks

\* Every block is in one of them.
LEMMA AllPieces == \A b \in Blocks : \E i \in 1 .. 2 : b \in Piece[i]
BY DEF Piece, Blocks

\* A restart loses the pieces together with offset, and the command.
LEMMA JunkRestarts == JunkInv /\ Restarts => JunkInv'
<1>. SUFFICES ASSUME JunkInv, Restarts PROVE JunkInv' OBVIOUS
<1>1. job' = Idle /\ offset' = 0 /\ slp_ltm' = 0 /\ UNCHANGED <<tool, file, regs, pieces>>
  BY DEF Restarts
<1>2. /\ {"cmd", "method", "todo", "saving", "hung"} \subseteq DOMAIN job'
      /\ job'.method = "none" /\ job'.todo = <<>> /\ job'.saving = FALSE
  BY <1>1 DEF Idle
<1>3. DOMAIN ctx' = Blocks /\ \A b \in Blocks : IsCell(ctx'[b])
  BY DEF Restarts, Fresh, IsCell
<1>4. ShapeInv' BY <1>1, <1>2, <1>3 DEF JunkInv, ShapeInv
<1>5. CleanInv' BY <1>1, <1>2 DEF JunkInv, CleanInv, Junk
<1>. QED BY <1>4, <1>5 DEF JunkInv

\* A step that leaves the files, the registers and the parameters alone.
LEMMA JunkKept ==
  ASSUME JunkInv, UNCHANGED <<tool, file, regs, slp_ltm, job>>,
         DOMAIN ctx' = Blocks, \A b \in Blocks : IsCell(ctx'[b]),
         \A b \in Blocks : Clean(ctx[b]) => Clean(ctx'[b]),
         offset' \in 0 .. offset, pieces' \in 0 .. tune_sizes, offset' <= pieces'
  PROVE  JunkInv'
<1>1. ShapeInv' BY DEF JunkInv, ShapeInv
<1>2. \A i \in 1 .. offset' : \A b \in Piece[i] : Clean(ctx'[b])
  <2>1. offset \in 0 .. 2 BY Pieces DEF JunkInv, ShapeInv
  <2>. QED BY <2>1, Pieces DEF JunkInv, CleanInv
<1>3. \A i \in 1 .. Len(job.todo) : job.todo[i] \in Blocks BY DEF JunkInv, ShapeInv
<1>4. CleanInv' BY <1>2, <1>3 DEF JunkInv, CleanInv
<1>. QED BY <1>1, <1>4 DEF JunkInv

\* A command that goes on to files: what it is to store is clean, and it
\* changes at most the block that it names, which is then clean.
LEMMA JunkStart ==
  ASSUME JunkInv, NEW cmd, NEW b, NEW method, NEW todo \in Seq(Blocks),
         Start(cmd, b, method, todo),
         UNCHANGED <<tool, file, regs, slp_ltm, offset, pieces>>,
         DOMAIN ctx' = Blocks, \A d \in Blocks : IsCell(ctx'[d]),
         \A d \in Blocks : Clean(ctx[d]) => Clean(ctx'[d]),
         method = "update_xml" => \A i \in 1 .. Len(todo) : Clean(ctx'[todo[i]])
  PROVE  JunkInv'
<1>1. /\ {"cmd", "method", "todo", "saving", "hung"} \subseteq DOMAIN job'
      /\ job'.method = method /\ job'.todo = todo /\ job'.saving = FALSE
  BY DEF Start
<1>2. ShapeInv' BY <1>1 DEF JunkInv, ShapeInv
<1>3. \A i \in 1 .. offset : \A d \in Piece[i] : Clean(ctx'[d])
  <2>1. offset \in 0 .. 2 BY Pieces DEF JunkInv, ShapeInv
  <2>. QED BY <2>1, Pieces DEF JunkInv, CleanInv
<1>4. CleanInv' BY <1>1, <1>3 DEF JunkInv, CleanInv
<1>. QED BY <1>2, <1>4 DEF JunkInv

\* Reading a block's registers into a block keeps it clean, if it was.
LEMMA ParseRegClean ==
  ASSUME JunkInv, NEW b \in Blocks
  PROVE  /\ DOMAIN parse_reg(b) = Blocks
         /\ \A d \in Blocks : IsCell(parse_reg(b)[d])
         /\ \A d \in Blocks : Clean(ctx[d]) => Clean(parse_reg(b)[d])
<1>. DEFINE l == [u \in Units |-> IF u \in Reg(b) THEN regs[u] ELSE ctx[b].live[u]]
            n == [ctx[b] EXCEPT !.live = l]
<1>1. parse_reg(b) = [ctx EXCEPT ![b] = n] BY DEF parse_reg
<1>2. IsCell(ctx[b]) /\ DOMAIN ctx = Blocks BY DEF JunkInv, ShapeInv
<1>3. DOMAIN n = DOMAIN ctx[b] /\ n.live = l /\ n.rest = ctx[b].rest
  BY <1>2 DEF IsCell
<1>4. Clean(ctx[b]) => Clean(n)
  <2>1. \A u \in Units : regs[u] # Junk BY DEF JunkInv, CleanInv
  <2>. HIDE DEF n
  <2>. QED BY <1>3, <2>1 DEF Clean
<1>5. IsCell(n) BY <1>2, <1>3 DEF IsCell
<1>. HIDE DEF n
<1>. QED BY <1>1, <1>2, <1>4, <1>5 DEF JunkInv, ShapeInv

\* Parsing a file makes a block clean.
LEMMA ParsedClean ==
  ASSUME JunkInv, NEW b \in Blocks
  PROVE  IsCell(Parsed(b)) /\ Clean(Parsed(b))
<1>1. IsCell(ctx[b]) /\ Clean(file[b]) BY DEF JunkInv, ShapeInv, CleanInv
<1>2. DOMAIN Parsed(b) = DOMAIN ctx[b] /\ Parsed(b).live = file[b].live
      /\ Parsed(b).rest = file[b].rest
  BY <1>1 DEF Parsed, IsCell
<1>. QED BY <1>1, <1>2 DEF IsCell, Clean

\* Storing a clean block leaves its file clean.
LEMMA UpdatedClean ==
  ASSUME JunkInv, NEW b \in Blocks, Clean(ctx[b])
  PROVE  IsCell(Updated(b, ctx[b])) /\ Clean(Updated(b, ctx[b]))
<1>1. IsCell(file[b]) /\ Clean(file[b]) BY DEF JunkInv, ShapeInv, CleanInv
<1>2. /\ DOMAIN Updated(b, ctx[b]) = DOMAIN file[b]
      /\ Updated(b, ctx[b]).live \in {file[b].live, ctx[b].live}
      /\ Updated(b, ctx[b]).rest \in {file[b].rest, ctx[b].rest}
  BY <1>1 DEF Updated, IsCell
<1>. QED BY <1>1, <1>2 DEF IsCell, Clean

\* The registers that a block is written to are clean.
LEMMA RegsClean ==
  ASSUME JunkInv, NEW b \in Blocks, NEW v \in tool.values, NEW en
  PROVE  \A u \in Units : update_reg(b, Cell(b, v, en, <<1>>, 1))[u] # Junk
<1>. DEFINE c == Cell(b, v, en, <<1>>, 1)
<1>1. /\ IsCell(c) /\ Clean(c)
      /\ \A u \in Units : c.live[u] % 256 # Junk /\ c.live[u] % 1024 # Junk
  BY SentClean DEF JunkInv, ShapeInv
<1>2. slp_ltm # Junk /\ \A u \in Units : regs[u] # Junk BY DEF JunkInv, CleanInv
<1>. HIDE DEF c
<1>3. \A u \in Units : Written(b, c, u) # Junk BY <1>1, <1>2 DEF Written, Clean
<1>4. \A u \in Units : update_reg(b, c)[u] # Junk BY <1>2, <1>3 DEF update_reg
<1>. QED BY <1>4 DEF c

\* tune_end_write_cfg() finds every block clean when offset is at its end.
LEMMA JunkEndWrite == JunkInv /\ tune_end_write_cfg => JunkInv'
<1>. SUFFICES ASSUME JunkInv, tune_end_write_cfg PROVE JunkInv' OBVIOUS
<1>0. UNCHANGED <<tool, ctx, file, regs, slp_ltm, offset, pieces>>
  BY DEF tune_end_write_cfg, Receives, ghosts
<1>1. CASE offset = tune_sizes
  <2>1. Start("end_write", "none", "update_xml", Order) BY <1>1 DEF tune_end_write_cfg
  <2>2. \A b \in Blocks : Clean(ctx[b])
    BY <1>1, Pieces, AllPieces DEF JunkInv, CleanInv
  <2>3. Order \in Seq(Blocks) BY DEF Order, Blocks
  <2>4. \A i \in 1 .. Len(Order) : Clean(ctx[Order[i]]) BY <2>2, <2>3
  <2>. QED BY <2>1, <2>3, <2>4, <1>0, JunkStart DEF JunkInv, ShapeInv
<1>2. CASE offset # tune_sizes
  BY <1>0, <1>2, JunkKept DEF tune_end_write_cfg, JunkInv, ShapeInv
<1>. QED BY <1>1, <1>2

\* A piece is laid where offset says, and is clean.
LEMMA JunkMidst ==
  ASSUME JunkInv, NEW v \in tool.values, NEW scn, NEW mode,
         tune_midst_write_cfg(v, scn, mode)
  PROVE  JunkInv'
<1>. DEFINE p(b) == Cell(b, v, 1, scn, mode)  own == Piece[offset + 1]
<1>1. /\ job = Idle /\ UNCHANGED <<tool, file, regs, slp_ltm, job>>
      /\ pieces < tune_sizes /\ offset' = offset + 1 /\ pieces' = pieces + 1
      /\ ctx' = [b \in Blocks |-> IF b \in own THEN p(b) ELSE ctx[b]]
  BY DEF tune_midst_write_cfg, Receives
<1>2. offset \in 0 .. 1 /\ offset + 1 \in 1 .. 2 BY <1>1, Pieces DEF JunkInv, ShapeInv
<1>3. \A b \in Blocks : IsCell(p(b)) /\ Clean(p(b)) BY SentClean DEF JunkInv, ShapeInv
<1>. HIDE DEF p
<1>4. job'.todo = <<>> /\ job'.method = "none" BY <1>1 DEF Idle
<1>5. \A b \in Blocks : IsCell(ctx'[b]) /\ (Clean(ctx[b]) \/ b \in own => Clean(ctx'[b]))
  BY <1>1, <1>3 DEF JunkInv, ShapeInv
<1>6. ShapeInv' BY <1>1, <1>2, <1>5, Pieces DEF JunkInv, ShapeInv
<1>7. \A i \in 1 .. offset + 1 : \A b \in Piece[i] : Clean(ctx'[b])
  <2>. SUFFICES ASSUME NEW i \in 1 .. offset + 1, NEW b \in Piece[i] PROVE Clean(ctx'[b])
    OBVIOUS
  <2>1. b \in Blocks BY <1>2, Pieces
  <2>2. CASE i = offset + 1 BY <2>1, <2>2, <1>5
  <2>3. CASE i \in 1 .. offset BY <2>1, <2>3, <1>5 DEF JunkInv, CleanInv
  <2>. QED BY <2>2, <2>3, <1>2
<1>8. CleanInv' BY <1>1, <1>4, <1>7 DEF JunkInv, CleanInv
<1>. QED BY <1>6, <1>8 DEF JunkInv

\* The registers are written from what the tool has just sent.
LEMMA JunkWrReg ==
  ASSUME JunkInv, NEW b \in Blocks, NEW v \in tool.values, NEW en,
         tune_wr_tuning_reg(b, v, en)
  PROVE  JunkInv'
<1>1. CASE b \notin Has BY <1>1, JunkRestarts DEF tune_wr_tuning_reg, CallThroughNull
<1>2. CASE b \in Has
  <2>. DEFINE c == Cell(b, v, en, <<1>>, 1)
  <2>1. /\ job = Idle /\ UNCHANGED <<tool, file, slp_ltm, job, offset, pieces>>
        /\ ctx' = [ctx EXCEPT ![b] = c] /\ regs' = update_reg(b, c)
    BY <1>2 DEF tune_wr_tuning_reg, Receives
  <2>2. IsCell(c) /\ Clean(c) BY SentClean DEF JunkInv, ShapeInv
  <2>3. \A u \in Units : regs'[u] # Junk BY <2>1, RegsClean
  <2>. HIDE DEF c
  <2>4. DOMAIN ctx' = Blocks /\ \A d \in Blocks :
          IsCell(ctx'[d]) /\ (Clean(ctx[d]) => Clean(ctx'[d]))
    BY <2>1, <2>2 DEF JunkInv, ShapeInv
  <2>5. job'.method = "none" BY <2>1 DEF Idle
  <2>6. ShapeInv' BY <2>1, <2>4 DEF JunkInv, ShapeInv
  <2>7. \A i \in 1 .. offset : \A d \in Piece[i] : Clean(ctx'[d])
    <3>1. offset \in 0 .. 2 BY Pieces DEF JunkInv, ShapeInv
    <3>. QED BY <3>1, <2>4, Pieces DEF JunkInv, CleanInv
  <2>8. CleanInv' BY <2>1, <2>3, <2>5, <2>7 DEF JunkInv, CleanInv
  <2>. QED BY <2>6, <2>8 DEF JunkInv
<1>. QED BY <1>1, <1>2

\* A step of a command that goes on with the same files, or with the rest of
\* them.
LEMMA JunkGoes ==
  ASSUME JunkInv, UNCHANGED <<tool, regs, slp_ltm, offset, pieces>>,
         DOMAIN ctx' = Blocks, DOMAIN file' = Blocks,
         \A d \in Blocks : IsCell(ctx'[d]) /\ IsCell(file'[d]) /\ Clean(file'[d]),
         \A d \in Blocks : Clean(ctx[d]) => Clean(ctx'[d]),
         DOMAIN job' = DOMAIN job, job'.method = job.method,
         job'.todo = job.todo \/ (job.todo # <<>> /\ job'.todo = Tail(job.todo)),
         job'.saving => job'.todo # <<>>
  PROVE  JunkInv'
<1>1. job.todo \in Seq(Blocks) BY DEF JunkInv, ShapeInv
<1>2. job'.todo \in Seq(Blocks)
  <2>1. CASE job'.todo = job.todo BY <2>1, <1>1
  <2>2. CASE job.todo # <<>> /\ job'.todo = Tail(job.todo)
    <3>1. ASSUME NEW s \in Seq(Blocks), s # <<>> PROVE Tail(s) \in Seq(Blocks) BY <3>1
    <3>. QED BY <2>2, <3>1, <1>1
  <2>. QED BY <2>1, <2>2
<1>3. ShapeInv' BY <1>2 DEF JunkInv, ShapeInv
<1>4. \A i \in 1 .. offset : \A d \in Piece[i] : Clean(ctx'[d])
  <2>1. offset \in 0 .. 2 BY Pieces DEF JunkInv, ShapeInv
  <2>. QED BY <2>1, Pieces DEF JunkInv, CleanInv
<1>5. job.method = "update_xml" => \A i \in 1 .. Len(job'.todo) : Clean(ctx'[job'.todo[i]])
  <2>. SUFFICES ASSUME job.method = "update_xml", NEW i \in 1 .. Len(job'.todo)
                PROVE  Clean(ctx'[job'.todo[i]])
    OBVIOUS
  <2>1. \E k \in 1 .. Len(job.todo) : job'.todo[i] = job.todo[k]
    <3>1. CASE job'.todo = job.todo BY <3>1
    <3>2. CASE job.todo # <<>> /\ job'.todo = Tail(job.todo)
      <4>1. Len(job'.todo) = Len(job.todo) - 1 /\ job'.todo[i] = job.todo[i + 1]
        BY <3>2, <1>1
      <4>2. i + 1 \in 1 .. Len(job.todo) BY <4>1, <1>1
      <4>. QED BY <4>1, <4>2
    <3>. QED BY <3>1, <3>2
  <2>2. PICK k \in 1 .. Len(job.todo) : job'.todo[i] = job.todo[k] BY <2>1
  <2>3. job.todo[k] \in Blocks /\ Clean(ctx[job.todo[k]])
    BY <1>1 DEF JunkInv, CleanInv
  <2>. QED BY <2>2, <2>3
<1>6. CleanInv' BY <1>4, <1>5 DEF JunkInv, CleanInv
<1>. QED BY <1>3, <1>6 DEF JunkInv

\* A file is parsed into a block, or a clean block stored in its file.
LEMMA JunkVisit == JunkInv /\ Visit => JunkInv'
<1>. SUFFICES ASSUME JunkInv, Visit PROVE JunkInv' OBVIOUS
<1>. DEFINE b == Head(job.todo)
<1>1. job.todo # <<>> /\ job.todo \in Seq(Blocks) /\ UNCHANGED tool
  BY DEF Visit, JunkInv, ShapeInv
<1>2. b \in Blocks /\ 1 \in 1 .. Len(job.todo) /\ b = job.todo[1] BY <1>1
<1>3. /\ {"cmd", "method", "todo", "saving", "hung"} \subseteq DOMAIN job
      /\ DOMAIN ctx = Blocks /\ DOMAIN file = Blocks
      /\ \A d \in Blocks : IsCell(ctx[d]) /\ IsCell(file[d]) /\ Clean(file[d])
  BY DEF JunkInv, ShapeInv, CleanInv
<1>4. CASE b \notin Has /\ CallThroughNull BY <1>4, JunkRestarts DEF CallThroughNull
<1>5. CASE /\ b \in Has \cap torn /\ ~job.saving /\ job' = [job EXCEPT !.todo = Tail(@)]
           /\ UNCHANGED <<ctx, file, regs, slp_ltm, offset, pieces>>
  <2>1. DOMAIN job' = DOMAIN job /\ job'.method = job.method /\ job'.todo = Tail(job.todo)
        /\ ~job'.saving
    BY <1>3, <1>5
  <2>. QED BY <2>1, <1>1, <1>3, <1>5, JunkGoes
<1>6. CASE /\ job' = [job EXCEPT !.saving = TRUE] /\ ctx' = [ctx EXCEPT ![b] = Parsed(b)]
           /\ UNCHANGED <<file, regs, slp_ltm, offset, pieces>>
  <2>1. DOMAIN job' = DOMAIN job /\ job'.method = job.method /\ job'.todo = job.todo
        /\ job'.todo # <<>>
    BY <1>1, <1>3, <1>6
  <2>2. IsCell(Parsed(b)) /\ Clean(Parsed(b)) BY <1>2, ParsedClean
  <2>3. DOMAIN ctx' = Blocks /\ \A d \in Blocks :
          IsCell(ctx'[d]) /\ (Clean(ctx[d]) => Clean(ctx'[d]))
    BY <2>2, <1>2, <1>3, <1>6
  <2>. QED BY <2>1, <2>3, <1>1, <1>3, <1>6, JunkGoes
<1>7. CASE /\ job' = [job EXCEPT !.hung = TRUE]
           /\ UNCHANGED <<ctx, file, regs, slp_ltm, offset, pieces>>
  <2>1. DOMAIN job' = DOMAIN job /\ job'.method = job.method /\ job'.todo = job.todo
        /\ job'.todo # <<>>
    BY <1>1, <1>3, <1>7
  <2>. QED BY <2>1, <1>1, <1>3, <1>7, JunkGoes
<1>8. CASE /\ job.method = "update_xml" /\ job' = [job EXCEPT !.saving = TRUE]
           /\ file' = [file EXCEPT ![b] = Updated(b, ctx[b])]
           /\ UNCHANGED <<ctx, regs, slp_ltm, offset, pieces>>
  <2>1. DOMAIN job' = DOMAIN job /\ job'.method = job.method /\ job'.todo = job.todo
        /\ job'.todo # <<>>
    BY <1>1, <1>3, <1>8
  <2>2. Clean(ctx[b]) BY <1>2, <1>8 DEF JunkInv, CleanInv
  <2>3. IsCell(Updated(b, ctx[b])) /\ Clean(Updated(b, ctx[b])) BY <1>2, <2>2, UpdatedClean
  <2>4. DOMAIN file' = Blocks /\ \A d \in Blocks : IsCell(file'[d]) /\ Clean(file'[d])
    BY <2>3, <1>2, <1>3, <1>8
  <2>. QED BY <2>1, <2>4, <1>1, <1>3, <1>8, JunkGoes
<1>. QED BY <1>4, <1>5, <1>6, <1>7, <1>8 DEF Visit, ghosts

\* JunkInv is inductive.
LEMMA JunkStep == JunkInv /\ [Next]_vars => JunkInv'
<1>. SUFFICES ASSUME JunkInv, [Next]_vars PROVE JunkInv' OBVIOUS
<1>0. /\ tool \in Tools /\ DOMAIN ctx = Blocks /\ \A b \in Blocks : IsCell(ctx[b])
      /\ offset \in Nat /\ pieces \in 0 .. tune_sizes /\ offset <= pieces
      /\ tool.blocks \subseteq Blocks
  BY PQTuneAssumption DEF JunkInv, ShapeInv
<1>1. ASSUME UNCHANGED <<tool, ctx, file, regs, slp_ltm, offset, pieces, job>> PROVE JunkInv'
  BY <1>0, <1>1, JunkKept
<1>2. CASE tune_connect
  <2>1. PICK st : ctx' = tune_modules_enable(st) BY <1>2 DEF tune_connect
  <2>2. DOMAIN ctx' = Blocks BY <2>1 DEF tune_modules_enable
  <2>3. ASSUME NEW b \in Blocks PROVE IsCell(ctx'[b]) /\ (Clean(ctx[b]) => Clean(ctx'[b]))
    <3>1. \/ ctx'[b] = ctx[b] \/ ctx'[b] = [ctx[b] EXCEPT !.enable = 0]
          \/ ctx'[b] = [ctx[b] EXCEPT !.enable = 1]
      BY <2>1 DEF tune_modules_enable
    <3>2. DOMAIN ctx'[b] = DOMAIN ctx[b] /\ ctx'[b].live = ctx[b].live
          /\ ctx'[b].rest = ctx[b].rest
      BY <3>1, <1>0 DEF IsCell
    <3>. QED BY <3>2, <1>0 DEF IsCell, Clean
  <2>4. UNCHANGED <<tool, file, regs, slp_ltm, offset, pieces, job>>
    BY <1>2 DEF tune_connect, Receives, ghosts
  <2>. QED BY <2>2, <2>3, <2>4, <1>0, JunkKept
<1>3. CASE tune_start_read_cfg
  <2>1. Order \in Seq(Blocks) BY DEF Order, Blocks
  <2>2. Start("start_read", "none", "parse_xml", Order)
        /\ UNCHANGED <<tool, ctx, file, regs, slp_ltm, offset, pieces>>
    BY <1>3 DEF tune_start_read_cfg, Receives, ghosts
  <2>. QED BY <2>1, <2>2, <1>0, JunkStart
<1>4. CASE tune_end_write_cfg BY <1>4, JunkEndWrite
<1>5. ASSUME NEW colour, tune_rgb_pattern(colour) PROVE JunkInv'
  BY <1>1, <1>5 DEF tune_rgb_pattern, Receives
<1>6. ASSUME NEW sizes, tune_start_write_cfg(sizes) PROVE JunkInv'
  <2>1. UNCHANGED <<tool, ctx, file, regs, slp_ltm, job>> /\ offset' = 0 /\ pieces' = 0
    BY <1>6 DEF tune_start_write_cfg, Receives
  <2>2. 0 \in 0 .. offset /\ 0 \in 0 .. tune_sizes BY <1>0, Pieces
  <2>. QED BY <2>1, <2>2, <1>0, JunkKept
<1>7. ASSUME NEW v \in tool.values, NEW scn, NEW mode, tune_midst_write_cfg(v, scn, mode)
      PROVE  JunkInv'
  BY <1>7, JunkMidst
<1>8. ASSUME NEW b \in tool.blocks, NEW v \in tool.values, NEW scn, NEW mode,
             tune_wr_tuning_xml(b, v, scn, mode)
      PROVE  JunkInv'
  <2>. DEFINE c == Cell(b, v, 1, scn, mode)
  <2>1. /\ Start("wr_xml", b, "update_xml", <<b>>) /\ ctx' = [ctx EXCEPT ![b] = c]
        /\ UNCHANGED <<tool, file, regs, slp_ltm, offset, pieces>>
    BY <1>8 DEF tune_wr_tuning_xml, Receives
  <2>2. b \in Blocks /\ <<b>> \in Seq(Blocks) BY <1>0
  <2>3. IsCell(c) /\ Clean(c) BY <2>2, <1>0, SentClean
  <2>. HIDE DEF c
  <2>4. DOMAIN ctx' = Blocks /\ \A d \in Blocks :
          IsCell(ctx'[d]) /\ (Clean(ctx[d]) => Clean(ctx'[d]))
    BY <2>1, <2>2, <2>3, <1>0
  <2>5. \A i \in 1 .. Len(<<b>>) : Clean(ctx'[<<b>>[i]]) BY <2>1, <2>2, <2>3, <1>0
  <2>. QED BY <2>1, <2>2, <2>4, <2>5, JunkStart
<1>9. ASSUME NEW b, tune_midst_read_cfg(b) PROVE JunkInv'
  BY <1>1, <1>9 DEF tune_midst_read_cfg, Receives, ghosts
<1>10. ASSUME NEW b \in tool.blocks, tune_rd_tuning_xml(b) PROVE JunkInv'
  <2>1. b \in Blocks /\ <<b>> \in Seq(Blocks) BY <1>0
  <2>2. Start("rd_xml", b, "parse_xml", <<b>>)
        /\ UNCHANGED <<tool, ctx, file, regs, slp_ltm, offset, pieces>>
    BY <1>10 DEF tune_rd_tuning_xml, Receives, ghosts
  <2>. QED BY <2>1, <2>2, <1>0, JunkStart
<1>11. ASSUME NEW b \in tool.blocks, tune_rd_tuning_reg(b) PROVE JunkInv'
  <2>1. CASE b \notin Has BY <1>11, <2>1, JunkRestarts DEF tune_rd_tuning_reg, CallThroughNull
  <2>2. CASE b \in Has
    <3>1. /\ job = Idle /\ ctx' = parse_reg(b)
          /\ slp_ltm' = regs["slp"] \/ slp_ltm' = slp_ltm
          /\ UNCHANGED <<tool, file, regs, job, offset, pieces>>
      BY <1>11, <2>2 DEF tune_rd_tuning_reg, Receives
    <3>2. DOMAIN ctx' = Blocks /\ \A d \in Blocks :
            IsCell(ctx'[d]) /\ (Clean(ctx[d]) => Clean(ctx'[d]))
      BY <3>1, <1>0, ParseRegClean
    <3>3. slp_ltm' # Junk BY <3>1 DEF JunkInv, CleanInv, Units
    <3>4. job'.method = "none" BY <3>1 DEF Idle
    <3>5. \A i \in 1 .. offset : \A d \in Piece[i] : Clean(ctx'[d])
      <4>1. offset \in 0 .. 2 BY Pieces DEF JunkInv, ShapeInv
      <4>. QED BY <4>1, <3>2, Pieces DEF JunkInv, CleanInv
    <3>6. ShapeInv' BY <3>1, <3>2 DEF JunkInv, ShapeInv
    <3>7. CleanInv' BY <3>1, <3>3, <3>4, <3>5 DEF JunkInv, CleanInv
    <3>. QED BY <3>6, <3>7 DEF JunkInv
  <2>. QED BY <2>1, <2>2
<1>12. ASSUME NEW b \in tool.blocks, NEW v \in tool.values, NEW en,
              tune_wr_tuning_reg(b, v, en)
       PROVE  JunkInv'
  BY <1>0, <1>12, JunkWrReg
<1>13. CASE Visit BY <1>13, JunkVisit
<1>14. CASE Saved
  <2>1. job' = [job EXCEPT !.todo = Tail(@), !.saving = FALSE]
        /\ UNCHANGED <<tool, ctx, file, regs, slp_ltm, offset, pieces>>
    BY <1>14 DEF Saved, ghosts
  <2>2. DOMAIN job' = DOMAIN job /\ job'.method = job.method /\ job'.todo = Tail(job.todo)
        /\ job'.saving = FALSE
    BY <2>1 DEF JunkInv, ShapeInv
  <2>3. job.saving => job.todo # <<>> BY DEF JunkInv, ShapeInv
  <2>. QED BY <2>1, <2>2, <2>3, <1>14, JunkGoes DEF Saved, JunkInv, ShapeInv, CleanInv
<1>15. CASE Answer
  <2>1. job' = Idle /\ UNCHANGED <<tool, ctx, file, regs, slp_ltm, offset, pieces>>
    BY <1>15 DEF Answer, ghosts
  <2>2. /\ {"cmd", "method", "todo", "saving", "hung"} \subseteq DOMAIN job'
        /\ job'.method = "none" /\ job'.todo = <<>> /\ job'.saving = FALSE
    BY <2>1 DEF Idle
  <2>. QED BY <2>1, <2>2 DEF JunkInv, ShapeInv, CleanInv
<1>16. CASE Kill BY <1>16, JunkRestarts DEF Kill
<1>17. CASE UNCHANGED vars BY <1>1, <1>17 DEF vars, ghosts
<1>. QED BY <1>2, <1>3, <1>4, <1>5, <1>6, <1>7, <1>8, <1>9, <1>10, <1>11, <1>12, <1>13,
            <1>14, <1>15, <1>16, <1>17 DEF Next

\* At the start the files and the registers hold what the factory put there.
LEMMA JunkInit == Init => JunkInv
<1>. SUFFICES ASSUME Init PROVE JunkInv OBVIOUS
<1>1. /\ {"cmd", "method", "todo", "saving", "hung"} \subseteq DOMAIN job
      /\ job.method = "none" /\ job.todo = <<>> /\ job.saving = FALSE
  BY DEF Init, Idle
<1>2. DOMAIN ctx = Blocks /\ \A b \in Blocks : IsCell(ctx[b]) BY DEF Init, Fresh, IsCell
<1>3. DOMAIN file = Blocks /\ \A b \in Blocks : IsCell(file[b]) /\ Clean(file[b])
  BY DEF Init, IsCell, Clean, Factory, Junk
<1>4. ShapeInv BY <1>1, <1>2, <1>3, Pieces DEF Init, ShapeInv
<1>5. CleanInv
  <2>1. slp_ltm # Junk /\ (\A u \in Units : regs[u] # Junk) /\ offset = 0
    BY DEF Init, Factory, Junk
  <2>. QED BY <2>1, <1>1, <1>3 DEF CleanInv
<1>. QED BY <1>4, <1>5 DEF JunkInv

\* Whatever is sent, in whatever order, and wherever the program is killed:
\* no file of a block that has a parser gets memory that was never written
\* to, because tune_end_write_cfg() stores only a configuration that is
\* complete since the start of the program.
THEOREM JunkNeverSaved == Spec => []NoJunkSaved
<1>1. JunkInv => NoJunkSaved
  BY OwnRegs DEF JunkInv, ShapeInv, CleanInv, NoJunkSaved, Clean
<1>. QED BY <1>1, JunkInit, JunkStep, PTL DEF Spec

-----------------------------------------------------------------------------
(* Registers *)

\* The registers hold what was last written to them where that is known, and
\* r4p0's CMS has a true copy of the slp part while fresh says so.  The answer
\* to a read of registers is gone when a command goes on to files.
RegInv ==
  /\ \A u \in Units : lastw[u] # Any => regs[u] = lastw[u]
  /\ tool.ver = "r4p0" /\ fresh => slp_ltm = regs["slp"]
  /\ job.cmd # "rd_reg"
  /\ answer.cmd = "rd_reg" => job.todo = <<>> /\ ~job.saving
  /\ RegReadBack

\* A step that ends with another answer and leaves the registers alone.
LEMMA RegKept ==
  ASSUME RegInv, answer'.cmd # "rd_reg", job'.cmd # "rd_reg",
         UNCHANGED <<tool, regs, lastw>>, fresh' => fresh /\ slp_ltm' = slp_ltm
  PROVE  RegInv'
BY DEF RegInv, RegReadBack

\* A restart forgets the copy.
LEMMA RegRestarts == RegInv /\ Restarts => RegInv'
<1>1. Quiet.cmd # "rd_reg" /\ Idle.cmd # "rd_reg" BY DEF Quiet, Idle
<1>. QED BY <1>1, RegKept DEF Restarts

\* The answers name their command.
LEMMA Names ==
  /\ \A cmd, err : Done(cmd, err).cmd = cmd
  /\ \A cmd, b, c : Reply(cmd, b, c).cmd = cmd
  /\ Quiet.cmd = "none"
BY DEF Done, Reply, Quiet

\* parse_reg() of a block fetches the block's registers, and r4p0's CMS keeps
\* the slp part.
LEMMA ReadStep ==
  ASSUME JunkInv, RegInv, NEW b \in Blocks, tune_rd_tuning_reg(b)
  PROVE  RegInv'
<1>1. CASE b \notin Has BY <1>1, RegRestarts DEF tune_rd_tuning_reg, CallThroughNull
<1>2. CASE b \in Has
  <2>1. /\ job = Idle /\ UNCHANGED <<tool, regs, job, lastw>>
        /\ ctx' = parse_reg(b) /\ answer' = Reply("rd_reg", b, ctx')
        /\ slp_ltm' = IF tool.ver = "r4p0" /\ b = "cms" THEN regs["slp"] ELSE slp_ltm
        /\ fresh' = (fresh \/ b = "cms")
    BY <1>2 DEF tune_rd_tuning_reg, Receives
  <2>2. tool \in Tools /\ tool.ver \in Versions
    BY PQTuneAssumption DEF JunkInv, ShapeInv
  <2>3. Reg(b)' = Reg(b) /\ Reg(b) \subseteq Units
    <3>1. Reg(b) = RegOf(tool.ver, b) /\ Reg(b) \subseteq Units BY <2>2, OwnRegs
    <3>2. Reg(b)' = RegOf(tool.ver, b) BY <2>1, <2>2, CoreRegs DEF Has, Reg, Core
    <3>. QED BY <3>1, <3>2
  <2>4. answer'.cmd = "rd_reg" /\ answer'.block = b /\ answer'.cell = ctx'[b]
    BY <2>1 DEF Reply
  <2>5. \A u \in Reg(b) : ctx'[b].live[u] = regs[u]
    <3>. DEFINE l == [u \in Units |-> IF u \in Reg(b) THEN regs[u] ELSE ctx[b].live[u]]
    <3>1. DOMAIN ctx = Blocks /\ "live" \in DOMAIN ctx[b]
      BY DEF JunkInv, ShapeInv, IsCell
    <3>2. ctx'[b].live = l BY <2>1, <3>1 DEF parse_reg
    <3>. QED BY <3>2, <2>3
  <2>6. RegReadBack'
    <3>1. \A u \in Reg(b) : lastw[u] # Any => answer'.cell.live[u] = lastw[u]
      BY <2>3, <2>4, <2>5 DEF RegInv
    <3>2. Reg(answer.block)' = Reg(b)'
      BY <2>4 DEF Reg
    <3>. QED BY <3>1, <3>2, <2>1, <2>3 DEF RegReadBack
  <2>7. job'.cmd # "rd_reg" /\ job'.todo = <<>> /\ ~job'.saving BY <2>1 DEF Idle
  <2>8. tool'.ver = "r4p0" /\ fresh' => slp_ltm' = regs'["slp"] BY <2>1 DEF RegInv
  <2>. QED BY <2>1, <2>6, <2>7, <2>8 DEF RegInv
<1>. QED BY <1>1, <1>2

\* update_reg() of a block writes the block's registers, and r4p0's CMS writes
\* its copy of the slp part as well.
LEMMA WriteStep ==
  ASSUME JunkInv, RegInv, NEW b \in Blocks, NEW v \in tool.values, NEW en \in {0, 1},
         tune_wr_tuning_reg(b, v, en)
  PROVE  RegInv'
<1>1. CASE b \notin Has BY <1>1, RegRestarts DEF tune_wr_tuning_reg, CallThroughNull
<1>2. CASE b \in Has
  <2>. DEFINE c == Cell(b, v, en, <<1>>, 1)
  <2>1. /\ job = Idle /\ UNCHANGED <<tool, job, slp_ltm>>
        /\ regs' = update_reg(b, c) /\ answer' = Done("wr_reg", 0)
        /\ lastw' = [u \in Units |-> IF en = 0 \/ u \notin Writes(b) THEN lastw[u]
                                     ELSE IF u \in Reg(b) THEN IF v < 256 THEN v ELSE Any
                                     ELSE IF fresh THEN lastw[u] ELSE Any]
        /\ fresh' = (fresh /\ ~(b = "abc" /\ en # 0))
    BY <1>2 DEF tune_wr_tuning_reg, Receives
  <2>2. tool \in Tools /\ tool.ver \in Versions /\ v \in Nat
    BY PQTuneAssumption DEF JunkInv, ShapeInv
  <2>3. Reg(b) = RegOf(tool.ver, b) BY <2>2, OwnRegs
  <2>4. c.enable = en /\ \A u \in Reg(b) \cap Units : c.live[u] = Field(b, u, v)
    BY DEF Cell
  <2>5. Writes(b) = Reg(b) \cup IF tool.ver = "r4p0" /\ b = "cms" THEN {"slp"} ELSE {}
    BY DEF Writes
  <2>. HIDE DEF c
  <2>6. \A u \in Units : regs'[u] = IF en # 0 /\ u \in Writes(b) THEN Written(b, c, u)
                                                                ELSE regs[u]
    BY <2>1, <2>4 DEF update_reg
  <2>7. tool.ver = "r4p0" => ("slp" \in RegOf(tool.ver, b) <=> b = "abc")
    BY DEF RegOf, Blocks
  <2>8. tool.ver = "r4p0" /\ b = "cms" => Written(b, c, "slp") = slp_ltm
    BY DEF Written
  <2>9. ASSUME v < 256, NEW u \in Units, u \in Reg(b) PROVE Written(b, c, u) = v
    <3>1. v % 256 = v /\ v % 1024 = v BY <2>2, <2>9
    <3>2. c.live[u] = v BY <3>1, <2>4, <2>9 DEF Field
    <3>3. ~(tool.ver = "r4p0" /\ b = "cms" /\ u = "slp") BY <2>3, <2>7, <2>9
    <3>. QED BY <3>1, <3>2, <3>3 DEF Written
  <2>10. ASSUME NEW u \in Units, lastw'[u] # Any PROVE regs'[u] = lastw'[u]
    <3>1. CASE en = 0 \/ u \notin Writes(b)
      BY <3>1, <2>1, <2>6, <2>10 DEF RegInv
    <3>2. CASE en # 0 /\ u \in Reg(b)
      <4>1. u \in Writes(b) BY <3>2, <2>5
      <4>2. v < 256 /\ lastw'[u] = v BY <3>2, <4>1, <2>1, <2>10
      <4>. QED BY <3>2, <4>1, <4>2, <2>6, <2>9
    <3>3. CASE en # 0 /\ u \in Writes(b) /\ u \notin Reg(b)
      <4>1. tool.ver = "r4p0" /\ b = "cms" /\ u = "slp" BY <3>3, <2>5
      <4>2. fresh /\ lastw'[u] = lastw[u] BY <3>3, <2>1, <2>10
      <4>3. regs'[u] = slp_ltm BY <3>3, <4>1, <2>6, <2>8
      <4>. QED BY <4>1, <4>2, <4>3, <2>10 DEF RegInv
    <3>. QED BY <3>1, <3>2, <3>3
  <2>11. ASSUME tool.ver = "r4p0", fresh' PROVE slp_ltm = regs'["slp"]
    <3>0. "slp" \in Units BY DEF Units
    <3>1. fresh /\ slp_ltm = regs["slp"] /\ (b = "abc" => en = 0)
      BY <2>1, <2>11 DEF RegInv
    <3>2. CASE en = 0 \/ "slp" \notin Writes(b) BY <3>0, <3>1, <3>2, <2>6
    <3>3. CASE en # 0 /\ "slp" \in Writes(b)
      <4>1. b = "cms" BY <3>1, <3>3, <2>3, <2>5, <2>7, <2>11
      <4>. QED BY <4>1, <3>0, <3>3, <2>6, <2>8, <2>11
    <3>. QED BY <3>2, <3>3
  <2>12. answer'.cmd = "wr_reg" BY <2>1, Names
  <2>13. job'.cmd # "rd_reg" BY <2>1 DEF RegInv
  <2>. QED BY <2>1, <2>10, <2>11, <2>12, <2>13 DEF RegInv, RegReadBack
<1>. QED BY <1>1, <1>2

\* RegInv is inductive together with JunkInv.
LEMMA RegStep == JunkInv /\ RegInv /\ [Next]_vars => RegInv'
<1>. SUFFICES ASSUME JunkInv, RegInv, [Next]_vars PROVE RegInv' OBVIOUS
<1>0. tool.blocks \subseteq Blocks /\ {"cmd", "todo", "saving", "hung"} \subseteq DOMAIN job
  BY PQTuneAssumption DEF JunkInv, ShapeInv
<1>1. ASSUME answer'.cmd # "rd_reg", job'.cmd # "rd_reg",
             UNCHANGED <<tool, regs, lastw, slp_ltm, fresh>>
      PROVE  RegInv'
  BY <1>1, RegKept
<1>2. ASSUME NEW cmd, NEW b, NEW method, NEW todo, Start(cmd, b, method, todo),
             cmd # "rd_reg", answer' = Quiet,
             UNCHANGED <<tool, regs, lastw, slp_ltm, fresh>>
      PROVE  RegInv'
  <2>1. job'.cmd = cmd BY <1>2 DEF Start
  <2>. QED BY <2>1, <1>1, <1>2, Names
<1>3. job.cmd # "rd_reg" BY DEF RegInv
<1>4. CASE tune_connect BY <1>1, <1>3, <1>4, Names DEF tune_connect, Receives, ghosts
<1>5. CASE tune_start_read_cfg
  BY <1>2, <1>5 DEF tune_start_read_cfg, Receives, ghosts
<1>6. CASE tune_end_write_cfg
  <2>1. UNCHANGED <<tool, regs, lastw, slp_ltm, fresh>>
    BY <1>6 DEF tune_end_write_cfg, Receives, ghosts
  <2>2. \/ Start("end_write", "none", "update_xml", Order) /\ answer' = Quiet
        \/ answer' = Done("end_write", 1) /\ job' = job
    BY <1>6 DEF tune_end_write_cfg
  <2>. QED BY <2>1, <2>2, <1>1, <1>2, <1>3, Names
<1>7. ASSUME NEW colour, tune_rgb_pattern(colour) PROVE RegInv'
  BY <1>1, <1>3, <1>7, Names DEF tune_rgb_pattern, Receives
<1>8. ASSUME NEW sizes, tune_start_write_cfg(sizes) PROVE RegInv'
  BY <1>1, <1>3, <1>8, Names DEF tune_start_write_cfg, Receives
<1>9. ASSUME NEW v, NEW scn, NEW mode, tune_midst_write_cfg(v, scn, mode) PROVE RegInv'
  BY <1>1, <1>3, <1>9, Names DEF tune_midst_write_cfg, Receives
<1>10. ASSUME NEW b, NEW v, NEW scn, NEW mode, tune_wr_tuning_xml(b, v, scn, mode)
       PROVE  RegInv'
  BY <1>2, <1>10 DEF tune_wr_tuning_xml, Receives
<1>11. ASSUME NEW b, tune_midst_read_cfg(b) PROVE RegInv'
  BY <1>1, <1>3, <1>11, Names DEF tune_midst_read_cfg, Receives, ghosts
<1>12. ASSUME NEW b, tune_rd_tuning_xml(b) PROVE RegInv'
  BY <1>2, <1>12 DEF tune_rd_tuning_xml, Receives, ghosts
<1>13. CASE Visit
  <2>1. answer.cmd # "rd_reg" BY <1>13 DEF Visit, RegInv
  <2>2. CASE CallThroughNull BY <2>2, RegRestarts DEF CallThroughNull
  <2>3. CASE ~CallThroughNull
    <3>1. UNCHANGED <<tool, regs, lastw, slp_ltm, fresh, answer>>
      BY <1>13, <2>3 DEF Visit, ghosts
    <3>2. job'.cmd = job.cmd
      <4>1. \/ job' = [job EXCEPT !.todo = Tail(@)] \/ job' = [job EXCEPT !.saving = TRUE]
            \/ job' = [job EXCEPT !.hung = TRUE]
        BY <1>13, <2>3 DEF Visit
      <4>. QED BY <4>1, <1>0
    <3>. QED BY <2>1, <3>1, <3>2, <1>1, <1>3
  <2>. QED BY <2>2, <2>3
<1>14. CASE Saved
  <2>1. answer.cmd # "rd_reg" BY <1>14 DEF Saved, RegInv
  <2>2. job'.cmd = job.cmd BY <1>14, <1>0 DEF Saved
  <2>. QED BY <2>1, <2>2, <1>1, <1>3, <1>14 DEF Saved, ghosts
<1>15. CASE Answer
  <2>1. job' = Idle /\ UNCHANGED <<tool, regs, lastw, slp_ltm, fresh>>
    BY <1>15 DEF Answer, ghosts
  <2>2. answer'.cmd # "rd_reg" BY <1>3, <1>15, Names DEF Answer
  <2>3. job'.cmd # "rd_reg" BY <2>1 DEF Idle
  <2>. QED BY <2>1, <2>2, <2>3, <1>1
<1>16. CASE Kill BY <1>16, RegRestarts DEF Kill
<1>17. CASE UNCHANGED vars
  <2>1. UNCHANGED <<tool, regs, lastw, slp_ltm, fresh, answer, job, ctx>>
    BY <1>17 DEF vars, ghosts
  <2>. QED BY <2>1 DEF RegInv, RegReadBack, Reg, Has, Core
<1>18. ASSUME NEW b \in tool.blocks, tune_rd_tuning_reg(b) PROVE RegInv'
  BY <1>0, <1>18, ReadStep
<1>19. ASSUME NEW b \in tool.blocks, NEW v \in tool.values, NEW en \in {0, 1},
              tune_wr_tuning_reg(b, v, en)
       PROVE  RegInv'
  BY <1>0, <1>19, WriteStep
<1>. QED BY <1>4, <1>5, <1>6, <1>7, <1>8, <1>9, <1>10, <1>11, <1>12, <1>13, <1>14, <1>15,
            <1>16, <1>17, <1>18, <1>19 DEF Next

\* tune_rd_tuning_reg() answers what was last written to each group of
\* registers, whichever of the blocks that share it wrote it and whatever
\* happened in between; r4p0's CMS spoils ABC's part only if it did not read
\* the registers since.
THEOREM RegistersReadBack == Spec => []RegReadBack
<1>1. Init => RegInv
  <2>. SUFFICES ASSUME Init PROVE RegInv OBVIOUS
  <2>1. job.cmd = "none" /\ answer.cmd = "none" BY Names DEF Init, Idle
  <2>2. (\A u \in Units : lastw[u] = Any) /\ fresh = FALSE BY DEF Init
  <2>. QED BY <2>1, <2>2 DEF RegInv, RegReadBack
<1>2. RegInv => RegReadBack BY DEF RegInv
<1>. QED BY <1>1, <1>2, JunkInit, JunkStep, RegStep, PTL DEF Spec

-----------------------------------------------------------------------------
(* Files *)

\* The parameters of a block in ctx or in what was sent, and in a file.
CellOf(b, c) ==
  /\ {"live", "rest", "major", "enable", "scn", "slpblMode"} \subseteq DOMAIN c
  /\ c.scn \in Seq(Nat) /\ (b # "abc" => c.scn = <<>>) /\ c.slpblMode \in {1, 2}
FileOf(b, f) ==
  /\ {"live", "rest", "major", "scn"} \subseteq DOMAIN f
  /\ f.scn \in Seq(Nat) /\ (b # "abc" => f.scn = <<>>)

\* Two that hold the same for the picture mode, for the rest and for scenes.
Alike(x, y) == x.live = y.live /\ x.rest = y.rest /\ x.scn = y.scn

PartsInv ==
  /\ DOMAIN sent = Blocks /\ DOMAIN want = Blocks
  /\ \A b \in Blocks : /\ CellOf(b, ctx[b]) /\ CellOf(b, sent[b])
                       /\ FileOf(b, file[b])

\* A known file holds what it was made to hold; no file loses its version.
StoredInv ==
  \A b \in Blocks :
    /\ file[b].major = want[b].major
    /\ b \in known => /\ file[b].live = want[b].live /\ file[b].rest = want[b].rest
                      /\ want[b].scn # <<Any>> => file[b].scn = want[b].scn

\* ctx holds of a loaded block what the file holds.
LoadedInv ==
  /\ loaded \subseteq Blocks
  /\ \A b \in loaded : /\ Alike(ctx[b], file[b])
                       /\ tool.ver # "r2p0" => ctx[b].major = file[b].major

\* ctx holds of a block what was sent for it.
AsSent(b) == Alike(ctx[b], sent[b]) /\ ctx[b].slpblMode = sent[b].slpblMode

\* So it is of the pieces that were laid where they belong, unless something
\* came in between ...
PlacedInv ==
  offset = pieces => \A i \in 1 .. offset : \A b \in Piece[i] \ mixed : AsSent(b)

\* ... and of the blocks that a command has still to store.
TodoInv ==
  job.method = "update_xml" =>
    \A i \in 1 .. Len(job.todo) : job.todo[i] \in mixed \/ AsSent(job.todo[i])

\* A known file is whole, or is the one that is being written.
TornInv == \A b \in torn \cap known : job.saving /\ b = Head(job.todo)

\* A command on files has no answer yet; one that reads a file has loaded it
\* once it was visited, unless the file was not whole.
ReadInv ==
  /\ "block" \in DOMAIN job /\ job.cmd # "midst_read"
  /\ job.todo # <<>> => answer.cmd = "none"
  /\ job.cmd = "rd_xml" =>
       /\ job.block \in Blocks /\ job.method = "parse_xml"
       /\ \/ job.todo = <<job.block>> /\ (job.saving => job.block \in loaded)
          \/ job.todo = <<>> /\ (job.block \in loaded \/ job.block \notin known)

\* What was read from a known file is what the file was made to hold.
AnswerInv ==
  LET b == answer.block  a == answer.cell  w == want[answer.block] IN
    /\ answer.cmd = "rd_xml" \/ (answer.cmd = "midst_read" /\ b \in loaded)
    /\ b \in known
    => /\ a.live = w.live /\ a.rest = w.rest
       /\ tool.ver # "r2p0" => a.major = w.major
       /\ w.scn # <<Any>> => a.scn = w.scn

BackInv ==
  /\ PartsInv /\ StoredInv /\ LoadedInv /\ PlacedInv /\ TodoInv /\ TornInv
  /\ ReadInv /\ AnswerInv

\* Which parts the parsers of a version read and store, with c as abc's part
\* of ctx.
LEMMA CoreFiles ==
  ASSUME NEW ver \in Versions, NEW c
  PROVE  LET core == pq_create_TuneCore(ver, c)
         IN \A b \in DOMAIN core :
              /\ ver # "r2p0" => "major" \in core[b].parse
              /\ b = "abc" => "scn" \in core[b].parse
              /\ {"live", "rest"} \subseteq core[b].update /\ "major" \notin core[b].update
              /\ "scn" \in core[b].update <=>
                   b = "abc" /\ (ver = "r4p0" \/ c.slpblMode = 1)
<1>. DEFINE core == pq_create_TuneCore(ver, c)
            P(k) == \A b \in DOMAIN k :
              /\ ver # "r2p0" => "major" \in k[b].parse
              /\ b = "abc" => "scn" \in k[b].parse
              /\ {"live", "rest"} \subseteq k[b].update /\ "major" \notin k[b].update
              /\ "scn" \in k[b].update <=>
                   b = "abc" /\ (ver = "r4p0" \/ c.slpblMode = 1)
<1>1. CASE ver = "r2p0"
  <2>1. core = PQTuneCore(c) BY <1>1 DEF pq_create_TuneCore
  <2>2. P(PQTuneCore(c))
    BY <1>1 DEF PQTuneCore, GammaParser_parse, BldParser_parse, CmsParser_parse,
                AbcParser_parse, GammaParser_update, BldParser_update, CmsParser_update,
                AbcParser_update
  <2>. QED BY <2>1, <2>2
<1>2. CASE ver = "lite-r2p0"
  <2>1. core = PQTuneCoreLiteR2p0(c) BY <1>2 DEF pq_create_TuneCore
  <2>2. P(PQTuneCoreLiteR2p0(c))
    BY <1>2 DEF PQTuneCoreLiteR2p0, GammaParserLiteR2p0_parse, BldParserLiteR2p0_parse,
                CmsParserLiteR2p0_parse, AbcParserLiteR2p0_parse,
                GammaParserLiteR2p0_update, BldParserLiteR2p0_update,
                CmsParserLiteR2p0_update, AbcParserLiteR2p0_update
  <2>. QED BY <2>1, <2>2
<1>3. CASE ver = "r3p0"
  <2>1. core = PQTuneCoreR3p0(c) BY <1>3 DEF pq_create_TuneCore
  <2>2. P(PQTuneCoreR3p0(c))
    BY <1>3 DEF PQTuneCoreR3p0, PQTuneCoreLiteR2p0, GammaParserLiteR2p0_parse,
                BldParserLiteR2p0_parse, CmsParserLiteR2p0_parse, AbcParserR3p0_parse,
                GammaParserLiteR2p0_update, BldParserLiteR2p0_update,
                CmsParserLiteR2p0_update, AbcParserR3p0_update
  <2>. QED BY <2>1, <2>2
<1>4. CASE ver = "r4p0"
  <2>1. core = PQTuneCoreR4p0(c) BY <1>4 DEF pq_create_TuneCore
  <2>2. P(PQTuneCoreR4p0(c))
    BY <1>4 DEF PQTuneCoreR4p0, PQTuneCoreLiteR2p0, GammaParserLiteR2p0_parse,
                BldParserLiteR2p0_parse, CmsParserR4p0_parse, AbcParserR4p0_parse,
                HsvParser_parse, GammaParserLiteR2p0_update, BldParserLiteR2p0_update,
                CmsParserR4p0_update, AbcParserR4p0_update, HsvParser_update
  <2>. QED BY <2>1, <2>2
<1>. QED BY <1>1, <1>2, <1>3, <1>4 DEF Versions

\* update_slp_mapping_table() makes a list of scenes that have items into any
\* other.
LEMMA ResizeFits ==
  ASSUME NEW old \in Seq(Nat), NEW new \in Seq(Nat), Regular(old), Regular(new)
  PROVE  Resize(old, new) = new
<1>. DEFINE kept == IF Len(old) < Len(new) THEN Len(old) ELSE Len(new)
            head == [j \in 1 .. kept |-> IF old[j] = 0 THEN 0
                                         ELSE IF new[j] = 0 THEN 1 ELSE new[j]]
            tail == SubSeq(new, kept + 1, Len(new))
<1>1. kept \in Nat /\ kept <= Len(new) /\ kept <= Len(old) /\ Len(new) \in Nat OBVIOUS
<1>2. \A j \in 1 .. kept : head[j] = new[j] BY <1>1 DEF Regular
<1>3. head \in Seq(Nat) /\ Len(head) = kept
  <2>1. \A j \in 1 .. kept : head[j] \in Nat BY <1>1, <1>2
  <2>2. head \in [1 .. kept -> Nat] BY <2>1
  <2>. QED BY <1>1, <2>2
<1>4. tail \in Seq(Nat) /\ Len(tail) = Len(new) - kept
      /\ \A j \in 1 .. Len(tail) : tail[j] = new[kept + j]
  <2>. HIDE DEF kept
  <2>1. \A j \in (kept + 1) .. Len(new) : new[j] \in Nat BY <1>1
  <2>. QED BY <2>1, <1>1, SubSeqProperties
<1>. DEFINE all == head \o tail
<1>. HIDE DEF head, tail, kept
<1>5. /\ all \in Seq(Nat) /\ Len(all) = Len(head) + Len(tail)
      /\ \A j \in 1 .. Len(head) + Len(tail) :
           all[j] = IF j <= Len(head) THEN head[j] ELSE tail[j - Len(head)]
  BY <1>3, <1>4, ConcatProperties
<1>. HIDE DEF all
<1>6. Len(all) = Len(new) BY <1>1, <1>3, <1>4, <1>5
<1>7. ASSUME NEW j \in 1 .. Len(new) PROVE all[j] = new[j]
  <2>1. CASE j <= kept BY <2>1, <1>1, <1>2, <1>3, <1>4, <1>5
  <2>2. CASE j > kept
    <3>1. j - kept \in 1 .. Len(tail) /\ kept + (j - kept) = j BY <2>2, <1>1, <1>4
    <3>2. all[j] = tail[j - kept] BY <2>2, <3>1, <1>1, <1>3, <1>4, <1>5
    <3>. QED BY <3>1, <3>2, <1>4
  <2>. QED BY <2>1, <2>2, <1>1
<1>8. all = new BY <1>5, <1>6, <1>7, SeqEqual
<1>. QED BY <1>8 DEF Resize, all, head, tail, kept

\* The list it makes is one of numbers, whatever there was.
LEMMA ResizeSeq ==
  ASSUME NEW old \in Seq(Nat), NEW new \in Seq(Nat)
  PROVE  Resize(old, new) \in Seq(Nat)
<1>. DEFINE kept == IF Len(old) < Len(new) THEN Len(old) ELSE Len(new)
            head == [j \in 1 .. kept |-> IF old[j] = 0 THEN 0
                                         ELSE IF new[j] = 0 THEN 1 ELSE new[j]]
            tail == SubSeq(new, kept + 1, Len(new))
<1>1. kept \in Nat /\ kept <= Len(new) OBVIOUS
<1>2. head \in [1 .. kept -> Nat] BY <1>1
<1>3. head \in Seq(Nat) BY <1>1, <1>2
<1>4. tail \in Seq(Nat) BY <1>1
<1>. HIDE DEF head, tail
<1>5. head \o tail \in Seq(Nat) BY <1>3, <1>4
<1>. QED BY <1>5 DEF Resize, head, tail

\* What parse_xml makes of a block in ctx.
LEMMA ParsedAlike ==
  ASSUME JunkInv, BackInv, NEW b \in Blocks, b \in Has
  PROVE  LET p == Parsed(b)
         IN /\ CellOf(b, p) /\ Alike(p, file[b])
            /\ tool.ver # "r2p0" => p.major = file[b].major
<1>. DEFINE p == Parsed(b)  set == Core[b].parse
<1>0. tool.ver \in Versions BY PQTuneAssumption DEF JunkInv, ShapeInv
<1>1. (tool.ver # "r2p0" => "major" \in set) /\ (b = "abc" => "scn" \in set)
  BY <1>0, CoreFiles DEF Has, Core
<1>2. CellOf(b, ctx[b]) /\ FileOf(b, file[b]) BY DEF BackInv, PartsInv
<1>3. /\ DOMAIN p = DOMAIN ctx[b] /\ p.live = file[b].live /\ p.rest = file[b].rest
      /\ p.major = (IF "major" \in set THEN file[b].major ELSE ctx[b].major)
      /\ p.scn = (IF "scn" \in set THEN file[b].scn ELSE ctx[b].scn)
      /\ p.slpblMode = ctx[b].slpblMode
  BY <1>2 DEF Parsed, CellOf
<1>. HIDE DEF p, set
<1>4. p.scn = file[b].scn BY <1>1, <1>2, <1>3 DEF CellOf, FileOf
<1>. QED BY <1>1, <1>2, <1>3, <1>4 DEF p, CellOf, FileOf, Alike

\* What update_xml makes of the file of a block: as it should be, if ctx holds
\* what was sent.
LEMMA UpdatedStored ==
  ASSUME JunkInv, BackInv, NEW b \in Blocks, b \in Has
  PROVE  LET f == Updated(b, ctx[b])  w == Stored(b, sent[b])
         IN /\ FileOf(b, f) /\ f.major = w.major
            /\ AsSent(b) => /\ f.live = w.live /\ f.rest = w.rest
                            /\ w.scn # <<Any>> => f.scn = w.scn
<1>. DEFINE c == ctx[b]  s == sent[b]  set == Core[b].update
            f == Updated(b, c)  w == Stored(b, s)
<1>0. tool.ver \in Versions BY PQTuneAssumption DEF JunkInv, ShapeInv
<1>1. /\ {"live", "rest"} \subseteq set /\ "major" \notin set
      /\ "scn" \in set <=> b = "abc" /\ (tool.ver = "r4p0" \/ ctx.abc.slpblMode = 1)
  BY <1>0, CoreFiles DEF Has, Core
<1>2. CellOf(b, c) /\ CellOf(b, s) /\ FileOf(b, file[b]) BY DEF BackInv, PartsInv
<1>3. /\ DOMAIN f = DOMAIN file[b] /\ f.live = c.live /\ f.rest = c.rest
      /\ f.major = file[b].major
      /\ f.scn = (IF "scn" \in set THEN Resize(file[b].scn, c.scn) ELSE file[b].scn)
  BY <1>1, <1>2 DEF Updated, FileOf
<1>4. /\ w.live = s.live /\ w.rest = s.rest /\ w.major = want[b].major
      /\ w.scn = CASE b # "abc" -> <<>>
                   [] b = "abc" /\ s.slpblMode = 2 /\ tool.ver # "r4p0" ->
                        IF b \in known THEN want[b].scn ELSE <<Any>>
                   [] OTHER -> IF Regular(file[b].scn) /\ Regular(s.scn)
                               THEN s.scn ELSE <<Any>>
  BY DEF Stored
<1>5. file[b].major = want[b].major
      /\ (b \in known => (want[b].scn # <<Any>> => file[b].scn = want[b].scn))
  BY DEF BackInv, StoredInv
<1>6. FileOf(b, f)
  <2>1. Resize(file[b].scn, c.scn) \in Seq(Nat) BY <1>2, ResizeSeq DEF CellOf, FileOf
  <2>. HIDE DEF f, set
  <2>. QED BY <1>1, <1>2, <1>3, <2>1 DEF FileOf
<1>7. ASSUME AsSent(b), w.scn # <<Any>> PROVE f.scn = w.scn
  <2>0. c.scn = s.scn /\ c.slpblMode = s.slpblMode BY <1>7 DEF AsSent, Alike
  <2>. HIDE DEF f, set, w
  <2>1. CASE b # "abc" BY <2>1, <1>1, <1>2, <1>3, <1>4 DEF FileOf
  <2>2. CASE b = "abc" /\ s.slpblMode = 2 /\ tool.ver # "r4p0"
    BY <2>0, <2>2, <1>1, <1>3, <1>4, <1>5, <1>7
  <2>3. CASE b = "abc" /\ ~(s.slpblMode = 2 /\ tool.ver # "r4p0")
    <3>1. w.scn = IF Regular(file[b].scn) /\ Regular(s.scn) THEN s.scn ELSE <<Any>>
      BY <2>3, <1>4
    <3>2. Regular(file[b].scn) /\ Regular(s.scn) /\ w.scn = s.scn BY <3>1, <1>7
    <3>3. "scn" \in set BY <2>0, <2>3, <1>1, <1>2 DEF CellOf
    <3>4. Resize(file[b].scn, c.scn) = s.scn
      BY <3>2, <2>0, <1>2, ResizeFits DEF CellOf, FileOf
    <3>. QED BY <3>2, <3>3, <3>4, <1>3
  <2>. QED BY <2>1, <2>2, <2>3
<1>8. AsSent(b) => f.live = w.live /\ f.rest = w.rest BY <1>3, <1>4 DEF AsSent, Alike
<1>. QED BY <1>3, <1>4, <1>5, <1>6, <1>7, <1>8

\* What the tool sends has the parts of a cell, and so has the memory of a
\* new process.
LEMMA Cells ==
  ASSUME tool \in Tools, NEW b \in Blocks
  PROVE  /\ CellOf(b, Fresh(b))
         /\ \A v, en : \A scn \in tool.scenes \cup {<<1>>}, mode \in {1, 2} :
              CellOf(b, Cell(b, v, en, scn, mode))
<1>1. <<1>> \in Seq(Nat) /\ <<>> \in Seq(Nat) OBVIOUS
<1>2. tool.scenes \subseteq Seq(Nat) BY PQTuneAssumption
<1>. DEFINE parts == {"live", "rest", "major", "enable", "scn", "slpblMode"}
<1>3. CellOf(b, Fresh(b))
  <2>1. /\ parts \subseteq DOMAIN Fresh(b) /\ Fresh(b).slpblMode = 1
        /\ Fresh(b).scn = (IF b = "abc" THEN <<1>> ELSE <<>>)
    BY DEF Fresh, Junk
  <2>. QED BY <2>1, <1>1 DEF CellOf
<1>4. ASSUME NEW v, NEW en, NEW scn \in Seq(Nat), NEW mode \in {1, 2}
      PROVE  CellOf(b, Cell(b, v, en, scn, mode))
  <2>. DEFINE c == Cell(b, v, en, scn, mode)
  <2>1. /\ parts \subseteq DOMAIN c /\ c.slpblMode = mode
        /\ c.scn = (IF b = "abc" THEN scn ELSE <<>>)
    BY DEF Cell
  <2>. HIDE DEF c
  <2>2. CellOf(b, c) BY <2>1, <1>1 DEF CellOf
  <2>. QED BY <2>2 DEF c
<1>. QED BY <1>1, <1>2, <1>3, <1>4

\* Nothing is on its way when no file has to be visited.
LEMMA AtRest ==
  ASSUME JunkInv, BackInv, job.todo = <<>>
  PROVE  ~job.saving /\ torn \cap known = {}
BY DEF JunkInv, ShapeInv, BackInv, TornInv

\* Idle and Quiet.
LEMMA IdleIs ==
  /\ "block" \in DOMAIN Idle /\ Idle.cmd = "none" /\ Idle.todo = <<>>
  /\ Idle.saving = FALSE /\ Idle.method = "none" /\ Quiet.cmd = "none"
BY DEF Idle, Quiet

\* A restart loses what ctx holds of the files and the command; a file that
\* was being written is not known any more.
LEMMA BackRestarts ==
  ASSUME JunkInv, BackInv, Restarts, known' \subseteq known \ torn
  PROVE  BackInv'
<1>1. /\ ctx' = [b \in Blocks |-> Fresh(b)] /\ offset' = 0 /\ job' = Idle
      /\ answer' = Quiet /\ loaded' = {}
      /\ UNCHANGED <<tool, file, torn, sent, mixed, want>>
  BY DEF Restarts
<1>2. PartsInv' BY <1>1, Cells DEF BackInv, PartsInv, JunkInv, ShapeInv
<1>3. StoredInv' BY <1>1 DEF BackInv, StoredInv
<1>4. LoadedInv' BY <1>1 DEF LoadedInv
<1>5. PlacedInv' /\ TodoInv' BY <1>1, IdleIs DEF PlacedInv, TodoInv
<1>6. TornInv' BY <1>1 DEF TornInv
<1>7. ReadInv' /\ AnswerInv' BY <1>1, IdleIs DEF ReadInv, AnswerInv
<1>. QED BY <1>2, <1>3, <1>4, <1>5, <1>6, <1>7 DEF BackInv

\* A command, when it arrives: no file is touched, and ctx keeps what it holds
\* of the blocks that stay loaded.
LEMMA BackArrives ==
  ASSUME JunkInv, BackInv, job = Idle, UNCHANGED <<tool, file, torn, want, known>>,
         PartsInv', PlacedInv', TodoInv', ReadInv', loaded' \subseteq loaded,
         \A b \in loaded' : Alike(ctx'[b], ctx[b]) /\ ctx'[b].major = ctx[b].major,
         answer'.cmd \notin {"rd_xml", "midst_read"}
  PROVE  BackInv'
<1>1. StoredInv' BY DEF BackInv, StoredInv
<1>2. LoadedInv' BY DEF BackInv, LoadedInv, Alike
<1>3. TornInv' BY AtRest, IdleIs DEF TornInv
<1>4. AnswerInv' BY DEF AnswerInv
<1>. QED BY <1>1, <1>2, <1>3, <1>4 DEF BackInv

\* No piece is laid; a block is as it was sent, or it is marked as mixed.
LEMMA PlacedKept ==
  ASSUME JunkInv, BackInv, UNCHANGED <<offset, pieces>>,
         \A b \in Blocks \ mixed' :
           AsSent(b)' \/ (b \notin mixed /\ (AsSent(b) => AsSent(b)'))
  PROVE  PlacedInv'
<1>1. offset \in 0 .. 2 BY Pieces DEF JunkInv, ShapeInv
<1>2. ASSUME offset = pieces, NEW i \in 1 .. offset, NEW b \in Piece[i] \ mixed'
      PROVE  AsSent(b)'
  <2>1. b \in Blocks BY <1>1, <1>2, Pieces
  <2>2. b \notin mixed => AsSent(b) BY <1>2 DEF BackInv, PlacedInv
  <2>. QED BY <2>1, <2>2, <1>2
<1>. QED BY <1>2 DEF PlacedInv

\* A command that is through at once has nothing left to do.
LEMMA IdleHolds == job' = Idle => TodoInv' /\ ReadInv'
BY IdleIs DEF TodoInv, ReadInv

\* A command that goes on to files has not loaded any yet.
LEMMA StartHolds ==
  ASSUME NEW cmd, NEW b, NEW method, NEW todo, Start(cmd, b, method, todo),
         cmd # "midst_read", answer' = Quiet,
         cmd = "rd_xml" => b \in Blocks /\ method = "parse_xml" /\ todo = <<b>>
  PROVE  ReadInv' /\ job'.method = method /\ job'.todo = todo
<1>1. job' = [cmd |-> cmd, block |-> b, method |-> method, todo |-> todo,
              saving |-> FALSE, hung |-> FALSE]
  BY DEF Start
<1>. QED BY <1>1, IdleIs DEF ReadInv

\* parse_reg() changes one block, and leaves it a cell.
LEMMA RegCells ==
  ASSUME JunkInv, BackInv, NEW b \in Blocks
  PROVE  /\ DOMAIN parse_reg(b) = Blocks
         /\ \A d \in Blocks : CellOf(d, parse_reg(b)[d])
         /\ \A d \in Blocks \ {b} : parse_reg(b)[d] = ctx[d]
<1>. DEFINE l == [u \in Units |-> IF u \in Reg(b) THEN regs[u] ELSE ctx[b].live[u]]
            n == [ctx[b] EXCEPT !.live = l]
<1>1. parse_reg(b) = [ctx EXCEPT ![b] = n] BY DEF parse_reg
<1>2. DOMAIN ctx = Blocks /\ \A d \in Blocks : CellOf(d, ctx[d])
  BY DEF JunkInv, ShapeInv, BackInv, PartsInv
<1>3. CellOf(b, n) BY <1>2 DEF CellOf
<1>. HIDE DEF n
<1>. QED BY <1>1, <1>2, <1>3

\* tune_modules_enable() leaves every block's parameters alone.
LEMMA EnableCells ==
  ASSUME JunkInv, BackInv, NEW st
  PROVE  LET c == tune_modules_enable(st)
         IN /\ DOMAIN c = Blocks
            /\ \A b \in Blocks : /\ CellOf(b, c[b]) /\ Alike(c[b], ctx[b])
                                 /\ c[b].major = ctx[b].major
                                 /\ c[b].slpblMode = ctx[b].slpblMode
<1>. DEFINE c == tune_modules_enable(st)
<1>1. DOMAIN c = Blocks BY DEF tune_modules_enable
<1>2. ASSUME NEW b \in Blocks
      PROVE  /\ CellOf(b, c[b]) /\ Alike(c[b], ctx[b]) /\ c[b].major = ctx[b].major
             /\ c[b].slpblMode = ctx[b].slpblMode
  <2>1. c[b] \in {ctx[b], [ctx[b] EXCEPT !.enable = 0], [ctx[b] EXCEPT !.enable = 1]}
    BY DEF tune_modules_enable
  <2>2. CellOf(b, ctx[b]) BY DEF BackInv, PartsInv
  <2>. HIDE DEF c
  <2>. QED BY <2>1, <2>2 DEF CellOf, Alike
<1>. QED BY <1>1, <1>2

\* What a loaded and known block has in ctx is what its file was made to hold.
LEMMA LoadedIsWanted ==
  ASSUME BackInv, NEW b \in loaded, b \in known
  PROVE  /\ ctx[b].live = want[b].live /\ ctx[b].rest = want[b].rest
         /\ tool.ver # "r2p0" => ctx[b].major = want[b].major
         /\ want[b].scn # <<Any>> => ctx[b].scn = want[b].scn
BY DEF BackInv, LoadedInv, StoredInv, Alike

\* tune_rd_tuning_reg().
LEMMA BackRdReg ==
  ASSUME JunkInv, BackInv, NEW b \in Blocks, tune_rd_tuning_reg(b)
  PROVE  BackInv'
<1>0. job = Idle BY DEF tune_rd_tuning_reg, Receives
<1>1. CASE b \notin Has
  <2>1. Restarts /\ known' = known
    BY <1>1 DEF tune_rd_tuning_reg, CallThroughNull
  <2>. QED BY <2>1, <1>0, IdleIs, AtRest, BackRestarts
<1>2. CASE b \in Has
  <2>1. /\ ctx' = parse_reg(b) /\ answer' = Reply("rd_reg", b, ctx')
        /\ mixed' = mixed \cup {b} /\ loaded' = loaded \ {b}
        /\ UNCHANGED <<tool, file, torn, sent, want, known, job, offset, pieces>>
    BY <1>2 DEF tune_rd_tuning_reg, Receives
  <2>2. PartsInv' BY <2>1, RegCells DEF BackInv, PartsInv
  <2>3. PlacedInv' BY <2>1, RegCells, PlacedKept DEF AsSent
  <2>4. TodoInv' /\ ReadInv' BY <2>1, <1>0, IdleHolds
  <2>5. \A d \in loaded' : Alike(ctx'[d], ctx[d]) /\ ctx'[d].major = ctx[d].major
    BY <2>1, RegCells DEF Alike, BackInv, LoadedInv
  <2>. QED BY <2>1, <2>2, <2>3, <2>4, <2>5, <1>0, BackArrives, Names
<1>. QED BY <1>1, <1>2

\* tune_wr_tuning_reg().
LEMMA BackWrReg ==
  ASSUME JunkInv, BackInv, NEW b \in Blocks, NEW v, NEW en, tune_wr_tuning_reg(b, v, en)
  PROVE  BackInv'
<1>0. job = Idle BY DEF tune_wr_tuning_reg, Receives
<1>1. CASE b \notin Has
  <2>1. Restarts /\ known' = known
    BY <1>1 DEF tune_wr_tuning_reg, CallThroughNull
  <2>. QED BY <2>1, <1>0, IdleIs, AtRest, BackRestarts
<1>2. CASE b \in Has
  <2>. DEFINE c == Cell(b, v, en, <<1>>, 1)
  <2>1. /\ ctx' = [ctx EXCEPT ![b] = c] /\ answer' = Done("wr_reg", 0)
        /\ mixed' = mixed \cup {b} /\ loaded' = loaded \ {b}
        /\ UNCHANGED <<tool, file, torn, sent, want, known, job, offset, pieces>>
    BY <1>2 DEF tune_wr_tuning_reg, Receives
  <2>2. CellOf(b, c) BY Cells DEF JunkInv, ShapeInv
  <2>. HIDE DEF c
  <2>3. DOMAIN ctx = Blocks BY DEF JunkInv, ShapeInv
  <2>4. \A d \in Blocks \ {b} : ctx'[d] = ctx[d] BY <2>1, <2>3
  <2>5. PartsInv' BY <2>1, <2>2, <2>3 DEF BackInv, PartsInv
  <2>6. PlacedInv' BY <2>1, <2>4, PlacedKept DEF AsSent
  <2>7. TodoInv' /\ ReadInv' BY <2>1, <1>0, IdleHolds
  <2>8. \A d \in loaded' : Alike(ctx'[d], ctx[d]) /\ ctx'[d].major = ctx[d].major
    BY <2>1, <2>4 DEF Alike, BackInv, LoadedInv
  <2>. QED BY <2>1, <2>5, <2>6, <2>7, <2>8, <1>0, BackArrives, Names
<1>. QED BY <1>1, <1>2

\* tune_midst_write_cfg(): offset and pieces agree only if every piece since
\* tune_start_write_cfg() was laid by this process, and so where it belongs.
LEMMA BackMidst ==
  ASSUME JunkInv, BackInv, NEW v, NEW scn \in tool.scenes, NEW mode \in {1, 2},
         tune_midst_write_cfg(v, scn, mode)
  PROVE  BackInv'
<1>. DEFINE p(b) == Cell(b, v, 1, scn, mode)
            own == Piece[offset + 1]  told == Piece[pieces + 1]
<1>1. /\ job = Idle /\ UNCHANGED <<tool, file, torn, want, known, job>>
      /\ ctx' = [b \in Blocks |-> IF b \in own THEN p(b) ELSE ctx[b]]
      /\ sent' = [b \in Blocks |-> IF b \in told THEN p(b) ELSE sent[b]]
      /\ mixed' = mixed \ told /\ loaded' = loaded \ own
      /\ offset' = offset + 1 /\ pieces' = pieces + 1 /\ pieces < tune_sizes
      /\ answer' = Done("midst_write", 0)
  BY DEF tune_midst_write_cfg, Receives
<1>2. \A b \in Blocks : CellOf(b, p(b)) BY Cells DEF JunkInv, ShapeInv
<1>. HIDE DEF p
<1>3. PartsInv' BY <1>1, <1>2 DEF BackInv, PartsInv
<1>4. offset \in 0 .. 2 /\ pieces \in 0 .. 1 /\ offset <= pieces
  BY <1>1, Pieces DEF JunkInv, ShapeInv
<1>5. ASSUME offset' = pieces', NEW i \in 1 .. offset', NEW b \in Piece[i] \ mixed'
      PROVE  AsSent(b)'
  <2>1. offset = pieces /\ own = told BY <1>1, <1>4, <1>5
  <2>2. i \in 1 .. 2 /\ b \in Blocks BY <1>1, <1>4, <1>5, Pieces
  <2>3. CASE b \in own BY <2>1, <2>2, <2>3, <1>1, <1>2 DEF AsSent, Alike
  <2>4. CASE b \notin own
    <3>1. i \in 1 .. offset BY <2>4, <2>2, <1>1, <1>4, <1>5
    <3>2. b \notin mixed BY <2>1, <2>4, <1>1, <1>5
    <3>3. AsSent(b) BY <3>1, <3>2, <2>1, <1>5 DEF BackInv, PlacedInv
    <3>. QED BY <3>3, <2>1, <2>2, <2>4, <1>1 DEF AsSent
  <2>. QED BY <2>3, <2>4
<1>6. PlacedInv' BY <1>5 DEF PlacedInv
<1>7. TodoInv' /\ ReadInv' BY <1>1, IdleHolds
<1>8. \A d \in loaded' : Alike(ctx'[d], ctx[d]) /\ ctx'[d].major = ctx[d].major
  BY <1>1 DEF Alike, BackInv, LoadedInv
<1>. QED BY <1>1, <1>3, <1>6, <1>7, <1>8, BackArrives, Names

\* tune_wr_tuning_xml(): what is to be stored is what was sent.
LEMMA BackWrXml ==
  ASSUME JunkInv, BackInv, NEW b \in Blocks, NEW v, NEW scn \in tool.scenes,
         NEW mode \in {1, 2}, tune_wr_tuning_xml(b, v, scn, mode)
  PROVE  BackInv'
<1>. DEFINE c == Cell(b, v, 1, scn, mode)
<1>1. /\ job = Idle /\ UNCHANGED <<tool, file, torn, want, known, offset, pieces>>
      /\ ctx' = [ctx EXCEPT ![b] = c] /\ sent' = [sent EXCEPT ![b] = c]
      /\ Start("wr_xml", b, "update_xml", <<b>>) /\ answer' = Quiet
      /\ mixed' = mixed \ {b} /\ loaded' = loaded \ {b}
  BY DEF tune_wr_tuning_xml, Receives
<1>2. CellOf(b, c) BY Cells DEF JunkInv, ShapeInv
<1>. HIDE DEF c
<1>3. DOMAIN ctx = Blocks /\ DOMAIN sent = Blocks
  BY DEF JunkInv, ShapeInv, BackInv, PartsInv
<1>4. /\ \A d \in Blocks \ {b} : ctx'[d] = ctx[d] /\ sent'[d] = sent[d]
      /\ ctx'[b] = c /\ sent'[b] = c
  BY <1>1, <1>3
<1>5. PartsInv' BY <1>1, <1>2, <1>3 DEF BackInv, PartsInv
<1>6. AsSent(b)' BY <1>4 DEF AsSent, Alike
<1>7. PlacedInv'
  <2>1. \A d \in Blocks \ mixed' :
          AsSent(d)' \/ (d \notin mixed /\ (AsSent(d) => AsSent(d)'))
    BY <1>1, <1>4, <1>6 DEF AsSent
  <2>. QED BY <2>1, <1>1, PlacedKept
<1>8. ReadInv' /\ job'.method = "update_xml" /\ job'.todo = <<b>>
  BY <1>1, StartHolds
<1>9. TodoInv' BY <1>6, <1>8 DEF TodoInv
<1>10. \A d \in loaded' : Alike(ctx'[d], ctx[d]) /\ ctx'[d].major = ctx[d].major
  BY <1>1, <1>4 DEF Alike, BackInv, LoadedInv
<1>. QED BY <1>1, <1>5, <1>7, <1>8, <1>9, <1>10, BackArrives, IdleIs

\* tune_end_write_cfg(): offset at its end says that every piece was laid
\* where it belongs.
LEMMA BackEndWrite == JunkInv /\ BackInv /\ tune_end_write_cfg => BackInv'
<1>. SUFFICES ASSUME JunkInv, BackInv, tune_end_write_cfg PROVE BackInv' OBVIOUS
<1>1. /\ job = Idle
      /\ UNCHANGED <<tool, ctx, sent, file, torn, want, known, offset, pieces, mixed, loaded>>
  BY DEF tune_end_write_cfg, Receives, ghosts
<1>2. PartsInv' BY <1>1 DEF BackInv, PartsInv
<1>3. PlacedInv' BY <1>1 DEF BackInv, PlacedInv, AsSent
<1>4. \A d \in loaded' : Alike(ctx'[d], ctx[d]) /\ ctx'[d].major = ctx[d].major
  BY <1>1 DEF Alike
<1>5. CASE offset = tune_sizes
  <2>1. Start("end_write", "none", "update_xml", Order) /\ answer' = Quiet
    BY <1>5 DEF tune_end_write_cfg
  <2>2. ReadInv' /\ job'.method = "update_xml" /\ job'.todo = Order
    BY <2>1, StartHolds
  <2>3. offset = 2 /\ pieces = 2 BY <1>5, Pieces DEF JunkInv, ShapeInv
  <2>4. \A b \in Blocks : b \in mixed \/ AsSent(b)
    BY <2>3, AllPieces DEF BackInv, PlacedInv
  <2>5. \A i \in 1 .. Len(Order) : Order[i] \in Blocks BY DEF Order, Blocks
  <2>6. TodoInv' BY <2>2, <2>4, <2>5, <1>1 DEF TodoInv, AsSent
  <2>. QED BY <2>1, <2>2, <2>6, <1>1, <1>2, <1>3, <1>4, BackArrives, IdleIs
<1>6. CASE offset # tune_sizes
  <2>1. answer' = Done("end_write", 1) /\ job' = job BY <1>6 DEF tune_end_write_cfg
  <2>2. TodoInv' /\ ReadInv' BY <2>1, <1>1, IdleHolds
  <2>. QED BY <2>1, <2>2, <1>1, <1>2, <1>3, <1>4, BackArrives, Names
<1>. QED BY <1>5, <1>6

\* The rest of a queue of blocks.
LEMMA Rest ==
  ASSUME NEW s \in Seq(Blocks), s # <<>>
  PROVE  /\ Head(s) \in Blocks /\ Head(s) = s[1] /\ 1 \in 1 .. Len(s)
         /\ \A i \in 1 .. Len(Tail(s)) : Tail(s)[i] = s[i + 1] /\ i + 1 \in 1 .. Len(s)
         /\ \A b \in Blocks : s = <<b>> => Head(s) = b /\ Tail(s) = <<>>
<1>1. Head(s) \in Blocks /\ Head(s) = s[1] /\ 1 \in 1 .. Len(s) OBVIOUS
<1>2. \A i \in 1 .. Len(Tail(s)) : Tail(s)[i] = s[i + 1] /\ i + 1 \in 1 .. Len(s) OBVIOUS
<1>3. ASSUME NEW b \in Blocks, s = <<b>> PROVE Head(s) = b /\ Tail(s) = <<>> BY <1>3
<1>. QED BY <1>1, <1>2, <1>3

\* One part of the command's state changes.
LEMMA JobParts ==
  ASSUME JunkInv, BackInv
  PROVE  /\ \A t : LET j == [job EXCEPT !.todo = t]
                   IN DOMAIN j = DOMAIN job /\ j.cmd = job.cmd /\ j.block = job.block
                      /\ j.method = job.method /\ j.todo = t /\ j.saving = job.saving
         /\ LET j == [job EXCEPT !.saving = TRUE]
            IN DOMAIN j = DOMAIN job /\ j.cmd = job.cmd /\ j.block = job.block
               /\ j.method = job.method /\ j.todo = job.todo /\ j.saving
         /\ LET j == [job EXCEPT !.hung = TRUE]
            IN DOMAIN j = DOMAIN job /\ j.cmd = job.cmd /\ j.block = job.block
               /\ j.method = job.method /\ j.todo = job.todo /\ j.saving = job.saving
         /\ \A t : LET j == [job EXCEPT !.todo = t, !.saving = FALSE]
                   IN DOMAIN j = DOMAIN job /\ j.cmd = job.cmd /\ j.block = job.block
                      /\ j.method = job.method /\ j.todo = t /\ ~j.saving
BY DEF JunkInv, ShapeInv, BackInv, ReadInv

\* A step of a command on files that only passes the next file: it was not
\* whole, or it has just been saved.
LEMMA BackPasses ==
  ASSUME JunkInv, BackInv, job.todo # <<>>,
         UNCHANGED <<tool, ctx, file, answer, sent, want, known, mixed, loaded, offset, pieces>>,
         DOMAIN job' = DOMAIN job, job'.cmd = job.cmd, job'.block = job.block,
         job'.method = job.method, job'.todo = Tail(job.todo), ~job'.saving,
         torn' \cap known = {},
         Head(job.todo) \in known => job.saving
  PROVE  BackInv'
<1>0. job.todo \in Seq(Blocks) BY DEF JunkInv, ShapeInv
<1>1. PartsInv' BY DEF BackInv, PartsInv
<1>2. StoredInv' /\ LoadedInv' /\ PlacedInv'
  BY DEF BackInv, StoredInv, LoadedInv, PlacedInv, AsSent
<1>3. TodoInv' BY <1>0, Rest DEF BackInv, TodoInv, AsSent
<1>4. TornInv' BY DEF TornInv
<1>5. answer.cmd = "none" BY DEF BackInv, ReadInv
<1>6. ReadInv'
  <2>1. ASSUME job.cmd = "rd_xml"
        PROVE  /\ job.block \in Blocks /\ job.method = "parse_xml"
               /\ job'.todo = <<>> /\ (job.block \in loaded \/ job.block \notin known)
    <3>1. /\ job.block \in Blocks /\ job.method = "parse_xml"
          /\ job.todo = <<job.block>> /\ (job.saving => job.block \in loaded)
      BY <2>1 DEF BackInv, ReadInv
    <3>2. Head(job.todo) = job.block /\ Tail(job.todo) = <<>> BY <1>0, <3>1, Rest
    <3>. QED BY <3>1, <3>2
  <2>2. "block" \in DOMAIN job /\ job.cmd # "midst_read" BY DEF BackInv, ReadInv
  <2>. QED BY <2>1, <2>2, <1>5 DEF ReadInv
<1>7. AnswerInv' BY <1>5 DEF AnswerInv
<1>. QED BY <1>1, <1>2, <1>3, <1>4, <1>6, <1>7 DEF BackInv

\* parse_xml of the next block.
LEMMA BackParses ==
  ASSUME JunkInv, BackInv, NEW b \in Blocks, b \in Has, job.todo # <<>>,
         b = Head(job.todo), ~job.saving, job.method = "parse_xml",
         ctx' = [ctx EXCEPT ![b] = Parsed(b)], torn' = torn \cup {b},
         job' = [job EXCEPT !.saving = TRUE],
         mixed' = mixed \cup {b}, loaded' = loaded \cup {b},
         UNCHANGED <<tool, file, answer, sent, want, known, offset, pieces>>
  PROVE  BackInv'
<1>. DEFINE p == Parsed(b)
<1>0. /\ CellOf(b, p) /\ Alike(p, file[b])
      /\ tool.ver # "r2p0" => p.major = file[b].major
  BY ParsedAlike
<1>. HIDE DEF p
<1>1. DOMAIN ctx = Blocks /\ job.todo \in Seq(Blocks) BY DEF JunkInv, ShapeInv
<1>2. ctx'[b] = p /\ \A d \in Blocks \ {b} : ctx'[d] = ctx[d] BY <1>1 DEF p
<1>3. PartsInv' BY <1>0, <1>1, <1>2 DEF BackInv, PartsInv, p
<1>4. StoredInv' BY DEF BackInv, StoredInv
<1>5. LoadedInv' BY <1>0, <1>2 DEF BackInv, LoadedInv
<1>6. PlacedInv' BY <1>2, PlacedKept DEF AsSent
<1>7. /\ DOMAIN job' = DOMAIN job /\ job'.cmd = job.cmd /\ job'.block = job.block
      /\ job'.method = job.method /\ job'.todo = job.todo /\ job'.saving
  BY JobParts
<1>8. TodoInv' BY <1>7 DEF TodoInv
<1>9. TornInv' BY <1>7 DEF BackInv, TornInv
<1>10. answer.cmd = "none" BY DEF BackInv, ReadInv
<1>11. ReadInv'
  <2>1. job.cmd = "rd_xml" => job.block \in Blocks /\ job.todo = <<job.block>>
    BY DEF BackInv, ReadInv
  <2>2. job.cmd = "rd_xml" => b = job.block BY <2>1, <1>1, Rest
  <2>3. "block" \in DOMAIN job /\ job.cmd # "midst_read" BY DEF BackInv, ReadInv
  <2>. QED BY <2>1, <2>2, <2>3, <1>7, <1>10 DEF ReadInv
<1>12. AnswerInv' BY <1>10 DEF AnswerInv
<1>. QED BY <1>3, <1>4, <1>5, <1>6, <1>8, <1>9, <1>11, <1>12 DEF BackInv

\* update_xml of the next block: the file gets what was sent, or is not known.
LEMMA BackUpdates ==
  ASSUME JunkInv, BackInv, NEW b \in Blocks, b \in Has, job.todo # <<>>,
         b = Head(job.todo), ~job.saving, job.method = "update_xml",
         file' = [file EXCEPT ![b] = Updated(b, ctx[b])], torn' = torn \cup {b},
         job' = [job EXCEPT !.saving = TRUE],
         want' = [want EXCEPT ![b] = Stored(b, sent[b])],
         known' = (IF b \in mixed THEN known \ {b} ELSE known \cup {b}),
         loaded' = loaded \ {b},
         UNCHANGED <<tool, ctx, answer, sent, mixed, offset, pieces>>
  PROVE  BackInv'
<1>. DEFINE f == Updated(b, ctx[b])  w == Stored(b, sent[b])
<1>0. /\ FileOf(b, f) /\ f.major = w.major
      /\ AsSent(b) => /\ f.live = w.live /\ f.rest = w.rest
                      /\ w.scn # <<Any>> => f.scn = w.scn
  BY UpdatedStored
<1>. HIDE DEF f, w
<1>1. DOMAIN file = Blocks /\ DOMAIN want = Blocks /\ job.todo \in Seq(Blocks)
  BY DEF JunkInv, ShapeInv, BackInv, PartsInv
<1>2. /\ file'[b] = f /\ want'[b] = w
      /\ \A d \in Blocks \ {b} : file'[d] = file[d] /\ want'[d] = want[d]
  BY <1>1 DEF f, w
<1>3. b \in mixed \/ AsSent(b) BY <1>1, Rest DEF BackInv, TodoInv
<1>4. PartsInv' BY <1>0, <1>1, <1>2 DEF BackInv, PartsInv
<1>5. StoredInv' BY <1>0, <1>2, <1>3 DEF BackInv, StoredInv
<1>6. LoadedInv' BY <1>2 DEF BackInv, LoadedInv
<1>7. /\ DOMAIN job' = DOMAIN job /\ job'.cmd = job.cmd /\ job'.block = job.block
      /\ job'.method = job.method /\ job'.todo = job.todo /\ job'.saving
  BY JobParts
<1>8. PlacedInv' /\ TodoInv' BY <1>7 DEF BackInv, PlacedInv, TodoInv, AsSent
<1>9. TornInv' BY <1>7 DEF BackInv, TornInv
<1>10. answer.cmd = "none" BY DEF BackInv, ReadInv
<1>11. ReadInv' BY <1>7, <1>10 DEF BackInv, ReadInv
<1>12. AnswerInv' BY <1>10 DEF AnswerInv
<1>. QED BY <1>4, <1>5, <1>6, <1>8, <1>9, <1>11, <1>12 DEF BackInv

\* The next file is parsed, updated or passed by, or the command hangs, or the
\* process is gone for want of a parser.
LEMMA BackVisit == JunkInv /\ BackInv /\ Visit => BackInv'
<1>. SUFFICES ASSUME JunkInv, BackInv, Visit PROVE BackInv' OBVIOUS
<1>. DEFINE b == Head(job.todo)
<1>1. /\ job.todo # <<>> /\ ~job.saving /\ job.todo \in Seq(Blocks) /\ tool' = tool
  BY DEF Visit, JunkInv, ShapeInv
<1>2. b \in Blocks /\ torn \cap known = {} BY <1>1, Rest DEF BackInv, TornInv
<1>3. CASE b \notin Has /\ CallThroughNull
  BY <1>2, <1>3, BackRestarts DEF CallThroughNull
<1>4. CASE /\ b \in Has \cap torn /\ job' = [job EXCEPT !.todo = Tail(@)]
           /\ UNCHANGED <<ctx, file, torn, regs, slp_ltm, offset, flip_en, noflip, answer,
                          ghosts>>
  <2>1. /\ DOMAIN job' = DOMAIN job /\ job'.cmd = job.cmd /\ job'.block = job.block
        /\ job'.method = job.method /\ job'.todo = Tail(job.todo) /\ ~job'.saving
    BY <1>1, <1>4, JobParts
  <2>2. UNCHANGED <<tool, ctx, file, answer, sent, want, known, mixed, loaded, offset,
                    pieces, torn>>
    BY <1>1, <1>4 DEF ghosts
  <2>. QED BY <2>1, <2>2, <1>1, <1>2, <1>4, BackPasses
<1>5. CASE /\ b \in Has \ torn /\ job.method = "parse_xml"
           /\ ctx' = [ctx EXCEPT ![b] = Parsed(b)]
           /\ torn' = torn \cup {b} /\ job' = [job EXCEPT !.saving = TRUE]
           /\ mixed' = mixed \cup {b} /\ loaded' = loaded \cup {b}
           /\ UNCHANGED <<file, regs, slp_ltm, offset, flip_en, noflip, answer,
                          sent, pieces, want, known, lastw, fresh, shown>>
  BY <1>1, <1>2, <1>5, BackParses
<1>6. CASE /\ b \in Has \ torn /\ job.method = "update_xml" /\ EndlessLoop(b)
           /\ job' = [job EXCEPT !.hung = TRUE]
           /\ UNCHANGED <<ctx, file, torn, regs, slp_ltm, offset, flip_en, noflip, answer,
                          ghosts>>
  <2>1. /\ DOMAIN job' = DOMAIN job /\ job'.cmd = job.cmd /\ job'.block = job.block
        /\ job'.method = job.method /\ job'.todo = job.todo /\ job'.saving = job.saving
    BY <1>6, JobParts
  <2>2. UNCHANGED <<tool, ctx, file, answer, sent, want, known, mixed, loaded, offset,
                    pieces, torn>>
    BY <1>1, <1>6 DEF ghosts
  <2>3. PartsInv' /\ StoredInv' /\ LoadedInv' /\ PlacedInv'
    BY <2>2 DEF BackInv, PartsInv, StoredInv, LoadedInv, PlacedInv, AsSent
  <2>4. TodoInv' BY <2>1, <2>2 DEF BackInv, TodoInv, AsSent
  <2>5. TornInv' BY <2>1, <2>2 DEF BackInv, TornInv
  <2>6. ReadInv' BY <2>1, <2>2 DEF BackInv, ReadInv
  <2>7. AnswerInv' BY <2>2 DEF BackInv, AnswerInv
  <2>. QED BY <2>3, <2>4, <2>5, <2>6, <2>7 DEF BackInv
<1>7. CASE /\ b \in Has \ torn /\ job.method = "update_xml" /\ ~EndlessLoop(b)
           /\ file' = [file EXCEPT ![b] = Updated(b, ctx[b])]
           /\ torn' = torn \cup {b} /\ job' = [job EXCEPT !.saving = TRUE]
           /\ want' = [want EXCEPT ![b] = Stored(b, sent[b])]
           /\ known' = IF b \in mixed THEN known \ {b} ELSE known \cup {b}
           /\ loaded' = loaded \ {b}
           /\ UNCHANGED <<ctx, regs, slp_ltm, offset, flip_en, noflip, answer,
                          sent, pieces, mixed, lastw, fresh, shown>>
  BY <1>1, <1>2, <1>7, BackUpdates
<1>. QED BY <1>3, <1>4, <1>5, <1>6, <1>7 DEF Visit

\* The file is whole again.
LEMMA BackSaved == JunkInv /\ BackInv /\ Saved => BackInv'
<1>. SUFFICES ASSUME JunkInv, BackInv, Saved PROVE BackInv' OBVIOUS
<1>1. /\ job.saving /\ torn' = torn \ {Head(job.todo)}
      /\ job' = [job EXCEPT !.todo = Tail(job.todo), !.saving = FALSE]
      /\ UNCHANGED <<tool, ctx, file, answer, sent, want, known, mixed, loaded, offset,
                     pieces>>
  BY DEF Saved, ghosts
<1>2. job.todo # <<>> BY <1>1 DEF JunkInv, ShapeInv
<1>3. /\ DOMAIN job' = DOMAIN job /\ job'.cmd = job.cmd /\ job'.block = job.block
      /\ job'.method = job.method /\ job'.todo = Tail(job.todo) /\ ~job'.saving
  BY <1>1, JobParts
<1>4. torn' \cap known = {} BY <1>1 DEF BackInv, TornInv
<1>. QED BY <1>1, <1>2, <1>3, <1>4, BackPasses

\* The answer of a read: the file was loaded, or is not known.
LEMMA BackAnswer == JunkInv /\ BackInv /\ Answer => BackInv'
<1>. SUFFICES ASSUME JunkInv, BackInv, Answer PROVE BackInv' OBVIOUS
<1>1. /\ job.todo = <<>> /\ job' = Idle
      /\ answer' = (IF job.cmd = "rd_xml" THEN Reply("rd_xml", job.block, ctx)
                                          ELSE Done(job.cmd, 0))
      /\ UNCHANGED <<tool, ctx, file, torn, sent, want, known, mixed, loaded, offset,
                     pieces>>
  BY DEF Answer, ghosts
<1>2. PartsInv' /\ StoredInv' /\ LoadedInv' /\ PlacedInv'
  BY <1>1 DEF BackInv, PartsInv, StoredInv, LoadedInv, PlacedInv, AsSent
<1>3. TodoInv' /\ ReadInv' BY <1>1, IdleHolds
<1>4. TornInv' BY <1>1, AtRest DEF TornInv
<1>5. AnswerInv'
  <2>1. CASE job.cmd = "rd_xml"
    <3>1. answer'.cmd = "rd_xml" /\ answer'.block = job.block
          /\ answer'.cell = ctx[job.block]
      BY <1>1, <2>1 DEF Reply
    <3>2. job.block \in loaded \/ job.block \notin known
      BY <1>1, <2>1 DEF BackInv, ReadInv
    <3>. QED BY <1>1, <3>1, <3>2, LoadedIsWanted DEF AnswerInv
  <2>2. CASE job.cmd # "rd_xml"
    <3>1. answer'.cmd = job.cmd /\ job.cmd # "midst_read"
      BY <1>1, <2>2, Names DEF BackInv, ReadInv
    <3>. QED BY <2>2, <3>1 DEF AnswerInv
  <2>. QED BY <2>1, <2>2
<1>. QED BY <1>2, <1>3, <1>4, <1>5 DEF BackInv

\* A piece of the configuration is answered from ctx.
LEMMA BackMidstRead ==
  ASSUME JunkInv, BackInv, NEW b \in Blocks, tune_midst_read_cfg(b)
  PROVE  BackInv'
<1>1. /\ answer' = Reply("midst_read", b, ctx) /\ job = Idle
      /\ UNCHANGED <<tool, ctx, file, torn, sent, want, known, mixed, loaded, offset,
                     pieces, job>>
  BY DEF tune_midst_read_cfg, Receives, ghosts
<1>2. PartsInv' /\ StoredInv' /\ LoadedInv' /\ PlacedInv' /\ TornInv'
  BY <1>1 DEF BackInv, PartsInv, StoredInv, LoadedInv, PlacedInv, AsSent, TornInv
<1>3. TodoInv' /\ ReadInv' BY <1>1, IdleHolds
<1>4. answer'.cmd = "midst_read" /\ answer'.block = b /\ answer'.cell = ctx[b]
  BY <1>1 DEF Reply
<1>5. AnswerInv' BY <1>1, <1>4, LoadedIsWanted DEF AnswerInv
<1>. QED BY <1>2, <1>3, <1>5 DEF BackInv

\* BackInv is inductive together with JunkInv.
LEMMA BackStep == JunkInv /\ BackInv /\ [Next]_vars => BackInv'
<1>. SUFFICES ASSUME JunkInv, BackInv, [Next]_vars PROVE BackInv' OBVIOUS
<1>0. tool.blocks \subseteq Blocks BY PQTuneAssumption DEF JunkInv, ShapeInv
<1>1. ASSUME job = Idle, ReadInv', TodoInv', offset' = offset /\ pieces' = pieces,
             answer'.cmd \notin {"rd_xml", "midst_read"},
             UNCHANGED <<tool, ctx, file, torn, sent, want, known, mixed, loaded>>
      PROVE  BackInv'
  <2>1. PartsInv' /\ PlacedInv' BY <1>1 DEF BackInv, PartsInv, PlacedInv, AsSent
  <2>. QED BY <2>1, <1>1, BackArrives DEF Alike
<1>2. CASE tune_connect
  <2>1. PICK st : ctx' = tune_modules_enable(st) BY <1>2 DEF tune_connect
  <2>2. /\ job = Idle /\ job' = job /\ answer' = Done("connect", 0)
        /\ UNCHANGED <<tool, file, torn, sent, want, known, mixed, loaded, offset, pieces>>
    BY <1>2 DEF tune_connect, Receives, ghosts
  <2>3. PartsInv' BY <2>1, <2>2, EnableCells DEF BackInv, PartsInv
  <2>4. \A b \in Blocks : AsSent(b) => AsSent(b)'
    BY <2>1, <2>2, EnableCells DEF AsSent, Alike
  <2>5. PlacedInv' BY <2>2, <2>4, PlacedKept
  <2>6. TodoInv' /\ ReadInv' BY <2>2, IdleHolds
  <2>7. \A b \in loaded' : Alike(ctx'[b], ctx[b]) /\ ctx'[b].major = ctx[b].major
    BY <2>1, <2>2, EnableCells DEF BackInv, LoadedInv
  <2>. QED BY <2>2, <2>3, <2>5, <2>6, <2>7, BackArrives, Names
<1>3. CASE tune_start_read_cfg
  <2>1. /\ job = Idle /\ answer' = Quiet /\ Start("start_read", "none", "parse_xml", Order)
        /\ UNCHANGED <<tool, ctx, file, torn, sent, want, known, mixed, loaded, offset,
                       pieces>>
    BY <1>3 DEF tune_start_read_cfg, Receives, ghosts
  <2>2. ReadInv' /\ job'.method = "parse_xml" BY <2>1, StartHolds
  <2>3. TodoInv' BY <2>2 DEF TodoInv
  <2>. QED BY <2>1, <2>2, <2>3, <1>1, IdleIs
<1>4. ASSUME NEW b \in tool.blocks, tune_rd_tuning_xml(b) PROVE BackInv'
  <2>1. /\ job = Idle /\ answer' = Quiet /\ Start("rd_xml", b, "parse_xml", <<b>>)
        /\ UNCHANGED <<tool, ctx, file, torn, sent, want, known, mixed, loaded, offset,
                       pieces>>
    BY <1>4 DEF tune_rd_tuning_xml, Receives, ghosts
  <2>2. ReadInv' /\ job'.method = "parse_xml" BY <2>1, <1>0, <1>4, StartHolds
  <2>3. TodoInv' BY <2>2 DEF TodoInv
  <2>. QED BY <2>1, <2>2, <2>3, <1>1, IdleIs
<1>5. CASE tune_end_write_cfg BY <1>5, BackEndWrite
<1>6. ASSUME NEW colour, tune_rgb_pattern(colour) PROVE BackInv'
  <2>1. /\ job = Idle /\ job' = job /\ answer' = Done("pattern", 0)
        /\ UNCHANGED <<tool, ctx, file, torn, sent, want, known, mixed, loaded, offset,
                       pieces>>
    BY <1>6 DEF tune_rgb_pattern, Receives
  <2>. QED BY <2>1, <1>1, IdleHolds, Names
<1>7. ASSUME NEW sizes, tune_start_write_cfg(sizes) PROVE BackInv'
  <2>1. /\ job = Idle /\ job' = job /\ offset' = 0
        /\ answer' = Done("start_write", IF sizes = tune_sizes THEN 0 ELSE 1)
        /\ UNCHANGED <<tool, ctx, file, torn, sent, want, known, mixed, loaded>>
    BY <1>7 DEF tune_start_write_cfg, Receives
  <2>2. PartsInv' BY <2>1 DEF BackInv, PartsInv
  <2>3. PlacedInv' BY <2>1 DEF PlacedInv
  <2>4. TodoInv' /\ ReadInv' BY <2>1, IdleHolds
  <2>5. answer'.cmd = "start_write" BY <2>1, Names
  <2>. QED BY <2>1, <2>2, <2>3, <2>4, <2>5, BackArrives DEF Alike
<1>8. ASSUME NEW v, NEW scn \in tool.scenes, NEW mode \in {1, 2},
             tune_midst_write_cfg(v, scn, mode)
      PROVE  BackInv'
  BY <1>8, BackMidst
<1>9. ASSUME NEW b \in tool.blocks, NEW v, NEW scn \in tool.scenes, NEW mode \in {1, 2},
             tune_wr_tuning_xml(b, v, scn, mode)
      PROVE  BackInv'
  BY <1>0, <1>9, BackWrXml
<1>10. ASSUME NEW b \in tool.blocks, tune_midst_read_cfg(b) PROVE BackInv'
  BY <1>0, <1>10, BackMidstRead
<1>11. ASSUME NEW b \in tool.blocks, tune_rd_tuning_reg(b) PROVE BackInv'
  BY <1>0, <1>11, BackRdReg
<1>12. ASSUME NEW b \in tool.blocks, NEW v, NEW en, tune_wr_tuning_reg(b, v, en)
       PROVE  BackInv'
  BY <1>0, <1>12, BackWrReg
<1>13. CASE Visit BY <1>13, BackVisit
<1>14. CASE Saved BY <1>14, BackSaved
<1>15. CASE Answer BY <1>15, BackAnswer
<1>16. CASE Kill BY <1>16, BackRestarts DEF Kill
<1>17. CASE UNCHANGED vars
  <2>1. UNCHANGED <<tool, ctx, file, torn, offset, job, answer, sent, pieces, mixed, want,
                    known, loaded>>
    BY <1>17 DEF vars, ghosts
  <2>. QED BY <2>1 DEF BackInv, PartsInv, StoredInv, LoadedInv, PlacedInv, TodoInv, TornInv,
                       ReadInv, AnswerInv, AsSent
<1>. QED BY <1>2, <1>3, <1>4, <1>5, <1>6, <1>7, <1>8, <1>9, <1>10, <1>11, <1>12, <1>13,
            <1>14, <1>15, <1>16, <1>17 DEF Next

\* At the start every file is known and whole.
LEMMA BackInit == Init => BackInv
<1>. SUFFICES ASSUME Init PROVE BackInv OBVIOUS
<1>1. PartsInv
  <2>1. \A b \in Blocks : CellOf(b, Fresh(b)) BY Cells DEF Init
  <2>2. <<1>> \in Seq(Nat) /\ <<>> \in Seq(Nat) OBVIOUS
  <2>3. \A b \in Blocks : FileOf(b, file[b]) BY <2>2 DEF Init, FileOf
  <2>. QED BY <2>1, <2>3 DEF Init, PartsInv
<1>2. StoredInv BY DEF Init, StoredInv
<1>3. LoadedInv /\ PlacedInv /\ TornInv BY DEF Init, LoadedInv, PlacedInv, TornInv
<1>4. TodoInv /\ ReadInv /\ AnswerInv BY IdleIs DEF Init, TodoInv, ReadInv, AnswerInv
<1>. QED BY <1>1, <1>2, <1>3, <1>4 DEF BackInv

\* What reading a configuration file answers is what the last write that
\* reached the file was told to store, whatever came in between and wherever
\* the process was killed, unless that was while it wrote this very file.
THEOREM FilesReadBack == Spec => []ReadsBack
<1>1. JunkInv /\ BackInv => ReadsBack BY DEF BackInv, AnswerInv, ReadsBack
<1>. QED BY <1>1, JunkInit, JunkStep, BackInit, BackStep, PTL DEF Spec
=============================================================================
