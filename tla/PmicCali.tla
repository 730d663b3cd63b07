------------------------------ MODULE PmicCali ------------------------------
(***************************************************************************)
(* The calibration of the crystal oscillator (modules/libdcxcali) and the  *)
(* temperature sensor (modules/tsensor): registers of the power management *)
(* chip that the channel threads of engpc, and the program dcxsrv at boot, *)
(* reach through two files of the kernel.  pmic_reg takes the address of a *)
(* register and pmic_value then reads or writes it; nothing keeps another  *)
(* thread from naming a register in between.                               *)
(*                                                                         *)
(* A thread is at one access after another: pc[a] says which register it   *)
(* reads or writes, and Then() what follows.  A flag that one condition of *)
(* the code reads twice is read once here.  The two fields of CTRL5 that   *)
(* the calibration searches are one number, CoarseMax and FineMax being    *)
(* the largest values of each.                                             *)
(***************************************************************************)
EXTENDS Workers, Integers, FiniteSets, TLC

CONSTANTS
  CoarseMax, FineMax, \* the fields of CTRL5: 7 and 31 for the high power mode
  Thresholds,         \* the oscillator's flag is set at codes up to this one
  CaliRequests        \* what the tools ask for

ASSUME PmicAssumption ==
  /\ {CoarseMax, FineMax} \subseteq Nat \ {0}
  /\ Thresholds \subseteq -1 .. (CoarseMax + 1) * (FineMax + 1) - 1

dcxsrv == "dcxsrv"
Actors == Threads \cup {dcxsrv}

ASSUME ActorAssumption == dcxsrv \notin Threads      \* it is another program

Steps  == FineMax + 1                   \* codes per coarse step
MaxCode == (CoarseMax + 1) * Steps - 1

Registers == {"PROT", "CTRL3", "CTRL4", "CTRL5", "CTRL6", "CTRL10", "CTRL11",
              "CTRL13", "CTRL14", "TSEN0", "TSEN1", "TSEN3"}

\* A thread does nothing, is about to access a register, or is in a step of
\* its own.
Idle    == [at |-> "idle", acc |-> "-", reg |-> "-"]
Read(l, r)  == [at |-> l, acc |-> "r", reg |-> r]
Write(l, r) == [at |-> l, acc |-> "w", reg |-> r]
Local(l)    == [at |-> l, acc |-> "-", reg |-> "-"]

\* The requests: a mode (0 low power, 1 high power, other values count as
\* high and are answered with an error), a capacitor value, a calibration, and
\* the file of the results.
AllCali == [op : {"mode"}, x : 0 .. 2] \cup [op : {"cdac", "save"}, x : 0 .. MaxCode]
             \cup [op : {"amp"}, hp : {TRUE}]
             \cup [op : {"load", "temp", "restore"}]

ASSUME CaliRequestsAssumption == CaliRequests \subseteq AllCali

NoCali  == [op |-> "none"]
NoData  == [kind |-> "none", n |-> 0]    \* dcx_data.dat does not exist
NoBytes == [kind |-> "empty", n |-> 0]
Saved(i) == [kind |-> "data", n |-> i]

VARIABLES
  reg,          \* the registers
  latch,        \* the one that pmic_reg names
  okAt,         \* the code up to which the flag is set, at the last calibration
  pc, named,    \* the thread's next access; pmic_reg has its address
  out, keep,    \* what it is going to write; the copy of CTRL10
  creq,         \* its request
  current_mode, hp_cbank, hp_amp,   \* the module's variables
  inited,       \* the temperature sensor's: it is on
  dcx,          \* the file
  cans,         \* the last answer of a thread
  wantCdac, wantAmp, wantDcx, \* the settings last asked for (history variables)
  mixed         \* accesses of two threads, or a calibration and another request
                \* for registers, have overlapped, or an access has failed or was
                \* cut off, since the phone started (history variable)

static  == <<current_mode, hp_cbank, hp_amp, inited>>
wanted  == <<wantCdac, wantAmp, wantDcx, mixed>>
private == <<pc, named, out, keep, creq>>
pmic    == <<reg, latch, okAt, private, static, dcx, cans, wanted>>

NoAns == [op |-> "none", ok |-> FALSE, v |-> 0]
PowerOn == [r \in Registers |-> IF r = "TSEN0" THEN 1 ELSE 0]

PmicTypeOK ==
  /\ DOMAIN reg = Registers /\ \A r \in Registers : reg[r] \in 0 .. 2 * MaxCode + 31
  /\ latch \in Registers \cup {"-"}
  /\ \A a \in Actors : named[a] => pc[a].reg # "-"
  /\ current_mode \in 0 .. 1 /\ inited \in BOOLEAN /\ mixed \in BOOLEAN
  /\ \A a \in Threads : (pc[a] = Idle) = (creq[a] = NoCali)

\* A session of the factory, in which dcxsrv has run.
PmicInit ==
  /\ dcx \in {NoData, Saved(1)} /\ wantDcx = dcx
  /\ reg = [r \in Registers |-> IF r \in {"CTRL10", "CTRL5", "CTRL6", "CTRL13"} THEN dcx.n
                                ELSE PowerOn[r]]
  /\ latch = "-" /\ okAt = -1
  /\ pc = [a \in Actors |-> Idle] /\ named = [a \in Actors |-> FALSE]
  /\ out = [a \in Actors |-> 0] /\ keep = [a \in Actors |-> 0]
  /\ creq = [a \in Threads |-> NoCali]
  /\ current_mode = 1 /\ hp_cbank = 0 /\ hp_amp = 0
  /\ inited = FALSE
  /\ cans = [a \in Threads |-> NoAns]
  /\ wantCdac = dcx.n /\ wantAmp = dcx.n /\ mixed = FALSE

-----------------------------------------------------------------------------
(* Registers *)

\* The oscillator shows whether its amplitude is reached at the code in CTRL5.
OkFlag == IF reg["CTRL5"] <= okAt THEN 1 ELSE 0

\* CTRL4 holds the control value above the flag, which cannot be written.
ana_read(r)     == IF r = "CTRL4" THEN reg[r] + OkFlag ELSE reg[r]
ana_write(r, v) == [reg EXCEPT ![r] = IF r = "CTRL4" THEN (v \div 2) * 2 ELSE v]

Flag(v)   == v % 2 = 1
Or2(x)    == IF (x \div 2) % 2 = 1 THEN x ELSE x + 2
Coarse(v) == v \div Steps
Fine(v)   == v % Steps
Code(c, f) == (c % (CoarseMax + 1)) * Steps + f

\* find_amp_cal_finish(): the mode when the calibration started.
Hp(a) == creq[a].hp

\* Mutation: the coarse field is left where the flag was first seen.
CoarseBackStay(hp, v) == v

\* One coarse step back from the first code that has the flag.  The field
\* wraps at its end, and in the low power mode the code writes 1 there.
CoarseBack(hp, v) == IF hp THEN Code(Coarse(v) + 1, Fine(v)) ELSE Code(1, Fine(v))

\* Mutation: the fine field is written back as it was read.
FineDownNot(v) == v

\* One fine step down; from 0 it becomes -1, and every bit is set.
FineDown(v) == IF Fine(v) = 0 THEN MaxCode ELSE v - 1

\* What follows the access at label l, which has read v: the next access and
\* the value that it will write.
To(p, w) == [pc |-> p, out |-> w]

AmpThen(a, l, v) ==
  CASE l = "amp"     -> IF Hp(a) THEN To(Read("en", "CTRL3"), 0)
                                ELSE To(Read("bank", "CTRL10"), 0)
    [] l = "bank"    -> To(Write("nobank", "CTRL10"), 0)
    [] l = "nobank"  -> To(Read("en", "CTRL3"), 0)
    [] l = "en"      -> To(Write("enw", "CTRL3"), 1)
    [] l = "enw"     -> To(Read("fine", "CTRL5"), 0)
    [] l = "fine"    -> To(Write("finew", "CTRL5"), Code(Coarse(v), FineMax))
    [] l = "finew"   -> To(Read("all", "CTRL5"), 0)
    [] l = "all"     -> To(Write("allw", "CTRL5"), Code(CoarseMax, Fine(v)))
    [] l = "allw"    -> To(Read("aml", "CTRL4"), 0)
    [] l = "aml"     -> To(Write("amlw", "CTRL4"), IF Hp(a) THEN 14 ELSE Or2(v \div 2) * 2)
    \* while the flag is clear and the coarse field is not 0
    [] l \in {"amlw", "downw"} -> To(Read("loop", "CTRL4"), 0)
    [] l = "loop"    -> IF Flag(v) THEN To(Read("back", "CTRL5"), 0)
                                   ELSE To(Read("down", "CTRL5"), 0)
    [] l = "down"    -> IF Coarse(v) = 0 THEN To(Read("none", "CTRL4"), 0)
                        ELSE To(Write("downw", "CTRL5"), v - Steps)
    \* if the flag is set and the coarse field is not 0
    [] l = "back"    -> IF Coarse(v) = 0 THEN To(Read("none", "CTRL4"), 0)
                        ELSE To(Write("backw", "CTRL5"), CoarseBack(Hp(a), v))
    [] l = "backw"   -> To(Read("none", "CTRL4"), 0)
    \* if the flag is clear and the coarse field is 0: a logical "and"
    [] l = "none"    -> IF Flag(v) THEN To(Read("aml2", "CTRL4"), 0)
                                   ELSE To(Read("zero", "CTRL5"), 0)
    [] l = "zero"    -> IF Coarse(v) # 0 THEN To(Read("aml2", "CTRL4"), 0)
                        ELSE To(Write("zerow", "CTRL5"), IF v = 0 THEN 0 ELSE 1)
    [] l = "zerow"   -> To(Read("aml2", "CTRL4"), 0)
    [] l = "aml2"    -> To(Write("aml2w", "CTRL4"), IF Hp(a) THEN 12 ELSE 2)
    [] l = "aml2w"   -> To(Read("fine2", "CTRL5"), 0)
    [] l = "fine2"   -> To(Write("fine2w", "CTRL5"), Code(Coarse(v), FineMax))
    \* while the flag is clear
    [] l \in {"fine2w", "stepw"} -> To(Read("search", "CTRL4"), 0)
    [] l = "search"  -> IF Flag(v) THEN To(Read("dis", "CTRL3"), 0)
                                   ELSE To(Read("step", "CTRL5"), 0)
    [] l = "step"    -> To(Write("stepw", "CTRL5"), FineDown(v))
    [] l = "dis"     -> To(Write("disw", "CTRL3"), 0)
    [] l = "disw"    -> IF Hp(a) THEN To(Read("end", "CTRL5"), 0)
                                ELSE To(Write("rebank", "CTRL10"), keep[a])
    [] l = "rebank"  -> To(Read("end", "CTRL5"), 0)

\* dcx_set_afc_mode(): the settings of the high power mode are kept in
\* variables of the program while the oscillator is in the other one.
\* Mutation: they are saved whichever mode it is in.
ModeThenAlways(l, v, x) ==
  CASE l = "mode"  -> IF x = 0 THEN To(Read("lo10", "CTRL10"), 0)
                               ELSE To(Read("hi10", "CTRL10"), 0)
    [] l = "lo10"  -> To(Read("lo5", "CTRL5"), 0)
    [] l = "lo5"   -> To(Write("lo10w", "CTRL10"), 0)
    [] l = "lo10w" -> To(Read("lo14", "CTRL14"), 0)
    [] l = "lo14"  -> To(Write("done", "CTRL14"), 1)
    [] l = "hi10"  -> To(Read("hi5", "CTRL5"), 0)
    [] l = "hi5"   -> To(Read("hi14", "CTRL14"), 0)
    [] l = "hi14"  -> To(Write("hi14w", "CTRL14"), 0)
    [] l = "hi14w" -> To(Write("hi10w", "CTRL10"), hp_cbank)
    [] l = "hi10w" -> To(Write("done", "CTRL5"), hp_amp)

ModeThen(l, v, x) ==
  CASE l = "mode"  -> IF x = 0 /\ current_mode = 1 THEN To(Read("lo10", "CTRL10"), 0)
                      ELSE IF x # 0 /\ current_mode = 0 THEN To(Read("hi10", "CTRL10"), 0)
                      ELSE To(Local("done"), 0)
    [] l = "lo10"  -> To(Read("lo5", "CTRL5"), 0)
    [] l = "lo5"   -> To(Write("lo10w", "CTRL10"), 0)
    [] l = "lo10w" -> To(Read("lo14", "CTRL14"), 0)
    [] l = "lo14"  -> To(Write("done", "CTRL14"), 1)
    [] l = "hi10"  -> To(Read("hi5", "CTRL5"), 0)
    [] l = "hi5"   -> To(Read("hi14", "CTRL14"), 0)
    [] l = "hi14"  -> To(Write("hi14w", "CTRL14"), 0)
    [] l = "hi14w" -> To(Write("hi10w", "CTRL10"), hp_cbank)
    [] l = "hi10w" -> To(Write("done", "CTRL5"), hp_amp)

\* tsenor_restore_default_reg(): bit 0 of TSEN0 is the clock and bit 1 the
\* supply; the switches of TSEN1 and TSEN3 are one bit each.
RestoreThen(l, v) ==
  CASE l = "clk"    -> To(Write("clkw", "TSEN0"), (v \div 2) * 2 + 1)
    [] l = "clkw"   -> To(Read("sens", "TSEN3"), 0)
    [] l = "sens"   -> To(Write("sensw", "TSEN3"), 0)
    [] l = "sensw"  -> To(Read("adc", "TSEN1"), 0)
    [] l = "adc"    -> To(Write("adcw", "TSEN1"), 0)
    [] l = "adcw"   -> To(Read("ldo", "TSEN0"), 0)
    [] l = "ldo"    -> To(Write("done", "TSEN0"), v % 2)

\* dcxsrv writes the four values of the file.  It does not take away the write
\* protection before, as the callbacks do; what PROT holds decides nothing here,
\* and that the chip takes these writes is an assumption.
BootThen(a, l) ==
  CASE l = "cdac" -> To(Write("hp", "CTRL5"), out[a])
    [] l = "hp"   -> To(Write("lp", "CTRL6"), out[a])
    [] l = "lp"   -> To(Write("drift", "CTRL13"), out[a])
    [] l = "drift" -> To(Idle, 0)

Then(a, l, v) ==
  IF a = dcxsrv THEN BootThen(a, l)
  ELSE CASE creq[a].op = "amp"     -> AmpThen(a, l, v)
         [] creq[a].op = "mode"    -> ModeThen(l, v, creq[a].x)
         [] creq[a].op = "restore" -> RestoreThen(l, v)
         [] creq[a].op = "cdac"    -> To(Write("done", IF current_mode = 1 THEN "CTRL10"
                                                                          ELSE "CTRL11"),
                                         creq[a].x)

-----------------------------------------------------------------------------
(* Steps of a thread *)

Answer(a, ok, v) ==
  /\ cans' = [cans EXCEPT ![a] = [op |-> creq[a].op, ok |-> ok, v |-> v]]
  /\ creq' = [creq EXCEPT ![a] = NoCali]
  /\ pc' = [pc EXCEPT ![a] = Idle] /\ named' = [named EXCEPT ![a] = FALSE]
  /\ out' = [out EXCEPT ![a] = 0] /\ keep' = [keep EXCEPT ![a] = 0]

Busy(a) == pc[a] # Idle

RegisterOps == {"mode", "cdac", "amp", "restore"}

\* A thread is at the registers, or has still to end what it did there, or to
\* begin it.
AtWork(b) ==
  \/ pc[b].acc # "-" \/ pc[b] = Local("start")
  \/ b \in Threads /\ creq[b].op \in {"mode", "cdac", "amp"}

\* A request for registers and a calibration overlap.
Disturbs(a, r) ==
  \/ r.op = "amp" /\ \E b \in Actors \ {a} : AtWork(b)
  \/ r.op \in RegisterOps /\ \E b \in Threads : creq[b].op = "amp"

\* dcx_handler() and the callbacks of the sensor: every request for the
\* oscillator's registers first takes away their write protection.  The
\* oscillator's threshold is what it is at the time of the calibration.
CaliRequest(a, r) ==
  /\ pc[a] = Idle
  /\ creq' = [creq EXCEPT ![a] = IF r.op = "amp" THEN [r EXCEPT !.hp = (current_mode = 1)]
                                                ELSE r]
  /\ pc' = [pc EXCEPT ![a] =
               CASE r.op \in {"mode", "cdac", "amp"} -> Write(r.op, "PROT")
                 [] r.op = "restore"                -> Read("clk", "TSEN0")
                 [] OTHER                           -> Local(r.op)]
  /\ out' = [out EXCEPT ![a] = IF r.op \in {"mode", "cdac", "amp"} THEN 1 ELSE 0]
  /\ cans' = [b \in Threads |-> NoAns]
  /\ okAt' \in IF r.op = "amp" THEN Thresholds ELSE {okAt}
  /\ mixed' = (mixed \/ Disturbs(a, r))
  /\ UNCHANGED <<reg, latch, named, keep, static, dcx, wantCdac, wantAmp, wantDcx>>

\* The address goes to pmic_reg.
Name(a) ==
  /\ pc[a].acc # "-" /\ ~named[a]
  /\ latch' = pc[a].reg /\ named' = [named EXCEPT ![a] = TRUE]
  /\ mixed' = (mixed \/ \E b \in Actors \ {a} : AtWork(b))
  /\ UNCHANGED <<reg, okAt, pc, out, keep, creq, static, dcx, cans, wantCdac, wantAmp,
                 wantDcx>>

\* The variables that an access of dcx_set_afc_mode() saves.
Saves(a, v) ==
  /\ hp_cbank' = IF pc[a].at = "lo10" THEN v ELSE hp_cbank
  /\ hp_amp' = IF pc[a].at = "lo5" THEN v ELSE hp_amp
  /\ keep' = IF pc[a].at = "bank" THEN [keep EXCEPT ![a] = v] ELSE keep
  /\ UNCHANGED <<current_mode, inited>>

\* pmic_value is read or written, at whatever register pmic_reg names by now.
\* The last access of a request is followed by its end; a failing access
\* reads 0 or writes nothing, and is not noticed.
Access(a, ok) ==
  LET v == IF ok /\ pc[a].acc = "r" THEN ana_read(latch) ELSE 0
      n == IF pc[a].at \in {"done", "end"} THEN To(Local("done"), v)
                                           ELSE Then(a, pc[a].at, v)
  IN /\ named[a]
     /\ reg' = IF ok /\ pc[a].acc = "w" THEN ana_write(latch, out[a]) ELSE reg
     /\ named' = [named EXCEPT ![a] = FALSE]
     /\ pc' = [pc EXCEPT ![a] = n.pc] /\ out' = [out EXCEPT ![a] = n.out]
     /\ Saves(a, v)
     /\ mixed' = (mixed \/ ~ok)
     /\ wantCdac' = IF pc[a].reg = "CTRL10" /\ pc[a].at = "done" THEN creq[a].x
                    ELSE wantCdac
     /\ UNCHANGED <<latch, okAt, creq, dcx, cans, wantAmp, wantDcx>>

\* The request ends: the mode is switched, the code that was found is
\* answered, the sensor will be started again by the next reading.
Done(a) ==
  /\ pc[a] = Local("done")
  /\ LET op == creq[a].op
     IN /\ current_mode' = IF op # "mode" THEN current_mode
                           ELSE IF creq[a].x = 0 THEN 0 ELSE 1
        /\ inited' = IF op = "restore" THEN FALSE ELSE inited
        /\ wantAmp' = IF op = "amp" /\ Hp(a) THEN out[a] ELSE wantAmp
        /\ Answer(a, op = "mode" => creq[a].x < 2, out[a])
  /\ UNCHANGED <<reg, latch, okAt, hp_cbank, hp_amp, dcx, wantCdac, wantDcx, mixed>>

\* The kernel switches the sensor on for a reading: for the first one, whose
\* values are not used, half a second before the other.
SensorOn == reg' = [reg EXCEPT !["TSEN0"] = 2, !["TSEN1"] = 1, !["TSEN3"] = 1]

WarmUp(a) ==
  /\ pc[a] = Local("temp") /\ ~inited
  /\ SensorOn /\ pc' = [pc EXCEPT ![a] = Local("warm")]
  /\ UNCHANGED <<latch, okAt, named, out, keep, creq, static, dcx, cans, wanted>>

\* A zone of the kernel that is not found is an error.
Temperature(a, ok) ==
  /\ pc[a] = Local("warm") \/ (pc[a] = Local("temp") /\ inited)
  /\ SensorOn
  /\ inited' = TRUE
  /\ Answer(a, ok, 0)
  /\ UNCHANGED <<latch, okAt, current_mode, hp_cbank, hp_amp, dcx, wanted>>

\* write_dcx_data(): the file is emptied when it is opened ...
SaveOpen(a, ok) ==
  /\ pc[a] = Local("save")
  /\ IF ok THEN /\ dcx' = NoBytes /\ pc' = [pc EXCEPT ![a] = Local("fwrite")]
                /\ UNCHANGED <<named, out, keep, creq, cans>>
           ELSE Answer(a, FALSE, 0) /\ UNCHANGED dcx
  /\ UNCHANGED <<reg, latch, okAt, static, wanted>>

\* ... and then written.
SaveWrite(a, ok) ==
  /\ pc[a] = Local("fwrite")
  /\ IF ok THEN dcx' = Saved(creq[a].x) /\ wantDcx' = Saved(creq[a].x)
           ELSE wantDcx' = NoBytes /\ UNCHANGED dcx
  /\ Answer(a, ok, 0)
  /\ UNCHANGED <<reg, latch, okAt, static, wantCdac, wantAmp, mixed>>

\* read_dcx_data() must return the whole record.
Load(a, ok) ==
  /\ pc[a] = Local("load")
  /\ Answer(a, ok /\ dcx.kind = "data", dcx.n)
  /\ UNCHANGED <<reg, latch, okAt, static, dcx, wanted>>

-----------------------------------------------------------------------------
(* The end of the program and of the phone's session *)

\* The threads are gone and the variables have their first values; dcxsrv is
\* another program.
ThreadsGone(f, v) == [a \in DOMAIN f |-> IF a \in Threads THEN v ELSE f[a]]

OpenFile == \E a \in Threads : pc[a] = Local("fwrite")

EngpcDies ==
  /\ pc' = ThreadsGone(pc, Idle) /\ named' = ThreadsGone(named, FALSE)
  /\ out' = ThreadsGone(out, 0) /\ keep' = ThreadsGone(keep, 0)
  /\ creq' = ThreadsGone(creq, NoCali) /\ cans' = ThreadsGone(cans, NoAns)
  /\ current_mode' = 1 /\ hp_cbank' = 0 /\ hp_amp' = 0 /\ inited' = FALSE
  /\ wantDcx' = IF OpenFile THEN NoBytes ELSE wantDcx
  /\ mixed' = (mixed \/ current_mode = 0
                     \/ \E a \in Threads : AtWork(a))
  /\ UNCHANGED <<reg, latch, okAt, dcx, wantCdac, wantAmp>>

\* The phone restarts: init runs dcxsrv if it is a factory session.
PhoneRestarts(factory) ==
  /\ reg' = PowerOn /\ latch' = "-"
  /\ pc' = [a \in Actors |-> IF a = dcxsrv /\ factory THEN Local("start") ELSE Idle]
  /\ named' = [a \in Actors |-> FALSE]
  /\ out' = [a \in Actors |-> 0] /\ keep' = [a \in Actors |-> 0]
  /\ creq' = [a \in Threads |-> NoCali] /\ cans' = [a \in Threads |-> NoAns]
  /\ current_mode' = 1 /\ hp_cbank' = 0 /\ hp_amp' = 0 /\ inited' = FALSE
  /\ wantCdac' = 0 /\ wantAmp' = 0
  /\ wantDcx' = IF OpenFile THEN NoBytes ELSE wantDcx
  /\ mixed' = FALSE
  /\ UNCHANGED <<okAt, dcx>>

\* dcxsrv reads the file.  An empty file is not taken for an error, and the
\* record on the stack has not been set.
BootRead ==
  /\ pc[dcxsrv] = Local("start")
  /\ \E n \in IF dcx.kind = "empty" THEN {0, MaxCode} ELSE {dcx.n} :
       IF dcx = NoData
         THEN /\ pc' = [pc EXCEPT ![dcxsrv] = Idle]
              /\ UNCHANGED <<out, wantCdac, wantAmp, mixed>>
         ELSE /\ pc' = [pc EXCEPT ![dcxsrv] = Write("cdac", "CTRL10")]
              /\ out' = [out EXCEPT ![dcxsrv] = n]
              /\ wantCdac' = wantDcx.n /\ wantAmp' = wantDcx.n
              /\ mixed' = (mixed \/ wantDcx.kind # "data"
                                 \/ \E a \in Threads : creq[a].op \notin {"none", "load"})
  /\ UNCHANGED <<reg, latch, okAt, named, keep, creq, static, dcx, cans, wantDcx>>

PmicStep(a) ==
  \/ Name(a) \/ Access(a, TRUE)
  \/ a \in Threads /\ (\/ Done(a) \/ WarmUp(a) \/ Temperature(a, TRUE) \/ SaveOpen(a, TRUE)
                        \/ SaveWrite(a, TRUE) \/ Load(a, TRUE))
  \/ a = dcxsrv /\ BootRead

PmicFault(a) ==
  \/ Access(a, FALSE)
  \/ a \in Threads /\ (\/ Temperature(a, FALSE) \/ SaveOpen(a, FALSE)
                        \/ SaveWrite(a, FALSE) \/ Load(a, FALSE))

-----------------------------------------------------------------------------
\* While no thread is at work and no accesses have overlapped, failed or been
\* cut off since the phone started, and no calibration and another request for
\* registers, the oscillator has the settings last asked for: in the high power
\* mode the capacitor value and the amplitude code last set, calibrated, or taken
\* from the file by dcxsrv at boot, whatever was done in the low power mode in
\* between; and the calibration is switched off.
SettingsKept ==
  (\A a \in Actors : ~Busy(a)) /\ ~mixed =>
    /\ reg["CTRL3"] = 0
    /\ reg["CTRL14"] = 1 - current_mode
    /\ IF current_mode = 1
         THEN reg["CTRL10"] = wantCdac /\ reg["CTRL5"] = wantAmp
         ELSE reg["CTRL10"] = 0

\* The code that a calibration in the high power mode answers has the flag,
\* and the one above it has not, as long as the oscillator's threshold is not
\* within the first two coarse steps or at the very last code, and no accesses
\* have overlapped or failed, nor a calibration and another request (mixed).
AmpFound ==
  ~mixed => \A a \in Threads :
    creq[a].op = "amp" /\ pc[a] = Local("done") =>
      /\ out[a] <= okAt
      /\ Hp(a) /\ (okAt < Steps \/ okAt >= 2 * Steps - 1) /\ okAt < MaxCode
           => out[a] = okAt

\* Where the search of the fine field ends: the flag can be set at all, and
\* its threshold is not the last code of a coarse step that the search of the
\* coarse field passes, from which one step down wraps to a code far above.
Ends == okAt >= 0 /\ \A k \in 2 .. CoarseMax : okAt # k * Steps - 1

\* A calibration is answered, where its search can end, as long as nothing
\* else has touched the registers: the loop in the code has no other limit.
AmpEnds == \A a \in Threads : []<>(mixed \/ ~Ends \/ creq[a].op # "amp")
=============================================================================
