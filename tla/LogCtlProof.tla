---------------------------- MODULE LogCtlProof ----------------------------
(***************************************************************************)
(* Proofs about LogCtl for any number of channel threads, any faults of    *)
(* slogmodem and any number of requests and restarts.                      *)
(*                                                                         *)
(* TypeOK holds however the requests interleave, although a destination    *)
(* that is none of the three is in the arguments: LocInv says that such a  *)
(* request never comes near sys_setlogdest().                              *)
(*                                                                         *)
(* The devices and slogmodem follow the destination of every type whose    *)
(* calls have not overlapped since the start, whatever the calls for the   *)
(* other type did at the same time.  Between the steps of a call the two   *)
(* are off by what the call has done so far: DevInv and SlogInv say by how *)
(* much.                                                                   *)
(***************************************************************************)
EXTENDS LogCtl, TLAPS

-----------------------------------------------------------------------------
(* Type correctness *)

\* Past the first test of logLocation() the location is one of the three.
LocInv ==
  \A c \in Threads : pc[c] \in {"already", "notice", "reset", "set", "agdsp"}
                       => loc[c] \in Locations

TypeInv == TypeOK /\ LocInv

\* notice_slogmodem() leaves the record of slogmodem well formed.
LEMMA ToldType ==
  ASSUME TypeOK, NEW g \in Logs, NEW on \in BOOLEAN, NEW res, Told(g, on, res)
  PROVE  slog' \in [Logs -> BOOLEAN] /\ astray' \subseteq Logs
BY DEF Told, TypeOK

\* The program starts well typed.
LEMMA TypeInit == Init => TypeInv
<1> SUFFICES ASSUME Init
             PROVE  TypeInv
  OBVIOUS
<1>1. slog \in [Logs -> BOOLEAN] /\ astray \subseteq Logs
  BY DEF Init
<1>2. /\ devOn \in [Types -> BOOLEAN] /\ restart \in BOOLEAN /\ gser \in BOOLEAN
      /\ crossed \subseteq Types
  BY DEF Init
<1>3. /\ pc \in [Threads -> {"idle"}] /\ type \in [Threads -> Types]
      /\ loc \in [Threads -> Locations]
  BY DEF Init, Types, Locations
<1>4. LocInv
  BY DEF Init, LocInv
<1>5. nReq \in 0 .. MaxReqs /\ nRestart \in 0 .. MaxRestarts
  BY LogCtlAssumption DEF Init
<1>6. TypeOK
  BY <1>1, <1>2, <1>3, <1>5 DEF Init, TypeOK, Saved, Locations
<1> QED
  BY <1>4, <1>6 DEF TypeInv

\* Every step of the calls, of main() and of the environment keeps the types
\* and keeps a wrong location away from sys_setlogdest().
LEMMA TypeStep == TypeInv /\ [Next]_vars => TypeInv'
<1> SUFFICES ASSUME TypeOK, LocInv, [Next]_vars
             PROVE  TypeOK' /\ LocInv'
  BY DEF TypeInv
<1>0. MaxReqs \in Nat /\ MaxRestarts \in Nat
  BY LogCtlAssumption
<1>1. CASE Boot
  <2>1. devOn' \in [Types -> BOOLEAN]
    BY <1>1 DEF Boot, BootReadModem, BootModemOff, BootReadWcn, BootSetWcn, TypeOK
  <2>2. saved' \in Saved /\ boot' \in {"modem_off", "wcn", "wcn_set", "up"}
    BY <1>1 DEF Boot, BootReadModem, BootModemOff, BootReadWcn, BootSetWcn, TypeOK,
                Types, Saved, Locations
  <2>3. UNCHANGED <<dest, slogs, crossed, gser, restart, pc, args, env>>
    BY <1>1 DEF Boot, BootReadModem, BootModemOff, BootReadWcn, BootSetWcn
  <2> QED
    BY <2>1, <2>2, <2>3 DEF TypeOK, LocInv, args, env, slogs
<1>2. ASSUME NEW c \in Threads, ReadDest(c)
      PROVE  TypeOK' /\ LocInv'
  <2>1. /\ pc' \in [Threads -> {"idle", "read", "already", "notice", "reset", "set",
                                "agdsp", "switch"}]
        /\ \A d \in Threads \ {c} : pc'[d] = pc[d]
        /\ pc'[c] \in {"already", "notice"} => loc[c] \in Locations
        /\ pc'[c] \in {"switch", "already", "notice"}
    <3>1. CASE loc[c] \notin Locations
      <4>1. dest[type[c]] # loc[c]
        BY <3>1 DEF TypeOK, Saved, Locations
      <4>2. Goto(c, "switch")
        BY <1>2, <3>1, <4>1 DEF ReadDest
      <4> QED
        BY <4>2 DEF Goto, TypeOK
    <3>2. CASE loc[c] \in Locations /\ dest[type[c]] = loc[c]
      BY <1>2, <3>2 DEF ReadDest, Goto, TypeOK
    <3>3. CASE loc[c] \in Locations /\ dest[type[c]] # loc[c]
      BY <1>2, <3>3 DEF ReadDest, Goto, TypeOK
    <3> QED
      BY <3>1, <3>2, <3>3
  <2> QED
    BY <1>2, <2>1 DEF ReadDest, TypeOK, LocInv, slogs, args, main, env
<1>3. ASSUME NEW c \in Threads, Already(c)
      PROVE  TypeOK' /\ LocInv'
  BY <1>3 DEF Already, Goto, TypeOK, LocInv, slogs, args, main, env
<1>4. ASSUME NEW c \in Threads, Notice(c)
      PROVE  TypeOK' /\ LocInv'
  <2>1. PICK res \in {"ok", "error", "none"} :
          Told(type[c], loc[c] = "tcard", res)
    BY <1>4 DEF Notice
  <2>2. type[c] \in Logs /\ (loc[c] = "tcard") \in BOOLEAN
    BY DEF TypeOK, Logs
  <2>3. slog' \in [Logs -> BOOLEAN] /\ astray' \subseteq Logs
    BY <2>1, <2>2, ToldType
  <2>4. \E l \in {"switch", "set", "reset"} : Goto(c, l)
    BY <1>4 DEF Notice
  <2> QED
    BY <1>4, <2>3, <2>4 DEF Notice, Goto, TypeOK, LocInv, args, main, env
<1>5. ASSUME NEW c \in Threads, Reset(c)
      PROVE  TypeOK' /\ LocInv'
  BY <1>5 DEF Reset, Goto, TypeOK, LocInv, slogs, args, main, env
<1>6. ASSUME NEW c \in Threads, SetDest(c)
      PROVE  TypeOK' /\ LocInv'
  <2>1. loc[c] \in Saved
    BY <1>6 DEF SetDest, LocInv, Saved
  <2> QED
    BY <1>6, <2>1 DEF SetDest, Goto, TypeOK, LocInv, slogs, args, main, env
<1>7. ASSUME NEW c \in Threads, NoticeAgdsp(c)
      PROVE  TypeOK' /\ LocInv'
  <2>1. slog' \in [Logs -> BOOLEAN] /\ astray' \subseteq Logs
    BY <1>7, ToldType DEF NoticeAgdsp, Logs
  <2> QED
    BY <1>7, <2>1 DEF NoticeAgdsp, Goto, TypeOK, LocInv, args, main, env
<1>8. ASSUME NEW c \in Threads, Switch(c)
      PROVE  TypeOK' /\ LocInv'
  <2>1. gser' \in BOOLEAN /\ restart' \in BOOLEAN
    BY <1>8 DEF Switch, TypeOK
  <2> QED
    BY <1>8, <2>1 DEF Switch, Goto, Forget, TypeOK, LocInv, Types, Locations, slogs, main, env
<1>9. ASSUME NEW c \in Threads, NEW t \in Types, NEW l \in Locations \cup {"other"},
             Request(c, t, l)
      PROVE  TypeOK' /\ LocInv'
  <2>1. crossed' \subseteq Types
    BY <1>9 DEF Request, TypeOK
  <2> QED
    BY <1>0, <1>9, <2>1 DEF Request, Goto, TypeOK, LocInv, slogs, main
<1>10. CASE Restart
  <2>1. astray' \subseteq Logs
    BY <1>10 DEF Restart, TypeOK, Logs
  <2> QED
    <3>1. /\ devOn' \in [Types -> BOOLEAN] /\ restart' \in BOOLEAN
      BY <1>10 DEF Restart
    <3>2. /\ pc' \in [Threads -> {"idle"}] /\ type' \in [Threads -> Types]
          /\ loc' \in [Threads -> Locations]
      BY <1>10 DEF Restart, Types, Locations
    <3>3. LocInv'
      BY <1>10 DEF Restart, LocInv
    <3>4. nRestart' \in 0 .. MaxRestarts /\ crossed' \subseteq Types
      BY <1>0, <1>10 DEF Restart, TypeOK
    <3> QED
      BY <1>10, <2>1, <3>1, <3>2, <3>3, <3>4 DEF Restart, TypeOK, Saved, Locations
<1>11. ASSUME NEW s \in {"works", "hung", "gone"}, SlogChanges(s)
       PROVE  TypeOK' /\ LocInv'
  BY <1>11 DEF SlogChanges, TypeOK, LocInv, slogs, args, main
<1>12. CASE UNCHANGED vars
  BY <1>12 DEF vars, TypeOK, LocInv, slogs, args, main, env
<1> QED
  BY <1>1, <1>2, <1>3, <1>4, <1>5, <1>6, <1>7, <1>8, <1>9, <1>10, <1>11, <1>12
     DEF Next, Step

\* However the requests of the socket and of the channels interleave, with
\* each other and with main(), the properties hold one of the destinations
\* that sys_getlogdest() knows, and every variable its type.
THEOREM TypeCorrect == Spec => []TypeOK
<1>1. TypeInv => TypeOK
  BY DEF TypeInv
<1> QED
  BY <1>1, TypeInit, TypeStep, PTL DEF Spec

-----------------------------------------------------------------------------
(* Calls for one type that do not overlap *)

\* At most one call for type t goes on, and none that main() could disturb.
OneCall(t) ==
  /\ \A c, d \in Threads :
       pc[c] # "idle" /\ pc[d] # "idle" /\ type[c] = t /\ type[d] = t => c = d
  /\ BootConcerns(t) => \A c \in Threads : pc[c] # "idle" => type[c] # t

\* The ports of device t are as location l wants them.
Fits(t, l) == (l = "pc" => devOn[t]) /\ (l = "tcard" => ~devOn[t])

\* What main() has done so far for type t.
BootInv(t) ==
  /\ t = "modem" /\ boot = "modem" => devOn[t]
  /\ t = "modem" /\ boot = "modem_off" => dest[t] # "pc"
  /\ t = "wcn" /\ boot = "wcn_set" => saved = dest[t]

\* A device is ahead of its destination between resetWithDevName() and
\* sys_setlogdest(), and only there.
DevInv(t) ==
  ~BootConcerns(t) =>
    /\ (\A c \in Threads : pc[c] = "set" => type[c] # t) => Fits(t, dest[t])
    /\ \A c \in Threads : pc[c] = "set" /\ type[c] = t => Fits(t, loc[c])

\* Call c has told slogmodem of a new destination of log g that is not saved
\* yet, or has still to tell it of one that is.
Pending(c, g) == \/ pc[c] \in {"reset", "set"} /\ type[c] = g
                 \/ pc[c] = "agdsp" /\ g = "agdsp"

\* A call for the modem tells the AGDSP what it has saved.
AgdspInv ==
  \A c \in Threads :
    pc[c] = "agdsp" =>
      /\ type[c] = "modem"
      /\ "modem" \notin crossed => dest["modem"] = loc[c]

\* slogmodem is ahead of the destination from its answer to
\* sys_setlogdest(), and behind it for the AGDSP until the second notice.
SlogInv(g) ==
  /\ (\A c \in Threads : ~Pending(c, g)) => (slog[g] <=> dest[Ruler(g)] = "tcard")
  /\ \A c \in Threads : pc[c] \in {"reset", "set"} /\ type[c] = g
                          => (slog[g] <=> loc[c] = "tcard")

ApartInv ==
  /\ \A t \in Types \ crossed : OneCall(t) /\ BootInv(t) /\ DevInv(t)
  /\ AgdspInv
  /\ \A g \in Logs \ astray : Ruler(g) \notin crossed => SlogInv(g)

\* The parts hold at the start.
LEMMA ApartInit == Init => ApartInv
<1> SUFFICES ASSUME Init
             PROVE  ApartInv
  OBVIOUS
<1>1. \A t \in Types : OneCall(t) /\ BootInv(t) /\ DevInv(t)
  BY DEF Init, OneCall, BootInv, DevInv, BootConcerns, Fits, Types
<1>2. AgdspInv
  BY DEF Init, AgdspInv
<1>3. \A g \in Logs : SlogInv(g)
  BY DEF Init, SlogInv, Pending
<1> QED
  BY <1>1, <1>2, <1>3 DEF ApartInv

\* main() brings the device of a type without calls to what the saved
\* destination wants, and leaves slogmodem alone.
LEMMA BootApart ==
  ASSUME TypeOK, ApartInv, Boot
  PROVE  ApartInv'
<1>1. UNCHANGED <<dest, slog, astray, crossed, pc, type, loc>>
  BY DEF Boot, BootReadModem, BootModemOff, BootReadWcn, BootSetWcn, slogs, args
<1>2. AgdspInv' /\ \A g \in Logs \ astray' : Ruler(g) \notin crossed' => SlogInv(g)'
  BY <1>1 DEF ApartInv, AgdspInv, SlogInv, Pending
<1>3. ASSUME NEW t \in Types \ crossed
      PROVE  OneCall(t)' /\ BootInv(t)' /\ DevInv(t)'
  <2> USE DEF ApartInv
  <2>1. BootConcerns(t)' => BootConcerns(t)
    BY DEF BootConcerns, Boot, BootReadModem, BootModemOff, BootReadWcn, BootSetWcn, Types
  <2>2. OneCall(t)'
    BY <1>1, <2>1 DEF OneCall
  <2>3. BootConcerns(t) => \A d \in Threads : pc[d] = "set" => type[d] # t
    BY DEF OneCall
  <2>4. CASE BootReadModem
    <3>1. t = "modem" => (boot'="wcn" => Fits(t, dest[t])) /\ (boot' = "modem_off" => dest[t] # "pc")
      BY <2>4 DEF BootReadModem, BootInv, Fits
    <3> QED
      BY <1>1, <2>2, <2>3, <2>4, <3>1 DEF BootReadModem, BootInv, DevInv, BootConcerns, Fits, Types
  <2>5. CASE BootModemOff
    <3>1. t = "modem" => ~devOn'[t] /\ dest[t] # "pc"
      BY <2>5 DEF BootModemOff, BootInv, TypeOK
    <3> QED
      BY <1>1, <2>2, <2>3, <2>5, <3>1 DEF BootModemOff, BootInv, DevInv, BootConcerns, Fits, Types
  <2>6. CASE BootReadWcn
    BY <1>1, <2>2, <2>6 DEF BootReadWcn, BootInv, DevInv, BootConcerns, Fits, Types
  <2>7. CASE BootSetWcn
    <3>1. t = "wcn" => (devOn'[t] <=> dest[t] = "pc")
      BY <2>7 DEF BootSetWcn, BootInv, TypeOK
    <3>2. t = "modem" => devOn'[t] = devOn[t]
      BY <2>7 DEF BootSetWcn, TypeOK
    <3> QED
      BY <1>1, <2>2, <2>3, <2>7, <3>1, <3>2 DEF BootSetWcn, BootInv, DevInv, BootConcerns, Fits, Types
  <2> QED
    BY <2>4, <2>5, <2>6, <2>7 DEF Boot
<1> QED
  BY <1>1, <1>2, <1>3 DEF ApartInv

\* The step of a call leaves main() and the other calls alone.
LEMMA StepKeeps ==
  ASSUME TypeOK, NEW c \in Threads, Step(c)
  PROVE  /\ pc[c] # "idle" /\ UNCHANGED <<boot, saved, crossed>>
         /\ \A d \in Threads \ {c} :
              pc'[d] = pc[d] /\ type'[d] = type[d] /\ loc'[d] = loc[d]
         /\ pc'[c] # "idle" => type'[c] = type[c] /\ loc'[c] = loc[c]
<1>1. pc[c] # "idle" /\ UNCHANGED <<boot, saved, crossed>>
  BY DEF Step, ReadDest, Already, Notice, Reset, SetDest, NoticeAgdsp, Switch, main
<1>2. \A d \in Threads \ {c} : pc'[d] = pc[d]
  BY DEF Step, ReadDest, Already, Notice, Reset, SetDest, NoticeAgdsp, Switch, Goto, TypeOK
<1>3. CASE Switch(c)
  BY <1>1, <1>2, <1>3 DEF Switch, Goto, Forget, TypeOK
<1>4. CASE ~Switch(c)
  <2>1. UNCHANGED <<type, loc>>
    BY <1>4 DEF Step, ReadDest, Already, Notice, Reset, SetDest, NoticeAgdsp, args
  <2> QED
    BY <1>1, <1>2, <2>1
<1> QED
  BY <1>3, <1>4

\* A call for a type that is not crossed is the only one for this type, and
\* main() is through with it.
LEMMA Alone ==
  ASSUME ApartInv, TypeOK, NEW c \in Threads, pc[c] # "idle", type[c] \notin crossed
  PROVE  /\ ~BootConcerns(type[c])
         /\ \A d \in Threads \ {c} : pc[d] # "idle" => type[d] # type[c]
BY DEF ApartInv, OneCall, TypeOK

\* The step of a call keeps the parts about main() and about the devices.
LEMMA DevStep ==
  ASSUME TypeOK, ApartInv, NEW c \in Threads, Step(c), NEW t \in Types \ crossed
  PROVE  OneCall(t)' /\ BootInv(t)' /\ DevInv(t)'
<1> USE DEF ApartInv
<1>1. /\ pc[c] # "idle" /\ UNCHANGED <<boot, saved, crossed>>
      /\ \A d \in Threads \ {c} : pc'[d] = pc[d] /\ type'[d] = type[d] /\ loc'[d] = loc[d]
      /\ pc'[c] # "idle" => type'[c] = type[c] /\ loc'[c] = loc[c]
  BY StepKeeps
<1>2. OneCall(t)'
  BY <1>1 DEF OneCall, BootConcerns
<1>3. CASE type[c] # t
  <2>1. dest'[t] = dest[t] /\ devOn'[t] = devOn[t]
    BY <1>3 DEF Step, ReadDest, Already, Notice, Reset, SetDest, NoticeAgdsp, Switch, TypeOK
  <2>2. pc[c] = "set" => type[c] # t
    BY <1>3
  <2>3. pc'[c] = "set" => type'[c] # t
    BY <1>1, <1>3
  <2>4. \A d \in Threads : (pc'[d] = "set" /\ type'[d] = t) <=> (pc[d] = "set" /\ type[d] = t)
    BY <1>1, <2>2, <2>3
  <2>5. BootInv(t)'
    BY <1>1, <2>1 DEF BootInv
  <2>6. \A d \in Threads : pc'[d] = "set" /\ type'[d] = t => loc'[d] = loc[d]
    BY <1>1
  <2>7. DevInv(t)'
    BY <1>1, <2>1, <2>4, <2>6 DEF DevInv, Fits, BootConcerns
  <2> QED
    BY <1>2, <2>5, <2>7
<1>4. CASE type[c] = t
  <2>1. ~BootConcerns(t) /\ \A d \in Threads \ {c} : pc[d] # "idle" => type[d] # t
    BY <1>1, <1>4, Alone
  <2>2. BootInv(t)'
    BY <1>1, <2>1 DEF BootInv, BootConcerns
  <2>3. \A d \in Threads \ {c} : pc'[d] = "set" => type'[d] # t
    BY <1>1, <2>1
  <2>4. CASE Reset(c)
    <3>1. pc'[c] = "set" /\ Fits(t, loc[c])'
      BY <1>4, <2>4 DEF Reset, Fits, Goto, TypeOK, args
    <3> QED
      BY <1>1, <1>2, <1>4, <2>2, <2>3, <3>1 DEF DevInv, Fits
  <2>5. CASE SetDest(c)
    <3>1. pc[c] = "set" /\ pc'[c] # "set" /\ dest'[t] = loc[c] /\ UNCHANGED devOn
      BY <1>4, <2>5 DEF SetDest, Goto, TypeOK
    <3>2. Fits(t, loc[c])
      BY <1>4, <2>1, <3>1 DEF DevInv
    <3> QED
      BY <1>2, <2>2, <2>3, <3>1, <3>2 DEF DevInv, Fits
  <2>6. CASE Notice(c)
    <3>1. pc[c] = "notice" /\ UNCHANGED <<dest, devOn>>
      BY <2>6 DEF Notice
    <3>2. Fits(t, dest[t])
      BY <2>1, <3>1 DEF DevInv
    <3>3. pc'[c] = "set" => loc[c] = "none"
      BY <2>6 DEF Notice, Goto, TypeOK
    <3> QED
      BY <1>1, <1>2, <2>2, <2>3, <3>1, <3>2, <3>3 DEF DevInv, Fits
  <2>7. CASE ReadDest(c) \/ Already(c) \/ NoticeAgdsp(c) \/ Switch(c)
    <3>1. pc[c] # "set" /\ pc'[c] # "set" /\ UNCHANGED <<dest, devOn>>
      BY <2>7 DEF ReadDest, Already, NoticeAgdsp, Switch, Goto, TypeOK
    <3>2. Fits(t, dest[t])
      BY <2>1, <3>1 DEF DevInv
    <3> QED
      BY <1>2, <2>2, <2>3, <3>1, <3>2 DEF DevInv, Fits
  <2> QED
    BY <2>4, <2>5, <2>6, <2>7 DEF Step
<1> QED
  BY <1>3, <1>4

\* What notice_slogmodem() leaves of the other logs, and of its own.
LEMMA ToldWhat ==
  ASSUME TypeOK, NEW g \in Logs, NEW on \in BOOLEAN, NEW res, Told(g, on, res)
  PROVE  /\ \A h \in Logs \ {g} : slog'[h] = slog[h] /\ (h \in astray' <=> h \in astray)
         /\ res # "none" /\ g \notin astray' => (slog'[g] <=> on)
         /\ res = "none" /\ g \notin astray' => slog'[g] = slog[g] /\ g \notin astray
         /\ g = "agdsp" /\ g \notin astray' => (slog'[g] <=> on)
BY DEF Told, TypeOK

\* The step of a call keeps the part about the AGDSP.
LEMMA AgdspStep ==
  ASSUME TypeOK, ApartInv, NEW c \in Threads, Step(c)
  PROVE  AgdspInv'
<1>1. /\ pc[c] # "idle" /\ UNCHANGED <<boot, saved, crossed>>
      /\ \A d \in Threads \ {c} : pc'[d] = pc[d] /\ type'[d] = type[d] /\ loc'[d] = loc[d]
      /\ pc'[c] # "idle" => type'[c] = type[c] /\ loc'[c] = loc[c]
  BY StepKeeps
<1>2. AgdspInv
  BY DEF ApartInv
<1>3. CASE SetDest(c)
  <2>1. pc'[c] = "agdsp" => type[c] = "modem" /\ dest'["modem"] = loc[c]
    BY <1>3 DEF SetDest, Goto, TypeOK, Types
  <2>2. pc'[c] # "idle"
    BY <1>3 DEF SetDest, Goto, TypeOK
  <2>3. ASSUME NEW d \in Threads \ {c}, pc[d] = "agdsp"
        PROVE  type[d] = "modem" /\ ("modem" \notin crossed => dest'["modem"] = loc[d])
    <3>1. type[d] = "modem" /\ ("modem" \notin crossed => dest["modem"] = loc[d])
      BY <1>2, <2>3 DEF AgdspInv
    <3>2. "modem" \notin crossed => type[c] # "modem"
      <4> SUFFICES ASSUME "modem" \notin crossed, type[c] = "modem"
                   PROVE  FALSE
        OBVIOUS
      <4> QED
        BY <1>1, <2>3, <3>1, Alone
    <3>3. type[c] # "modem" => dest'["modem"] = dest["modem"]
      BY <1>3 DEF SetDest, TypeOK
    <3> QED
      BY <3>1, <3>2, <3>3
  <2> QED
    BY <1>1, <2>1, <2>2, <2>3 DEF AgdspInv
<1>4. CASE ~SetDest(c)
  <2>1. UNCHANGED dest /\ pc'[c] # "agdsp"
    BY <1>4 DEF Step, ReadDest, Already, Notice, Reset, NoticeAgdsp, Switch, Goto, TypeOK
  <2> QED
    BY <1>1, <1>2, <2>1 DEF AgdspInv
<1> QED
  BY <1>3, <1>4

\* The step of a call keeps the part about slogmodem.
LEMMA SlogStep ==
  ASSUME TypeOK, ApartInv, NEW c \in Threads, Step(c),
         NEW g \in Logs, g \notin astray', Ruler(g) \notin crossed
  PROVE  SlogInv(g)'
<1>1. /\ pc[c] # "idle" /\ UNCHANGED <<boot, saved, crossed>>
      /\ \A d \in Threads \ {c} : pc'[d] = pc[d] /\ type'[d] = type[d] /\ loc'[d] = loc[d]
      /\ pc'[c] # "idle" => type'[c] = type[c] /\ loc'[c] = loc[c]
  BY StepKeeps
<1>2. g \notin astray => SlogInv(g)
  BY DEF ApartInv
<1>3. Ruler(g) \in Types
  BY DEF Ruler, Logs, Types
<1>4. \A d \in Threads : Pending(d, g) => pc[d] # "idle" /\ type[d] = Ruler(g)
  BY DEF Pending, ApartInv, AgdspInv, Ruler, TypeOK, Types
<1>5. \A d \in Threads \ {c} : Pending(d, g)' <=> Pending(d, g)
  BY <1>1 DEF Pending
<1>6. type[c] = Ruler(g) => \A d \in Threads \ {c} : ~Pending(d, g)
  <2>1. ASSUME type[c] = Ruler(g), NEW d \in Threads \ {c}, Pending(d, g)
        PROVE  FALSE
    <3>1. pc[d] # "idle" /\ type[d] = type[c] /\ type[c] \notin crossed
      BY <1>4, <2>1
    <3> QED
      BY <1>1, <3>1, Alone
  <2> QED
    BY <2>1
<1>7. \A d \in Threads : Pending(d, g) /\ pc[d] # "agdsp" => pc[d] \in {"reset", "set"} /\ type[d] = g
  BY DEF Pending
<1>8. CASE ReadDest(c) \/ Already(c) \/ Switch(c)
  <2>1. /\ pc[c] \notin {"reset", "set", "agdsp"} /\ pc'[c] \notin {"reset", "set", "agdsp"}
        /\ UNCHANGED <<dest, slog, astray>>
    BY <1>8 DEF ReadDest, Already, Switch, Goto, TypeOK, slogs
  <2>2. ~Pending(c, g) /\ ~Pending(c, g)'
    BY <2>1 DEF Pending
  <2> QED
    BY <1>1, <1>2, <1>5, <2>1, <2>2 DEF SlogInv
<1>9. CASE Reset(c)
  <2>1. /\ pc[c] = "reset" /\ pc'[c] = "set"
        /\ UNCHANGED <<dest, slog, astray>>
    BY <1>9 DEF Reset, Goto, TypeOK, slogs
  <2>2. Pending(c, g)' <=> Pending(c, g)
    BY <1>1, <2>1 DEF Pending
  <2> QED
    BY <1>1, <1>2, <1>5, <2>1, <2>2 DEF SlogInv
<1>10. CASE Notice(c)
  <2>1. PICK res \in {"ok", "error", "none"} :
          /\ Told(type[c], loc[c] = "tcard", res)
          /\ Goto(c, CASE res = "none" -> "switch"
                       [] res # "none" /\ loc[c] = "none" -> "set"
                       [] OTHER -> "reset")
    BY <1>10 DEF Notice
  <2>2. pc[c] = "notice" /\ UNCHANGED dest
    BY <1>10 DEF Notice
  <2>3. ~Pending(c, g)
    BY <2>2 DEF Pending
  <2>4. type[c] \in Logs /\ type[c] # "agdsp" /\ Ruler(type[c]) = type[c]
    BY DEF TypeOK, Logs, Types, Ruler
  <2>5. pc'[c] = "switch" \/ pc'[c] \in {"set", "reset"}
    BY <2>1 DEF Goto, TypeOK
  <2>6. CASE g # type[c]
    <3>1. slog'[g] = slog[g] /\ g \notin astray
      BY <2>1, <2>4, <2>6, ToldWhat
    <3>2. ~Pending(c, g)'
      BY <1>1, <2>5, <2>6 DEF Pending
    <3>3. pc'[c] \in {"reset", "set"} => type'[c] # g
      BY <1>1, <2>5, <2>6
    <3> QED
      BY <1>1, <1>2, <1>5, <2>2, <2>3, <3>1, <3>2, <3>3 DEF SlogInv
  <2>7. CASE g = type[c] /\ res = "none"
    <3>1. pc'[c] = "switch"
      BY <2>1, <2>7 DEF Goto, TypeOK
    <3>2. slog'[g] = slog[g] /\ g \notin astray
      BY <2>1, <2>4, <2>7, ToldWhat
    <3> QED
      BY <1>1, <1>2, <1>5, <2>2, <2>3, <3>1, <3>2 DEF SlogInv
  <2>8. CASE g = type[c] /\ res # "none"
    <3>1. pc'[c] \in {"set", "reset"}
      BY <2>1, <2>8 DEF Goto, TypeOK
    <3>2. slog'[g] <=> loc[c] = "tcard"
      BY <2>1, <2>4, <2>8, ToldWhat
    <3>3. Pending(c, g)'
      BY <1>1, <2>8, <3>1 DEF Pending
    <3>4. \A d \in Threads \ {c} : ~(pc'[d] \in {"reset", "set"} /\ type'[d] = g)
      BY <1>5, <1>6, <2>4, <2>8 DEF Pending
    <3> QED
      BY <1>1, <3>1, <3>2, <3>3, <3>4 DEF SlogInv
  <2> QED
    BY <2>6, <2>7, <2>8
<1>11. CASE SetDest(c)
  <2>1. /\ pc[c] = "set" /\ UNCHANGED <<slog, astray>>
        /\ dest' = [dest EXCEPT ![type[c]] = loc[c]]
        /\ pc'[c] = IF type[c] = "modem" THEN "agdsp" ELSE "switch"
    BY <1>11 DEF SetDest, Goto, TypeOK, slogs
  <2>2. SlogInv(g)
    BY <1>2, <2>1
  <2>3. pc'[c] \notin {"reset", "set"}
    BY <2>1
  <2>4. CASE g = type[c]
    <3>1. slog[g] <=> loc[c] = "tcard"
      BY <2>1, <2>2, <2>4 DEF SlogInv
    <3>2. Ruler(g) = g /\ dest'[g] = loc[c]
      BY <2>1, <2>4 DEF Ruler, TypeOK, Types
    <3>3. \A d \in Threads \ {c} : ~Pending(d, g)'
      BY <1>5, <1>6, <2>4, <3>2
    <3> QED
      BY <2>1, <2>3, <3>1, <3>2, <3>3 DEF SlogInv, Pending
  <2>5. CASE g # type[c] /\ type[c] = Ruler(g)
    <3>1. Pending(c, g)'
      BY <1>1, <2>1, <2>5 DEF Ruler, Pending
    <3>2. \A d \in Threads \ {c} : ~(pc'[d] \in {"reset", "set"} /\ type'[d] = g)
      BY <1>5, <1>6, <2>5 DEF Pending
    <3> QED
      BY <2>3, <3>1, <3>2 DEF SlogInv
  <2>6. CASE g # type[c] /\ type[c] # Ruler(g)
    <3>1. dest'[Ruler(g)] = dest[Ruler(g)]
      BY <1>3, <2>1, <2>6 DEF TypeOK
    <3>2. ~Pending(c, g)
      BY <2>1, <2>6 DEF Pending
    <3> QED
      BY <1>1, <1>5, <2>1, <2>2, <2>3, <3>1, <3>2 DEF SlogInv
  <2> QED
    BY <2>4, <2>5, <2>6
<1>12. CASE NoticeAgdsp(c)
  <2>1. PICK res \in {"ok", "error", "none"} : Told("agdsp", loc[c] = "tcard", res)
    BY <1>12 DEF NoticeAgdsp
  <2>2. pc[c] = "agdsp" /\ pc'[c] = "switch" /\ UNCHANGED dest
    BY <1>12 DEF NoticeAgdsp, Goto, TypeOK
  <2>3. "agdsp" \in Logs
    BY DEF Logs
  <2>4. CASE g = "agdsp"
    <3>1. slog'[g] <=> loc[c] = "tcard"
      BY <2>1, <2>3, <2>4, ToldWhat
    <3>2. type[c] = "modem" /\ Ruler(g) = "modem" /\ dest["modem"] = loc[c]
      BY <2>2, <2>4 DEF ApartInv, AgdspInv, Ruler
    <3>3. \A d \in Threads \ {c} : ~Pending(d, g)'
      BY <1>5, <1>6, <3>2
    <3>4. \A d \in Threads : ~(pc'[d] \in {"reset", "set"} /\ type'[d] = g)
      BY <2>2, <3>3 DEF Pending
    <3> QED
      BY <2>2, <3>1, <3>2, <3>4 DEF SlogInv
  <2>5. CASE g # "agdsp"
    <3>1. slog'[g] = slog[g] /\ g \notin astray
      BY <2>1, <2>3, <2>5, ToldWhat
    <3>2. ~Pending(c, g) /\ ~Pending(c, g)'
      BY <2>2, <2>5 DEF Pending
    <3> QED
      BY <1>1, <1>2, <1>5, <2>2, <3>1, <3>2 DEF SlogInv
  <2> QED
    BY <2>4, <2>5
<1> QED
  BY <1>8, <1>9, <1>10, <1>11, <1>12 DEF Step

\* A request that begins disturbs no type but its own, and marks that as
\* crossed if another call or main() is under way with it.
LEMMA RequestApart ==
  ASSUME TypeOK, ApartInv, NEW c \in Threads, NEW t \in Types,
         NEW l \in Locations \cup {"other"}, Request(c, t, l)
  PROVE  ApartInv'
<1>1. /\ pc[c] = "idle" /\ pc'[c] = "read" /\ type'[c] = t
      /\ \A d \in Threads \ {c} : pc'[d] = pc[d] /\ type'[d] = type[d] /\ loc'[d] = loc[d]
      /\ UNCHANGED <<dest, devOn, slog, astray, boot, saved>>
      /\ crossed \subseteq crossed'
  BY DEF Request, Goto, TypeOK, slogs, main
<1>2. t \notin crossed' => /\ ~BootConcerns(t)
                           /\ \A d \in Threads : pc[d] # "idle" => type[d] # t
  BY DEF Request
<1>3. ASSUME NEW u \in Types \ crossed'
      PROVE  OneCall(u)' /\ BootInv(u)' /\ DevInv(u)'
  <2>1. OneCall(u) /\ BootInv(u) /\ DevInv(u)
    BY <1>1 DEF ApartInv
  <2>2. BootInv(u)' /\ DevInv(u)'
    BY <1>1, <2>1 DEF BootInv, DevInv, BootConcerns, Fits
  <2>3. CASE u = t
    BY <1>1, <1>2, <2>2, <2>3 DEF OneCall, BootConcerns
  <2>4. CASE u # t
    BY <1>1, <2>1, <2>2, <2>4 DEF OneCall, BootConcerns
  <2> QED
    BY <2>3, <2>4
<1>4. AgdspInv'
  BY <1>1 DEF ApartInv, AgdspInv
<1>5. ASSUME NEW g \in Logs \ astray', Ruler(g) \notin crossed'
      PROVE  SlogInv(g)'
  <2>1. SlogInv(g)
    BY <1>1, <1>5 DEF ApartInv
  <2>2. \A d \in Threads : Pending(d, g)' <=> Pending(d, g)
    BY <1>1 DEF Pending
  <2> QED
    BY <1>1, <2>1, <2>2 DEF SlogInv
<1> QED
  BY <1>3, <1>4, <1>5 DEF ApartInv

\* A restart, at whatever step of the calls, leaves the logs that it made
\* doubtful in astray.
LEMMA RestartApart ==
  ASSUME TypeOK, ApartInv, Restart
  PROVE  ApartInv'
<1>1. /\ boot' = "modem" /\ devOn' = [t \in Types |-> TRUE]
      /\ \A d \in Threads : pc'[d] = "idle"
      /\ UNCHANGED <<dest, slog>>
  BY DEF Restart
<1>2. \A t \in Types : OneCall(t)' /\ BootInv(t)' /\ DevInv(t)'
  BY <1>1 DEF OneCall, BootInv, DevInv, BootConcerns, Types
<1>3. AgdspInv'
  BY <1>1 DEF AgdspInv
<1>4. ASSUME NEW g \in Logs \ astray'
      PROVE  SlogInv(g)'
  <2>1. g \notin astray /\ Ruler(g) \notin crossed /\ \A d \in Threads : ~Pending(d, g)
    BY <1>4 DEF Restart, Pending, TypeOK
  <2>2. slog[g] <=> dest[Ruler(g)] = "tcard"
    BY <2>1 DEF ApartInv, SlogInv
  <2> QED
    BY <1>1, <2>2 DEF SlogInv
<1> QED
  BY <1>2, <1>3, <1>4 DEF ApartInv

\* Requests that interleave in any way, with restarts and slogmodem's faults
\* anywhere between their steps, keep the parts.
LEMMA ApartStep ==
  ASSUME TypeInv, ApartInv, [Next]_vars
  PROVE  ApartInv'
<1> USE DEF TypeInv
<1>1. CASE Boot
  BY <1>1, BootApart
<1>2. ASSUME NEW c \in Threads, Step(c)
      PROVE  ApartInv'
  <2>1. UNCHANGED crossed
    BY <1>2, StepKeeps
  <2>2. \A t \in Types \ crossed : OneCall(t)' /\ BootInv(t)' /\ DevInv(t)'
    BY <1>2, DevStep
  <2>3. AgdspInv'
    BY <1>2, AgdspStep
  <2>4. \A g \in Logs \ astray' : Ruler(g) \notin crossed => SlogInv(g)'
    BY <1>2, SlogStep
  <2> QED
    BY <2>1, <2>2, <2>3, <2>4 DEF ApartInv
<1>3. ASSUME NEW c \in Threads, NEW t \in Types, NEW l \in Locations \cup {"other"},
             Request(c, t, l)
      PROVE  ApartInv'
  BY <1>3, RequestApart
<1>4. CASE Restart
  BY <1>4, RestartApart
<1>5. CASE (\E s \in {"works", "hung", "gone"} : SlogChanges(s)) \/ UNCHANGED vars
  <2>1. UNCHANGED <<dest, devOn, slog, astray, crossed, boot, saved, pc, type, loc>>
    BY <1>5 DEF SlogChanges, vars, slogs, args, main
  <2> QED
    BY <2>1 DEF ApartInv, OneCall, BootInv, DevInv, BootConcerns, Fits, AgdspInv, SlogInv, Pending
<1> QED
  BY <1>1, <1>2, <1>3, <1>4, <1>5 DEF Next

\* The inductive invariant, for every interleaving of the requests.
LEMMA ApartHolds == Spec => [](TypeInv /\ ApartInv)
<1>1. Init => TypeInv /\ ApartInv
  BY TypeInit, ApartInit
<1>2. TypeInv /\ ApartInv /\ [Next]_vars => (TypeInv /\ ApartInv)'
  BY TypeStep, ApartStep
<1> QED
  BY <1>1, <1>2, PTL DEF Spec

\* Between requests the ports of every device are as its destination wants
\* them, whatever slogmodem answered, wherever init restarted the program
\* and whatever the calls for the other type did at the same time; of a type
\* with two calls, or a call and main(), under way together since the start
\* nothing is said.
THEOREM DeviceFollows == Spec => []DeviceFollowsDest
<1>1. ApartInv => DeviceFollowsDest
  BY DEF ApartInv, DevInv, BootConcerns, Fits, DeviceFollowsDest, Quiet
<1> QED
  BY <1>1, ApartHolds, PTL

\* And slogmodem writes to the T card exactly the logs that belong there,
\* except those that SlogFollowsDest excuses.
THEOREM SlogFollows == Spec => []SlogFollowsDest
<1>1. ApartInv => SlogFollowsDest
  BY DEF ApartInv, SlogInv, Pending, SlogFollowsDest, Quiet
<1> QED
  BY <1>1, ApartHolds, PTL
=============================================================================
