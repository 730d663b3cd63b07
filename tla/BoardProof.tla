----------------------------- MODULE BoardProof -----------------------------
(***************************************************************************)
(* What PowerCtl promises of the charger and of AT+SPREBOOTCMD, and        *)
(* PmicCali of the crystal oscillator, proved for the whole board: any     *)
(* number of channel threads and jobs, any requests, failing files and     *)
(* accesses, deaths of the process and restarts of the phone at any        *)
(* moment.  The two results about the oscillator speak of the time until   *)
(* accesses overlap, or a calibration and another request for registers    *)
(* (mixed): dcx_amp_cali() reads the mode when it starts and does not      *)
(* notice that a switch that was answered meanwhile has changed it.        *)
(***************************************************************************)
EXTENDS Board, TLAPS

-----------------------------------------------------------------------------
(* The current of the charger *)

InCurrent(a) == preq[a].op = "current"

\* A thread serves a request for the current exactly while it is at one of
\* the two writes, and then the kernel's version is known.
ServeInv ==
  /\ DOMAIN preq = Threads /\ DOMAIN ppc = Threads
  /\ \A a \in Threads : InCurrent(a) <=> ppc[a] \in {"current", "current2"}
  /\ kernel \in {"any", "k44", "k414", "bare"}
  /\ \A a \in Threads : InCurrent(a) => kernel # "any" /\ preq[a].x \in Nat

\* If the last request for the current ran alone, no other is under way; at
\* its second write the first file holds its value already, and once it is
\* answered as set both do.
SetInv ==
  /\ curSet \in [v : Int, alone : BOOLEAN]
  /\ curSet.alone =>
       /\ \A a, b \in Threads : InCurrent(a) /\ InCurrent(b) => a = b
       /\ \A a \in Threads : InCurrent(a) => curSet.v = -1
       /\ \A a \in Threads : ppc[a] = "current2" /\ kernel # "bare"
            => dev[CurrentFile(kernel, 1)] = preq[a].x
       /\ curSet.v >= 0 => dev.input = curSet.v /\ dev.charge = curSet.v

CurrentInv == ServeInv /\ {"input", "charge"} \subseteq DOMAIN dev /\ SetInv

-----------------------------------------------------------------------------
(* The buffer of AT+SPREBOOTCMD *)

\* As long as no two requests were stored at a time, at most one thread is
\* storing its text, into an empty buffer; and while none is, the buffer holds
\* the text stored last and nothing else.
BufferInv ==
  ~crossed =>
    /\ \A a, b \in Threads : Storing(a) /\ Storing(b) => a = b
    /\ (\E a \in Threads : Storing(a)) => reboot_cmd_param = Unset
    /\ (~\E a \in Threads : Storing(a)) =>
         reboot_cmd_param.head = asked /\ reboot_cmd_param.rest = "-"

BoardInv == CurrentInv /\ BufferInv

-----------------------------------------------------------------------------
(* The steps of a thread *)

\* The other threads stay where they are.
OthersStay(a) ==
  /\ DOMAIN ppc' = DOMAIN ppc /\ DOMAIN preq' = DOMAIN preq
  /\ \A b \in Threads \ {a} : ppc'[b] = ppc[b] /\ preq'[b] = preq[b]

\* A step that has nothing to do with the current of the charger.
OffCurrent(a) ==
  /\ ppc[a] \notin {"current", "current2"} /\ ppc'[a] \notin {"current", "current2"}
  /\ preq'[a].op # "current"
  /\ DOMAIN dev' = DOMAIN dev /\ dev'.input = dev.input /\ dev'.charge = dev.charge
  /\ UNCHANGED <<kernel, curSet>>

\* A step that has nothing to do with the buffer of AT+SPREBOOTCMD.
OffBuffer(a) ==
  /\ ppc[a] # "copy" /\ ppc'[a] # "copy"
  /\ UNCHANGED <<reboot_cmd_param, asked, crossed>>

\* An answer frees its thread and moves no other.
LEMMA Replies ==
  ASSUME CurrentInv, NEW a \in Threads, NEW ok, NEW v, PReply(a, ok, v)
  PROVE  OthersStay(a) /\ ppc'[a] = "idle" /\ preq'[a] = NoPower
BY DEF CurrentInv, ServeInv, PReply, OthersStay

\* A thread that goes on moves no other and keeps its request.
LEMMA Goes ==
  ASSUME CurrentInv, NEW a \in Threads, NEW l, PGoto(a, l)
  PROVE  OthersStay(a) /\ ppc'[a] = l /\ preq'[a] = preq[a]
BY DEF CurrentInv, ServeInv, PGoto, OthersStay

\* A device other than the two files of the current can be set without
\* touching them.
LEMMA SetsOther ==
  ASSUME CurrentInv, NEW f, f \notin {"input", "charge"}, NEW x
  PROVE  LET d == [dev EXCEPT ![f] = x]
         IN  DOMAIN d = DOMAIN dev /\ d.input = dev.input /\ d.charge = dev.charge
BY DEF CurrentInv

\* The two inductive invariants survive a step that has nothing to do with them.
LEMMA CurrentKept ==
  ASSUME CurrentInv, NEW a \in Threads, OthersStay(a), OffCurrent(a)
  PROVE  CurrentInv'
<1>1. \A b \in Threads : InCurrent(b)' <=> InCurrent(b)
  BY DEF CurrentInv, ServeInv, OthersStay, OffCurrent, InCurrent
<1>2. \A b \in Threads : InCurrent(b)' => b # a
  BY DEF OffCurrent, InCurrent
<1>3. ServeInv'
  <2>1. \A b \in Threads : InCurrent(b)' => preq'[b] = preq[b] BY <1>2 DEF OthersStay
  <2>. QED BY <1>1, <2>1 DEF CurrentInv, ServeInv, OthersStay, OffCurrent
<1>4. \A b \in Threads : ppc'[b] = "current2" => ppc[b] = "current2" /\ preq'[b] = preq[b]
  BY DEF OthersStay, OffCurrent
<1>5. \A b \in Threads : ppc[b] = "current2" => InCurrent(b)
  BY DEF CurrentInv, ServeInv
<1>6. \A b \in Threads : ppc[b] = "current2" /\ kernel # "bare"
        => dev'[CurrentFile(kernel, 1)] = dev[CurrentFile(kernel, 1)]
  BY <1>5 DEF CurrentInv, ServeInv, OffCurrent, CurrentFile
<1>7. SetInv'
  <2>1. UNCHANGED <<kernel, curSet>> BY DEF OffCurrent
  <2>2. curSet' \in [v : Int, alone : BOOLEAN] BY <2>1 DEF CurrentInv, SetInv
  <2>3. curSet'.alone => \A b \in Threads : ppc'[b] = "current2" /\ kernel' # "bare"
            => dev'[CurrentFile(kernel', 1)] = preq'[b].x
    BY <2>1, <1>4, <1>6 DEF CurrentInv, SetInv
  <2>4. curSet'.alone /\ curSet'.v >= 0 => dev'.input = curSet'.v /\ dev'.charge = curSet'.v
    BY <2>1 DEF OffCurrent, CurrentInv, SetInv
  <2>. QED BY <2>1, <2>2, <2>3, <2>4, <1>1 DEF CurrentInv, SetInv, CurrentFile
<1>. QED BY <1>3, <1>7 DEF CurrentInv, OffCurrent

\* The same for the buffer.
LEMMA BufferKept ==
  ASSUME BufferInv, NEW a \in Threads, OthersStay(a), OffBuffer(a)
  PROVE  BufferInv'
<1>1. \A b \in Threads : Storing(b)' <=> Storing(b)
  BY DEF OthersStay, OffBuffer, Storing
<1>. QED BY <1>1 DEF BufferInv, OffBuffer

\* The steps of a thread that concern neither.
QuietStep(a, opens, ok, v) ==
  \/ ControlCharge(a, ok) \/ Sample(a, ok, v) \/ Measured(a) \/ Capacity(a, opens, ok, v)
  \/ TestTypeC(a, ok) \/ GetProp(a) \/ SetProp(a) \/ SetVoltage(a, ok) \/ GetVoltage(a, ok)
  \/ GpioPad(a, opens, ok) \/ GpioPin(a, opens, ok) \/ dloader_handle(a)
  \/ reset_cmd_handle(a) \/ eng_diag_poweroff(a) \/ eng_diag_bootreset(a)
  \/ SleepStart(a, ok)

\* Each of them leaves both alone.
LEMMA Quiet ==
  ASSUME CurrentInv, NEW a \in Threads, NEW opens \in BOOLEAN, NEW ok \in BOOLEAN, NEW v,
         QuietStep(a, opens, ok, v)
  PROVE  OthersStay(a) /\ OffCurrent(a) /\ OffBuffer(a)
<1>. DEFINE Labels == {"current", "current2", "copy"}
            SameFiles == /\ DOMAIN dev' = DOMAIN dev
                         /\ dev'.input = dev.input /\ dev'.charge = dev.charge
<1>1. Only => UNCHANGED <<kernel, curSet, reboot_cmd_param, asked, crossed>>
  BY DEF Only, Else
<1>2. ASSUME NEW k, NEW w, PReply(a, k, w), ppc[a] \notin Labels, SameFiles,
             UNCHANGED <<kernel, curSet, reboot_cmd_param, asked, crossed>>
      PROVE  OthersStay(a) /\ OffCurrent(a) /\ OffBuffer(a)
  BY <1>2, Replies DEF OffCurrent, OffBuffer, NoPower
<1>3. ASSUME NEW l, PGoto(a, l), l \notin Labels, ppc[a] \notin Labels, SameFiles,
             UNCHANGED <<kernel, curSet, reboot_cmd_param, asked, crossed>>
      PROVE  OthersStay(a) /\ OffCurrent(a) /\ OffBuffer(a)
  <2>1. preq[a].op # "current" BY <1>3 DEF CurrentInv, ServeInv, InCurrent
  <2>. QED BY <2>1, <1>3, Goes DEF OffCurrent, OffBuffer
<1>4. ASSUME UNCHANGED dev PROVE SameFiles BY <1>4
<1>5. CASE ControlCharge(a, ok)
  <2>1. ppc[a] \notin Labels BY <1>5 DEF ControlCharge
  <2>2. SameFiles
    <3>1. ASSUME NEW x, SetStop(x, ok) PROVE SameFiles
      BY <3>1, <1>4, SetsOther DEF SetStop
    <3>. QED BY <1>5, <3>1, <1>4 DEF ControlCharge
  <2>3. \E k, w : PReply(a, k, w) BY <1>5 DEF ControlCharge
  <2>. QED BY <2>1, <2>2, <2>3, <1>1, <1>2, <1>5 DEF ControlCharge
<1>6. CASE Sample(a, ok, v)
  <2>1. preq[a].op # "current" /\ ppc[a] \notin Labels
    BY <1>6 DEF Sample, CurrentInv, ServeInv, InCurrent
  <2>. QED BY <2>1, <1>6, <1>1 DEF Sample, OthersStay, OffCurrent, OffBuffer
<1>7. CASE Measured(a) \/ Capacity(a, opens, ok, v) \/ TestTypeC(a, ok) \/ GetProp(a)
           \/ SetProp(a) \/ GetVoltage(a, ok)
  <2>1. ppc[a] \notin Labels /\ UNCHANGED dev /\ Only
    BY <1>7 DEF Measured, Capacity, TestTypeC, GetProp, SetProp, GetVoltage
  <2>2. \E k, w : PReply(a, k, w)
    BY <1>7 DEF Measured, Capacity, TestTypeC, GetProp, SetProp, GetVoltage
  <2>. QED BY <2>1, <2>2, <1>1, <1>2, <1>4
<1>8. CASE SetVoltage(a, ok)
  <2>1. ppc[a] \notin Labels /\ Only /\ PGoto(a, "readback") BY <1>8 DEF SetVoltage
  <2>2. SameFiles BY <1>8, <1>4, SetsOther DEF SetVoltage
  <2>. QED BY <2>1, <2>2, <1>1, <1>3
<1>9. CASE GpioPad(a, opens, ok)
  <2>1. ppc[a] \notin Labels /\ Only BY <1>9 DEF GpioPad
  <2>2. SameFiles BY <1>9, <1>4, SetsOther DEF GpioPad
  <2>3. PGoto(a, "pin") \/ \E k, w : PReply(a, k, w) BY <1>9 DEF GpioPad
  <2>. QED BY <2>1, <2>2, <2>3, <1>1, <1>2, <1>3
<1>10. CASE GpioPin(a, opens, ok)
  <2>1. ppc[a] \notin Labels /\ Only BY <1>10 DEF GpioPin
  <2>2. SameFiles BY <1>10, <1>4, SetsOther DEF GpioPin
  <2>3. \E k, w : PReply(a, k, w) BY <1>10 DEF GpioPin
  <2>. QED BY <2>1, <2>2, <2>3, <1>1, <1>2
<1>11. CASE dloader_handle(a) \/ reset_cmd_handle(a) \/ eng_diag_poweroff(a)
            \/ eng_diag_bootreset(a) \/ SleepStart(a, ok)
  <2>1. ppc[a] \notin Labels
    BY <1>11 DEF dloader_handle, reset_cmd_handle, eng_diag_poweroff, eng_diag_bootreset,
                 SleepStart
  <2>2. PReply(a, TRUE, 0) \/ PReply(a, ok, 0)
    BY <1>11 DEF dloader_handle, reset_cmd_handle, eng_diag_poweroff, eng_diag_bootreset,
                 SleepStart, Later, AtOnce
  <2>3. UNCHANGED <<device, reboot_cmd_param, past>>
    BY <1>11 DEF dloader_handle, reset_cmd_handle, eng_diag_poweroff, eng_diag_bootreset,
                 SleepStart, Later, AtOnce
  <2>. QED BY <2>1, <2>2, <2>3, <1>2, <1>4 DEF device, past
<1>. QED BY <1>5, <1>6, <1>7, <1>8, <1>9, <1>10, <1>11 DEF QuietStep

\* The first write: the other threads' requests for the current are over, or
\* the history variable knows of them.
LEMMA FirstWrite ==
  ASSUME CurrentInv, NEW a \in Threads, NEW ok \in BOOLEAN, Current1(a, ok)
  PROVE  CurrentInv' /\ OthersStay(a) /\ OffBuffer(a)
<1>. DEFINE f == CurrentFile(kernel, 1)  x == preq[a].x
<1>0. ppc[a] = "current" /\ UNCHANGED <<kernel, curSet, reboot_cmd_param, asked, crossed>>
  BY DEF Current1, Only, Else
<1>1. InCurrent(a) /\ kernel \in {"k44", "k414", "bare"} /\ x \in Nat
  BY <1>0 DEF CurrentInv, ServeInv
<1>2. kernel # "bare" => f \in {"input", "charge"}
  BY <1>1 DEF CurrentFile
<1>3. DOMAIN dev' = DOMAIN dev
  BY DEF Current1, SetCurrent
<1>4. curSet.alone =>
        curSet.v = -1 /\ \A b \in Threads : InCurrent(b) => b = a
  BY <1>1 DEF CurrentInv, SetInv
<1>5. curSet \in [v : Int, alone : BOOLEAN] BY DEF CurrentInv, SetInv
<1>6. CASE ok \/ kernel = "bare"
  <2>1. PGoto(a, "current2") BY <1>6 DEF Current1
  <2>2. OthersStay(a) /\ ppc'[a] = "current2" /\ preq'[a] = preq[a] BY <2>1, Goes
  <2>3. \A b \in Threads : InCurrent(b)' <=> InCurrent(b)
    BY <2>2 DEF OthersStay, InCurrent
  <2>4. ServeInv'
    BY <1>0, <1>1, <2>2, <2>3 DEF CurrentInv, ServeInv, OthersStay
  <2>5. kernel # "bare" => dev'[f] = x
    BY <1>2, <1>6 DEF Current1, SetCurrent, CurrentInv
  <2>6. \A b \in Threads : curSet.alone /\ ppc'[b] = "current2" => b = a
    BY <1>4, <2>3, <2>4 DEF ServeInv
  <2>7. SetInv'
    <3>1. CurrentFile(kernel, 1)' = f BY <1>0 DEF CurrentFile
    <3>2. \A b \in Threads : curSet.alone /\ ppc'[b] = "current2" /\ kernel # "bare"
            => dev'[f] = preq'[b].x
      BY <2>2, <2>5, <2>6
    <3>. HIDE DEF f
    <3>. QED BY <1>0, <1>4, <1>5, <2>3, <3>1, <3>2 DEF SetInv
  <2>. QED BY <1>0, <1>3, <2>2, <2>4, <2>7 DEF CurrentInv, OffBuffer
<1>7. CASE ~(ok \/ kernel = "bare")
  <2>1. PReply(a, FALSE, 0) /\ UNCHANGED dev BY <1>7 DEF Current1, SetCurrent
  <2>2. OthersStay(a) /\ ppc'[a] = "idle" /\ preq'[a] = NoPower BY <2>1, Replies
  <2>3. \A b \in Threads : InCurrent(b)' => InCurrent(b) /\ b # a /\ preq'[b] = preq[b]
    BY <2>2 DEF OthersStay, InCurrent, NoPower
  <2>4. ServeInv'
    BY <1>0, <2>2, <2>3 DEF CurrentInv, ServeInv, OthersStay, InCurrent, NoPower
  <2>5. curSet.alone => \A b \in Threads : ppc'[b] # "current2"
    BY <1>4, <2>3, <2>4 DEF ServeInv
  <2>6. SetInv' BY <1>0, <1>4, <1>5, <2>3, <2>5 DEF SetInv
  <2>. QED BY <1>0, <1>3, <2>2, <2>4, <2>6 DEF CurrentInv, OffBuffer
<1>. QED BY <1>6, <1>7

\* The second write: a request that ran alone finds its value in the first
\* file.
LEMMA SecondWrite ==
  ASSUME CurrentInv, NEW a \in Threads, NEW ok \in BOOLEAN, Current2(a, ok)
  PROVE  CurrentInv' /\ OthersStay(a) /\ OffBuffer(a)
<1>. DEFINE f == CurrentFile(kernel, 1)  g == CurrentFile(kernel, 2)  x == preq[a].x
<1>0. ppc[a] = "current2" /\ UNCHANGED <<kernel, reboot_cmd_param, asked, crossed>>
  BY DEF Current2, Else
<1>1. InCurrent(a) /\ kernel \in {"k44", "k414", "bare"} /\ x \in Nat
  BY <1>0 DEF CurrentInv, ServeInv
<1>2. kernel # "bare" => {f, g} = {"input", "charge"}
  BY <1>1 DEF CurrentFile
<1>3. DOMAIN dev' = DOMAIN dev BY DEF Current2, SetCurrent
<1>4. curSet.alone =>
        /\ curSet.v = -1 /\ \A b \in Threads : InCurrent(b) => b = a
        /\ kernel # "bare" => dev[f] = x
  BY <1>0, <1>1 DEF CurrentInv, SetInv
<1>5. curSet \in [v : Int, alone : BOOLEAN] BY DEF CurrentInv, SetInv
<1>6. OthersStay(a) /\ ppc'[a] = "idle" /\ preq'[a] = NoPower
  BY Replies DEF Current2
<1>7. \A b \in Threads : InCurrent(b)' => InCurrent(b) /\ b # a /\ preq'[b] = preq[b]
  BY <1>6 DEF OthersStay, InCurrent, NoPower
<1>8. ServeInv'
  BY <1>0, <1>6, <1>7 DEF CurrentInv, ServeInv, OthersStay, InCurrent, NoPower
<1>9. curSet.alone => \A b \in Threads : ppc'[b] # "current2" /\ ~InCurrent(b)'
  BY <1>4, <1>7, <1>8 DEF ServeInv
<1>10. CASE ok /\ kernel # "bare"
  <2>1. curSet' = [curSet EXCEPT !.v = x] /\ dev' = [dev EXCEPT ![g] = x]
    BY <1>10 DEF Current2, SetCurrent
  <2>2. curSet' \in [v : Int, alone : BOOLEAN] /\ curSet'.alone = curSet.alone /\ curSet'.v = x
    BY <2>1, <1>1, <1>5
  <2>3. curSet.alone => dev'[f] = x /\ dev'[g] = x
    BY <2>1, <1>2, <1>4, <1>10 DEF CurrentInv
  <2>4. curSet.alone => dev'.input = x /\ dev'.charge = x
    BY <2>3, <1>2, <1>10
  <2>5. SetInv' BY <2>2, <2>4, <1>9 DEF SetInv
  <2>. QED BY <1>0, <1>3, <1>6, <1>8, <2>5 DEF CurrentInv, OffBuffer
<1>11. CASE ~(ok /\ kernel # "bare")
  <2>1. UNCHANGED <<curSet, dev>> BY <1>11 DEF Current2, SetCurrent
  <2>2. SetInv' BY <2>1, <1>4, <1>5, <1>9 DEF SetInv
  <2>. QED BY <1>0, <1>3, <1>6, <1>8, <2>2 DEF CurrentInv, OffBuffer
<1>. QED BY <1>10, <1>11

\* The buffer is cleared by a thread that is then the only one to store, or
\* the history variable knows of the other.
LEMMA ClearStep ==
  ASSUME BoardInv, NEW a \in Threads, RebootClear(a)
  PROVE  BoardInv'
<1>1. PGoto(a, "copy") /\ ppc[a] = "reboot" BY DEF RebootClear
<1>2. OthersStay(a) /\ ppc'[a] = "copy" /\ preq'[a] = preq[a]
  BY <1>1, Goes DEF BoardInv
<1>3. preq[a].op # "current" BY <1>1 DEF BoardInv, CurrentInv, ServeInv, InCurrent
<1>4. OffCurrent(a) BY <1>1, <1>2, <1>3 DEF OffCurrent, RebootClear, device
<1>5. \A b \in Threads : Storing(b)' <=> b = a \/ Storing(b)
  BY <1>2 DEF OthersStay, Storing
<1>6. reboot_cmd_param' = Unset BY DEF RebootClear, Cleared
<1>7. ~crossed' => ~crossed /\ ~\E b \in Threads : Storing(b) BY DEF RebootClear
<1>8. BufferInv' BY <1>5, <1>6, <1>7 DEF BufferInv
<1>. QED BY <1>2, <1>4, <1>8, CurrentKept DEF BoardInv

\* The thread that stores alone leaves its own text in the buffer.
LEMMA CopyStep ==
  ASSUME BoardInv, NEW a \in Threads, RebootCopy(a)
  PROVE  BoardInv'
<1>1. PReply(a, TRUE, 0) /\ ppc[a] = "copy" BY DEF RebootCopy, Storing
<1>2. OthersStay(a) /\ ppc'[a] = "idle" /\ preq'[a] = NoPower
  BY <1>1, Replies DEF BoardInv
<1>3. OffCurrent(a) BY <1>1, <1>2 DEF OffCurrent, RebootCopy, device, NoPower
<1>4. \A b \in Threads : Storing(b)' <=> b # a /\ Storing(b)
  BY <1>2 DEF OthersStay, Storing
<1>5. ASSUME ~crossed'
      PROVE  /\ ~\E b \in Threads : Storing(b)'
             /\ reboot_cmd_param'.head = asked' /\ reboot_cmd_param'.rest = "-"
  <2>1. ~crossed /\ asked' = preq[a].to
    BY <1>5 DEF RebootCopy
  <2>2. reboot_cmd_param = Unset /\ \A b \in Threads : Storing(b) => b = a
    BY <2>1, <1>1 DEF BoardInv, BufferInv, Storing
  <2>3. reboot_cmd_param.head # "longer" BY <2>2 DEF Unset
  <2>4. reboot_cmd_param' = [head |-> preq[a].to, rest |-> "-"]
    BY <2>3 DEF RebootCopy, Copied
  <2>. QED BY <2>1, <2>2, <2>4, <1>4
<1>6. BufferInv' BY <1>4, <1>5 DEF BufferInv
<1>. QED BY <1>2, <1>3, <1>6, CurrentKept DEF BoardInv

\* A new request finds its thread idle.
LEMMA RequestStep ==
  ASSUME BoardInv, NEW a \in Threads, NEW r \in PowerRequests, PowerRequest(a, r)
  PROVE  BoardInv'
<1>1. r.op \notin {"copy", "current2"} /\ (r.op = "current" => r.x \in Nat)
  BY PowerRequestsAssumption DEF AllPower, Targets
<1>2. ppc[a] = "idle" /\ ppc' = [ppc EXCEPT ![a] = r.op] /\ preq' = [preq EXCEPT ![a] = r]
  BY DEF PowerRequest
<1>3. OthersStay(a) /\ ppc'[a] = r.op /\ preq'[a] = r
  BY <1>2 DEF OthersStay, BoardInv, CurrentInv, ServeInv
<1>4. OffBuffer(a) BY <1>1, <1>2, <1>3 DEF OffBuffer, PowerRequest
<1>5. BufferInv' BY <1>3, <1>4, BufferKept DEF BoardInv
<1>6. ~InCurrent(a) BY <1>2 DEF BoardInv, CurrentInv, ServeInv
<1>7. \A b \in Threads : InCurrent(b)' <=> InCurrent(b) \/ (b = a /\ r.op = "current")
  BY <1>3, <1>6 DEF OthersStay, InCurrent
<1>8. UNCHANGED dev BY DEF PowerRequest
<1>9. kernel \in {"any", "k44", "k414", "bare"} BY DEF BoardInv, CurrentInv, ServeInv
<1>10. /\ kernel' \in {"any", "k44", "k414", "bare"}
       /\ kernel # "any" => kernel' = kernel
       /\ r.op = "current" => kernel' # "any"
  BY <1>9, PowerAssumption DEF PowerRequest
<1>11. ServeInv'
  <2>1. DOMAIN preq' = Threads /\ DOMAIN ppc' = Threads
    BY <1>3 DEF BoardInv, CurrentInv, ServeInv, OthersStay
  <2>2. \A b \in Threads : InCurrent(b)' <=> ppc'[b] \in {"current", "current2"}
    BY <1>1, <1>3, <1>6, <1>7 DEF BoardInv, CurrentInv, ServeInv, OthersStay
  <2>3. \A b \in Threads : InCurrent(b)' => kernel' # "any" /\ preq'[b].x \in Nat
    BY <1>1, <1>3, <1>6, <1>7, <1>10 DEF BoardInv, CurrentInv, ServeInv, OthersStay
  <2>. QED BY <2>1, <2>2, <2>3, <1>10 DEF ServeInv
<1>12. SetInv'
  <2>1. CASE r.op = "current"
    <3>1. curSet' = [v |-> -1, alone |-> NoCurrent] BY <2>1 DEF PowerRequest
    <3>2. NoCurrent \in BOOLEAN BY DEF NoCurrent
    <3>3. /\ curSet' \in [v : Int, alone : BOOLEAN] /\ curSet'.v = -1
          /\ curSet'.alone <=> NoCurrent
      BY <3>1, <3>2
    <3>4. NoCurrent => \A b \in Threads : InCurrent(b)' => b = a
      BY <1>7 DEF NoCurrent, InCurrent
    <3>5. NoCurrent => \A b \in Threads : ppc'[b] # "current2"
      <4>1. ppc'[a] # "current2" BY <1>1, <1>3
      <4>2. \A b \in Threads : ppc'[b] = "current2" => InCurrent(b)' BY <1>11 DEF ServeInv
      <4>. QED BY <4>1, <4>2, <3>4
    <3>. QED BY <3>3, <3>4, <3>5 DEF SetInv
  <2>2. CASE r.op # "current"
    <3>1. UNCHANGED curSet BY <2>2 DEF PowerRequest
    <3>2. \A b \in Threads : ppc'[b] = "current2" =>
            ppc[b] = "current2" /\ preq'[b] = preq[b] /\ kernel # "any"
      BY <1>1, <1>3 DEF OthersStay, BoardInv, CurrentInv, ServeInv
    <3>3. \A b \in Threads : ppc'[b] = "current2" /\ kernel' # "bare" /\ curSet.alone =>
            dev[CurrentFile(kernel, 1)] = preq'[b].x /\ kernel' = kernel
      BY <3>2, <1>10 DEF BoardInv, CurrentInv, SetInv
    <3>4. \A b \in Threads : ppc'[b] = "current2" /\ kernel' # "bare" /\ curSet'.alone =>
            dev'[CurrentFile(kernel', 1)] = preq'[b].x
      BY <3>1, <3>3, <1>8
    <3>5. CurrentFile(kernel, 1)' = CurrentFile(kernel', 1) BY DEF CurrentFile
    <3>. QED BY <3>1, <3>4, <3>5, <1>7, <1>8, <2>2 DEF SetInv, BoardInv, CurrentInv
  <2>. QED BY <2>1, <2>2
<1>. QED BY <1>5, <1>8, <1>11, <1>12 DEF BoardInv, CurrentInv

-----------------------------------------------------------------------------
(* Jobs, the cable, deaths and restarts *)

\* A step that leaves the threads, the buffer and the two files alone.
LEMMA StayStep ==
  ASSUME BoardInv, UNCHANGED <<kernel, ppc, preq, curSet, reboot_cmd_param, asked, crossed>>,
         DOMAIN dev' = DOMAIN dev, dev'.input = dev.input, dev'.charge = dev.charge
  PROVE  BoardInv'
<1>1. ServeInv' BY DEF BoardInv, CurrentInv, ServeInv, InCurrent
<1>2. \A b \in Threads : ppc[b] = "current2" /\ kernel # "bare"
        => dev'[CurrentFile(kernel, 1)] = dev[CurrentFile(kernel, 1)]
  BY DEF BoardInv, CurrentInv, ServeInv, CurrentFile
<1>3. \A b \in Threads : InCurrent(b)' <=> InCurrent(b) BY DEF InCurrent
<1>4. SetInv'
  <2>1. CurrentFile(kernel, 1)' = CurrentFile(kernel, 1) BY DEF CurrentFile
  <2>. QED BY <2>1, <1>2, <1>3 DEF BoardInv, CurrentInv, SetInv
<1>5. BufferInv' BY DEF BoardInv, BufferInv, Storing
<1>. QED BY <1>1, <1>4, <1>5 DEF BoardInv, CurrentInv

\* The jobs write neither the buffer nor the two files.
LEMMA JobsKeep ==
  ASSUME BoardInv, NEW j \in jobs, JobStep(j) \/ JobFault(j)
  PROVE  BoardInv'
<1>1. UNCHANGED <<kernel, ppc, preq, curSet, reboot_cmd_param, asked, crossed>>
  BY DEF JobStep, JobFault, Fire, Recovery, RecoveryOrder, PollOff, PowerOff, SleepModem,
         SleepPoll, SleepRound, JobOnly, serving, past
<1>2. UNCHANGED dev \/ dev' = [dev EXCEPT !.modem = "asleep"]
  BY DEF JobStep, JobFault, Fire, Recovery, RecoveryOrder, PollOff, PowerOff, SleepModem,
         SleepPoll, SleepRound
<1>3. DOMAIN dev' = DOMAIN dev /\ dev'.input = dev.input /\ dev'.charge = dev.charge
  BY <1>2 DEF BoardInv, CurrentInv
<1>. QED BY <1>1, <1>3, StayStep

\* Without threads nothing is under way, and the buffer is empty.
LEMMA Gone ==
  ASSUME PowerThreadsGone
  PROVE  /\ DOMAIN preq' = Threads /\ DOMAIN ppc' = Threads
         /\ \A a \in Threads : ppc'[a] = "idle" /\ ~InCurrent(a)'
         /\ BufferInv'
<1>1. \A a \in Threads : ppc'[a] = "idle" /\ ~InCurrent(a)'
  BY DEF PowerThreadsGone, InCurrent, NoPower
<1>2. reboot_cmd_param' = Unset /\ asked' = "-" BY DEF PowerThreadsGone
<1>3. reboot_cmd_param'.head = asked' /\ reboot_cmd_param'.rest = "-" BY <1>2 DEF Unset
<1>4. \A a \in Threads : ~Storing(a)' BY <1>1 DEF Storing
<1>5. BufferInv' BY <1>3, <1>4 DEF BufferInv
<1>. QED BY <1>1, <1>5 DEF PowerThreadsGone

\* A death leaves the files of the kernel as they are.
LEMMA DiesStep ==
  ASSUME BoardInv, PowerDies
  PROVE  BoardInv'
<1>1. PowerThreadsGone /\ UNCHANGED <<curSet, dev, kernel>> BY DEF PowerDies, device
<1>2. ServeInv' BY <1>1, Gone DEF BoardInv, CurrentInv, ServeInv
<1>3. SetInv' BY <1>1, Gone DEF BoardInv, CurrentInv, SetInv
<1>. QED BY <1>1, <1>2, <1>3, Gone DEF BoardInv, CurrentInv

\* A restart takes the current away, and with it the promise.
LEMMA RestartStep ==
  ASSUME BoardInv, NEW cali, PowerRestarts(cali)
  PROVE  BoardInv'
<1>1. PowerThreadsGone /\ curSet' = NotSet /\ dev' = FreshDev /\ UNCHANGED kernel
  BY DEF PowerRestarts
<1>2. ServeInv' BY <1>1, Gone DEF BoardInv, CurrentInv, ServeInv
<1>3. curSet' \in [v : Int, alone : BOOLEAN] /\ curSet'.v = -1 BY <1>1 DEF NotSet
<1>4. SetInv' BY <1>3, <1>1, Gone DEF SetInv
<1>5. {"input", "charge"} \subseteq DOMAIN dev' BY <1>1 DEF FreshDev
<1>. QED BY <1>1, <1>2, <1>4, <1>5, Gone DEF BoardInv, CurrentInv

-----------------------------------------------------------------------------
(* The theorems *)

\* The phone starts with no current set and an empty buffer.
LEMMA BoardInit == Init => BoardInv
<1>. SUFFICES ASSUME PowerInit PROVE BoardInv BY DEF Init
<1>1. \A a \in Threads : ppc[a] = "idle" /\ ~InCurrent(a)
  BY DEF PowerInit, InCurrent, NoPower
<1>2. ServeInv BY <1>1 DEF PowerInit, ServeInv
<1>3. curSet \in [v : Int, alone : BOOLEAN] /\ curSet.v = -1 BY DEF PowerInit, NotSet
<1>4. SetInv BY <1>1, <1>3 DEF SetInv
<1>5. reboot_cmd_param.head = asked /\ reboot_cmd_param.rest = "-" BY DEF PowerInit, Unset
<1>6. BufferInv BY <1>1, <1>5 DEF BufferInv, Storing
<1>7. {"input", "charge"} \subseteq DOMAIN dev BY DEF PowerInit, FreshDev
<1>. QED BY <1>2, <1>4, <1>6, <1>7 DEF BoardInv, CurrentInv

\* Every step of the board keeps both invariants.
LEMMA BoardStep == BoardInv /\ [Next]_vars => BoardInv'
<1>. SUFFICES ASSUME BoardInv, [Next]_vars PROVE BoardInv' OBVIOUS
<1>1. ASSUME UNCHANGED power PROVE BoardInv'
  BY <1>1, StayStep DEF power, device, serving, past
<1>2. ASSUME NEW a \in Threads, PowerStep(a) \/ PowerFault(a) PROVE BoardInv'
  <2>1. \/ \E opens, ok \in BOOLEAN, v \in Levels \cup {0} : QuietStep(a, opens, ok, v)
        \/ \E ok \in BOOLEAN : Current1(a, ok) \/ Current2(a, ok)
        \/ RebootClear(a) \/ RebootCopy(a)
    BY <1>2 DEF PowerStep, PowerFault, QuietStep
  <2>2. ASSUME NEW opens \in BOOLEAN, NEW ok \in BOOLEAN, NEW v, QuietStep(a, opens, ok, v)
        PROVE  BoardInv'
    BY <2>2, Quiet, CurrentKept, BufferKept DEF BoardInv
  <2>3. ASSUME NEW ok \in BOOLEAN, Current1(a, ok) \/ Current2(a, ok) PROVE BoardInv'
    BY <2>3, FirstWrite, SecondWrite, BufferKept DEF BoardInv
  <2>. QED BY <2>1, <2>2, <2>3, ClearStep, CopyStep
<1>3. ASSUME NEW a \in Threads, Request(a) PROVE BoardInv'
  BY <1>1, <1>3, RequestStep DEF Request
<1>4. ASSUME NEW a \in Actors, Step(a) PROVE BoardInv'
  BY <1>1, <1>2, <1>4 DEF Step
<1>5. ASSUME NEW i \in 1 .. MaxJobs, Job(i) PROVE BoardInv'
  BY <1>5, JobsKeep DEF Job
<1>6. CASE Fault
  BY <1>1, <1>2, <1>6, JobsKeep DEF Fault
<1>7. CASE Plug
  BY <1>7, StayStep DEF Plug, Cable, device, serving, past
<1>8. CASE Kill BY <1>8, DiesStep DEF Kill
<1>9. CASE Restart BY <1>9, RestartStep DEF Restart
<1>10. CASE UNCHANGED vars BY <1>10, <1>1 DEF vars
<1>. QED BY <1>3, <1>4, <1>5, <1>6, <1>7, <1>8, <1>9, <1>10 DEF Next

\* The two invariants hold throughout.
LEMMA BoardHolds == Spec => []BoardInv
BY BoardInit, BoardStep, PTL DEF Spec

\* However the threads interleave, files fail, the process dies or the phone
\* restarts: a charge current that ap_set_charge_current() answered as set, to
\* a request during which no other ran, is in both files of the kernel,
\* whichever of the two namings it has, until another is asked for.
THEOREM CurrentIsSet == Spec => []CurrentSet
<1>1. BoardInv => CurrentSet BY DEF BoardInv, CurrentInv, SetInv, CurrentSet
<1>. QED BY <1>1, BoardHolds, PTL

\* reboot_cmd_thread() never hands init a text that is not the one stored last,
\* or has the end of an earlier one, except while a text is being stored or
\* after two were stored at a time.
THEOREM OrderedAsAsked == Spec => RebootAsAsked
<1>. DEFINE Promise ==
       down' # down /\ down'.by = "cmd" =>
         \/ crossed \/ \E a \in Threads : Storing(a)
         \/ down'.to = asked /\ down'.rest = "-"
<1>1. BoardInv /\ [Next]_vars => [Promise]_power
  <2>. SUFFICES ASSUME BoardInv, [Next]_vars, down' # down, down'.by = "cmd", ~crossed,
                       ~\E a \in Threads : Storing(a)
                PROVE  down'.to = asked /\ down'.rest = "-"
    OBVIOUS
  <2>0. ASSUME UNCHANGED power PROVE FALSE BY <2>0 DEF power
  <2>1. reboot_cmd_param.head = asked /\ reboot_cmd_param.rest = "-"
    BY DEF BoardInv, BufferInv
  <2>2. ASSUME NEW by, NEW to, NEW rest, Order(by, to, rest)
        PROVE  by = "cmd" /\ down'.to = to /\ down'.rest = rest
    BY <2>2 DEF Order
  <2>3. ASSUME NEW a \in Threads, PowerStep(a) \/ PowerFault(a) PROVE FALSE
    <3>1. UNCHANGED down \/ Order("off", "off", "-") \/ Order("reset", "cftreboot", "-")
      BY <2>3 DEF PowerStep, PowerFault, ControlCharge, Current1, Current2, Sample, Capacity,
           Measured, TestTypeC, GetProp, SetProp, SetVoltage, GetVoltage, GpioPad, GpioPin,
           RebootClear, RebootCopy, dloader_handle, reset_cmd_handle, eng_diag_poweroff,
           eng_diag_bootreset, SleepStart, Later, AtOnce, Only, Else
    <3>. QED BY <3>1, <2>2
  <2>4. ASSUME NEW j \in jobs, JobStep(j) \/ JobFault(j)
        PROVE  down'.to = asked /\ down'.rest = "-"
    <3>1. \/ UNCHANGED down \/ Order("dload", "autodloader", "-")
          \/ Order("recovery", "recovery", "-") \/ Order("off", "off", "-")
          \/ Order("cmd", reboot_cmd_param.head, reboot_cmd_param.rest)
      BY <2>4 DEF JobStep, JobFault, Fire, Recovery, RecoveryOrder, PollOff, PowerOff,
           SleepModem, SleepPoll, SleepRound
    <3>. QED BY <3>1, <2>1, <2>2
  <2>5. ASSUME NEW a \in Threads, Request(a) PROVE FALSE
    BY <2>0, <2>5 DEF Request, PowerRequest
  <2>6. ASSUME NEW a \in Actors, Step(a) PROVE FALSE BY <2>0, <2>3, <2>6 DEF Step
  <2>7. ASSUME NEW i \in 1 .. MaxJobs, Job(i) PROVE down'.to = asked /\ down'.rest = "-"
    BY <2>7, <2>4 DEF Job
  <2>8. CASE Fault BY <2>0, <2>3, <2>4, <2>8 DEF Fault
  <2>9. CASE Plug \/ Kill BY <2>9 DEF Plug, Cable, Kill, PowerDies
  <2>10. CASE Restart
    <3>1. down' = NotDown BY <2>10 DEF Restart, PowerRestarts
    <3>. QED BY <3>1 DEF NotDown
  <2>11. CASE UNCHANGED vars BY <2>11, <2>0 DEF vars
  <2>. QED BY <2>5, <2>6, <2>7, <2>8, <2>9, <2>10, <2>11 DEF Next
<1>. QED BY <1>1, BoardHolds, PTL DEF Spec, RebootAsAsked

-----------------------------------------------------------------------------
(* The registers of the power management chip: where the threads are *)

\* What the search of the amplitude reads and writes.
AmpSites ==
  {Write("amp", "PROT"), Read("bank", "CTRL10"), Write("nobank", "CTRL10"),
   Write("rebank", "CTRL10"), Local("done")}
    \cup {Read(l, "CTRL3") : l \in {"en", "dis"}}
    \cup {Write(l, "CTRL3") : l \in {"enw", "disw"}}
    \cup {Read(l, "CTRL4") : l \in {"aml", "loop", "none", "aml2", "search"}}
    \cup {Write(l, "CTRL4") : l \in {"amlw", "aml2w"}}
    \cup {Read(l, "CTRL5") : l \in {"fine", "all", "down", "back", "zero", "fine2", "step", "end"}}
    \cup {Write(l, "CTRL5") : l \in {"finew", "allw", "downw", "backw", "zerow", "fine2w", "stepw"}}

ModeSites ==
  {Write("mode", "PROT"), Local("done")}
    \cup {Read("lo10", "CTRL10"), Read("lo5", "CTRL5"), Write("lo10w", "CTRL10"),
          Read("lo14", "CTRL14"), Write("done", "CTRL14")}
    \cup {Read("hi10", "CTRL10"), Read("hi5", "CTRL5"), Read("hi14", "CTRL14"),
          Write("hi14w", "CTRL14"), Write("hi10w", "CTRL10"), Write("done", "CTRL5")}

CdacSites == {Write("cdac", "PROT"), Write("done", "CTRL10"), Write("done", "CTRL11"),
              Local("done")}

RestoreSites == {Local("done")} \cup {Read(l, "TSEN0") : l \in {"clk", "ldo"}}
                  \cup {Write(l, "TSEN0") : l \in {"clkw", "done"}}
                  \cup {Read("sens", "TSEN3"), Write("sensw", "TSEN3"),
                        Read("adc", "TSEN1"), Write("adcw", "TSEN1")}

BootSites == {Idle, Local("start"), Write("cdac", "CTRL10"), Write("hp", "CTRL5"),
              Write("lp", "CTRL6"), Write("drift", "CTRL13")}

\* A thread is at a place of the request that it serves.
SiteOK(a) ==
  /\ creq[a].op \in {"none", "mode", "cdac", "save", "amp", "load", "temp", "restore"}
  /\ creq[a].op = "none"    => pc[a] = Idle
  /\ creq[a].op = "mode"    => pc[a] \in ModeSites /\ creq[a].x \in Nat
  /\ creq[a].op = "cdac"    => pc[a] \in CdacSites /\ creq[a].x \in Nat
  /\ creq[a].op = "amp"     => pc[a] \in AmpSites
  /\ creq[a].op = "restore" => pc[a] \in RestoreSites
  /\ creq[a].op = "load"    => pc[a] = Local("load")
  /\ creq[a].op = "temp"    => pc[a] \in {Local("temp"), Local("warm")}
  /\ creq[a].op = "save"    => pc[a] \in {Local("save"), Local("fwrite")} /\ creq[a].x \in Nat

SiteInv ==
  /\ DOMAIN reg = Registers /\ DOMAIN creq = Threads /\ DOMAIN cans = Threads
  /\ DOMAIN pc = Actors /\ DOMAIN named = Actors /\ DOMAIN out = Actors /\ DOMAIN keep = Actors
  /\ current_mode \in {0, 1}
  /\ pc[dcxsrv] \in BootSites /\ \A a \in Threads : SiteOK(a)
  /\ \A a \in Actors : named[a] => pc[a].acc # "-"

\* The file of the results holds what was last saved in it, if that is known
\* and no thread has it open.
DcxInv == /\ dcx.n \in Nat /\ wantDcx.n \in Nat
          /\ wantDcx.kind = "data" => dcx = wantDcx \/ OpenFile

\* Until something overlaps, nobody is at work during a calibration, and the
\* mode is the one in which it started.
AloneInv == ~mixed => \A a \in Threads : creq[a].op = "amp" =>
              /\ Hp(a) = (current_mode = 1)
              /\ \A b \in Actors \ {a} : ~AtWork(b)

-----------------------------------------------------------------------------
(* The registers while no accesses overlap *)

\* A thread has been given a request, and has not touched a register yet.
Fresh(a) == /\ a \in Threads /\ ~named[a]
            /\ pc[a].at \in {"mode", "cdac", "amp", "clk"}

Active(a) == AtWork(a) /\ ~Fresh(a)

\* The oscillator is in the mode m, with the settings last asked for; those of
\* the high power mode are in the variables while it is in the other one.
Settings(m) ==
  /\ reg["CTRL3"] = 0 /\ reg["CTRL14"] = 1 - m
  /\ IF m = 1 THEN reg["CTRL10"] = wantCdac /\ reg["CTRL5"] = wantAmp
              ELSE reg["CTRL10"] = 0 /\ hp_cbank = wantCdac /\ hp_amp = wantAmp

\* The registers, at each place of the switch of the mode ...
ModeAt(a) ==
  LET l == pc[a].at  r == pc[a].reg
      high == hp_cbank = wantCdac /\ hp_amp = wantAmp
      lower == l \in {"lo10", "lo5", "lo10w", "lo14"} \/ (l = "done" /\ r = "CTRL14")
      raise == l \in {"hi10", "hi5", "hi14", "hi14w", "hi10w"} \/ (l = "done" /\ r = "CTRL5")
  IN /\ l = "mode" => Settings(current_mode)
     /\ lower => current_mode = 1 /\ creq[a].x = 0 /\ reg["CTRL3"] = 0
     /\ l \in {"lo10", "lo5", "lo10w"} => Settings(1)
     /\ l = "lo5" => hp_cbank = wantCdac
     /\ lower /\ l \notin {"lo10", "lo5"} => high
     /\ l = "lo10w" => out[a] = 0
     /\ l = "lo14" => reg["CTRL10"] = 0
     /\ l = "done" /\ r = "CTRL14" => reg["CTRL10"] = 0 /\ out[a] = 1
     /\ raise => current_mode = 0 /\ creq[a].x # 0 /\ reg["CTRL3"] = 0 /\ high
     /\ l \in {"hi10", "hi5", "hi14", "hi14w"} => Settings(0)
     /\ l = "hi14w" => out[a] = 0
     /\ l = "hi10w" => reg["CTRL14"] = 0 /\ out[a] = wantCdac
     /\ l = "done" /\ r = "CTRL5" =>
          reg["CTRL14"] = 0 /\ reg["CTRL10"] = wantCdac /\ out[a] = wantAmp
     /\ l = "done" /\ r = "-" => Settings(IF creq[a].x = 0 THEN 0 ELSE 1)

\* ... of the setting of the capacitors ...
CdacAt(a) ==
  /\ Settings(current_mode)
  /\ pc[a].acc = "w" /\ pc[a].at = "done" =>
       /\ out[a] = creq[a].x
       /\ pc[a].reg = IF current_mode = 1 THEN "CTRL10" ELSE "CTRL11"

\* ... of dcxsrv ...
BootAt ==
  LET l == pc[dcxsrv].at
  IN /\ current_mode = 1 /\ reg["CTRL3"] = 0 /\ reg["CTRL14"] = 0
     /\ l = "start" => Settings(1)
     /\ l \in {"cdac", "hp", "lp", "drift"} =>
          /\ l = "cdac" => out[dcxsrv] = wantCdac
          /\ l # "cdac" => reg["CTRL10"] = wantCdac
          /\ l \in {"cdac", "hp"} => out[dcxsrv] = wantAmp
          /\ l \in {"lp", "drift"} => reg["CTRL5"] = wantAmp

\* ... and of the calibration: what it leaves alone, and that the code at which
\* it ends has the flag.
AmpFrame(a) ==
  LET l == pc[a].at
  IN /\ reg["CTRL14"] = 1 - current_mode
     /\ IF Hp(a) THEN reg["CTRL10"] = wantCdac
                 ELSE reg["CTRL10"] = 0 /\ hp_cbank = wantCdac /\ hp_amp = wantAmp
     /\ l \in {"bank", "nobank", "rebank"} => ~Hp(a)
     /\ l \in {"nobank", "rebank", "disw"} => out[a] = 0
     /\ l \in {"amp", "bank", "nobank", "en", "rebank", "end", "done"} => reg["CTRL3"] = 0
     /\ pc[a].acc = "w" /\ pc[a].reg \in {"CTRL4", "CTRL5"} => out[a] \in Nat
     /\ l \in {"dis", "disw", "rebank", "end", "done"} => reg["CTRL5"] <= okAt
     /\ l = "done" => out[a] = reg["CTRL5"]

\* Where the search finds the last code that has the flag.
Findable == (okAt < Steps \/ okAt >= 2 * Steps - 1) /\ okAt < MaxCode

\* v is the last code of its coarse step.
Top(v) == Fine(v) = FineMax /\ v <= MaxCode

\* The search: the coarse field comes down to the first step at whose end the
\* flag is set and goes back one; from then on the code is at or above the
\* last one that has the flag.
AmpSearch(a) ==
  LET l == pc[a].at  v == reg["CTRL5"]  w == out[a]
      end(x) == Coarse(x) * Steps + FineMax
  IN /\ l = "finew" => Fine(w) = FineMax
     /\ l = "all"   => Fine(v) = FineMax
     /\ l = "allw"  => w = MaxCode
     /\ l \in {"aml", "amlw"} => v = MaxCode
     /\ l \in {"loop", "down", "back"} => Top(v) /\ okAt < v + Steps
     /\ l = "down"  => okAt < v
     /\ l = "back"  => v <= okAt
     /\ l = "downw" => Top(w) /\ okAt < w + Steps
     /\ l = "backw" => Top(w) /\ okAt <= w
     /\ l = "none"  => Top(v) /\ okAt <= v
     /\ l = "zero"  => v <= MaxCode /\ okAt <= end(v)
     /\ l = "zerow" => w \in {0, 1} /\ okAt <= FineMax
     /\ l \in {"aml2", "aml2w", "fine2"} => v <= MaxCode /\ okAt <= end(v)
     /\ l \in {"fine2w", "stepw"} => okAt <= w
     /\ l \in {"search", "dis", "disw", "end", "done"} => okAt <= v
     /\ l = "step" => okAt < v

ActiveAt(a) ==
  IF a = dcxsrv THEN BootAt
  ELSE /\ creq[a].op = "mode"    => ModeAt(a)
       /\ creq[a].op = "cdac"    => CdacAt(a)
       /\ creq[a].op = "restore" => Settings(current_mode)
       /\ creq[a].op = "amp"     => AmpFrame(a) /\ (Hp(a) /\ Findable => AmpSearch(a))

\* As long as no accesses have overlapped, one thread at most is at the
\* registers, and pmic_reg names the one that it is to access.
RegInv ==
  /\ reg["CTRL4"] \in Nat /\ reg["CTRL4"] % 2 = 0
  /\ reg["CTRL5"] \in Nat /\ wantAmp \in Nat
  /\ \A a \in Actors : keep[a] = 0
  /\ \A a \in Actors : named[a] => latch = pc[a].reg
  /\ \A a, b \in Actors : Active(a) /\ Active(b) => a = b
  /\ \A a \in Actors : Active(a) => ActiveAt(a)
  /\ (\A a \in Actors : ~Active(a)) => Settings(current_mode)

-----------------------------------------------------------------------------
(* Codes of the oscillator *)

\* The constants are those of two fields of at least one bit.
LEMMA CodeConstants ==
  /\ Steps \in Nat /\ Steps >= 2 /\ FineMax = Steps - 1
  /\ CoarseMax \in Nat /\ CoarseMax >= 1
  /\ MaxCode \in Nat /\ MaxCode = CoarseMax * Steps + FineMax /\ MaxCode >= FineMax + Steps
<1>1. CoarseMax \in Nat /\ CoarseMax >= 1 /\ FineMax \in Nat /\ FineMax >= 1
  BY PmicAssumption
<1>2. Steps \in Nat /\ Steps >= 2 /\ FineMax = Steps - 1 BY <1>1 DEF Steps
<1>3. (CoarseMax + 1) * Steps = CoarseMax * Steps + Steps BY <1>1, <1>2
<1>4. CoarseMax * Steps \in Nat /\ CoarseMax * Steps >= Steps
  <2>1. \A m, n \in Nat : m >= 1 => m * n \in Nat /\ m * n >= n OBVIOUS
  <2>. QED BY <1>1, <1>2, <2>1
<1>. QED BY <1>1, <1>2, <1>3, <1>4 DEF MaxCode

\* A code is made of its coarse and its fine part ...
LEMMA Parts ==
  ASSUME NEW v \in Nat
  PROVE  /\ Coarse(v) \in Nat /\ Fine(v) \in Nat /\ Fine(v) <= FineMax
         /\ v = Coarse(v) * Steps + Fine(v)
<1>1. ASSUME NEW d \in Nat, d >= 2
      PROVE  /\ v \div d \in Nat /\ v % d \in 0 .. d - 1
             /\ v = d * (v \div d) + (v % d)
  BY <1>1
<1>2. /\ v \div Steps \in Nat /\ v % Steps \in 0 .. Steps - 1
      /\ v = Steps * (v \div Steps) + (v % Steps)
  BY <1>1, CodeConstants
<1>3. Coarse(v) \in Nat /\ Fine(v) \in 0 .. Steps - 1 /\ v = Steps * Coarse(v) + Fine(v)
  BY <1>2 DEF Coarse, Fine
<1>4. Steps * Coarse(v) = Coarse(v) * Steps BY <1>3, CodeConstants
<1>. QED BY <1>3, <1>4, CodeConstants

\* A product grows with its factor.
LEMMA Grows ==
  ASSUME NEW m \in Nat, NEW n \in Nat, NEW s \in Nat, m >= n + 1
  PROVE  m * s \in Nat /\ n * s \in Nat /\ m * s >= n * s + s
<1>1. PICK k \in Nat : m = n + 1 + k
  <2>1. m - n - 1 \in Nat /\ m = n + 1 + (m - n - 1) OBVIOUS
  <2>. QED BY <2>1
<1>2. m * s = n * s + s + k * s /\ k * s \in Nat /\ n * s \in Nat BY <1>1
<1>. QED BY <1>2

\* ... in one way only.
LEMMA OneWay ==
  ASSUME NEW c \in Nat, NEW f \in 0 .. FineMax, NEW v \in Nat, v = c * Steps + f
  PROVE  Coarse(v) = c /\ Fine(v) = f
<1>. DEFINE d == Coarse(v)
<1>1. d \in Nat /\ Fine(v) \in 0 .. FineMax /\ v = d * Steps + Fine(v) BY Parts
<1>2. \A m, n, s \in Nat : m >= n + 1 => m * s >= n * s + s BY Grows
<1>. HIDE DEF d
<1>3. d * Steps \in Nat /\ c * Steps \in Nat BY <1>1, CodeConstants
<1>4. ~(d >= c + 1)
  <2>. SUFFICES ASSUME d >= c + 1 PROVE FALSE OBVIOUS
  <2>1. d * Steps >= c * Steps + Steps BY <1>1, <1>2, CodeConstants
  <2>. QED BY <1>1, <1>3, <2>1, CodeConstants
<1>5. ~(c >= d + 1)
  <2>. SUFFICES ASSUME c >= d + 1 PROVE FALSE OBVIOUS
  <2>1. c * Steps >= d * Steps + Steps BY <1>1, <1>2, CodeConstants
  <2>. QED BY <1>1, <1>3, <2>1, CodeConstants
<1>6. d = c BY <1>1, <1>4, <1>5
<1>. QED BY <1>1, <1>3, <1>6 DEF d

\* The coarse field holds the numbers up to its largest one.
LEMMA Field ==
  ASSUME NEW c \in Nat
  PROVE  /\ c % (CoarseMax + 1) \in 0 .. CoarseMax
         /\ c <= CoarseMax => c % (CoarseMax + 1) = c
<1>. DEFINE m == CoarseMax + 1  q == c \div m  r == c % m
<1>1. m \in Nat /\ m >= 2 /\ CoarseMax = m - 1 BY CodeConstants
<1>. HIDE DEF m
<1>2. q \in Nat /\ r \in 0 .. m - 1 /\ c = m * q + r BY <1>1
<1>. HIDE DEF q, r
<1>3. ASSUME c <= CoarseMax PROVE r = c
  <2>1. CASE q = 0 BY <1>1, <1>2, <2>1
  <2>2. CASE q >= 1
    <3>1. q * m >= 0 * m + m /\ q * m = m * q BY <1>1, <1>2, <2>2, Grows
    <3>. QED BY <1>1, <1>2, <1>3, <3>1
  <2>. QED BY <1>2, <2>1, <2>2
<1>. QED BY <1>1, <1>2, <1>3 DEF r, m

\* What the two fields make.
LEMMA CodeIs ==
  ASSUME NEW c \in Nat, NEW f \in 0 .. FineMax
  PROVE  /\ Code(c, f) \in Nat /\ Fine(Code(c, f)) = f
         /\ c <= CoarseMax => /\ Code(c, f) = c * Steps + f
                              /\ Code(c, f) <= MaxCode /\ Coarse(Code(c, f)) = c
<1>. DEFINE k == c % (CoarseMax + 1)
<1>1. k \in 0 .. CoarseMax /\ (c <= CoarseMax => k = c) BY Field
<1>. HIDE DEF k
<1>2. k \in Nat /\ f \in Nat BY <1>1, CodeConstants
<1>3. k * Steps \in Nat BY <1>2, CodeConstants
<1>4. Code(c, f) = k * Steps + f BY DEF Code, k
<1>5. Code(c, f) \in Nat BY <1>2, <1>3, <1>4
<1>6. Coarse(Code(c, f)) = k /\ Fine(Code(c, f)) = f BY <1>2, <1>4, <1>5, OneWay
<1>7. k * Steps <= CoarseMax * Steps
  <2>1. CASE k = CoarseMax BY <1>3, <2>1
  <2>2. CASE CoarseMax >= k + 1 BY <1>2, <1>3, <2>2, Grows, CodeConstants
  <2>. QED BY <1>1, <1>2, <2>1, <2>2, CodeConstants
<1>8. CoarseMax * Steps \in Nat BY CodeConstants
<1>9. Code(c, f) <= MaxCode BY <1>2, <1>3, <1>4, <1>7, <1>8, CodeConstants
<1>. QED BY <1>1, <1>4, <1>5, <1>6, <1>9

\* A code's coarse part fits its field.
LEMMA CoarseFits ==
  ASSUME NEW v \in Nat, v <= MaxCode
  PROVE  Coarse(v) <= CoarseMax
<1>1. Coarse(v) \in Nat /\ Fine(v) \in Nat /\ v = Coarse(v) * Steps + Fine(v) BY Parts
<1>2. CASE Coarse(v) >= CoarseMax + 1
  <2>1. /\ Coarse(v) * Steps >= CoarseMax * Steps + Steps
        /\ Coarse(v) * Steps \in Nat /\ CoarseMax * Steps \in Nat
    BY <1>1, <1>2, Grows, CodeConstants
  <2>. QED BY <1>1, <2>1, CodeConstants
<1>. QED BY <1>1, <1>2, CodeConstants

\* The end of a code's coarse step, to which both searches set the fine field.
LEMMA StepEnd ==
  ASSUME NEW v \in Nat, v <= MaxCode
  PROVE  Code(Coarse(v), FineMax) = Coarse(v) * Steps + FineMax
<1>1. FineMax \in 0 .. FineMax BY CodeConstants
<1>. QED BY <1>1, CoarseFits, Parts, CodeIs

\* The search of the coarse field goes from the end of a step to that of another.
LEMMA TopIs ==
  ASSUME NEW v \in Nat, Top(v)
  PROVE  /\ v = Coarse(v) * Steps + FineMax
         /\ Coarse(v) = 0 => v = FineMax
         /\ Coarse(v) # 0 => v - Steps \in Nat /\ Top(v - Steps)
         /\ v < MaxCode   => CoarseBack(TRUE, v) = v + Steps /\ Top(v + Steps)
<1>. DEFINE c == Coarse(v)
<1>1. c \in Nat /\ v = c * Steps + FineMax /\ c <= CoarseMax BY Parts, CoarseFits DEF Top
<1>. HIDE DEF c
<1>2. FineMax \in 0 .. FineMax /\ FineMax \in Nat BY CodeConstants
<1>3. ASSUME c # 0 PROVE v - Steps \in Nat /\ Top(v - Steps)
  <2>1. c - 1 \in Nat /\ c >= (c - 1) + 1 BY <1>1, <1>3
  <2>2. c * Steps = (c - 1) * Steps + Steps /\ (c - 1) * Steps \in Nat
    BY <1>1, <2>1, CodeConstants
  <2>3. v - Steps = (c - 1) * Steps + FineMax BY <1>1, <2>2, <1>2, CodeConstants
  <2>4. v - Steps \in Nat BY <1>2, <2>2, <2>3
  <2>5. Fine(v - Steps) = FineMax BY <1>2, <2>1, <2>3, <2>4, OneWay
  <2>6. v - Steps <= MaxCode BY <2>4, CodeConstants DEF Top
  <2>. QED BY <2>4, <2>5, <2>6 DEF Top
<1>4. ASSUME v < MaxCode PROVE CoarseBack(TRUE, v) = v + Steps /\ Top(v + Steps)
  <2>1. c # CoarseMax BY <1>1, <1>4, CodeConstants
  <2>2. c + 1 \in Nat /\ c + 1 <= CoarseMax BY <1>1, <2>1, CodeConstants
  <2>3. CoarseBack(TRUE, v) = Code(c + 1, FineMax) BY DEF CoarseBack, Top, c
  <2>4. (c + 1) * Steps = c * Steps + Steps /\ c * Steps \in Nat BY <1>1, CodeConstants
  <2>5. Code(c + 1, FineMax) = v + Steps BY <1>1, <1>2, <2>2, <2>4, CodeIs, CodeConstants
  <2>6. Code(c + 1, FineMax) <= MaxCode /\ Fine(Code(c + 1, FineMax)) = FineMax
    BY <1>2, <2>2, CodeIs
  <2>. QED BY <2>3, <2>5, <2>6 DEF Top
<1>5. ASSUME c = 0 PROVE v = FineMax BY <1>1, <1>2, <1>5, CodeConstants
<1>. QED BY <1>1, <1>3, <1>4, <1>5 DEF c

\* One fine step down stays at or above every code below, or wraps to the top.
LEMMA DownIs ==
  ASSUME NEW v \in Nat
  PROVE  /\ FineDown(v) \in Nat
         /\ okAt \in Int /\ okAt < v /\ okAt < MaxCode => okAt <= FineDown(v)
<1>1. Fine(v) # 0 => v # 0 BY Parts, OneWay, CodeConstants
<1>. QED BY <1>1, CodeConstants DEF FineDown

\* The first two codes are in the first coarse step.
LEMMA FirstCodes == Coarse(0) = 0 /\ Coarse(1) = 0
<1>1. 0 = 0 * Steps + 0 /\ 1 = 0 * Steps + 1 /\ 0 \in 0 .. FineMax /\ 1 \in 0 .. FineMax
  BY CodeConstants
<1>. QED BY <1>1, OneWay

\* The flag is the last bit of CTRL4.
LEMMA FlagIs ==
  ASSUME reg["CTRL4"] \in Nat, reg["CTRL4"] % 2 = 0
  PROVE  Flag(ana_read("CTRL4")) <=> reg["CTRL5"] <= okAt
<1>1. OkFlag = (IF reg["CTRL5"] <= okAt THEN 1 ELSE 0) BY DEF OkFlag
<1>2. CASE reg["CTRL5"] <= okAt BY <1>1, <1>2 DEF Flag, ana_read
<1>3. CASE ~(reg["CTRL5"] <= okAt) BY <1>1, <1>3 DEF Flag, ana_read
<1>. QED BY <1>2, <1>3

\* What an access reads, and what follows it.
Got(a, ok)  == IF ok /\ pc[a].acc = "r" THEN ana_read(latch) ELSE 0
After(a, v) == IF pc[a].at \in {"done", "end"} THEN To(Local("done"), v)
                                               ELSE Then(a, pc[a].at, v)

\* An access is followed by another place of the same request.
LEMMA AmpPlaces ==
  ASSUME NEW a, a # dcxsrv, creq[a].op = "amp", pc[a] \in AmpSites, pc[a].acc # "-", NEW v
  PROVE  After(a, v).pc \in AmpSites
<1>. DEFINE l == pc[a].at
<1>1. l \in {"done", "end"} => After(a, v).pc \in AmpSites BY DEF After, To, AmpSites
<1>2. l \notin {"done", "end"} => After(a, v) = AmpThen(a, l, v) BY DEF After, Then
<1>3. CASE l \in {"amp", "bank", "nobank", "en", "enw", "fine", "finew", "all", "allw", "aml"}
  BY <1>2, <1>3 DEF AmpThen, To, AmpSites
<1>4. CASE l \in {"amlw", "downw", "loop", "down", "back", "backw", "none", "zero", "zerow"}
  BY <1>2, <1>4 DEF AmpThen, To, AmpSites
<1>5. CASE l \in {"aml2", "aml2w", "fine2", "fine2w", "stepw", "search", "step", "dis", "disw",
                  "rebank"}
  BY <1>2, <1>5 DEF AmpThen, To, AmpSites
<1>6. l \in {"amp", "bank", "nobank", "en", "enw", "fine", "finew", "all", "allw", "aml",
             "amlw", "downw", "loop", "down", "back", "backw", "none", "zero", "zerow",
             "aml2", "aml2w", "fine2", "fine2w", "stepw", "search", "step", "dis", "disw",
             "rebank", "done", "end"}
  BY DEF AmpSites, Read, Write, Local
<1>. QED BY <1>1, <1>3, <1>4, <1>5, <1>6

\* ... here of the switch of the mode ...
LEMMA ModePlaces ==
  ASSUME NEW a, a # dcxsrv, creq[a].op = "mode", pc[a] \in ModeSites, pc[a].acc # "-", NEW v
  PROVE  After(a, v).pc \in ModeSites
<1>1. pc[a].at \in {"mode", "lo10", "lo5", "lo10w", "lo14", "done", "hi10", "hi5", "hi14", "hi14w",
               "hi10w"}
  BY DEF ModeSites, Read, Write, Local
<1>2. pc[a].at = "done" => After(a, v).pc \in ModeSites BY DEF After, To, ModeSites
<1>3. pc[a].at # "done" => After(a, v) = ModeThen(pc[a].at, v, creq[a].x) BY <1>1 DEF After, Then
<1>. QED BY <1>1, <1>2, <1>3 DEF ModeThen, To, ModeSites

\* ... of the setting of the capacitors and of the sensor's reset ...
LEMMA OtherPlaces ==
  ASSUME NEW a, a # dcxsrv, pc[a].acc # "-", NEW v
  PROVE  /\ creq[a].op = "cdac" /\ pc[a] \in CdacSites => After(a, v).pc \in CdacSites
         /\ creq[a].op = "restore" /\ pc[a] \in RestoreSites => After(a, v).pc \in RestoreSites
<1>1. ASSUME creq[a].op = "cdac", pc[a] \in CdacSites PROVE After(a, v).pc \in CdacSites
  <2>1. pc[a].at \in {"cdac", "done"} BY <1>1 DEF CdacSites, Write, Local
  <2>. QED BY <1>1, <2>1 DEF After, Then, To, CdacSites
<1>2. ASSUME creq[a].op = "restore", pc[a] \in RestoreSites PROVE After(a, v).pc \in RestoreSites
  <2>1. pc[a].at \in {"clk", "clkw", "sens", "sensw", "adc", "adcw", "ldo", "done"}
    BY <1>2 DEF RestoreSites, Read, Write, Local
  <2>2. pc[a].at = "done" => After(a, v).pc \in RestoreSites BY DEF After, To, RestoreSites
  <2>3. pc[a].at # "done" => After(a, v) = RestoreThen(pc[a].at, v) BY <1>2, <2>1 DEF After, Then
  <2>. QED BY <2>1, <2>2, <2>3 DEF RestoreThen, To, RestoreSites
<1>. QED BY <1>1, <1>2

\* ... and of what dcxsrv does at boot.
LEMMA BootPlaces ==
  ASSUME pc[dcxsrv] \in BootSites, pc[dcxsrv].acc # "-", NEW v
  PROVE  /\ After(dcxsrv, v) = BootThen(dcxsrv, pc[dcxsrv].at)
         /\ After(dcxsrv, v).pc \in BootSites
<1>1. pc[dcxsrv].at \in {"cdac", "hp", "lp", "drift"} BY DEF BootSites, Write, Local, Idle
<1>2. After(dcxsrv, v) = BootThen(dcxsrv, pc[dcxsrv].at) BY <1>1 DEF After, Then
<1>. QED BY <1>1, <1>2 DEF BootThen, To, BootSites

-----------------------------------------------------------------------------
(* Steps of one thread, wherever the others are *)

PlaceInv == SiteInv /\ DcxInv /\ AloneInv

\* Only a moves.
Moves(a) ==
  /\ DOMAIN pc' = Actors /\ DOMAIN named' = Actors /\ DOMAIN out' = Actors
  /\ DOMAIN keep' = Actors /\ DOMAIN creq' = Threads /\ DOMAIN cans' = Threads
  /\ \A b \in Actors \ {a} : /\ pc'[b] = pc[b] /\ named'[b] = named[b]
                             /\ out'[b] = out[b] /\ keep'[b] = keep[b]
  /\ \A b \in Threads \ {a} : creq'[b] = creq[b]

\* An answer frees its thread and moves no other.
LEMMA Answers ==
  ASSUME SiteInv, NEW a \in Threads, NEW ok, NEW v, Answer(a, ok, v)
  PROVE  /\ Moves(a) /\ pc'[a] = Idle /\ creq'[a] = NoCali /\ ~named'[a]
         /\ out'[a] = 0 /\ keep'[a] = 0
BY DEF SiteInv, Answer, Moves, Actors

\* An access moves no other thread, and keeps the request.
LEMMA Accesses ==
  ASSUME SiteInv, NEW a \in Actors, NEW ok \in BOOLEAN, Access(a, ok)
  PROVE  /\ named[a] /\ Moves(a) /\ ~named'[a] /\ creq' = creq
         /\ pc'[a] = After(a, Got(a, ok)).pc /\ out'[a] = After(a, Got(a, ok)).out
         /\ DOMAIN reg' = Registers
<1>1. named[a] BY DEF Access
<1>2. /\ pc' = [pc EXCEPT ![a] = After(a, Got(a, ok)).pc]
      /\ out' = [out EXCEPT ![a] = After(a, Got(a, ok)).out]
      /\ named' = [named EXCEPT ![a] = FALSE] /\ creq' = creq /\ cans' = cans
  BY DEF Access, After, Got
<1>3. DOMAIN keep' = Actors /\ \A b \in Actors \ {a} : keep'[b] = keep[b]
  BY DEF Access, Saves, SiteInv
<1>4. DOMAIN reg' = Registers BY DEF Access, ana_write, SiteInv
<1>. HIDE DEF After, Got
<1>. QED BY <1>1, <1>2, <1>3, <1>4 DEF SiteInv, Moves

\* The places of the threads after a step of one of them.
LEMMA SiteKept ==
  ASSUME SiteInv, NEW a \in Actors, Moves(a), DOMAIN reg' = Registers, current_mode' \in {0, 1},
         a \in Threads => SiteOK(a)', a = dcxsrv => pc'[a] \in BootSites,
         named'[a] => pc'[a].acc # "-"
  PROVE  SiteInv'
<1>1. \A b \in Threads \ {a} : SiteOK(b)'
  BY DEF SiteInv, Moves, SiteOK, Actors
<1>2. pc'[dcxsrv] \in BootSites BY DEF SiteInv, Moves, Actors
<1>. QED BY <1>1, <1>2 DEF SiteInv, Moves

\* A thread that has answered is at its place.
LEMMA IdleSite == ASSUME NEW a, pc'[a] = Idle, creq'[a] = NoCali PROVE SiteOK(a)'
BY DEF SiteOK, NoCali

\* A calibration is alone after a step of the thread that runs it, or of one
\* whose request is none.
LEMMA AloneKept ==
  ASSUME AloneInv, NEW a \in Actors, Moves(a), mixed => mixed', AtWork(a)' => AtWork(a),
         \/ creq' = creq /\ current_mode' = current_mode
         \/ a \in Threads /\ creq'[a] = NoCali
            /\ (creq[a].op # "mode" => current_mode' = current_mode)
  PROVE  AloneInv'
<1>. SUFFICES ASSUME ~mixed', NEW b \in Threads, creq'[b].op = "amp"
              PROVE  creq'[b].hp = (current_mode' = 1) /\ \A c \in Actors \ {b} : ~AtWork(c)'
  BY DEF AloneInv, Hp
<1>1. creq'[b] = creq[b] BY DEF Moves, NoCali
<1>2. creq[b].hp = (current_mode = 1) /\ \A c \in Actors \ {b} : ~AtWork(c)
  BY <1>1 DEF AloneInv, Hp
<1>3. current_mode' = current_mode
  <2>1. CASE a = b BY <1>1, <2>1 DEF NoCali
  <2>2. CASE a # b
    <3>1. ~AtWork(a) BY <1>2, <2>2
    <3>2. a \in Threads => creq[a].op # "mode" BY <3>1 DEF AtWork
    <3>. QED BY <3>2
  <2>. QED BY <2>1, <2>2
<1>4. ASSUME NEW c \in Actors \ {b} PROVE ~AtWork(c)'
  <2>1. CASE c = a BY <1>2, <2>1
  <2>2. CASE c # a
    <3>1. AtWork(c)' <=> AtWork(c) BY <2>2 DEF AtWork, Moves, Local
    <3>. QED BY <1>2, <3>1
  <2>. QED BY <2>1, <2>2
<1>. QED BY <1>1, <1>2, <1>3, <1>4

\* What is known of the file after a step of a thread that has not opened it.
LEMMA DcxKept ==
  ASSUME DcxInv, NEW a \in Actors, Moves(a), pc[a] # Local("fwrite"), UNCHANGED <<dcx, wantDcx>>
  PROVE  DcxInv'
<1>1. OpenFile => OpenFile' BY DEF OpenFile, Moves, Actors
<1>. QED BY <1>1 DEF DcxInv

\* A register is named ...
LEMMA NamePlace ==
  ASSUME PlaceInv, NEW a \in Actors, Name(a)
  PROVE  PlaceInv' /\ Moves(a)
<1>1. Moves(a) /\ pc' = pc /\ creq' = creq /\ pc[a].acc # "-" BY DEF PlaceInv, SiteInv, Name, Moves
<1>2. pc[a] # Local("fwrite") /\ pc[a] # Idle BY <1>1 DEF Local, Idle
<1>3. SiteInv'
  <2>1. a \in Threads => SiteOK(a)' BY <1>1 DEF PlaceInv, SiteInv, SiteOK
  <2>. QED BY <1>1, <2>1, SiteKept DEF PlaceInv, SiteInv, Name, static
<1>4. DcxInv' BY <1>1, <1>2, DcxKept DEF PlaceInv, Name
<1>5. AloneInv'
  <2>1. AtWork(a) BY <1>1 DEF AtWork
  <2>. QED BY <1>1, <2>1, AloneKept DEF PlaceInv, Name, static
<1>. QED BY <1>1, <1>3, <1>4, <1>5 DEF PlaceInv

\* ... and accessed.
LEMMA AccessPlace ==
  ASSUME PlaceInv, NEW a \in Actors, NEW ok \in BOOLEAN, Access(a, ok)
  PROVE  PlaceInv'
<1>1. /\ named[a] /\ Moves(a) /\ ~named'[a] /\ creq' = creq /\ DOMAIN reg' = Registers
      /\ pc'[a] = After(a, Got(a, ok)).pc
  BY Accesses DEF PlaceInv
<1>2. pc[a].acc # "-" BY <1>1 DEF PlaceInv, SiteInv
<1>3. pc[a] # Local("fwrite") /\ pc[a] # Idle BY <1>2 DEF Local, Idle
<1>4. current_mode' = current_mode /\ UNCHANGED <<dcx, wantDcx>> BY DEF Access, Saves
<1>5. SiteInv'
  <2>1. ASSUME a \in Threads PROVE SiteOK(a)'
    <3>1. a # dcxsrv /\ SiteOK(a) BY <2>1, ActorAssumption DEF PlaceInv, SiteInv
    <3>2. creq[a].op \in {"mode", "cdac", "amp", "restore"} BY <1>2, <3>1 DEF SiteOK, Local, Idle
    <3>3. /\ creq[a].op = "mode"    => pc'[a] \in ModeSites
          /\ creq[a].op = "cdac"    => pc'[a] \in CdacSites
          /\ creq[a].op = "amp"     => pc'[a] \in AmpSites
          /\ creq[a].op = "restore" => pc'[a] \in RestoreSites
      BY <1>1, <1>2, <3>1, AmpPlaces, ModePlaces, OtherPlaces DEF SiteOK
    <3>. QED BY <1>1, <3>1, <3>2, <3>3 DEF SiteOK
  <2>2. a = dcxsrv => pc'[a] \in BootSites
    BY <1>1, <1>2, BootPlaces DEF PlaceInv, SiteInv
  <2>. QED BY <1>1, <1>4, <2>1, <2>2, SiteKept DEF PlaceInv, SiteInv
<1>6. DcxInv' BY <1>1, <1>3, <1>4, DcxKept DEF PlaceInv
<1>7. AloneInv'
  <2>1. AtWork(a) /\ (mixed => mixed') BY <1>2 DEF AtWork, Access
  <2>. QED BY <1>1, <1>4, <2>1, AloneKept DEF PlaceInv
<1>. QED BY <1>5, <1>6, <1>7 DEF PlaceInv

\* The steps of a thread that do not go through pmic_reg.
LocalStep(a, ok) == \/ Done(a) \/ WarmUp(a) \/ Temperature(a, ok) \/ SaveOpen(a, ok)
                    \/ SaveWrite(a, ok) \/ Load(a, ok)

\* Where they are taken, and that they move no other thread.
LEMMA LocalMoves ==
  ASSUME SiteInv, NEW a \in Threads, NEW ok \in BOOLEAN, LocalStep(a, ok)
  PROVE  /\ Moves(a) /\ pc[a] # Idle /\ pc[a].acc = "-" /\ ~named'[a]
         /\ DOMAIN reg' = Registers
         /\ \/ creq' = creq /\ current_mode' = current_mode
               /\ \/ pc[a] = Local("temp") /\ pc'[a] = Local("warm")
                  \/ pc[a] = Local("save") /\ pc'[a] = Local("fwrite")
            \/ creq'[a] = NoCali /\ pc'[a] = Idle
<1>0. \E l \in {"done", "temp", "warm", "save", "fwrite", "load"} : pc[a] = Local(l)
  BY DEF LocalStep, Done, WarmUp, Temperature, SaveOpen, SaveWrite, Load
<1>1. pc[a].acc = "-" /\ pc[a] # Idle BY <1>0 DEF Local, Idle
<1>2. ~named[a] BY <1>1 DEF SiteInv, Actors
<1>3. DOMAIN reg' = Registers
  BY DEF SiteInv, LocalStep, Done, WarmUp, Temperature, SaveOpen, SaveWrite, Load, SensorOn
<1>4. \/ Answer(a, TRUE, 0) \/ \E b, v : Answer(a, b, v)
      \/ WarmUp(a) \/ (SaveOpen(a, ok) /\ ok)
  BY DEF LocalStep, Done, Temperature, SaveOpen, SaveWrite, Load
<1>5. CASE \E b, v : Answer(a, b, v) BY <1>1, <1>3, <1>5, Answers
<1>6. CASE WarmUp(a)
  BY <1>1, <1>2, <1>3, <1>6 DEF WarmUp, SiteInv, Moves, Actors, static
<1>7. CASE SaveOpen(a, ok) /\ ok
  BY <1>1, <1>2, <1>3, <1>7 DEF SaveOpen, SiteInv, Moves, Actors, static
<1>. QED BY <1>4, <1>5, <1>6, <1>7

\* Such a step keeps every thread at a place of its request.
LEMMA LocalPlace ==
  ASSUME PlaceInv, NEW a \in Threads, NEW ok \in BOOLEAN, LocalStep(a, ok)
  PROVE  PlaceInv'
<1>. USE DEF PlaceInv
<1>0. a \in Actors /\ a # dcxsrv BY ActorAssumption DEF Actors
<1>1. /\ Moves(a) /\ pc[a] # Idle /\ ~named'[a] /\ DOMAIN reg' = Registers
      /\ \/ creq' = creq /\ current_mode' = current_mode
            /\ \/ pc[a] = Local("temp") /\ pc'[a] = Local("warm")
               \/ pc[a] = Local("save") /\ pc'[a] = Local("fwrite")
         \/ creq'[a] = NoCali /\ pc'[a] = Idle
  BY LocalMoves
<1>2. /\ current_mode' \in {0, 1}
      /\ creq[a].op # "mode" => current_mode' = current_mode
  BY DEF LocalStep, Done, WarmUp, Temperature, SaveOpen, SaveWrite, Load, SiteInv, static
<1>3. SiteOK(a)'
  <2>1. CASE creq'[a] = NoCali /\ pc'[a] = Idle BY <2>1, IdleSite
  <2>2. CASE creq' = creq /\ pc[a] = Local("temp") /\ pc'[a] = Local("warm")
    <3>1. creq[a].op = "temp"
      BY <2>2 DEF SiteInv, SiteOK, Local, Idle, AmpSites, ModeSites, CdacSites, RestoreSites,
                  Read, Write
    <3>. QED BY <2>2, <3>1 DEF SiteOK
  <2>3. CASE creq' = creq /\ pc[a] = Local("save") /\ pc'[a] = Local("fwrite")
    <3>1. creq[a].op = "save"
      BY <2>3 DEF SiteInv, SiteOK, Local, Idle, AmpSites, ModeSites, CdacSites, RestoreSites,
                  Read, Write
    <3>. QED BY <2>3, <3>1 DEF SiteOK, SiteInv
  <2>. QED BY <1>1, <2>1, <2>2, <2>3
<1>4. SiteInv' BY <1>0, <1>1, <1>2, <1>3, SiteKept
<1>5. AloneInv'
  <2>1. mixed' = mixed
    BY DEF LocalStep, Done, WarmUp, Temperature, SaveOpen, SaveWrite, Load, wanted
  <2>2. AtWork(a)' => AtWork(a)
    <3>1. CASE creq' = creq /\ pc'[a] \in {Local("warm"), Local("fwrite")}
      BY <3>1 DEF AtWork, Local
    <3>2. CASE creq'[a] = NoCali /\ pc'[a] = Idle
      BY <1>0, <3>2 DEF AtWork, NoCali, Idle, Local
    <3>. QED BY <1>1, <3>1, <3>2
  <2>. QED BY <1>0, <1>1, <1>2, <2>1, <2>2, AloneKept
<1>6. DcxInv'
  <2>1. CASE SaveOpen(a, ok)
    <3>1. CASE ok
      <4>1. pc'[a] = Local("fwrite") /\ dcx' = NoBytes /\ wantDcx' = wantDcx
        BY <1>0, <2>1, <3>1 DEF SaveOpen, SiteInv, wanted
      <4>. QED BY <4>1 DEF DcxInv, OpenFile, NoBytes
    <3>2. CASE ~ok
      <4>1. pc[a] # Local("fwrite") /\ UNCHANGED <<dcx, wantDcx>>
        BY <2>1, <3>2 DEF SaveOpen, Local, wanted
      <4>. QED BY <1>0, <1>1, <4>1, DcxKept
    <3>. QED BY <3>1, <3>2
  <2>2. CASE SaveWrite(a, ok)
    <3>1. creq[a].op = "save"
      BY <2>2 DEF SaveWrite, SiteInv, SiteOK, Local, Idle, AmpSites, ModeSites, CdacSites,
                  RestoreSites, Read, Write
    <3>2. creq[a].x \in Nat BY <3>1 DEF SiteInv, SiteOK
    <3>. QED BY <2>2, <3>2 DEF SaveWrite, DcxInv, Saved, NoBytes
  <2>3. CASE Done(a) \/ WarmUp(a) \/ Temperature(a, ok) \/ Load(a, ok)
    <3>1. \E l \in {"done", "temp", "warm", "load"} : pc[a] = Local(l)
      BY <2>3 DEF Done, WarmUp, Temperature, Load
    <3>2. pc[a] # Local("fwrite") BY <3>1 DEF Local
    <3>3. UNCHANGED <<dcx, wantDcx>>
      BY <2>3 DEF Done, WarmUp, Temperature, Load, wanted
    <3>. QED BY <1>0, <1>1, <3>2, <3>3, DcxKept
  <2>. QED BY <2>1, <2>2, <2>3 DEF LocalStep
<1>. QED BY <1>4, <1>5, <1>6

\* dcxsrv reads the file.
LEMMA BootReadPlace ==
  ASSUME PlaceInv, BootRead
  PROVE  PlaceInv' /\ Moves(dcxsrv)
<1>. USE DEF PlaceInv
<1>0. dcxsrv \in Actors /\ dcxsrv \notin Threads BY ActorAssumption DEF Actors
<1>1. /\ pc[dcxsrv] = Local("start")
      /\ UNCHANGED <<reg, named, keep, creq, cans, static, dcx, wantDcx>>
      /\ \E p \in {Idle, Write("cdac", "CTRL10")} : pc' = [pc EXCEPT ![dcxsrv] = p]
      /\ UNCHANGED out \/ \E n : out' = [out EXCEPT ![dcxsrv] = n]
  BY DEF BootRead
<1>2. Moves(dcxsrv) BY <1>0, <1>1 DEF SiteInv, Moves
<1>3. pc[dcxsrv].acc = "-" /\ pc[dcxsrv] # Idle /\ pc[dcxsrv] # Local("fwrite")
  BY <1>1 DEF Local, Idle
<1>4. pc'[dcxsrv] \in BootSites /\ ~named'[dcxsrv]
  BY <1>0, <1>1, <1>3 DEF SiteInv, BootSites
<1>5. SiteInv' BY <1>0, <1>1, <1>2, <1>4, SiteKept DEF SiteInv, static
<1>6. AloneInv'
  <2>1. AtWork(dcxsrv) /\ (mixed => mixed') BY <1>1 DEF AtWork, BootRead
  <2>. QED BY <1>0, <1>1, <1>2, <2>1, AloneKept DEF static
<1>7. DcxInv' BY <1>0, <1>1, <1>2, <1>3, DcxKept
<1>. QED BY <1>2, <1>5, <1>6, <1>7

\* A request is given to a free thread.
LEMMA RequestPlace ==
  ASSUME PlaceInv, NEW a \in Threads, NEW r \in CaliRequests, CaliRequest(a, r)
  PROVE  /\ PlaceInv' /\ Moves(a) /\ ~named'[a]
         /\ creq'[a].op = r.op
         /\ \/ pc'[a].at \in {"mode", "cdac", "amp", "clk"}
            \/ /\ pc'[a].acc = "-" /\ pc'[a] # Local("start")
               /\ r.op \notin {"mode", "cdac", "amp"}
<1>. USE DEF PlaceInv
<1>0. a \in Actors /\ a # dcxsrv BY ActorAssumption DEF Actors
<1>. DEFINE q == IF r.op = "amp" THEN [r EXCEPT !.hp = (current_mode = 1)] ELSE r
            p == CASE r.op \in {"mode", "cdac", "amp"} -> Write(r.op, "PROT")
                   [] r.op = "restore"                -> Read("clk", "TSEN0")
                   [] OTHER                           -> Local(r.op)
<1>1. /\ pc[a] = Idle /\ pc' = [pc EXCEPT ![a] = p] /\ creq' = [creq EXCEPT ![a] = q]
      /\ cans' = [b \in Threads |-> NoAns] /\ UNCHANGED <<reg, named, keep, static, dcx, wantDcx>>
      /\ \E n : out' = [out EXCEPT ![a] = n]
  BY DEF CaliRequest, wanted
<1>2. Moves(a) BY <1>0, <1>1 DEF SiteInv, Moves
<1>3. r \in AllCali BY CaliRequestsAssumption
<1>4. /\ r.op \in {"mode", "cdac", "save", "amp", "load", "temp", "restore"}
      /\ r.op \in {"mode", "cdac", "save"} => r.x \in Nat
      /\ q.op = r.op /\ (r.op = "amp" => q.hp = (current_mode = 1)) /\ (r.op # "amp" => q = r)
  <2>1. CASE r \in [op : {"mode"}, x : 0 .. 2]
    <3>1. r.op = "mode" /\ r.x \in 0 .. 2 BY <2>1
    <3>. QED BY <3>1
  <2>2. CASE r \in [op : {"cdac", "save"}, x : 0 .. MaxCode]
    <3>1. r.op \in {"cdac", "save"} /\ r.x \in 0 .. MaxCode BY <2>2
    <3>. QED BY <3>1, CodeConstants
  <2>3. CASE r \in [op : {"amp"}, hp : {TRUE}] BY <2>3
  <2>4. CASE r \in [op : {"load", "temp", "restore"}] BY <2>4
  <2>. QED BY <1>3, <2>1, <2>2, <2>3, <2>4 DEF AllCali
<1>5. pc'[a] = p /\ creq'[a] = q BY <1>0, <1>1 DEF SiteInv
<1>6. \/ p.at \in {"mode", "cdac", "amp", "clk"}
      \/ p.acc = "-" /\ p # Local("start") /\ r.op \notin {"mode", "cdac", "amp"}
  BY <1>4 DEF Write, Read, Local
<1>7. ~named'[a] BY <1>0, <1>1 DEF SiteInv, Idle
<1>8. SiteOK(a)'
  <2>1. CASE r.op \in {"mode", "cdac", "amp"}
    <3>1. p = Write(r.op, "PROT") BY <2>1
    <3>. HIDE DEF p, q
    <3>. QED BY <1>4, <1>5, <2>1, <3>1 DEF SiteOK, ModeSites, CdacSites, AmpSites
  <2>2. CASE r.op = "restore"
    <3>1. p = Read("clk", "TSEN0") BY <2>2
    <3>. HIDE DEF p, q
    <3>. QED BY <1>4, <1>5, <2>2, <3>1 DEF SiteOK, RestoreSites
  <2>3. CASE r.op \in {"load", "temp", "save"}
    <3>1. p = Local(r.op) BY <2>3
    <3>. HIDE DEF p, q
    <3>. QED BY <1>4, <1>5, <2>3, <3>1 DEF SiteOK
  <2>. QED BY <1>4, <2>1, <2>2, <2>3
<1>. HIDE DEF p, q
<1>9. SiteInv' BY <1>0, <1>1, <1>2, <1>7, <1>8, SiteKept DEF SiteInv, static
<1>10. DcxInv'
  <2>1. pc[a] # Local("fwrite") BY <1>1 DEF Idle, Local
  <2>. QED BY <1>0, <1>1, <1>2, <2>1, DcxKept
<1>11. AloneInv'
  <2>. SUFFICES ASSUME ~mixed', NEW b \in Threads, creq'[b].op = "amp"
                PROVE  creq'[b].hp = (current_mode' = 1) /\ \A c \in Actors \ {b} : ~AtWork(c)'
    BY DEF AloneInv, Hp
  <2>1. ~mixed /\ ~Disturbs(a, r) BY DEF CaliRequest
  <2>2. \A c \in Actors \ {a} : AtWork(c)' <=> AtWork(c) BY <1>2 DEF AtWork, Moves, Local
  <2>3. current_mode' = current_mode BY <1>1 DEF static
  <2>4. CASE b = a
    <3>1. r.op = "amp" BY <1>4, <1>5, <2>4
    <3>2. \A c \in Actors \ {a} : ~AtWork(c) BY <2>1, <3>1 DEF Disturbs
    <3>. QED BY <1>4, <1>5, <2>2, <2>3, <2>4, <3>1, <3>2
  <2>5. CASE b # a
    <3>1. creq'[b] = creq[b] BY <1>2, <2>5 DEF Moves
    <3>2. creq[b].hp = (current_mode = 1) /\ \A c \in Actors \ {b} : ~AtWork(c)
      BY <2>1, <3>1 DEF AloneInv, Hp
    <3>3. r.op \notin RegisterOps BY <2>1, <3>1 DEF Disturbs
    <3>4. ~AtWork(a)'
      <4>1. p.acc = "-" /\ p # Local("start") BY <1>4, <3>3 DEF p, RegisterOps, Local
      <4>. QED BY <1>4, <1>5, <3>3, <4>1 DEF AtWork, RegisterOps, Local
    <3>. QED BY <2>2, <2>3, <3>1, <3>2, <3>4
  <2>. QED BY <2>4, <2>5
<1>. QED BY <1>2, <1>4, <1>5, <1>6, <1>7, <1>9, <1>10, <1>11

\* engpc dies: its threads are gone, and the file that one of them had open is
\* not known.
LEMMA DiesPlace ==
  ASSUME PlaceInv, EngpcDies
  PROVE  /\ PlaceInv' /\ pc'[dcxsrv] = pc[dcxsrv] /\ named'[dcxsrv] = named[dcxsrv]
         /\ out'[dcxsrv] = out[dcxsrv] /\ keep'[dcxsrv] = keep[dcxsrv]
         /\ \A a \in Threads : /\ pc'[a] = Idle /\ ~named'[a] /\ creq'[a] = NoCali
                               /\ keep'[a] = 0
<1>. USE DEF PlaceInv
<1>0. dcxsrv \in Actors /\ dcxsrv \notin Threads BY ActorAssumption DEF Actors
<1>1. /\ DOMAIN pc' = Actors /\ DOMAIN named' = Actors /\ DOMAIN out' = Actors
      /\ DOMAIN keep' = Actors /\ DOMAIN creq' = Threads /\ DOMAIN cans' = Threads
  BY DEF EngpcDies, ThreadsGone, SiteInv
<1>2. \A a \in Threads : pc'[a] = Idle /\ ~named'[a] /\ creq'[a] = NoCali /\ keep'[a] = 0
  BY DEF EngpcDies, ThreadsGone, SiteInv, Actors
<1>3. /\ pc'[dcxsrv] = pc[dcxsrv] /\ named'[dcxsrv] = named[dcxsrv]
      /\ out'[dcxsrv] = out[dcxsrv] /\ keep'[dcxsrv] = keep[dcxsrv]
  BY <1>0 DEF EngpcDies, ThreadsGone, SiteInv
<1>4. SiteInv'
  <2>1. \A a \in Threads : SiteOK(a)' BY <1>2, IdleSite
  <2>2. \A a \in Actors : named'[a] => pc'[a].acc # "-" BY <1>0, <1>2, <1>3 DEF SiteInv, Actors
  <2>. QED BY <1>1, <1>3, <2>1, <2>2 DEF SiteInv, EngpcDies
<1>5. DcxInv' BY DEF DcxInv, EngpcDies, NoBytes
<1>6. AloneInv' BY <1>2 DEF AloneInv, NoCali
<1>. QED BY <1>2, <1>3, <1>4, <1>5, <1>6

\* The phone restarts.
LEMMA RestartPlace ==
  ASSUME PlaceInv, NEW factory \in BOOLEAN, PhoneRestarts(factory)
  PROVE  /\ PlaceInv' /\ pc'[dcxsrv] \in {Idle, Local("start")}
         /\ \A a \in Actors : ~named'[a] /\ keep'[a] = 0
         /\ \A a \in Threads : pc'[a] = Idle /\ creq'[a] = NoCali
<1>. USE DEF PlaceInv
<1>0. dcxsrv \in Actors /\ dcxsrv \notin Threads BY ActorAssumption DEF Actors
<1>1. /\ \A a \in Actors : ~named'[a] /\ keep'[a] = 0
      /\ \A a \in Threads : pc'[a] = Idle /\ creq'[a] = NoCali
      /\ pc'[dcxsrv] \in {Idle, Local("start")}
  BY <1>0 DEF PhoneRestarts, Actors
<1>2. SiteInv'
  <2>1. \A a \in Threads : SiteOK(a)' BY <1>1, IdleSite
  <2>. QED BY <1>1, <2>1 DEF SiteInv, PhoneRestarts, PowerOn, BootSites
<1>3. DcxInv' BY DEF DcxInv, PhoneRestarts, NoBytes
<1>4. AloneInv' BY <1>1 DEF AloneInv, NoCali
<1>. QED BY <1>1, <1>2, <1>3, <1>4

-----------------------------------------------------------------------------
(* The registers after a step *)

Known == {"CTRL3", "CTRL4", "CTRL5", "CTRL10", "CTRL14"}

\* The registers and the variables that the settings are in are left alone.
Calm == /\ \A r \in Known : reg'[r] = reg[r]
        /\ UNCHANGED <<current_mode, hp_cbank, hp_amp, wantCdac, wantAmp>>

\* The settings, after a step that leaves them alone.
LEMMA SettingsSame == ASSUME Calm, NEW m, Settings(m) PROVE Settings(m)'
BY DEF Calm, Known, Settings

\* What is known of a thread that is at the registers, after such a step that
\* does not move it.
LEMMA ActiveSame ==
  ASSUME Calm, NEW b \in Actors, ActiveAt(b), pc'[b] = pc[b], out'[b] = out[b],
         b \in Threads => creq'[b] = creq[b], okAt' = okAt
  PROVE  ActiveAt(b)'
<1>1. CASE b = dcxsrv
  <2>1. BootAt BY <1>1 DEF ActiveAt
  <2>2. BootAt' BY <1>1, <2>1 DEF BootAt, Settings, Calm, Known
  <2>. QED BY <1>1, <2>2 DEF ActiveAt
<1>2. CASE b # dcxsrv
  <2>1. b \in Threads /\ creq'[b] = creq[b] BY <1>2 DEF Actors
  <2>2. ModeAt(b) => ModeAt(b)' BY <2>1 DEF ModeAt, Settings, Calm, Known
  <2>3. CdacAt(b) => CdacAt(b)' BY <2>1 DEF CdacAt, Settings, Calm, Known
  <2>4. AmpFrame(b) => AmpFrame(b)' BY <2>1 DEF AmpFrame, Hp, Calm, Known
  <2>5. Findable' <=> Findable BY DEF Findable, MaxCode, Steps
  <2>6. AmpSearch(b) => AmpSearch(b)'
    BY <2>1 DEF AmpSearch, Calm, Known, Top, MaxCode, Fine, Coarse, Steps
  <2>7. Settings(current_mode) => Settings(current_mode)' BY DEF Settings, Calm, Known
  <2>. QED BY <1>2, <2>1, <2>2, <2>3, <2>4, <2>5, <2>6, <2>7 DEF ActiveAt, Hp
<1>. QED BY <1>1, <1>2

\* The other threads are at the registers after a step if they were before.
LEMMA OthersActive ==
  ASSUME NEW a \in Actors, Moves(a)
  PROVE  \A b \in Actors \ {a} : Active(b)' <=> Active(b)
BY DEF Moves, Active, AtWork, Fresh, Local

\* A step of a thread that is not at the registers, before or after.
LEMMA CalmReg ==
  ASSUME RegInv, NEW a \in Actors, Moves(a), Calm, latch' = latch, ~Active(a), ~Active(a)',
         keep'[a] = 0, ~named'[a],
         okAt' = okAt \/ \A b \in Actors : ~Active(b)
  PROVE  RegInv'
<1>1. \A b \in Actors \ {a} : Active(b)' <=> Active(b) BY OthersActive
<1>2. \A b \in Actors : Active(b)' => b # a /\ Active(b) BY <1>1
<1>3. ASSUME NEW b \in Actors, Active(b)' PROVE ActiveAt(b)'
  <2>1. b # a /\ Active(b) BY <1>2, <1>3
  <2>2. /\ pc'[b] = pc[b] /\ out'[b] = out[b]
        /\ b \in Threads => creq'[b] = creq[b]
    BY <2>1 DEF Moves
  <2>3. ActiveAt(b) /\ okAt' = okAt BY <2>1 DEF RegInv
  <2>. QED BY <2>2, <2>3, ActiveSame
<1>4. ASSUME \A b \in Actors : ~Active(b)' PROVE Settings(current_mode)'
  <2>1. Settings(current_mode) BY <1>1, <1>4 DEF RegInv
  <2>. QED BY <2>1 DEF Settings, Calm, Known
<1>5. \A b, c \in Actors : Active(b)' /\ Active(c)' => b = c BY <1>2 DEF RegInv
<1>6. \A b \in Actors : keep'[b] = 0 /\ (named'[b] => latch' = pc'[b].reg)
  BY DEF RegInv, Moves, Calm
<1>7. /\ reg'["CTRL4"] \in Nat /\ reg'["CTRL4"] % 2 = 0
      /\ reg'["CTRL5"] \in Nat /\ wantAmp' \in Nat
  BY DEF RegInv, Calm, Known
<1>. QED BY <1>3, <1>4, <1>5, <1>6, <1>7 DEF RegInv

\* A thread that names a register is the only one at them, if no accesses
\* overlap.
LEMMA NameReg ==
  ASSUME PlaceInv, ~mixed => RegInv, NEW a \in Actors, Name(a), ~mixed'
  PROVE  RegInv'
<1>1. ~mixed /\ RegInv /\ \A b \in Actors \ {a} : ~AtWork(b) BY DEF Name
<1>2. Moves(a) /\ pc' = pc /\ creq' = creq /\ out' = out /\ keep' = keep /\ pc[a].acc # "-"
  BY NamePlace DEF Name
<1>3. /\ UNCHANGED <<reg, okAt, current_mode, hp_cbank, hp_amp, wantCdac, wantAmp>>
      /\ latch' = pc[a].reg /\ named' = [named EXCEPT ![a] = TRUE]
  BY DEF Name, static
<1>4. \A b \in Actors \ {a} : ~Active(b) /\ ~Active(b)'
  BY <1>1, <1>2, OthersActive DEF Active
<1>5. ActiveAt(a)
  <2>1. CASE Active(a) BY <1>1, <2>1 DEF RegInv
  <2>2. CASE ~Active(a)
    <3>1. Settings(current_mode) BY <1>1, <1>4, <2>2 DEF RegInv
    <3>2. Fresh(a) BY <1>2, <2>2 DEF Active, AtWork
    <3>3. a \in Threads /\ a # dcxsrv /\ pc[a].at \in {"mode", "cdac", "amp", "clk"}
      BY <3>2, ActorAssumption DEF Fresh
    <3>4. SiteOK(a) BY <3>3 DEF PlaceInv, SiteInv
    <3>5. ASSUME creq[a].op = "mode" PROVE ModeAt(a)
      <4>1. pc[a] = Write("mode", "PROT")
        BY <3>3, <3>4, <3>5 DEF SiteOK, ModeSites, Read, Write, Local
      <4>. QED BY <3>1, <4>1 DEF ModeAt, Write
    <3>6. ASSUME creq[a].op = "cdac" PROVE CdacAt(a)
      BY <3>1, <3>3 DEF CdacAt
    <3>7. ASSUME creq[a].op = "amp" PROVE AmpFrame(a) /\ AmpSearch(a)
      <4>1. pc[a] = Write("amp", "PROT")
        BY <3>3, <3>4, <3>7 DEF SiteOK, AmpSites, Read, Write, Local
      <4>2. Hp(a) = (current_mode = 1) BY <1>1, <3>3, <3>7 DEF PlaceInv, AloneInv
      <4>3. current_mode \in {0, 1} BY DEF PlaceInv, SiteInv
      <4>4. AmpSearch(a) BY <4>1 DEF AmpSearch, Write
      <4>5. reg["CTRL3"] = 0 /\ reg["CTRL14"] = 1 - current_mode BY <3>1 DEF Settings
      <4>6. CASE current_mode = 1
        <5>1. Hp(a) /\ reg["CTRL10"] = wantCdac BY <3>1, <4>2, <4>6 DEF Settings
        <5>. QED BY <4>1, <4>4, <4>5, <5>1 DEF AmpFrame, Write
      <4>7. CASE current_mode = 0
        <5>1. current_mode # 1 BY <4>7
        <5>2. reg["CTRL10"] = 0 /\ hp_cbank = wantCdac /\ hp_amp = wantAmp
          BY <3>1, <5>1 DEF Settings
        <5>3. ~Hp(a) BY <4>2, <5>1, Zenon
        <5>. QED BY <4>1, <4>4, <4>5, <5>2, <5>3 DEF AmpFrame, Write
      <4>. QED BY <4>3, <4>6, <4>7
    <3>. QED BY <3>1, <3>3, <3>5, <3>6, <3>7 DEF ActiveAt
  <2>. QED BY <2>1, <2>2
<1>6. ActiveAt(a)'
  <2>1. Calm BY <1>3 DEF Calm
  <2>. QED BY <1>2, <1>3, <1>5, <2>1, ActiveSame
<1>7. Active(a)'
  <2>1. named'[a] BY <1>3 DEF PlaceInv, SiteInv
  <2>. QED BY <1>2, <2>1 DEF Active, AtWork, Fresh
<1>8. \A b \in Actors : keep'[b] = 0 /\ (named'[b] => latch' = pc'[b].reg)
  <2>1. \A b \in Actors \ {a} : ~named[b] BY <1>1 DEF PlaceInv, SiteInv, AtWork
  <2>. QED BY <1>1, <1>2, <1>3, <2>1 DEF RegInv, Moves
<1>. QED BY <1>1, <1>3, <1>4, <1>6, <1>7, <1>8 DEF RegInv

\* The register that an access of a thread reads or writes is the one that it
\* has named.
LEMMA AccessIs ==
  ASSUME SiteInv, NEW a \in Actors, latch = pc[a].reg, Access(a, TRUE)
  PROVE  /\ pc[a].acc = "r" => reg' = reg /\ Got(a, TRUE) = ana_read(pc[a].reg)
         /\ pc[a].acc = "w" => \A q \in Registers : reg'[q] =
              IF q # pc[a].reg THEN reg[q]
              ELSE IF q = "CTRL4" THEN (out[a] \div 2) * 2 ELSE out[a]
<1>1. pc[a].acc = "r" => reg' = reg /\ Got(a, TRUE) = ana_read(pc[a].reg) BY DEF Access, Got
<1>2. pc[a].acc = "w" => reg' = ana_write(pc[a].reg, out[a]) BY DEF Access
<1>. QED BY <1>1, <1>2 DEF ana_write, SiteInv

\* What an access keeps, or saves of what it reads.
LEMMA SavesIs ==
  ASSUME SiteInv, NEW a \in Actors, Access(a, TRUE)
  PROVE  /\ UNCHANGED <<creq, current_mode, okAt, wantAmp>>
         /\ hp_cbank' = IF pc[a].at = "lo10" THEN Got(a, TRUE) ELSE hp_cbank
         /\ hp_amp' = IF pc[a].at = "lo5" THEN Got(a, TRUE) ELSE hp_amp
         /\ pc[a].at # "bank" => keep' = keep
         /\ pc[a].at = "bank" => keep'[a] = Got(a, TRUE)
         /\ wantCdac' = IF pc[a].reg = "CTRL10" /\ pc[a].at = "done" THEN creq[a].x ELSE wantCdac
         /\ mixed => mixed'
BY DEF Access, Saves, Got, SiteInv

-----------------------------------------------------------------------------
(* The switch of the mode *)

\* Each access of the switch leads to what is known of the next place.
LEMMA ModeAccess ==
  ASSUME SiteInv, RegInv, NEW a \in Threads, creq[a].op = "mode", ModeAt(a),
         latch = pc[a].reg, Access(a, TRUE)
  PROVE  ModeAt(a)' /\ reg'["CTRL4"] = reg["CTRL4"] /\ reg'["CTRL5"] \in Nat /\ keep' = keep
<1>. DEFINE v == Got(a, TRUE)
<1>0. a \in Actors /\ a # dcxsrv BY ActorAssumption DEF Actors
<1>1. /\ pc[a] \in ModeSites /\ pc[a].acc # "-" /\ creq[a].x \in Nat /\ current_mode \in {0, 1}
  BY <1>0, Accesses DEF SiteInv, SiteOK
<1>2. /\ creq' = creq /\ current_mode' = current_mode /\ wantAmp' = wantAmp
      /\ hp_cbank' = IF pc[a].at = "lo10" THEN v ELSE hp_cbank
      /\ hp_amp' = IF pc[a].at = "lo5" THEN v ELSE hp_amp
      /\ pc[a].at # "bank" => keep' = keep
      /\ wantCdac' = IF pc[a].reg = "CTRL10" /\ pc[a].at = "done" THEN creq[a].x ELSE wantCdac
  BY <1>0, SavesIs
<1>3. reg["CTRL5"] \in Nat /\ wantAmp \in Nat BY DEF RegInv
<1>r. pc[a].acc = "r" => reg' = reg /\ v = ana_read(pc[a].reg) BY <1>0, AccessIs
<1>w. pc[a].acc = "w" => \A q \in Registers : reg'[q] =
        IF q # pc[a].reg THEN reg[q]
        ELSE IF q = "CTRL4" THEN (out[a] \div 2) * 2 ELSE out[a]
  BY <1>0, AccessIs
<1>n. /\ pc[a].at = "mode"  => pc'[a] = ModeThen("mode", 0, creq[a].x).pc
      /\ pc[a].at = "lo10"  => pc'[a] = Read("lo5", "CTRL5")
      /\ pc[a].at = "lo5"   => pc'[a] = Write("lo10w", "CTRL10") /\ out'[a] = 0
      /\ pc[a].at = "lo10w" => pc'[a] = Read("lo14", "CTRL14")
      /\ pc[a].at = "lo14"  => pc'[a] = Write("done", "CTRL14") /\ out'[a] = 1
      /\ pc[a].at = "hi10"  => pc'[a] = Read("hi5", "CTRL5")
      /\ pc[a].at = "hi5"   => pc'[a] = Read("hi14", "CTRL14")
      /\ pc[a].at = "hi14"  => pc'[a] = Write("hi14w", "CTRL14") /\ out'[a] = 0
      /\ pc[a].at = "hi14w" => pc'[a] = Write("hi10w", "CTRL10") /\ out'[a] = hp_cbank
      /\ pc[a].at = "hi10w" => pc'[a] = Write("done", "CTRL5") /\ out'[a] = hp_amp
      /\ pc[a].at = "done"  => pc'[a] = Local("done")
  <2>1. pc'[a] = After(a, v).pc /\ out'[a] = After(a, v).out BY <1>0, Accesses
  <2>. HIDE DEF v
  <2>. QED BY <1>0, <2>1 DEF After, Then, ModeThen, To
<1>. HIDE DEF v
<1>4. CASE pc[a] = Write("mode", "PROT")
  <2>1. /\ \A q \in Registers \ {"PROT"} : reg'[q] = reg[q]
        /\ pc'[a] = ModeThen("mode", 0, creq[a].x).pc
    BY <1>4, <1>w, <1>n DEF Registers, Write
  <2>2. Settings(current_mode) BY <1>4 DEF ModeAt, Write
  <2>3. hp_cbank' = hp_cbank /\ hp_amp' = hp_amp /\ wantCdac' = wantCdac /\ keep' = keep
    BY <1>2, <1>4 DEF Write
  <2>4. Settings(current_mode)' BY <1>2, <2>1, <2>2, <2>3 DEF Settings, Registers
  <2>5. CASE creq[a].x = 0 /\ current_mode = 1
    <3>1. pc'[a] = Read("lo10", "CTRL10") BY <2>1, <2>5 DEF ModeThen, To
    <3>. QED BY <1>2, <1>3, <2>1, <2>3, <2>4, <2>5, <3>1 DEF ModeAt, Read, Settings, Registers
  <2>6. CASE creq[a].x # 0 /\ current_mode = 0
    <3>1. pc'[a] = Read("hi10", "CTRL10") BY <2>1, <2>6 DEF ModeThen, To
    <3>. QED BY <1>2, <1>3, <2>1, <2>3, <2>4, <2>6, <3>1 DEF ModeAt, Read, Settings, Registers
  <2>7. CASE (creq[a].x # 0 /\ current_mode = 1) \/ (creq[a].x = 0 /\ current_mode = 0)
    <3>1. pc'[a] = Local("done") BY <2>1, <2>7 DEF ModeThen, To
    <3>2. current_mode = IF creq[a].x = 0 THEN 0 ELSE 1 BY <2>7
    <3>. QED BY <1>2, <1>3, <2>1, <2>3, <2>4, <3>1, <3>2 DEF ModeAt, Local, Settings, Registers
  <2>. QED BY <1>1, <2>5, <2>6, <2>7
<1>5. CASE pc[a] = Read("lo10", "CTRL10")
  <2>1. reg' = reg /\ v = reg["CTRL10"] /\ pc'[a] = Read("lo5", "CTRL5")
    BY <1>5, <1>r, <1>n DEF Read, ana_read
  <2>. QED BY <1>2, <1>3, <1>5, <2>1 DEF ModeAt, Read, Settings
<1>6. CASE pc[a] = Read("lo5", "CTRL5")
  <2>1. reg' = reg /\ v = reg["CTRL5"] /\ pc'[a] = Write("lo10w", "CTRL10") /\ out'[a] = 0
    BY <1>6, <1>r, <1>n DEF Read, ana_read
  <2>. QED BY <1>2, <1>3, <1>6, <2>1 DEF ModeAt, Read, Write, Settings
<1>7. CASE pc[a] = Write("lo10w", "CTRL10")
  <2>1. /\ reg'["CTRL10"] = out[a] /\ \A q \in Registers \ {"CTRL10"} : reg'[q] = reg[q]
        /\ pc'[a] = Read("lo14", "CTRL14")
    BY <1>7, <1>w, <1>n DEF Registers, Write
  <2>. QED BY <1>2, <1>3, <1>7, <2>1 DEF ModeAt, Read, Write, Settings, Registers
<1>8. CASE pc[a] = Read("lo14", "CTRL14")
  <2>1. reg' = reg /\ pc'[a] = Write("done", "CTRL14") /\ out'[a] = 1
    BY <1>8, <1>r, <1>n DEF Read
  <2>. QED BY <1>2, <1>3, <1>8, <2>1 DEF ModeAt, Read, Write, Settings
<1>9. CASE pc[a] = Write("done", "CTRL14")
  <2>1. /\ reg'["CTRL14"] = out[a] /\ \A q \in Registers \ {"CTRL14"} : reg'[q] = reg[q]
        /\ pc'[a] = Local("done")
    BY <1>9, <1>w, <1>n DEF Registers, Write
  <2>. QED BY <1>2, <1>3, <1>9, <2>1 DEF ModeAt, Local, Write, Settings, Registers
<1>10. CASE pc[a] = Read("hi10", "CTRL10")
  <2>1. reg' = reg /\ pc'[a] = Read("hi5", "CTRL5")
    BY <1>10, <1>r, <1>n DEF Read
  <2>. QED BY <1>2, <1>3, <1>10, <2>1 DEF ModeAt, Read, Settings
<1>11. CASE pc[a] = Read("hi5", "CTRL5")
  <2>1. reg' = reg /\ pc'[a] = Read("hi14", "CTRL14")
    BY <1>11, <1>r, <1>n DEF Read
  <2>. QED BY <1>2, <1>3, <1>11, <2>1 DEF ModeAt, Read, Settings
<1>12. CASE pc[a] = Read("hi14", "CTRL14")
  <2>1. reg' = reg /\ pc'[a] = Write("hi14w", "CTRL14") /\ out'[a] = 0
    BY <1>12, <1>r, <1>n DEF Read
  <2>. QED BY <1>2, <1>3, <1>12, <2>1 DEF ModeAt, Read, Write, Settings
<1>13. CASE pc[a] = Write("hi14w", "CTRL14")
  <2>1. /\ reg'["CTRL14"] = out[a] /\ \A q \in Registers \ {"CTRL14"} : reg'[q] = reg[q]
        /\ pc'[a] = Write("hi10w", "CTRL10") /\ out'[a] = hp_cbank
    BY <1>13, <1>w, <1>n DEF Registers, Write
  <2>. QED BY <1>2, <1>3, <1>13, <2>1 DEF ModeAt, Write, Settings, Registers
<1>14. CASE pc[a] = Write("hi10w", "CTRL10")
  <2>1. /\ reg'["CTRL10"] = out[a] /\ \A q \in Registers \ {"CTRL10"} : reg'[q] = reg[q]
        /\ pc'[a] = Write("done", "CTRL5") /\ out'[a] = hp_amp
    BY <1>14, <1>w, <1>n DEF Registers, Write
  <2>. QED BY <1>2, <1>3, <1>14, <2>1 DEF ModeAt, Write, Settings, Registers
<1>15. CASE pc[a] = Write("done", "CTRL5")
  <2>1. /\ reg'["CTRL5"] = out[a] /\ \A q \in Registers \ {"CTRL5"} : reg'[q] = reg[q]
        /\ pc'[a] = Local("done")
    BY <1>15, <1>w, <1>n DEF Registers, Write
  <2>. QED BY <1>2, <1>3, <1>15, <2>1 DEF ModeAt, Local, Write, Settings, Registers
<1>16. pc[a] # Local("done") BY <1>1 DEF Local
<1>. QED BY <1>1, <1>4, <1>5, <1>6, <1>7, <1>8, <1>9, <1>10, <1>11, <1>12, <1>13, <1>14, <1>15,
            <1>16 DEF ModeSites

-----------------------------------------------------------------------------
(* The capacitors, the sensor and dcxsrv *)

\* The setting of the capacitors.
LEMMA CdacAccess ==
  ASSUME SiteInv, RegInv, NEW a \in Threads, creq[a].op = "cdac", CdacAt(a),
         latch = pc[a].reg, Access(a, TRUE)
  PROVE  /\ CdacAt(a)' /\ reg'["CTRL4"] = reg["CTRL4"] /\ reg'["CTRL5"] = reg["CTRL5"]
         /\ keep' = keep
<1>0. a \in Actors /\ a # dcxsrv BY ActorAssumption DEF Actors
<1>1. /\ pc[a] \in CdacSites /\ pc[a].acc # "-" /\ current_mode \in {0, 1}
      /\ Settings(current_mode)
  BY <1>0, Accesses DEF SiteInv, SiteOK, CdacAt
<1>2. /\ creq' = creq /\ current_mode' = current_mode /\ wantAmp' = wantAmp
      /\ hp_cbank' = IF pc[a].at = "lo10" THEN Got(a, TRUE) ELSE hp_cbank
      /\ hp_amp' = IF pc[a].at = "lo5" THEN Got(a, TRUE) ELSE hp_amp
      /\ pc[a].at # "bank" => keep' = keep
      /\ wantCdac' = IF pc[a].reg = "CTRL10" /\ pc[a].at = "done" THEN creq[a].x ELSE wantCdac
  BY <1>0, SavesIs
<1>w. pc[a].acc = "w" => \A q \in Registers : reg'[q] =
        IF q # pc[a].reg THEN reg[q]
        ELSE IF q = "CTRL4" THEN (out[a] \div 2) * 2 ELSE out[a]
  BY <1>0, AccessIs
<1>n. /\ pc[a].at = "done" => pc'[a] = Local("done")
      /\ pc[a].at = "cdac" =>
           /\ pc'[a] = Write("done", IF current_mode = 1 THEN "CTRL10" ELSE "CTRL11")
           /\ out'[a] = creq[a].x
  <2>1. pc'[a] = After(a, Got(a, TRUE)).pc /\ out'[a] = After(a, Got(a, TRUE)).out
    BY <1>0, Accesses
  <2>. QED BY <1>0, <2>1 DEF After, Then, To
<1>3. CASE pc[a] = Write("cdac", "PROT")
  <2>1. \A q \in Registers \ {"PROT"} : reg'[q] = reg[q] BY <1>3, <1>w DEF Write
  <2>2. /\ pc'[a] = Write("done", IF current_mode = 1 THEN "CTRL10" ELSE "CTRL11")
        /\ out'[a] = creq[a].x /\ keep' = keep
    BY <1>2, <1>3, <1>n DEF Write
  <2>3. UNCHANGED <<hp_cbank, hp_amp, wantCdac>> BY <1>2, <1>3 DEF Write
  <2>4. Settings(current_mode)' BY <1>1, <1>2, <2>1, <2>3 DEF Settings, Registers
  <2>. QED BY <1>2, <2>1, <2>2, <2>4 DEF CdacAt, Write, Registers
<1>4. CASE pc[a] = Write("done", "CTRL10")
  <2>1. current_mode = 1 /\ out[a] = creq[a].x BY <1>1, <1>4 DEF CdacAt, Write
  <2>2. /\ reg'["CTRL10"] = out[a] /\ \A q \in Registers \ {"CTRL10"} : reg'[q] = reg[q]
        /\ wantCdac' = creq[a].x /\ pc'[a] = Local("done") /\ keep' = keep
    BY <1>2, <1>4, <1>w, <1>n DEF Write, Registers
  <2>3. Settings(current_mode)' BY <1>1, <1>2, <2>1, <2>2 DEF Settings, Registers
  <2>. QED BY <1>2, <2>2, <2>3 DEF CdacAt, Local, Registers
<1>5. CASE pc[a] = Write("done", "CTRL11")
  <2>1. /\ \A q \in Registers \ {"CTRL11"} : reg'[q] = reg[q]
        /\ pc'[a] = Local("done") /\ keep' = keep
    BY <1>2, <1>5, <1>w, <1>n DEF Write, Registers
  <2>2. UNCHANGED <<hp_cbank, hp_amp, wantCdac>> BY <1>2, <1>5 DEF Write
  <2>3. Settings(current_mode)' BY <1>1, <1>2, <2>1, <2>2 DEF Settings, Registers
  <2>. QED BY <1>2, <2>1, <2>3 DEF CdacAt, Local, Registers
<1>6. pc[a] # Local("done") BY <1>1 DEF Local
<1>. QED BY <1>1, <1>3, <1>4, <1>5, <1>6 DEF CdacSites

\* The sensor's registers are others.
LEMMA RestoreAccess ==
  ASSUME SiteInv, RegInv, NEW a \in Threads, creq[a].op = "restore",
         latch = pc[a].reg, Access(a, TRUE)
  PROVE  Calm /\ keep' = keep
<1>0. a \in Actors /\ a # dcxsrv BY ActorAssumption DEF Actors
<1>1. pc[a] \in RestoreSites /\ pc[a].acc # "-"
  BY <1>0, Accesses DEF SiteInv, SiteOK
<1>2. /\ pc[a].reg \in {"TSEN0", "TSEN1", "TSEN3"} /\ pc[a].acc \in {"r", "w"}
      /\ pc[a].at \in {"clk", "clkw", "sens", "sensw", "adc", "adcw", "ldo", "done"}
  BY <1>1 DEF RestoreSites, Read, Write, Local
<1>3. \A r \in Known : reg'[r] = reg[r]
  <2>1. /\ pc[a].acc = "r" => reg' = reg
        /\ pc[a].acc = "w" => \A q \in Registers : reg'[q] =
             IF q # pc[a].reg THEN reg[q]
             ELSE IF q = "CTRL4" THEN (out[a] \div 2) * 2 ELSE out[a]
    BY <1>0, AccessIs
  <2>. QED BY <1>2, <2>1 DEF Known, Registers
<1>4. /\ current_mode' = current_mode /\ wantAmp' = wantAmp
      /\ hp_cbank' = IF pc[a].at = "lo10" THEN Got(a, TRUE) ELSE hp_cbank
      /\ hp_amp' = IF pc[a].at = "lo5" THEN Got(a, TRUE) ELSE hp_amp
      /\ pc[a].at # "bank" => keep' = keep
      /\ wantCdac' = IF pc[a].reg = "CTRL10" /\ pc[a].at = "done" THEN creq[a].x ELSE wantCdac
  BY <1>0, SavesIs
<1>. QED BY <1>2, <1>3, <1>4 DEF Calm

\* dcxsrv ends with the values of the file in the registers.
LEMMA BootAccess ==
  ASSUME SiteInv, RegInv, BootAt, latch = pc[dcxsrv].reg, Access(dcxsrv, TRUE)
  PROVE  /\ pc'[dcxsrv] # Idle => BootAt'
         /\ pc'[dcxsrv] = Idle => Settings(current_mode)'
         /\ reg'["CTRL4"] = reg["CTRL4"] /\ reg'["CTRL5"] \in Nat /\ keep' = keep
         /\ pc'[dcxsrv] # Idle => pc'[dcxsrv].acc # "-"
<1>0. dcxsrv \in Actors BY DEF Actors
<1>1. pc[dcxsrv] \in BootSites /\ pc[dcxsrv].acc # "-" BY <1>0, Accesses DEF SiteInv
<1>2. /\ current_mode' = current_mode /\ wantAmp' = wantAmp
      /\ hp_cbank' = IF pc[dcxsrv].at = "lo10" THEN Got(dcxsrv, TRUE) ELSE hp_cbank
      /\ hp_amp' = IF pc[dcxsrv].at = "lo5" THEN Got(dcxsrv, TRUE) ELSE hp_amp
      /\ pc[dcxsrv].at # "bank" => keep' = keep
      /\ wantCdac' = IF pc[dcxsrv].reg = "CTRL10" /\ pc[dcxsrv].at = "done" THEN creq[dcxsrv].x
                     ELSE wantCdac
  BY <1>0, SavesIs
<1>3. reg["CTRL5"] \in Nat /\ wantAmp \in Nat BY DEF RegInv
<1>w. pc[dcxsrv].acc = "w" => \A q \in Registers : reg'[q] =
        IF q # pc[dcxsrv].reg THEN reg[q]
        ELSE IF q = "CTRL4" THEN (out[dcxsrv] \div 2) * 2 ELSE out[dcxsrv]
  BY <1>0, AccessIs
<1>n. /\ pc[dcxsrv].at = "cdac" => pc'[dcxsrv] = Write("hp", "CTRL5") /\ out'[dcxsrv] = out[dcxsrv]
      /\ pc[dcxsrv].at = "hp"   => pc'[dcxsrv] = Write("lp", "CTRL6")
      /\ pc[dcxsrv].at = "lp"   => pc'[dcxsrv] = Write("drift", "CTRL13")
      /\ pc[dcxsrv].at = "drift" => pc'[dcxsrv] = Idle
  <2>. DEFINE v == Got(dcxsrv, TRUE)
  <2>1. pc'[dcxsrv] = After(dcxsrv, v).pc /\ out'[dcxsrv] = After(dcxsrv, v).out
    BY <1>0, Accesses
  <2>. HIDE DEF v
  <2>2. After(dcxsrv, v) = BootThen(dcxsrv, pc[dcxsrv].at) BY <1>1, BootPlaces
  <2>. QED BY <2>1, <2>2 DEF BootThen, To
<1>4. CASE pc[dcxsrv] = Write("cdac", "CTRL10")
  <2>1. /\ reg'["CTRL10"] = out[dcxsrv] /\ \A q \in Registers \ {"CTRL10"} : reg'[q] = reg[q]
        /\ pc'[dcxsrv] = Write("hp", "CTRL5") /\ out'[dcxsrv] = out[dcxsrv]
    BY <1>4, <1>w, <1>n DEF Registers, Write
  <2>. QED BY <1>2, <1>3, <1>4, <2>1 DEF BootAt, Write, Idle, Registers
<1>5. CASE pc[dcxsrv] = Write("hp", "CTRL5")
  <2>1. /\ reg'["CTRL5"] = out[dcxsrv] /\ \A q \in Registers \ {"CTRL5"} : reg'[q] = reg[q]
        /\ pc'[dcxsrv] = Write("lp", "CTRL6")
    BY <1>5, <1>w, <1>n DEF Registers, Write
  <2>. QED BY <1>2, <1>3, <1>5, <2>1 DEF BootAt, Write, Idle, Registers
<1>6. CASE pc[dcxsrv] = Write("lp", "CTRL6")
  <2>1. /\ \A q \in Registers \ {"CTRL6"} : reg'[q] = reg[q]
        /\ pc'[dcxsrv] = Write("drift", "CTRL13")
    BY <1>6, <1>w, <1>n DEF Registers, Write
  <2>. QED BY <1>2, <1>3, <1>6, <2>1 DEF BootAt, Write, Idle, Registers
<1>7. CASE pc[dcxsrv] = Write("drift", "CTRL13")
  <2>1. /\ \A q \in Registers \ {"CTRL13"} : reg'[q] = reg[q] /\ pc'[dcxsrv] = Idle
    BY <1>7, <1>w, <1>n DEF Registers, Write
  <2>. QED BY <1>2, <1>3, <1>7, <2>1 DEF BootAt, Settings, Write, Idle, Registers
<1>8. pc[dcxsrv] # Idle /\ pc[dcxsrv] # Local("start") BY <1>1 DEF Idle, Local
<1>. QED BY <1>1, <1>4, <1>5, <1>6, <1>7, <1>8 DEF BootSites

-----------------------------------------------------------------------------
(* The calibration *)

\* From which accesses the places of the calibration are reached: the place m is
\* reached from l, where v was read, and w is going to be written.
AmpComes(a, l, v, m, w) ==
  /\ m # "amp" /\ m # "idle"
  /\ m = "bank"   => l = "amp" /\ ~Hp(a)
  /\ m = "nobank" => l = "bank" /\ w = 0
  /\ m = "en"     => l \in {"amp", "nobank"}
  /\ m = "finew"  => l = "fine" /\ w = Code(Coarse(v), FineMax)
  /\ m = "all"    => l = "finew"
  /\ m = "allw"   => l = "all" /\ w = Code(CoarseMax, Fine(v))
  /\ m = "aml"    => l = "allw"
  /\ m = "amlw"   => l = "aml" /\ w \in {14, Or2(v \div 2) * 2}
  /\ m = "loop"   => l \in {"amlw", "downw"}
  /\ m = "back"   => l = "loop" /\ Flag(v)
  /\ m = "down"   => l = "loop" /\ ~Flag(v)
  /\ m = "downw"  => l = "down" /\ Coarse(v) # 0 /\ w = v - Steps
  /\ m = "backw"  => l = "back" /\ Coarse(v) # 0 /\ w = CoarseBack(Hp(a), v)
  /\ m = "none"   => l = "backw" \/ (l \in {"down", "back"} /\ Coarse(v) = 0)
  /\ m = "zero"   => l = "none" /\ ~Flag(v)
  /\ m = "zerow"  => l = "zero" /\ Coarse(v) = 0 /\ w \in {0, 1}
  /\ m = "aml2"   => l = "zerow" \/ l = "none" \/ l = "zero"
  /\ m = "aml2w"  => l = "aml2" /\ w \in {12, 2}
  /\ m = "fine2"  => l = "aml2w"
  /\ m = "fine2w" => l = "fine2" /\ w = Code(Coarse(v), FineMax)
  /\ m = "search" => l \in {"fine2w", "stepw"}
  /\ m = "step"   => l = "search" /\ ~Flag(v)
  /\ m = "stepw"  => l = "step" /\ w = FineDown(v)
  /\ m = "dis"    => l = "search" /\ Flag(v)
  /\ m = "disw"   => l = "dis" /\ w = 0
  /\ m = "rebank" => l = "disw" /\ ~Hp(a) /\ w = keep[a]
  /\ m = "end"    => l = "rebank" \/ (l = "disw" /\ Hp(a))
  /\ m = "done"   => l = "end" /\ w = v

\* An access of the calibration at l, which read v, is followed by such a place.
LEMMA AmpFrom ==
  ASSUME NEW a, a # dcxsrv, creq[a].op = "amp", pc[a] \in AmpSites, pc[a].acc # "-", NEW v
  PROVE  AmpComes(a, pc[a].at, v, After(a, v).pc.at, After(a, v).out)
<1>. DEFINE l == pc[a].at
<1>1. l \in {"amp", "bank", "nobank", "en", "enw", "fine", "finew", "all", "allw", "aml",
             "amlw", "downw", "loop", "down", "back", "backw", "none", "zero", "zerow",
             "aml2", "aml2w", "fine2", "fine2w", "stepw", "search", "step", "dis", "disw",
             "rebank", "end"}
  BY DEF AmpSites, Read, Write, Local
<1>2. l = "end" => After(a, v) = To(Local("done"), v) BY DEF After
<1>3. l # "end" => After(a, v) = AmpThen(a, l, v) BY <1>1 DEF After, Then
<1>. HIDE DEF l
<1>4. CASE l \in {"amp", "bank", "nobank", "en", "enw", "fine", "finew", "all", "allw", "aml"}
  BY <1>3, <1>4 DEF AmpThen, To, Read, Write, l, AmpComes
<1>5. CASE l \in {"amlw", "downw", "loop", "down", "back", "backw", "none", "zero", "zerow"}
  BY <1>3, <1>5 DEF AmpThen, To, Read, Write, l, AmpComes
<1>6. CASE l \in {"aml2", "aml2w", "fine2", "fine2w", "stepw", "search", "step", "dis", "disw",
                  "rebank"}
  BY <1>3, <1>6 DEF AmpThen, To, Read, Write, l, AmpComes
<1>7. CASE l = "end" BY <1>2, <1>7 DEF To, Local, l, AmpComes
<1>. QED BY <1>1, <1>4, <1>5, <1>6, <1>7

\* What an access of the calibration reads and writes.
LEMMA AmpRegs ==
  ASSUME SiteInv, RegInv, NEW a \in Threads, creq[a].op = "amp", latch = pc[a].reg,
         Access(a, TRUE), NEW v, v = Got(a, TRUE)
  PROVE  LET l == pc[a].at
         IN /\ l \in {"fine", "all", "down", "back", "zero", "fine2", "step", "end"} =>
                 v = reg["CTRL5"]
            /\ l \in {"loop", "none", "search"} => (Flag(v) <=> reg["CTRL5"] <= okAt)
            /\ l = "aml" => v = reg["CTRL4"] + OkFlag
            /\ l = "bank" => v = reg["CTRL10"]
            /\ reg'["CTRL5"] = IF l \in {"finew", "allw", "downw", "backw", "zerow", "fine2w",
                                         "stepw"}
                               THEN out[a] ELSE reg["CTRL5"]
            /\ reg'["CTRL4"] = IF l \in {"amlw", "aml2w"} THEN (out[a] \div 2) * 2
                                                         ELSE reg["CTRL4"]
            /\ reg'["CTRL10"] = IF l \in {"nobank", "rebank"} THEN out[a] ELSE reg["CTRL10"]
            /\ reg'["CTRL3"] = IF l \in {"enw", "disw"} THEN out[a] ELSE reg["CTRL3"]
            /\ reg'["CTRL14"] = reg["CTRL14"]
<1>. DEFINE l == pc[a].at
<1>0. a \in Actors BY DEF Actors
<1>1. pc[a] \in AmpSites /\ pc[a].acc # "-" BY <1>0, Accesses DEF SiteInv, SiteOK
<1>r. pc[a].acc = "r" => reg' = reg /\ v = ana_read(pc[a].reg) BY <1>0, AccessIs
<1>w. pc[a].acc = "w" => \A q \in Registers : reg'[q] =
        IF q # pc[a].reg THEN reg[q]
        ELSE IF q = "CTRL4" THEN (out[a] \div 2) * 2 ELSE out[a]
  BY <1>0, AccessIs
<1>f. Flag(ana_read("CTRL4")) <=> reg["CTRL5"] <= okAt BY FlagIs DEF RegInv
<1>2. CASE pc[a] \in {Read(m, "CTRL5") : m \in {"fine", "all", "down", "back", "zero", "fine2",
                                                "step", "end"}}
  <2>1. /\ l \in {"fine", "all", "down", "back", "zero", "fine2", "step", "end"}
        /\ pc[a].acc = "r" /\ pc[a].reg = "CTRL5"
    BY <1>2 DEF Read
  <2>2. reg' = reg /\ v = reg["CTRL5"] BY <1>r, <2>1 DEF ana_read
  <2>. HIDE DEF l
  <2>. QED BY <2>1, <2>2 DEF l
<1>3. CASE pc[a] \in {Read(m, "CTRL4") : m \in {"aml", "loop", "none", "aml2", "search"}}
  <2>1. /\ l \in {"aml", "loop", "none", "aml2", "search"}
        /\ pc[a].acc = "r" /\ pc[a].reg = "CTRL4"
    BY <1>3 DEF Read
  <2>2. reg' = reg /\ v = ana_read("CTRL4") BY <1>r, <2>1
  <2>3. ana_read("CTRL4") = reg["CTRL4"] + OkFlag BY DEF ana_read
  <2>. HIDE DEF l
  <2>. QED BY <1>f, <2>1, <2>2, <2>3 DEF l
<1>4. CASE pc[a] \in {Read("bank", "CTRL10")} \cup {Read(m, "CTRL3") : m \in {"en", "dis"}}
  <2>1. /\ l \in {"bank", "en", "dis"} /\ (l = "bank" => pc[a].reg = "CTRL10")
        /\ pc[a].acc = "r"
    BY <1>4 DEF Read
  <2>2. reg' = reg /\ (l = "bank" => v = reg["CTRL10"]) BY <1>r, <2>1 DEF ana_read
  <2>. HIDE DEF l
  <2>. QED BY <2>1, <2>2 DEF l
<1>5. CASE pc[a] \in {Write(m, "CTRL5") : m \in {"finew", "allw", "downw", "backw", "zerow",
                                                 "fine2w", "stepw"}}
  <2>1. /\ l \in {"finew", "allw", "downw", "backw", "zerow", "fine2w", "stepw"}
        /\ pc[a].acc = "w" /\ pc[a].reg = "CTRL5"
    BY <1>5 DEF Write
  <2>2. \A q \in Registers : reg'[q] = IF q # "CTRL5" THEN reg[q]
                                       ELSE IF q = "CTRL4" THEN (out[a] \div 2) * 2 ELSE out[a]
    BY <1>w, <2>1
  <2>. HIDE DEF l
  <2>. QED BY <2>1, <2>2 DEF l, Registers
<1>6. CASE pc[a] \in {Write(m, "CTRL4") : m \in {"amlw", "aml2w"}}
  <2>1. l \in {"amlw", "aml2w"} /\ pc[a].acc = "w" /\ pc[a].reg = "CTRL4"
    BY <1>6 DEF Write
  <2>2. \A q \in Registers : reg'[q] = IF q # "CTRL4" THEN reg[q]
                                       ELSE IF q = "CTRL4" THEN (out[a] \div 2) * 2 ELSE out[a]
    BY <1>w, <2>1
  <2>. HIDE DEF l
  <2>. QED BY <2>1, <2>2 DEF l, Registers
<1>7. CASE pc[a] \in {Write("nobank", "CTRL10"), Write("rebank", "CTRL10")}
  <2>1. l \in {"nobank", "rebank"} /\ pc[a].acc = "w" /\ pc[a].reg = "CTRL10"
    BY <1>7 DEF Write
  <2>2. \A q \in Registers : reg'[q] = IF q # "CTRL10" THEN reg[q]
                                       ELSE IF q = "CTRL4" THEN (out[a] \div 2) * 2 ELSE out[a]
    BY <1>w, <2>1
  <2>. HIDE DEF l
  <2>. QED BY <2>1, <2>2 DEF l, Registers
<1>8. CASE pc[a] \in {Write(m, "CTRL3") : m \in {"enw", "disw"}}
  <2>1. l \in {"enw", "disw"} /\ pc[a].acc = "w" /\ pc[a].reg = "CTRL3"
    BY <1>8 DEF Write
  <2>2. \A q \in Registers : reg'[q] = IF q # "CTRL3" THEN reg[q]
                                       ELSE IF q = "CTRL4" THEN (out[a] \div 2) * 2 ELSE out[a]
    BY <1>w, <2>1
  <2>. HIDE DEF l
  <2>. QED BY <2>1, <2>2 DEF l, Registers
<1>9. CASE pc[a] \in {Write("amp", "PROT")}
  <2>1. l \in {"amp"} /\ pc[a].acc = "w" /\ pc[a].reg = "PROT"
    BY <1>9 DEF Write
  <2>2. \A q \in Registers : reg'[q] = IF q # "PROT" THEN reg[q]
                                       ELSE IF q = "CTRL4" THEN (out[a] \div 2) * 2 ELSE out[a]
    BY <1>w, <2>1
  <2>. HIDE DEF l
  <2>. QED BY <2>1, <2>2 DEF l, Registers
<1>10. pc[a] # Local("done") BY <1>1 DEF Local
<1>. QED BY <1>1, <1>2, <1>3, <1>4, <1>5, <1>6, <1>7, <1>8, <1>9,
            <1>10 DEF AmpSites

\* What the calibration leaves alone.
LEMMA AmpSame ==
  ASSUME SiteInv, NEW a \in Threads, creq[a].op = "amp", Access(a, TRUE)
  PROVE  /\ UNCHANGED <<creq, current_mode, okAt, hp_cbank, hp_amp, wantCdac, wantAmp>>
         /\ pc[a].at # "bank" => keep' = keep
         /\ pc[a].at = "bank" => keep'[a] = Got(a, TRUE)
         /\ pc[a] \in AmpSites /\ pc'[a] \in AmpSites /\ pc[a].acc # "-"
         /\ pc'[a] = After(a, Got(a, TRUE)).pc /\ out'[a] = After(a, Got(a, TRUE)).out
<1>0. a \in Actors /\ a # dcxsrv BY ActorAssumption DEF Actors
<1>1. /\ pc[a] \in AmpSites /\ pc[a].acc # "-"
      /\ pc'[a] = After(a, Got(a, TRUE)).pc /\ out'[a] = After(a, Got(a, TRUE)).out
  BY <1>0, Accesses DEF SiteInv, SiteOK
<1>2. pc'[a] \in AmpSites BY <1>0, <1>1, AmpPlaces
<1>3. /\ UNCHANGED <<creq, current_mode, okAt, wantAmp>>
      /\ hp_cbank' = IF pc[a].at = "lo10" THEN Got(a, TRUE) ELSE hp_cbank
      /\ hp_amp' = IF pc[a].at = "lo5" THEN Got(a, TRUE) ELSE hp_amp
      /\ pc[a].at # "bank" => keep' = keep
      /\ pc[a].at = "bank" => keep'[a] = Got(a, TRUE)
      /\ wantCdac' = IF pc[a].reg = "CTRL10" /\ pc[a].at = "done" THEN creq[a].x ELSE wantCdac
  BY <1>0, SavesIs
<1>4. pc[a].at # "lo10" /\ pc[a].at # "lo5" /\ pc[a].at # "done"
  BY <1>1 DEF AmpSites, Read, Write, Local
<1>. QED BY <1>1, <1>2, <1>3, <1>4

\* What is known at each place of the calibration, whatever the threshold is.
LEMMA AmpFrameKept ==
  ASSUME SiteInv, RegInv, okAt \in Int, NEW a \in Threads, creq[a].op = "amp", AmpFrame(a),
         latch = pc[a].reg, Access(a, TRUE)
  PROVE  /\ AmpFrame(a)' /\ keep'[a] = 0
         /\ reg'["CTRL4"] \in Nat /\ reg'["CTRL4"] % 2 = 0 /\ reg'["CTRL5"] \in Nat
<1>. DEFINE v == Got(a, TRUE)  l == pc[a].at  m == pc'[a].at  w == out'[a]
<1>0. a # dcxsrv /\ a \in Actors BY ActorAssumption DEF Actors
<1>1. /\ UNCHANGED <<creq, current_mode, okAt, hp_cbank, hp_amp, wantCdac, wantAmp>>
      /\ l # "bank" => keep' = keep
      /\ l = "bank" => keep'[a] = v
      /\ pc[a] \in AmpSites /\ pc'[a] \in AmpSites /\ pc[a].acc # "-"
      /\ pc'[a] = After(a, v).pc /\ w = After(a, v).out
  BY AmpSame
<1>. DEFINE c5 == reg["CTRL5"]  c5n == reg'["CTRL5"]
<1>2. /\ l \in {"fine", "all", "down", "back", "zero", "fine2", "step", "end"} => v = c5
      /\ l \in {"loop", "none", "search"} => (Flag(v) <=> c5 <= okAt)
      /\ l = "aml" => v = reg["CTRL4"] + OkFlag
      /\ l = "bank" => v = reg["CTRL10"]
      /\ c5n = IF l \in {"finew", "allw", "downw", "backw", "zerow", "fine2w", "stepw"}
               THEN out[a] ELSE c5
      /\ reg'["CTRL4"] = IF l \in {"amlw", "aml2w"} THEN (out[a] \div 2) * 2
                                                   ELSE reg["CTRL4"]
      /\ reg'["CTRL10"] = IF l \in {"nobank", "rebank"} THEN out[a] ELSE reg["CTRL10"]
      /\ reg'["CTRL3"] = IF l \in {"enw", "disw"} THEN out[a] ELSE reg["CTRL3"]
      /\ reg'["CTRL14"] = reg["CTRL14"]
  BY AmpRegs
<1>3. AmpComes(a, l, v, m, w) BY <1>0, <1>1, AmpFrom
<1>4. c5 \in Nat /\ reg["CTRL4"] \in Nat /\ reg["CTRL4"] % 2 = 0 /\ keep[a] = 0
  BY <1>0 DEF RegInv
<1>. HIDE DEF v
\* The frame, flattened.
<1>5. /\ reg["CTRL14"] = 1 - current_mode
      /\ Hp(a) => reg["CTRL10"] = wantCdac
      /\ ~Hp(a) => reg["CTRL10"] = 0 /\ hp_cbank = wantCdac /\ hp_amp = wantAmp
      /\ l \in {"bank", "nobank", "rebank"} => ~Hp(a)
      /\ l \in {"nobank", "rebank", "disw"} => out[a] = 0
      /\ l \in {"amp", "bank", "nobank", "en", "rebank", "end", "done"} => reg["CTRL3"] = 0
      /\ pc[a].acc = "w" /\ pc[a].reg \in {"CTRL4", "CTRL5"} => out[a] \in Nat
      /\ l \in {"dis", "disw", "rebank", "end", "done"} => c5 <= okAt
      /\ l = "done" => out[a] = c5
  BY DEF AmpFrame
<1>6. /\ l \in {"finew", "allw", "downw", "backw", "zerow", "fine2w", "stepw", "amlw", "aml2w"}
         => pc[a].acc = "w" /\ pc[a].reg \in {"CTRL4", "CTRL5"}
  BY <1>1 DEF AmpSites, Read, Write, Local
<1>7. pc'[a].acc = "w" /\ pc'[a].reg \in {"CTRL4", "CTRL5"} =>
        m \in {"finew", "allw", "downw", "backw", "zerow", "fine2w", "stepw", "amlw", "aml2w"}
  BY <1>1 DEF AmpSites, Read, Write, Local
<1>. HIDE DEF l, m, w, c5, c5n
<1>8. c5n \in Nat BY <1>2, <1>4, <1>5, <1>6
<1>9. reg'["CTRL4"] \in Nat /\ reg'["CTRL4"] % 2 = 0
  <2>1. CASE l \in {"amlw", "aml2w"}
    <3>1. out[a] \in Nat BY <1>5, <1>6, <2>1
    <3>. QED BY <1>2, <2>1, <3>1
  <2>. QED BY <1>2, <1>4, <2>1
<1>10. keep'[a] = 0
  BY <1>1, <1>2, <1>4, <1>5
<1>11. m \in {"finew", "allw", "downw", "backw", "zerow", "fine2w", "stepw", "amlw", "aml2w"}
       => w \in Nat
  <2>1. FineMax \in 0 .. FineMax /\ CoarseMax \in Nat /\ Steps \in Nat /\ 1 \in Nat
    BY CodeConstants
  <2>2. CASE l \in {"fine", "all", "down", "back", "zero", "fine2", "step"}
    <3>1. v \in Nat BY <1>2, <1>4, <2>2
    <3>2. Coarse(v) \in Nat /\ Fine(v) \in 0 .. FineMax /\ v = Coarse(v) * Steps + Fine(v)
      <4>1. /\ Coarse(v) \in Nat /\ Fine(v) \in Nat /\ Fine(v) <= FineMax
            /\ v = Coarse(v) * Steps + Fine(v)
        BY <3>1, Parts
      <4>. QED BY <2>1, <4>1
    <3>3. Code(Coarse(v), FineMax) \in Nat /\ Code(CoarseMax, Fine(v)) \in Nat
      BY <2>1, <3>2, CodeIs
    <3>4. Coarse(v) # 0 => v - Steps \in Nat
      <4>1. Coarse(v) # 0 => Coarse(v) >= 0 + 1 BY <3>2
      <4>2. Coarse(v) # 0 => Coarse(v) * Steps >= 0 * Steps + Steps /\ Coarse(v) * Steps \in Nat
        BY <2>1, <3>2, <4>1, Grows
      <4>. QED BY <2>1, <3>1, <3>2, <4>2
    <3>5. CoarseBack(Hp(a), v) \in Nat
      <4>1. Code(Coarse(v) + 1, Fine(v)) \in Nat /\ Code(1, Fine(v)) \in Nat
        BY <2>1, <3>2, CodeIs
      <4>. QED BY <4>1 DEF CoarseBack
    <3>6. FineDown(v) \in Nat BY <3>1, DownIs
    <3>. QED BY <1>3, <2>2, <3>3, <3>4, <3>5, <3>6 DEF AmpComes
  <2>3. CASE l = "aml"
    <3>1. v \in Nat BY <1>2, <1>4, <2>3 DEF OkFlag
    <3>2. v \div 2 \in Nat BY <3>1
    <3>3. Or2(v \div 2) \in Nat BY <3>2 DEF Or2
    <3>. QED BY <1>3, <2>3, <3>3 DEF AmpComes
  <2>. QED BY <1>3, <2>2, <2>3 DEF AmpComes
<1>12. Hp(a)' <=> Hp(a) BY <1>1 DEF Hp
<1>13. /\ reg'["CTRL14"] = 1 - current_mode'
       /\ Hp(a) => reg'["CTRL10"] = wantCdac'
       /\ ~Hp(a) => reg'["CTRL10"] = 0 /\ hp_cbank' = wantCdac' /\ hp_amp' = wantAmp'
  BY <1>1, <1>2, <1>5
<1>14. m \in {"bank", "nobank", "rebank"} => ~Hp(a) BY <1>3, <1>5 DEF AmpComes
<1>15. m \in {"nobank", "rebank", "disw"} => w = 0 BY <1>3, <1>4 DEF AmpComes
<1>16. m \in {"amp", "bank", "nobank", "en", "rebank", "end", "done"} => reg'["CTRL3"] = 0
  BY <1>2, <1>3, <1>5 DEF AmpComes
<1>17. m \in {"dis", "disw", "rebank", "end", "done"} => c5n <= okAt'
  BY <1>1, <1>2, <1>3, <1>5 DEF AmpComes
<1>18. m = "done" => w = c5n BY <1>2, <1>3 DEF AmpComes
<1>. QED BY <1>7, <1>8, <1>9, <1>10, <1>11, <1>12, <1>13, <1>14, <1>15, <1>16, <1>17, <1>18
         DEF AmpFrame, m, w, c5n

\* The search goes on towards the last code that has the flag.
LEMMA AmpSearchKept ==
  ASSUME SiteInv, RegInv, okAt \in Int, NEW a \in Threads, creq[a].op = "amp", AmpFrame(a),
         AmpSearch(a), Hp(a), Findable, latch = pc[a].reg, Access(a, TRUE)
  PROVE  AmpSearch(a)'
<1>. DEFINE v == Got(a, TRUE)  l == pc[a].at  m == pc'[a].at  w == out'[a]  x == out[a]
            c == reg["CTRL5"]  n == reg'["CTRL5"]
            end(y) == Coarse(y) * Steps + FineMax
<1>0. a # dcxsrv /\ a \in Actors BY ActorAssumption DEF Actors
<1>1. /\ UNCHANGED <<creq, okAt>>
      /\ pc[a] \in AmpSites /\ pc'[a] \in AmpSites /\ pc[a].acc # "-"
      /\ pc'[a] = After(a, v).pc /\ w = After(a, v).out
  BY AmpSame
<1>2. /\ l \in {"fine", "all", "down", "back", "zero", "fine2", "step", "end"} => v = c
      /\ l \in {"loop", "none", "search"} => (Flag(v) <=> c <= okAt)
      /\ n = IF l \in {"finew", "allw", "downw", "backw", "zerow", "fine2w", "stepw"}
             THEN x ELSE c
  BY AmpRegs
<1>3. AmpComes(a, l, v, m, w) BY <1>0, <1>1, AmpFrom
<1>4. c \in Nat BY DEF RegInv
<1>5. /\ l = "finew" => Fine(x) = FineMax
      /\ l = "all"   => Fine(c) = FineMax
      /\ l = "allw"  => x = MaxCode
      /\ l \in {"aml", "amlw"} => c = MaxCode
      /\ l \in {"loop", "down", "back"} => Top(c) /\ okAt < c + Steps
      /\ l = "down"  => okAt < c
      /\ l = "back"  => c <= okAt
      /\ l = "downw" => Top(x) /\ okAt < x + Steps
      /\ l = "backw" => Top(x) /\ okAt <= x
      /\ l = "none"  => Top(c) /\ okAt <= c
      /\ l = "zero"  => c <= MaxCode /\ okAt <= end(c)
      /\ l = "zerow" => x \in {0, 1} /\ okAt <= FineMax
      /\ l \in {"aml2", "aml2w", "fine2"} => c <= MaxCode /\ okAt <= end(c)
      /\ l \in {"fine2w", "stepw"} => okAt <= x
      /\ l \in {"search", "dis", "disw", "end", "done"} => okAt <= c
      /\ l = "step" => okAt < c
  BY DEF AmpSearch
<1>6. l # "rebank" BY DEF AmpFrame
<1>7. /\ okAt < Steps \/ okAt >= 2 * Steps - 1
      /\ okAt < MaxCode /\ Hp(a)
  BY DEF Findable
<1>8. /\ Steps \in Nat /\ Steps >= 2 /\ FineMax = Steps - 1 /\ FineMax \in 0 .. FineMax
      /\ CoarseMax \in Nat /\ CoarseMax >= 1
      /\ MaxCode \in Nat /\ MaxCode = CoarseMax * Steps + FineMax /\ MaxCode >= FineMax + Steps
  BY CodeConstants
<1>. HIDE DEF v, l, m, w, x, c, n
\* The first codes.
<1>9. m = "finew" => Fine(w) = FineMax
  <2>. SUFFICES ASSUME m = "finew" PROVE Fine(w) = FineMax OBVIOUS
  <2>1. v = c /\ w = Code(Coarse(c), FineMax) BY <1>2, <1>3 DEF AmpComes
  <2>2. Coarse(c) \in Nat BY <1>4, Parts
  <2>. QED BY <1>8, <2>1, <2>2, CodeIs
<1>10. m = "all" => Fine(n) = FineMax BY <1>2, <1>3, <1>5 DEF AmpComes
<1>11. m = "allw" => w = MaxCode BY <1>2, <1>3, <1>5, <1>8, CodeIs DEF AmpComes
<1>12. m \in {"aml", "amlw"} => n = MaxCode BY <1>2, <1>3, <1>5 DEF AmpComes
\* The coarse field.
<1>13. Top(MaxCode)
  <2>1. Fine(MaxCode) = FineMax BY <1>8, OneWay
  <2>. QED BY <1>8, <2>1 DEF Top
<1>14. m = "loop" => Top(n) /\ okAt < n + Steps
  <2>1. l = "amlw" => n = MaxCode BY <1>2, <1>5
  <2>2. l = "downw" => n = x BY <1>2
  <2>. QED BY <1>3, <1>5, <1>7, <1>8, <1>13, <2>1, <2>2 DEF AmpComes
<1>15. m \in {"down", "back"} => Top(n) /\ okAt < n + Steps BY <1>2, <1>3, <1>5 DEF AmpComes
<1>16. (m = "down" => okAt < n) /\ (m = "back" => n <= okAt) BY <1>2, <1>3, <1>4 DEF AmpComes
<1>17. m = "downw" => Top(w) /\ okAt < w + Steps
  <2>. SUFFICES ASSUME m = "downw" PROVE Top(w) /\ okAt < w + Steps OBVIOUS
  <2>1. v = c /\ Coarse(c) # 0 /\ w = c - Steps /\ Top(c) /\ okAt < c
    BY <1>2, <1>3, <1>5 DEF AmpComes
  <2>2. c - Steps \in Nat /\ Top(c - Steps) BY <1>4, <2>1, TopIs
  <2>. QED BY <1>4, <1>8, <2>1, <2>2
<1>18. m = "backw" => Top(w) /\ okAt <= w
  <2>. SUFFICES ASSUME m = "backw" PROVE Top(w) /\ okAt <= w OBVIOUS
  <2>1. v = c /\ w = CoarseBack(Hp(a), c) /\ Top(c) /\ okAt < c + Steps /\ c <= okAt
    BY <1>2, <1>3, <1>5 DEF AmpComes
  <2>2. CoarseBack(Hp(a), c) = CoarseBack(TRUE, c) BY <1>7 DEF CoarseBack
  <2>3. c < MaxCode BY <1>4, <1>7, <1>8, <2>1
  <2>4. CoarseBack(TRUE, c) = c + Steps /\ Top(c + Steps) BY <1>4, <2>1, <2>3, TopIs
  <2>5. w = c + Steps BY <2>1, <2>2, <2>4
  <2>6. Steps \in Nat BY <1>8
  <2>7. Top(w) BY <2>4, <2>5
  <2>8. okAt < c + Steps BY <2>1
  <2>9. okAt <= w BY <1>4, <2>5, <2>6, <2>8
  <2>. QED BY <2>7, <2>9
<1>19. m = "none" => Top(n) /\ okAt <= n
  <2>1. CASE l = "backw" BY <1>2, <1>5, <2>1
  <2>2. CASE l = "down" BY <1>2, <1>4, <1>5, <2>2
  <2>3. CASE l = "back" /\ Coarse(v) = 0
    <3>1. n = c /\ v = c /\ Top(c) /\ okAt < c + Steps BY <1>2, <1>5, <2>3
    <3>2. c = FineMax BY <1>4, <2>3, <3>1, TopIs
    <3>. QED BY <1>7, <1>8, <3>1, <3>2
  <2>. QED BY <1>3, <2>1, <2>2, <2>3 DEF AmpComes
\* The fine field.
<1>20. ASSUME Top(c), okAt <= c PROVE c <= MaxCode /\ okAt <= end(c)
  BY <1>4, <1>20, TopIs DEF Top
<1>21. m = "zero" => n <= MaxCode /\ okAt <= end(n) BY <1>2, <1>3, <1>5, <1>20 DEF AmpComes
<1>22. m = "zerow" => w \in {0, 1} /\ okAt <= FineMax
  <2>. SUFFICES ASSUME m = "zerow" PROVE w \in {0, 1} /\ okAt <= FineMax OBVIOUS
  <2>1. v = c /\ Coarse(c) = 0 /\ w \in {0, 1} /\ okAt <= end(c) BY <1>2, <1>3, <1>5 DEF AmpComes
  <2>. QED BY <1>8, <2>1
<1>23. m = "aml2" => n <= MaxCode /\ okAt <= end(n)
  <2>1. CASE l = "zerow"
    <3>1. n \in {0, 1} /\ okAt <= FineMax BY <1>2, <1>5, <2>1
    <3>2. Coarse(n) = 0 BY <3>1, FirstCodes
    <3>. QED BY <1>8, <3>1, <3>2
  <2>2. CASE l = "none" BY <1>2, <1>5, <1>20, <2>2
  <2>3. CASE l = "zero" BY <1>2, <1>5, <2>3
  <2>. QED BY <1>3, <2>1, <2>2, <2>3 DEF AmpComes
<1>24. m \in {"aml2w", "fine2"} => n <= MaxCode /\ okAt <= end(n) BY <1>2, <1>3, <1>5 DEF AmpComes
<1>25. m = "fine2w" => okAt <= w
  <2>. SUFFICES ASSUME m = "fine2w" PROVE okAt <= w OBVIOUS
  <2>1. v = c /\ w = Code(Coarse(c), FineMax) /\ c <= MaxCode /\ okAt <= end(c)
    BY <1>2, <1>3, <1>5 DEF AmpComes
  <2>2. Code(Coarse(c), FineMax) = end(c) BY <1>4, <2>1, StepEnd
  <2>. QED BY <2>1, <2>2
<1>26. m = "stepw" => okAt <= w
  <2>1. okAt < c /\ okAt < MaxCode => okAt <= FineDown(c) BY <1>4, DownIs
  <2>. QED BY <1>2, <1>3, <1>5, <1>7, <2>1 DEF AmpComes
<1>27. m \in {"search", "dis", "disw", "end", "done"} => okAt <= n
  BY <1>2, <1>3, <1>5, <1>6 DEF AmpComes
<1>28. m = "step" => okAt < n BY <1>2, <1>3, <1>4 DEF AmpComes
<1>. QED BY <1>1, <1>9, <1>10, <1>11, <1>12, <1>14, <1>15, <1>16, <1>17, <1>18, <1>19, <1>21,
            <1>22, <1>23, <1>24, <1>25, <1>26, <1>27, <1>28
         DEF AmpSearch, m, w, n, Top, MaxCode, Steps

-----------------------------------------------------------------------------
(* The registers after each step *)

\* A register is accessed.
LEMMA AccessReg ==
  ASSUME PlaceInv, okAt \in Int, ~mixed => RegInv, NEW a \in Actors, Access(a, TRUE), ~mixed'
  PROVE  RegInv'
<1>1. /\ named[a] /\ Moves(a) /\ ~named'[a] /\ creq' = creq /\ pc[a].acc # "-"
  BY Accesses DEF PlaceInv, SiteInv
<1>2. ~mixed /\ RegInv BY DEF Access
<1>3. /\ Active(a) /\ latch = pc[a].reg /\ ActiveAt(a)
      /\ \A b \in Actors \ {a} : ~Active(b) /\ ~Active(b)'
  <2>1. Active(a) BY <1>1 DEF Active, AtWork, Fresh
  <2>. QED BY <1>1, <1>2, <2>1, OthersActive DEF RegInv
<1>4. wantAmp' = wantAmp /\ current_mode' = current_mode /\ okAt' = okAt
  BY SavesIs DEF PlaceInv
<1>5. /\ Active(a)' => ActiveAt(a)'
      /\ ~Active(a)' => Settings(current_mode)'
      /\ reg'["CTRL4"] \in Nat /\ reg'["CTRL4"] % 2 = 0 /\ reg'["CTRL5"] \in Nat
      /\ keep'[a] = 0
  <2>0. /\ reg["CTRL4"] \in Nat /\ reg["CTRL4"] % 2 = 0 /\ reg["CTRL5"] \in Nat /\ keep[a] = 0
        /\ SiteInv
    BY <1>2 DEF RegInv, PlaceInv
  <2>1. CASE a = dcxsrv
    <3>1. BootAt BY <1>3, <2>1 DEF ActiveAt
    <3>2. /\ pc'[dcxsrv] # Idle => BootAt' /\ pc'[dcxsrv].acc # "-"
          /\ pc'[dcxsrv] = Idle => Settings(current_mode)'
          /\ reg'["CTRL4"] = reg["CTRL4"] /\ reg'["CTRL5"] \in Nat /\ keep' = keep
      BY <1>2, <1>3, <2>0, <2>1, <3>1, BootAccess
    <3>3. pc'[a] # Idle => Active(a)'
      BY <2>1, <3>2, ActorAssumption DEF Active, AtWork, Fresh
    <3>4. Active(a)' => pc'[a] # Idle
      BY <2>1, ActorAssumption DEF Active, AtWork, Idle, Local
    <3>. QED BY <2>0, <2>1, <3>2, <3>3, <3>4 DEF ActiveAt
  <2>2. CASE a # dcxsrv
    <3>0. a \in Threads /\ SiteOK(a) BY <2>0, <2>2 DEF Actors, SiteInv
    <3>1. creq[a].op \in {"mode", "cdac", "amp", "restore"}
      BY <1>1, <3>0 DEF SiteOK, Local, Idle
    <3>2. CASE creq[a].op = "mode"
      <4>1. ModeAt(a) BY <1>3, <2>2, <3>2 DEF ActiveAt
      <4>2. ModeAt(a)' /\ reg'["CTRL4"] = reg["CTRL4"] /\ reg'["CTRL5"] \in Nat /\ keep' = keep
        BY <1>2, <1>3, <2>0, <3>0, <3>2, <4>1, ModeAccess
      <4>3. pc'[a].at = "mode" => Settings(current_mode)' BY <4>2 DEF ModeAt
      <4>4. ~Active(a)' => pc'[a].at = "mode"
        <5>1. pc'[a] \in ModeSites
          BY <1>1, <2>2, <3>0, <3>2, ModePlaces, Accesses, <2>0 DEF SiteOK
        <5>2. ~Active(a)' => pc'[a].at \in {"mode", "cdac", "amp", "clk"}
          BY <1>1, <3>0, <3>2 DEF Active, AtWork, Fresh
        <5>. QED BY <5>1, <5>2 DEF ModeSites, Read, Write, Local
      <4>. QED BY <1>1, <2>0, <2>2, <3>2, <4>2, <4>3, <4>4 DEF ActiveAt
    <3>3. CASE creq[a].op = "cdac"
      <4>1. CdacAt(a) BY <1>3, <2>2, <3>3 DEF ActiveAt
      <4>2. CdacAt(a)' /\ reg'["CTRL4"] = reg["CTRL4"] /\ reg'["CTRL5"] = reg["CTRL5"]
            /\ keep' = keep
        BY <1>2, <1>3, <2>0, <3>0, <3>3, <4>1, CdacAccess
      <4>3. Settings(current_mode)' BY <4>2 DEF CdacAt
      <4>. QED BY <1>1, <2>0, <2>2, <3>3, <4>2, <4>3 DEF ActiveAt
    <3>4. CASE creq[a].op = "restore"
      <4>1. Settings(current_mode) BY <1>3, <2>2, <3>4 DEF ActiveAt
      <4>2. Calm /\ keep' = keep BY <1>2, <1>3, <2>0, <3>0, <3>4, RestoreAccess
      <4>3. Settings(current_mode)' BY <4>1, <4>2 DEF Settings, Calm, Known
      <4>4. reg'["CTRL4"] = reg["CTRL4"] /\ reg'["CTRL5"] = reg["CTRL5"] BY <4>2 DEF Calm, Known
      <4>. QED BY <1>1, <2>0, <2>2, <3>4, <4>2, <4>3, <4>4 DEF ActiveAt
    <3>5. CASE creq[a].op = "amp"
      <4>1. AmpFrame(a) /\ (Hp(a) /\ Findable => AmpSearch(a)) BY <1>3, <2>2, <3>5 DEF ActiveAt
      <4>2. /\ AmpFrame(a)' /\ keep'[a] = 0
            /\ reg'["CTRL4"] \in Nat /\ reg'["CTRL4"] % 2 = 0 /\ reg'["CTRL5"] \in Nat
        BY <1>2, <1>3, <2>0, <3>0, <3>5, <4>1, AmpFrameKept
      <4>3. Hp(a) /\ Findable => AmpSearch(a)'
        BY <1>2, <1>3, <2>0, <3>0, <3>5, <4>1, AmpSearchKept
      <4>4. (Hp(a)' <=> Hp(a)) /\ (Findable' <=> Findable)
        BY <1>1, <1>4 DEF Hp, Findable, MaxCode, Steps
      <4>5. Active(a)'
        <5>1. AmpComes(a, pc[a].at, Got(a, TRUE), pc'[a].at, out'[a])
          BY <2>0, <2>2, <3>0, <3>5, AmpSame, AmpFrom
        <5>2. pc'[a].at # "amp" BY <5>1 DEF AmpComes
        <5>3. pc'[a] \in AmpSites BY <2>0, <3>0, <3>5, AmpSame
        <5>4. pc'[a].at \notin {"mode", "cdac", "clk"} BY <5>3 DEF AmpSites, Read, Write, Local
        <5>. QED BY <1>1, <3>0, <3>5, <5>2, <5>4 DEF Active, AtWork, Fresh
      <4>. QED BY <1>1, <2>2, <3>5, <4>2, <4>3, <4>4, <4>5 DEF ActiveAt
    <3>. QED BY <3>1, <3>2, <3>3, <3>4, <3>5
  <2>. QED BY <2>1, <2>2
<1>6. \A b \in Actors : keep'[b] = 0 /\ (named'[b] => latch' = pc'[b].reg)
  <2>1. \A b \in Actors \ {a} : ~named[b]
    BY <1>3 DEF PlaceInv, SiteInv, Active, AtWork, Fresh
  <2>. QED BY <1>1, <1>2, <1>5, <2>1 DEF Moves, RegInv
<1>. QED BY <1>2, <1>3, <1>4, <1>5, <1>6 DEF RegInv

\* Nobody is at the registers any more.
LEMMA RestReg ==
  ASSUME SiteInv', \A b \in Actors : ~Active(b)' /\ keep'[b] = 0, Settings(current_mode)',
         reg'["CTRL4"] \in Nat, reg'["CTRL4"] % 2 = 0, reg'["CTRL5"] \in Nat, wantAmp' \in Nat
  PROVE  RegInv'
<1>1. \A b \in Actors : ~named'[b] BY DEF SiteInv, Active, AtWork, Fresh
<1>. QED BY <1>1 DEF RegInv

\* A request ends, or a step that is not at the oscillator's registers is taken.
LEMMA LocalReg ==
  ASSUME PlaceInv, ~mixed => RegInv, NEW a \in Threads, NEW ok \in BOOLEAN, LocalStep(a, ok),
         ~mixed'
  PROVE  RegInv'
<1>0. a \in Actors /\ a # dcxsrv /\ SiteOK(a)
  BY ActorAssumption DEF Actors, PlaceInv, SiteInv
<1>1. ~mixed /\ RegInv
  <2>1. mixed' = mixed
    BY DEF LocalStep, Done, WarmUp, Temperature, SaveOpen, SaveWrite, Load, wanted
  <2>2. ~mixed BY <2>1, Zenon
  <2>. QED BY <2>2
<1>2. /\ Moves(a) /\ pc[a] # Idle /\ pc[a].acc = "-" /\ ~named'[a]
      /\ \/ creq' = creq /\ current_mode' = current_mode
            /\ \/ pc[a] = Local("temp") /\ pc'[a] = Local("warm")
               \/ pc[a] = Local("save") /\ pc'[a] = Local("fwrite")
         \/ creq'[a] = NoCali /\ pc'[a] = Idle
  BY LocalMoves DEF PlaceInv
<1>3. keep'[a] = 0
  <2>1. keep[a] = 0 BY <1>0, <1>1 DEF RegInv
  <2>. QED BY <1>0, <2>1 DEF LocalStep, Done, WarmUp, Temperature, SaveOpen, SaveWrite, Load,
              Answer, PlaceInv, SiteInv
<1>4. latch' = latch /\ okAt' = okAt
  BY DEF LocalStep, Done, WarmUp, Temperature, SaveOpen, SaveWrite, Load
<1>5. (creq'[a] = NoCali /\ pc'[a] = Idle) => ~Active(a)'
  BY DEF Active, AtWork, NoCali, Idle, Local
<1>6. CASE Done(a)
  <2>1. /\ pc[a] = Local("done") /\ reg' = reg /\ UNCHANGED <<hp_cbank, hp_amp, wantCdac>>
        /\ current_mode' = IF creq[a].op # "mode" THEN current_mode
                           ELSE IF creq[a].x = 0 THEN 0 ELSE 1
        /\ wantAmp' = IF creq[a].op = "amp" /\ Hp(a) THEN out[a] ELSE wantAmp
        /\ ~Active(a)'
    BY <1>5, <1>6, Answers DEF Done, PlaceInv
  <2>2. creq[a].op \in {"mode", "cdac", "amp", "restore"}
    BY <1>0, <2>1 DEF SiteOK, Local, Idle
  <2>3. CASE creq[a].op = "restore"
    <3>1. Calm BY <2>1, <2>3 DEF Calm
    <3>2. ~Active(a) BY <2>1, <2>3 DEF Active, AtWork, Local
    <3>. QED BY <1>0, <1>1, <1>2, <1>3, <1>4, <2>1, <3>1, <3>2, CalmReg
  <2>4. CASE creq[a].op # "restore"
    <3>1. Active(a)
      <4>1. ~Fresh(a) BY <2>1 DEF Fresh, Local
      <4>. QED BY <1>0, <2>2, <2>4, <4>1 DEF Active, AtWork
    <3>2. ActiveAt(a) /\ \A b \in Actors \ {a} : ~Active(b) BY <1>0, <1>1, <3>1 DEF RegInv
    <3>3. \A b \in Actors : ~Active(b)' BY <1>0, <1>2, <2>1, <3>2, OthersActive
    <3>4. \A b \in Actors : keep'[b] = 0 BY <1>1, <1>2, <1>3 DEF RegInv, Moves
    <3>5. /\ reg["CTRL4"] \in Nat /\ reg["CTRL4"] % 2 = 0 /\ reg["CTRL5"] \in Nat
          /\ wantAmp \in Nat
      BY <1>1 DEF RegInv
    <3>6. Settings(current_mode)' /\ wantAmp' \in Nat
      <4>1. CASE creq[a].op = "mode"
        <5>1. ModeAt(a) BY <1>0, <3>2, <4>1 DEF ActiveAt
        <5>2. Settings(IF creq[a].x = 0 THEN 0 ELSE 1) BY <2>1, <5>1 DEF ModeAt, Local
        <5>3. Settings(current_mode') BY <2>1, <4>1, <5>2
        <5>. QED BY <2>1, <3>5, <4>1, <5>3 DEF Settings
      <4>2. CASE creq[a].op = "cdac"
        <5>1. Settings(current_mode) BY <1>0, <3>2, <4>2 DEF ActiveAt, CdacAt
        <5>. QED BY <2>1, <3>5, <4>2, <5>1 DEF Settings
      <4>3. CASE creq[a].op = "amp"
        <5>1. AmpFrame(a) BY <1>0, <3>2, <4>3 DEF ActiveAt
        <5>2. /\ reg["CTRL3"] = 0 /\ reg["CTRL14"] = 1 - current_mode
              /\ Hp(a) => reg["CTRL10"] = wantCdac
              /\ ~Hp(a) => reg["CTRL10"] = 0 /\ hp_cbank = wantCdac /\ hp_amp = wantAmp
              /\ out[a] = reg["CTRL5"]
          BY <2>1, <5>1 DEF AmpFrame, Local
        <5>3. Hp(a) = (current_mode = 1) BY <1>1, <4>3 DEF PlaceInv, AloneInv
        <5>4. CASE current_mode = 1
          <6>1. Hp(a) BY <5>3, <5>4, Zenon
          <6>. QED BY <2>1, <3>5, <4>3, <5>2, <5>4, <6>1 DEF Settings
        <5>5. CASE current_mode # 1
          <6>1. ~Hp(a) BY <5>3, <5>5, Zenon
          <6>. QED BY <2>1, <3>5, <4>3, <5>2, <5>5, <6>1 DEF Settings
        <5>. QED BY <5>4, <5>5
      <4>. QED BY <2>2, <2>4, <4>1, <4>2, <4>3
    <3>. QED BY <2>1, <3>3, <3>4, <3>5, <3>6, RestReg, LocalPlace DEF PlaceInv
  <2>. QED BY <2>3, <2>4
<1>7. CASE WarmUp(a) \/ Temperature(a, ok) \/ SaveOpen(a, ok) \/ SaveWrite(a, ok) \/ Load(a, ok)
  <2>1. pc[a] \in {Local("temp"), Local("warm"), Local("save"), Local("fwrite"), Local("load")}
    BY <1>7 DEF WarmUp, Temperature, SaveOpen, SaveWrite, Load
  <2>2. creq[a].op \notin {"mode", "cdac", "amp"}
    BY <1>0, <2>1 DEF SiteOK, Local, Read, Write, ModeSites, CdacSites, AmpSites
  <2>3. ~Active(a) BY <2>1, <2>2 DEF Active, AtWork, Local
  <2>4. ~Active(a)'
    <3>1. CASE creq' = creq /\ pc'[a] \in {Local("warm"), Local("fwrite")}
      BY <2>2, <3>1 DEF Active, AtWork, Local
    <3>. QED BY <1>2, <1>5, <3>1
  <2>5. Calm
    <3>1. \A r \in Known : reg'[r] = reg[r]
      <4>1. UNCHANGED reg \/ SensorOn
        BY <1>7 DEF WarmUp, Temperature, SaveOpen, SaveWrite, Load
      <4>. QED BY <4>1 DEF SensorOn, Known, PlaceInv, SiteInv, Registers
    <3>2. UNCHANGED <<current_mode, hp_cbank, hp_amp, wantCdac, wantAmp>>
      BY <1>7 DEF WarmUp, Temperature, SaveOpen, SaveWrite, Load, static, wanted
    <3>. QED BY <3>1, <3>2 DEF Calm
  <2>. QED BY <1>0, <1>1, <1>2, <1>3, <1>4, <2>3, <2>4, <2>5, CalmReg
<1>. QED BY <1>6, <1>7 DEF LocalStep

\* dcxsrv has read the file.
LEMMA BootReadReg ==
  ASSUME PlaceInv, ~mixed => RegInv, BootRead, ~mixed'
  PROVE  RegInv'
<1>0. dcxsrv \in Actors /\ dcxsrv \notin Threads BY ActorAssumption DEF Actors
<1>1. ~mixed /\ RegInv BY DEF BootRead
<1>2. Moves(dcxsrv) /\ SiteInv' BY BootReadPlace DEF PlaceInv
<1>3. /\ pc[dcxsrv] = Local("start") /\ creq' = creq
      /\ UNCHANGED <<reg, latch, okAt, named, keep, current_mode, hp_cbank, hp_amp, wantDcx>>
  BY DEF BootRead, static
<1>4. Active(dcxsrv) BY <1>0, <1>3 DEF Active, AtWork, Fresh
<1>5. BootAt /\ \A b \in Actors \ {dcxsrv} : ~Active(b) BY <1>0, <1>1, <1>4 DEF RegInv, ActiveAt
<1>6. current_mode = 1 /\ Settings(1) BY <1>3, <1>5 DEF BootAt, Local
<1>7. \A b \in Actors \ {dcxsrv} : ~Active(b)' BY <1>0, <1>2, <1>5, OthersActive
<1>8. /\ \A b \in Actors : keep'[b] = 0
      /\ reg'["CTRL4"] \in Nat /\ reg'["CTRL4"] % 2 = 0 /\ reg'["CTRL5"] \in Nat
      /\ wantAmp \in Nat
  BY <1>1, <1>3 DEF RegInv
<1>9. CASE dcx = NoData
  <2>1. pc'[dcxsrv] = Idle /\ wantCdac' = wantCdac /\ wantAmp' = wantAmp
    BY <1>0, <1>9 DEF BootRead, PlaceInv, SiteInv
  <2>2. ~Active(dcxsrv)' BY <1>0, <2>1 DEF Active, AtWork, Idle, Local
  <2>3. Settings(current_mode)' BY <1>3, <1>6, <2>1 DEF Settings
  <2>. QED BY <1>2, <1>7, <1>8, <2>1, <2>2, <2>3, RestReg
<1>10. CASE dcx # NoData
  <2>1. PICK n \in IF dcx.kind = "empty" THEN {0, MaxCode} ELSE {dcx.n} :
          /\ pc' = [pc EXCEPT ![dcxsrv] = Write("cdac", "CTRL10")]
          /\ out' = [out EXCEPT ![dcxsrv] = n]
          /\ wantCdac' = wantDcx.n /\ wantAmp' = wantDcx.n
          /\ mixed' = (mixed \/ wantDcx.kind # "data"
                             \/ \E a \in Threads : creq[a].op \notin {"none", "load"})
    BY <1>10 DEF BootRead
  <2>2. wantDcx.kind = "data" /\ \A a \in Threads : creq[a].op \in {"none", "load"} BY <2>1
  <2>3. ~OpenFile
    <3>. SUFFICES ASSUME NEW a \in Threads, pc[a] = Local("fwrite") PROVE FALSE BY DEF OpenFile
    <3>1. SiteOK(a) BY DEF PlaceInv, SiteInv
    <3>. QED BY <2>2, <3>1 DEF SiteOK, Local, Idle
  <2>4. dcx = wantDcx /\ wantDcx.n \in Nat BY <2>2, <2>3 DEF PlaceInv, DcxInv
  <2>5. n = wantDcx.n BY <2>1, <2>2, <2>4
  <2>6. pc'[dcxsrv] = Write("cdac", "CTRL10") /\ out'[dcxsrv] = wantDcx.n
    BY <1>0, <2>1, <2>5 DEF PlaceInv, SiteInv
  <2>7. BootAt' BY <1>3, <1>6, <2>1, <2>6 DEF BootAt, Settings, Write
  <2>8. Active(dcxsrv)' BY <1>0, <2>6 DEF Active, AtWork, Fresh, Write
  <2>9. \A b \in Actors : ~named'[b]
    BY <1>3, <1>5 DEF PlaceInv, SiteInv, Active, AtWork, Fresh, Local
  <2>. QED BY <1>0, <1>7, <1>8, <2>1, <2>4, <2>7, <2>8, <2>9 DEF RegInv, ActiveAt
<1>. QED BY <1>9, <1>10

\* A thread that is idle is not at the registers.
LEMMA IdleRests ==
  ASSUME PlaceInv, NEW b \in Actors, pc[b] = Idle
  PROVE  ~Active(b)
<1>1. b \in Threads => SiteOK(b) BY DEF PlaceInv, SiteInv
<1>2. b \in Threads => creq[b].op \notin {"mode", "cdac", "amp"}
  BY <1>1 DEF SiteOK, Idle, ModeSites, CdacSites, AmpSites, Read, Write, Local
<1>. QED BY <1>2 DEF Active, AtWork, Idle, Local

\* A request that is given to a thread changes no register.
LEMMA RequestReg ==
  ASSUME PlaceInv, ~mixed => RegInv, NEW a \in Threads, NEW r \in CaliRequests,
         CaliRequest(a, r), ~mixed'
  PROVE  RegInv'
<1>0. a \in Actors BY DEF Actors
<1>1. ~mixed /\ RegInv /\ pc[a] = Idle /\ ~Disturbs(a, r) BY DEF CaliRequest
<1>2. /\ Moves(a) /\ ~named'[a] /\ creq'[a].op = r.op
      /\ \/ pc'[a].at \in {"mode", "cdac", "amp", "clk"}
         \/ /\ pc'[a].acc = "-" /\ pc'[a] # Local("start")
            /\ r.op \notin {"mode", "cdac", "amp"}
  BY RequestPlace
<1>3. ~Active(a) BY <1>0, <1>1, IdleRests
<1>4. ~Active(a)' BY <1>2 DEF Active, AtWork, Fresh
<1>5. /\ Calm /\ latch' = latch /\ keep' = keep
      /\ okAt' = okAt \/ r.op = "amp"
  BY DEF CaliRequest, Calm, static
<1>6. okAt' = okAt \/ \A b \in Actors : ~Active(b)
  <2>1. r.op = "amp" => \A b \in Actors \ {a} : ~AtWork(b) BY <1>1 DEF Disturbs
  <2>. QED BY <1>3, <1>5, <2>1 DEF Active
<1>7. keep'[a] = 0 BY <1>0, <1>1, <1>5 DEF RegInv
<1>. QED BY <1>0, <1>1, <1>2, <1>3, <1>4, <1>5, <1>6, <1>7, CalmReg

\* engpc dies in the high power mode, with no thread at the registers: dcxsrv
\* may still be.
LEMMA DiesReg ==
  ASSUME PlaceInv, ~mixed => RegInv, EngpcDies, ~mixed'
  PROVE  RegInv'
<1>0. dcxsrv \in Actors /\ dcxsrv \notin Threads BY ActorAssumption DEF Actors
<1>1. ~mixed /\ RegInv /\ current_mode # 0 /\ \A a \in Threads : ~AtWork(a) BY DEF EngpcDies
<1>2. /\ current_mode = 1 /\ current_mode' = 1
      /\ UNCHANGED <<reg, latch, okAt, wantCdac, wantAmp>>
  BY <1>1 DEF EngpcDies, PlaceInv, SiteInv
<1>3. /\ pc'[dcxsrv] = pc[dcxsrv] /\ named'[dcxsrv] = named[dcxsrv]
      /\ out'[dcxsrv] = out[dcxsrv] /\ keep'[dcxsrv] = keep[dcxsrv]
      /\ \A a \in Threads : /\ pc'[a] = Idle /\ ~named'[a] /\ creq'[a] = NoCali
                            /\ keep'[a] = 0
  BY DiesPlace
<1>4. \A a \in Threads : ~Active(a)' BY <1>3 DEF Active, AtWork, Idle, Local, NoCali
<1>5. Active(dcxsrv)' <=> Active(dcxsrv) BY <1>0, <1>3 DEF Active, AtWork, Fresh, Local
<1>6. Active(dcxsrv) => BootAt'
  <2>1. Active(dcxsrv) => BootAt BY <1>0, <1>1 DEF RegInv, ActiveAt
  <2>2. BootAt => BootAt' BY <1>2, <1>3 DEF BootAt, Settings
  <2>. QED BY <2>1, <2>2
<1>7. ~Active(dcxsrv) => Settings(current_mode)'
  <2>1. ~Active(dcxsrv) => Settings(1) BY <1>1, <1>2 DEF RegInv, Active, Actors
  <2>2. Settings(1) => Settings(current_mode)' BY <1>2 DEF Settings
  <2>. QED BY <2>1, <2>2
<1>8. \A b \in Actors : keep'[b] = 0 /\ (named'[b] => latch' = pc'[b].reg)
  BY <1>0, <1>1, <1>2, <1>3 DEF RegInv, Actors
<1>9. /\ reg'["CTRL4"] \in Nat /\ reg'["CTRL4"] % 2 = 0 /\ reg'["CTRL5"] \in Nat
      /\ wantAmp' \in Nat
  BY <1>1, <1>2 DEF RegInv
<1>. QED BY <1>0, <1>4, <1>5, <1>6, <1>7, <1>8, <1>9 DEF RegInv, ActiveAt, Actors

\* The chip starts with its own values, and nothing is wanted of it yet.
LEMMA RestartReg ==
  ASSUME PlaceInv, NEW factory \in BOOLEAN, PhoneRestarts(factory)
  PROVE  RegInv'
<1>0. dcxsrv \in Actors /\ dcxsrv \notin Threads BY ActorAssumption DEF Actors
<1>1. /\ pc'[dcxsrv] \in {Idle, Local("start")}
      /\ \A a \in Actors : ~named'[a] /\ keep'[a] = 0
      /\ \A a \in Threads : pc'[a] = Idle /\ creq'[a] = NoCali
  BY RestartPlace
<1>2. /\ current_mode' = 1 /\ wantCdac' = 0 /\ wantAmp' = 0
      /\ \A r \in {"CTRL3", "CTRL4", "CTRL5", "CTRL10", "CTRL14"} : reg'[r] = 0
  BY DEF PhoneRestarts, PowerOn, Registers
<1>3. Settings(current_mode)' /\ Settings(1)' BY <1>2 DEF Settings
<1>4. \A a \in Threads : ~Active(a)' BY <1>1 DEF Active, AtWork, Idle, Local, NoCali
<1>5. Active(dcxsrv)' => pc'[dcxsrv] = Local("start")
  BY <1>0, <1>1 DEF Active, AtWork, Idle, Local
<1>6. pc'[dcxsrv] = Local("start") => BootAt' BY <1>2, <1>3 DEF BootAt, Local
<1>. QED BY <1>0, <1>1, <1>2, <1>3, <1>4, <1>5, <1>6 DEF RegInv, ActiveAt, Actors

-----------------------------------------------------------------------------
(* The two invariants of the calibration *)

\* The places of the threads and the file, whatever overlaps; and the registers,
\* as long as nothing has.
PmicInv == PlaceInv /\ okAt \in Int /\ (~mixed => RegInv)

\* The phone starts with the values of the file, if there is one.
LEMMA PmicStart == PmicInit => PmicInv
<1>. SUFFICES ASSUME PmicInit PROVE PmicInv OBVIOUS
<1>0. dcxsrv \in Actors /\ dcxsrv \notin Threads BY ActorAssumption DEF Actors
<1>1. dcx = wantDcx /\ dcx.n \in Nat BY DEF PmicInit, NoData, Saved
<1>2. /\ \A a \in Actors : pc[a] = Idle /\ ~named[a] /\ keep[a] = 0
      /\ \A a \in Threads : creq[a] = NoCali
      /\ DOMAIN reg = Registers /\ DOMAIN creq = Threads /\ DOMAIN cans = Threads
      /\ DOMAIN pc = Actors /\ DOMAIN named = Actors /\ DOMAIN out = Actors
      /\ DOMAIN keep = Actors /\ current_mode = 1
  BY DEF PmicInit
<1>3. SiteInv
  <2>1. ASSUME NEW a \in Threads PROVE SiteOK(a)
    <3>1. creq[a].op = "none" /\ pc[a] = Idle BY <1>2 DEF NoCali, Actors
    <3>. QED BY <3>1 DEF SiteOK
  <2>. QED BY <1>0, <1>2, <2>1 DEF SiteInv, BootSites
<1>4. DcxInv BY <1>1 DEF DcxInv
<1>5. AloneInv BY <1>2 DEF AloneInv, NoCali
<1>6. /\ reg["CTRL3"] = 0 /\ reg["CTRL4"] = 0 /\ reg["CTRL14"] = 0
      /\ reg["CTRL5"] = dcx.n /\ reg["CTRL10"] = dcx.n
      /\ wantCdac = dcx.n /\ wantAmp = dcx.n /\ okAt = -1
  BY DEF PmicInit, PowerOn, Registers
<1>7. Settings(current_mode) BY <1>2, <1>6 DEF Settings
<1>8. PlaceInv BY <1>3, <1>4, <1>5 DEF PlaceInv
<1>9. \A a \in Actors : ~Active(a) BY <1>2, <1>8, IdleRests
<1>. QED BY <1>1, <1>2, <1>6, <1>7, <1>8, <1>9 DEF PmicInv, RegInv

\* A step of the threads or of a file.
LEMMA PmicMoves ==
  ASSUME PmicInv, NEW a \in Actors, PmicStep(a) \/ PmicFault(a)
  PROVE  PmicInv'
<1>. USE DEF PmicInv
<1>1. okAt' = okAt
  BY DEF PmicStep, PmicFault, Name, Access, Done, WarmUp, Temperature, SaveOpen, SaveWrite,
         Load, BootRead
<1>2. CASE Name(a) BY <1>1, <1>2, NamePlace, NameReg
<1>3. CASE Access(a, TRUE) BY <1>1, <1>3, AccessPlace, AccessReg
<1>4. CASE Access(a, FALSE)
  <2>1. mixed' BY <1>4 DEF Access
  <2>. QED BY <1>1, <1>4, <2>1, AccessPlace
<1>5. ASSUME a \in Threads, NEW ok \in BOOLEAN, LocalStep(a, ok) PROVE PmicInv'
  BY <1>1, <1>5, LocalPlace, LocalReg
<1>6. CASE BootRead BY <1>1, <1>6, BootReadPlace, BootReadReg
<1>. QED BY <1>2, <1>3, <1>4, <1>5, <1>6 DEF PmicStep, PmicFault, LocalStep

\* Every step of the board.
LEMMA PmicKept == PmicInv /\ [Next]_vars => PmicInv'
<1>. SUFFICES ASSUME PmicInv, [Next]_vars PROVE PmicInv' OBVIOUS
<1>1. ASSUME UNCHANGED pmic PROVE PmicInv'
  <2>1. /\ UNCHANGED <<reg, latch, okAt, pc, named, out, keep, creq>>
        /\ UNCHANGED <<current_mode, hp_cbank, hp_amp>>
        /\ UNCHANGED <<dcx, cans, wantCdac, wantAmp, wantDcx, mixed>>
    BY <1>1 DEF pmic, private, static, wanted
  <2>2. \A a \in Threads : SiteOK(a)' <=> SiteOK(a) BY <2>1 DEF SiteOK
  <2>3. SiteInv' BY <2>1, <2>2 DEF PmicInv, PlaceInv, SiteInv
  <2>4. DcxInv' BY <2>1 DEF PmicInv, PlaceInv, DcxInv, OpenFile
  <2>5. AloneInv' BY <2>1 DEF PmicInv, PlaceInv, AloneInv, Hp, AtWork
  <2>6. Calm BY <2>1 DEF Calm
  <2>7. \A a \in Actors : Active(a)' <=> Active(a) BY <2>1 DEF Active, AtWork, Fresh
  <2>8. ASSUME RegInv PROVE RegInv'
    <3>1. \A a \in Actors : Active(a) => ActiveAt(a)' BY <2>1, <2>6, <2>8, ActiveSame DEF RegInv
    <3>2. Settings(current_mode)' <=> Settings(current_mode) BY <2>1 DEF Settings
    <3>. QED BY <2>1, <2>7, <2>8, <3>1, <3>2 DEF RegInv
  <2>. QED BY <2>1, <2>3, <2>4, <2>5, <2>8 DEF PmicInv, PlaceInv
<1>2. ASSUME NEW a \in Threads, Request(a) PROVE PmicInv'
  <2>1. CASE UNCHANGED pmic BY <1>1, <2>1
  <2>2. ASSUME NEW r \in CaliRequests, CaliRequest(a, r) PROVE PmicInv'
    <3>1. PlaceInv' BY <2>2, RequestPlace DEF PmicInv
    <3>2. ~mixed' => RegInv' BY <2>2, RequestReg DEF PmicInv
    <3>3. okAt' \in Int
      <4>1. okAt' \in Thresholds \/ okAt' = okAt BY <2>2 DEF CaliRequest
      <4>2. Thresholds \subseteq Int
        <5>1. (CoarseMax + 1) * (FineMax + 1) - 1 \in Int BY PmicAssumption
        <5>. QED BY <5>1, PmicAssumption
      <4>. QED BY <4>1, <4>2 DEF PmicInv
    <3>. QED BY <3>1, <3>2, <3>3 DEF PmicInv
  <2>. QED BY <1>2, <2>1, <2>2 DEF Request
<1>3. ASSUME NEW a \in Actors, Step(a) PROVE PmicInv' BY <1>1, <1>3, PmicMoves DEF Step
<1>4. ASSUME NEW i \in 1 .. MaxJobs, Job(i) PROVE PmicInv' BY <1>1, <1>4 DEF Job
<1>5. CASE Fault BY <1>1, <1>5, PmicMoves DEF Fault
<1>6. CASE Plug BY <1>1, <1>6 DEF Plug
<1>7. CASE Kill
  <2>1. EngpcDies /\ okAt' = okAt BY <1>7 DEF Kill, EngpcDies
  <2>. QED BY <2>1, DiesPlace, DiesReg DEF PmicInv
<1>8. CASE Restart
  <2>1. PICK factory \in BOOLEAN : PhoneRestarts(factory) BY <1>8 DEF Restart
  <2>2. okAt' = okAt BY <2>1 DEF PhoneRestarts
  <2>. QED BY <2>1, <2>2, RestartPlace, RestartReg DEF PmicInv
<1>9. CASE UNCHANGED vars BY <1>1, <1>9 DEF vars
<1>. QED BY <1>2, <1>3, <1>4, <1>5, <1>6, <1>7, <1>8, <1>9 DEF Next

\* The invariant of the calibration holds throughout.
LEMMA PmicHolds == Spec => []PmicInv
<1>1. Init => PmicInv BY PmicStart DEF Init
<1>. QED BY <1>1, PmicKept, PTL DEF Spec

\* Whatever the threads, dcxsrv, a death of engpc and a restart of the phone did:
\* once nobody is at work, and if no accesses to pmic_reg and pmic_value have
\* overlapped, failed or been cut off since the phone started, and no calibration
\* has overlapped with another request for registers, the oscillator has
\* the settings last asked for, those that dcx_set_afc_mode() had saved included,
\* and the calibration is switched off.
THEOREM OscillatorIsSet == Spec => []SettingsKept
<1>1. PmicInv => SettingsKept
  <2>. SUFFICES ASSUME PmicInv, \A a \in Actors : ~Busy(a), ~mixed
                PROVE  /\ reg["CTRL3"] = 0 /\ reg["CTRL14"] = 1 - current_mode
                       /\ IF current_mode = 1
                            THEN reg["CTRL10"] = wantCdac /\ reg["CTRL5"] = wantAmp
                            ELSE reg["CTRL10"] = 0
    BY DEF SettingsKept
  <2>1. \A a \in Actors : ~Active(a) BY IdleRests DEF Busy, PmicInv
  <2>2. Settings(current_mode) BY <2>1 DEF PmicInv, RegInv
  <2>. QED BY <2>2 DEF Settings
<1>. QED BY <1>1, PmicHolds, PTL

\* For fields of any width and every threshold that the search of
\* find_amp_cal_finish() can find: the code that a calibration in the high power
\* mode answers is the last one that has the flag; in either mode, it has it.  A
\* calibration that nothing has disturbed since the phone started is meant; other
\* requests may come before it, and those for no register during it.
THEOREM CalibrationFindsTheCode == Spec => []AmpFound
<1>1. PmicInv => AmpFound
  <2>. SUFFICES ASSUME PmicInv, ~mixed, NEW a \in Threads, creq[a].op = "amp",
                       pc[a] = Local("done")
                PROVE  /\ out[a] <= okAt
                       /\ Hp(a) /\ (okAt < Steps \/ okAt >= 2 * Steps - 1) /\ okAt < MaxCode
                            => out[a] = okAt
    BY DEF AmpFound
  <2>0. a \in Actors /\ a # dcxsrv BY ActorAssumption DEF Actors
  <2>1. Active(a) BY DEF Active, AtWork, Fresh, Local
  <2>2. AmpFrame(a) /\ (Hp(a) /\ Findable => AmpSearch(a))
    BY <2>0, <2>1 DEF PmicInv, RegInv, ActiveAt
  <2>3. out[a] = reg["CTRL5"] /\ reg["CTRL5"] <= okAt BY <2>2 DEF AmpFrame, Local
  <2>4. Hp(a) /\ Findable => okAt <= reg["CTRL5"] BY <2>2 DEF AmpSearch, Local
  <2>5. reg["CTRL5"] \in Nat /\ okAt \in Int BY DEF PmicInv, RegInv
  <2>. QED BY <2>3, <2>4, <2>5 DEF Findable
<1>. QED BY <1>1, PmicHolds, PTL
=============================================================================
