------------------------------ MODULE DiagLink ------------------------------
(***************************************************************************)
(* The request direction of a diag channel with ap_process = 1: the tool   *)
(* on the PC sends frames 7E .. 7E, the device delivers their bytes in     *)
(* pieces, CPort::internal_read() collects pieces until                    *)
(* CProtolDiag::checkframe() is content, and CTrans::trans() decodes the   *)
(* buffer and gives it to the AP.                                          *)
(*                                                                         *)
(* Bytes are numbers; the codec is that of CProtolDiag, byte by byte,      *)
(* because what it does to 7D and 7E is what the properties are about.     *)
(***************************************************************************)
EXTENDS Naturals, Sequences, SequencesExt

CONSTANTS
  Plain,           \* bytes that occur in request bodies and as line noise
  MaxBody,         \* bound on the length of a request body
  MaxMsgs,         \* bound on the number of requests
  MaxNoise,        \* bound on the number of noise bytes
  Links            \* kinds of link, of which a behaviour has one: nLen of
                   \* internal_read(), whether the tool waits until a request
                   \* was taken before it sends the next, and whether the
                   \* device may deliver the opening 7E as a piece

ASSUME DiagAssumption ==
  /\ Plain \subseteq 0 .. 255
  /\ MaxBody \in Nat \ {0} /\ MaxMsgs \in Nat /\ MaxNoise \in Nat
  /\ Links \subseteq [nLen : Nat \ {0, 1}, oneAtATime : BOOLEAN,
                      flagAlone : BOOLEAN]

FLAG == 126     \* 0x7E
ESC  == 125     \* 0x7D
Special == {FLAG, ESC}

Bodies == UNION {[1 .. n -> Plain] : n \in 1 .. MaxBody}

-----------------------------------------------------------------------------
(* The codec *)

\* b ^ 0x20
Xor20(b) == IF (b \div 32) % 2 = 1 THEN b - 32 ELSE b + 32

\* decode() from position i on: r is buff[i..len-1].  It stops two bytes
\* before the end, so an escape is never looked for in the closing flag.
DecodeRest[r \in Seq(0 .. 255)] ==
  IF Len(r) <= 2 THEN r
  ELSE IF r[1] \in Special
       THEN <<Xor20(r[2])>> \o DecodeRest[SubSeq(r, 3, Len(r))]
       ELSE <<r[1]>> \o DecodeRest[Tail(r)]

decode(buff) == IF buff = <<>> THEN buff
                ELSE <<buff[1]>> \o DecodeRest[Tail(buff)]

Escaped(b) == IF b \in Special THEN <<ESC, Xor20(b)>> ELSE <<b>>

\* Mutation: the escape byte itself is not escaped.
encodeFlagOnly(buff) ==
  IF Len(buff) < 2 THEN buff
  ELSE <<buff[1]>>
       \o FlattenSeq([i \in 1 .. Len(buff) - 2 |->
                        IF buff[i + 1] = FLAG THEN Escaped(FLAG)
                                              ELSE <<buff[i + 1]>>])
       \o <<buff[Len(buff)]>>

\* encode(): everything but the first and the last byte is escaped.
encode(buff) ==
  IF Len(buff) < 2 THEN buff
  ELSE <<buff[1]>>
       \o FlattenSeq([i \in 1 .. Len(buff) - 2 |-> Escaped(buff[i + 1])])
       \o <<buff[Len(buff)]>>

\* translate_packet(): the framing of what a module sends on its own.
translate_packet(src) ==
  <<FLAG>>
  \o FlattenSeq([i \in 1 .. Len(src) |->
                   CASE src[i] = 126 -> <<125, 94>>
                     [] src[i] = 125 -> <<125, 93>>
                     [] OTHER        -> <<src[i]>>])
  \o <<FLAG>>

-----------------------------------------------------------------------------
(* checkframe() *)

\* Position of the first flag at or after position i, or 0.
findFrameFlag(buff, i) ==
  LET at == {k \in i .. Len(buff) : buff[k] = FLAG}
  IN  IF at = {} THEN 0 ELSE CHOOSE k \in at : \A l \in at : k <= l

\* Mutation: a frame in the middle of a buffer is not moved to its front.
checkframeUnmoved(buff) ==
  LET start == findFrameFlag(buff, 1)
      end   == IF start = 0 THEN 0 ELSE findFrameFlag(buff, start + 1)
  IN  CASE buff[1] = FLAG /\ buff[Len(buff)] = FLAG ->
             [type |-> "COMPLETE", buff |-> buff]
        [] start = 0 -> [type |-> "INVALID", buff |-> buff]
        [] end # 0   -> [type |-> "COMPLETE", buff |-> buff]
        [] OTHER     -> [type |-> "HALF", buff |-> SubSeq(buff, start, Len(buff))]

\* Mutation: half a frame is taken for no frame.
checkframeNoHalf(buff) ==
  LET start == findFrameFlag(buff, 1)
      end   == IF start = 0 THEN 0 ELSE findFrameFlag(buff, start + 1)
  IN  CASE buff[1] = FLAG /\ buff[Len(buff)] = FLAG ->
             [type |-> "COMPLETE", buff |-> buff]
        [] start # 0 /\ end # 0 ->
             [type |-> "COMPLETE", buff |-> SubSeq(buff, start, end)]
        [] OTHER -> [type |-> "INVALID", buff |-> buff]

\* The verdict, and the buffer as checkframe() leaves it.
checkframe(buff) ==
  LET start == findFrameFlag(buff, 1)
      end   == IF start = 0 THEN 0 ELSE findFrameFlag(buff, start + 1)
  IN  CASE buff[1] = FLAG /\ buff[Len(buff)] = FLAG ->
             [type |-> "COMPLETE", buff |-> buff]
        [] start = 0 -> [type |-> "INVALID", buff |-> buff]
        [] end # 0   -> [type |-> "COMPLETE", buff |-> SubSeq(buff, start, end)]
        [] OTHER     -> [type |-> "HALF", buff |-> SubSeq(buff, start, Len(buff))]

-----------------------------------------------------------------------------
VARIABLES
  sent,    \* bodies of the requests the tool has sent
  wire,    \* bytes sent and not yet read
  noise,   \* noise bytes inserted so far
  buff,    \* internal_read()'s buffer
  ap,      \* what process() was given: the verdict and the decoded bytes
  link     \* the member of Links that this behaviour is about

vars == <<sent, wire, noise, buff, ap, link>>

nLen == link.nLen

Verdicts == {"COMPLETE", "INVALID", "HALF"}

TypeOK ==
  /\ sent \in Seq(Bodies) /\ Len(sent) <= MaxMsgs
  /\ wire \in Seq(0 .. 255)
  /\ noise \in 0 .. MaxNoise
  /\ buff \in Seq(0 .. 255) /\ Len(buff) < nLen
  /\ ap \in Seq([type : Verdicts, data : Seq(0 .. 255)])
  /\ link \in Links

Init == /\ sent = <<>> /\ wire = <<>> /\ noise = 0 /\ buff = <<>> /\ ap = <<>>
        /\ link \in Links

\* What process() was given as complete frames.
Complete == SelectSeq(ap, LAMBDA e : e.type = "COMPLETE")

\* The tool frames a request with its own encoder, the inverse of decode().
Send(body) ==
  /\ Len(sent) < MaxMsgs
  /\ link.oneAtATime => Len(Complete) >= Len(sent)
  /\ sent' = Append(sent, body)
  /\ wire' = wire \o translate_packet(body)
  /\ UNCHANGED <<noise, buff, ap, link>>

\* Bytes outside any frame, before a request.
Noise(b) ==
  /\ noise < MaxNoise /\ b \notin Special
  /\ wire = <<>> /\ buff = <<>>
  /\ noise' = noise + 1
  /\ wire' = <<b>>
  /\ UNCHANGED <<sent, buff, ap, link>>

\* trans() after read(): m_frameType is FRAME_COMPLETE from init() on, so
\* the buffer is decoded and processed whatever checkframe() said of it.
Process(type, frame) ==
  /\ ap' = Append(ap, [type |-> type, data |-> decode(frame)])
  /\ buff' = <<>>

\* Mutation: the room left is not recomputed after part of a frame.
ReadUnbounded(n) ==
  /\ n <= Len(wire) /\ n < nLen
  /\ link.flagAlone \/ ~(buff = <<>> /\ SubSeq(wire, 1, n) = <<FLAG>>)
  /\ wire' = SubSeq(wire, n + 1, Len(wire))
  /\ LET c == checkframe(buff \o SubSeq(wire, 1, n))
     IN  \/ c.type # "HALF" /\ Process(c.type, c.buff)
         \/ c.type = "HALF" /\ buff' = c.buff /\ UNCHANGED ap
  /\ UNCHANGED <<sent, noise, link>>

\* ::read() returns n bytes, at most rdSize of them.
Read(n) ==
  /\ n <= Len(wire) /\ n <= nLen - Len(buff)
  /\ link.flagAlone \/ ~(buff = <<>> /\ SubSeq(wire, 1, n) = <<FLAG>>)
  /\ wire' = SubSeq(wire, n + 1, Len(wire))
  /\ LET c == checkframe(buff \o SubSeq(wire, 1, n))
     IN  \/ /\ c.type # "HALF" \/ Len(c.buff) >= nLen
            /\ Process(c.type, c.buff)
         \/ /\ c.type = "HALF" /\ Len(c.buff) < nLen
            /\ buff' = c.buff
            /\ UNCHANGED ap
  /\ UNCHANGED <<sent, noise, link>>

ReadSome == \E n \in 1 .. nLen : Read(n)

Next == \/ \E body \in Bodies : Send(body)
        \/ \E b \in Plain : Noise(b)
        \/ ReadSome

Spec == Init /\ [][Next]_vars
FairSpec == Spec /\ WF_vars(ReadSome)

-----------------------------------------------------------------------------
(* Properties *)

Framed(body) == <<FLAG>> \o body \o <<FLAG>>

\* The conditions under which the link is reliable: the tool waits, the
\* device does not cut a frame right after its first byte, and the buffer
\* has room for every frame.
Tame == link.oneAtATime /\ ~link.flagAlone /\ nLen > 2 * MaxBody + 2

\* What the AP is given as complete frames are the requests the tool sent,
\* whole, in order, each once: however else the device cuts the bytes,
\* whatever bytes had to be escaped, and with noise between the requests.
RequestsIntact ==
  Tame => /\ Len(Complete) <= Len(sent)
          /\ \A i \in 1 .. Len(Complete) : Complete[i].data = Framed(sent[i])

\* And every request reaches the AP.
RequestsArrive == \A n \in 1 .. MaxMsgs :
                    (Tame /\ Len(sent) >= n) ~> (Len(Complete) >= n)

\* An answer that encode() frames and a report that translate_packet() frames
\* look alike on the wire: no flag inside, and decode() gives it back.
CodecsAgree ==
  \A i \in 1 .. Len(sent) :
    LET f == encode(Framed(sent[i]))
    IN  /\ f = translate_packet(sent[i])
        /\ \A k \in 2 .. Len(f) - 1 : f[k] # FLAG
        /\ decode(f) = Framed(sent[i])
=============================================================================
