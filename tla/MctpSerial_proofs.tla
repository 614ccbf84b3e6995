------------------------- MODULE MctpSerial_proofs --------------------------
(***************************************************************************)
(* Proofs about MctpSerial, for any packets, bounds and line errors.       *)
(***************************************************************************)
EXTENDS MctpSerial, SequenceTheorems, TLAPS

-----------------------------------------------------------------------------
(***************************************************************************)
(* Framing.                                                                *)
(***************************************************************************)

\* A packet is a sequence of payload bytes.
LEMMA MessageIsSeq ==
  ASSUME NEW m \in Message
  PROVE  m \in Seq(PayloadByte) /\ Len(m) \in Nat
BY MessageAssumption

\* Payload bytes are bytes, and none is the second byte of an FCS.
LEMMA PayloadKind ==
  ASSUME NEW b \in PayloadByte
  PROVE  b \in Byte /\ b.k # "fcsLo"
BY DEF Byte, PayloadByte, FRAME_CHAR, ESCAPE_CHAR, FRAME_SUB, ESCAPE_SUB,
       DataByte

\* The text of a packet is the packet with two bytes in front.
LEMMA HeaderShape ==
  ASSUME NEW m \in Message
  PROVE  /\ Header(m) \in Seq(Byte)
         /\ Len(Header(m)) = Len(m) + 2
         /\ Header(m)[1] = REVISION
         /\ Header(m)[2] = CountByte(Len(m) % CountMod)
         /\ \A i \in 1 .. Len(m) : Header(m)[i + 2] = m[i]
<1>1. Len(m) % CountMod \in 0 .. CountMod - 1
  BY MessageIsSeq, BoundAssumption
<1>2. CountByte(Len(m) % CountMod) \in Byte /\ REVISION \in Byte
  BY <1>1 DEF Byte
<1>3. m \in Seq(Byte)
  BY MessageIsSeq, SeqMonotonic DEF Byte
<1> QED
  BY <1>2, <1>3 DEF Header

\* Packets with the same text are the same packet.
LEMMA HeaderInjective ==
  ASSUME NEW m \in Message, NEW n \in Message, Header(m) = Header(n)
  PROVE  m = n
<1>1. Len(m) = Len(n)
  <2>1. Len(Header(m)) = Len(m) + 2 /\ Len(Header(n)) = Len(n) + 2
    BY HeaderShape
  <2> QED
    BY <2>1, MessageIsSeq
<1>2. \A i \in 1 .. Len(m) : m[i] = n[i]
  <2>1. \A i \in 1 .. Len(m) : Header(m)[i + 2] = m[i]
    BY HeaderShape
  <2>2. \A i \in 1 .. Len(n) : Header(n)[i + 2] = n[i]
    BY HeaderShape
  <2> QED
    BY <2>1, <2>2, <1>1
<1> QED
  BY <1>1, <1>2, MessageIsSeq, SeqEqual

\* The text of a packet, without its two first bytes, is the packet.
LEMMA HeaderTail ==
  ASSUME NEW m \in Message
  PROVE  SubSeq(Header(m), 3, Len(Header(m))) = m
<1> DEFINE h == Header(m)
           t == SubSeq(h, 3, Len(h))
<1>1. h \in Seq(Byte) /\ Len(h) = Len(m) + 2 /\ Len(m) \in Nat
  BY HeaderShape, MessageIsSeq
<1>2. t \in Seq(Byte) /\ Len(t) = Len(m)
  BY <1>1
<1>3. \A i \in 1 .. Len(m) : t[i] = m[i]
  <2>1. \A i \in 1 .. Len(m) : t[i] = h[i + 2]
    BY <1>1, <1>2
  <2> QED
    BY <2>1, HeaderShape
<1>4. m \in Seq(Byte)
  BY MessageIsSeq, SeqMonotonic DEF Byte
<1> QED
  BY <1>2, <1>3, <1>4, SeqEqual

\* A byte of the kind "fcsLo" is the FCS of a packet.
LEMMA FcsLoOfMessage ==
  ASSUME NEW b \in Byte, NEW text, b = FcsLo(text)
  PROVE  \E m \in Message : text = Header(m)
BY DEF Byte, PayloadByte, FcsHi, FcsLo, FRAME_CHAR, ESCAPE_CHAR, FRAME_SUB,
       ESCAPE_SUB, REVISION, DataByte, CountByte

\* What a valid frame of bytes from the wire holds is a packet that somebody
\* framed: its FCS is in the frame, and its text is that of the packet.
LEMMA ValidFrame ==
  ASSUME NEW f \in Seq(Byte), ValidRx(f)
  PROVE  /\ Packet(f) \in Message
         /\ f[Len(f) - 1] = FcsLo(Header(Packet(f)))
<1> DEFINE n == Len(f)
           text == SubSeq(f, 2, n - 3)
<1>1. n \in Nat /\ n >= 7
  BY BoundAssumption DEF ValidRx
<1>2. f[n - 1] \in Byte /\ f[n - 1] = FcsLo(text)
  BY <1>1 DEF ValidRx
<1>3. PICK m \in Message : text = Header(m)
  BY <1>2, FcsLoOfMessage
<1>4. SubSeq(text, 3, Len(text)) = m
  BY <1>3, HeaderTail
<1>5. SubSeq(text, 3, Len(text)) = SubSeq(f, 4, n - 3)
  <2>1. text \in Seq(Byte) /\ Len(text) = n - 4
    BY <1>1
  <2>2. SubSeq(text, 3, n - 4) \in Seq(Byte) /\ Len(SubSeq(text, 3, n - 4)) = n - 6
    BY <2>1, <1>1
  <2>3. SubSeq(f, 4, n - 3) \in Seq(Byte) /\ Len(SubSeq(f, 4, n - 3)) = n - 6
    BY <1>1
  <2>4. \A i \in 1 .. n - 6 : SubSeq(text, 3, n - 4)[i] = SubSeq(f, 4, n - 3)[i]
    BY <1>1, <2>1
  <2> QED
    BY <2>1, <2>2, <2>3, <2>4, SeqEqual
<1> QED
  BY <1>2, <1>3, <1>4, <1>5 DEF Packet

\* Indexing a concatenation.
LEMMA ConcatIndex ==
  ASSUME NEW S, NEW s \in Seq(S), NEW t \in Seq(S)
  PROVE  /\ \A i \in 1 .. Len(s) : (s \o t)[i] = s[i]
         /\ \A i \in 1 .. Len(t) : (s \o t)[Len(s) + i] = t[i]
OBVIOUS

\* Only the second FCS byte of a frame is of the kind "fcsLo".
LEMMA FrameShape ==
  ASSUME NEW m \in Message
  PROVE  /\ Frame(m) \in Seq(Byte)
         /\ Len(Frame(m)) = Len(m) + 6
         /\ Frame(m)[Len(m) + 5] = FcsLo(Header(m))
         /\ \A i \in 1 .. Len(m) + 6 :
               i # Len(m) + 5 => Frame(m)[i].k # "fcsLo"
<1> DEFINE h == Header(m)
           last == <<FcsHi(h), FcsLo(h), FRAME_CHAR>>
           body == <<FRAME_CHAR>> \o h
<1>1. h \in Seq(Byte) /\ Len(h) = Len(m) + 2 /\ Len(m) \in Nat
  BY HeaderShape, MessageIsSeq
<1>2. FRAME_CHAR \in Byte /\ FcsHi(h) \in Byte /\ FcsLo(h) \in Byte
  BY DEF Byte, PayloadByte
<1>3. last \in Seq(Byte) /\ Len(last) = 3
  BY <1>2
<1>4. body \in Seq(Byte) /\ Len(body) = Len(m) + 3
  BY <1>1, <1>2
<1>5. Frame(m) = body \o last
  BY DEF Frame
<1>6. Frame(m) \in Seq(Byte) /\ Len(Frame(m)) = Len(m) + 6
  BY <1>1, <1>3, <1>4, <1>5
<1>9. /\ \A i \in 1 .. Len(m) + 3 : Frame(m)[i] = body[i]
      /\ \A i \in 1 .. 3 : Frame(m)[Len(m) + 3 + i] = last[i]
  <2>1. body \in Seq(Byte) /\ last \in Seq(Byte)
    BY <1>3, <1>4
  <2>2. Len(body) = Len(m) + 3 /\ Len(last) = 3
    BY <1>3, <1>4
  <2> HIDE DEF body, last
  <2>3. /\ \A i \in 1 .. Len(body) : (body \o last)[i] = body[i]
        /\ \A i \in 1 .. Len(last) : (body \o last)[Len(body) + i] = last[i]
    BY <2>1, ConcatIndex
  <2> QED
    BY <2>2, <2>3, <1>5
<1>10. /\ Frame(m)[Len(m) + 4] = FcsHi(h)
       /\ Frame(m)[Len(m) + 5] = FcsLo(h)
       /\ Frame(m)[Len(m) + 6] = FRAME_CHAR
  <2>1. /\ Frame(m)[Len(m) + 3 + 1] = last[1]
        /\ Frame(m)[Len(m) + 3 + 2] = last[2]
        /\ Frame(m)[Len(m) + 3 + 3] = last[3]
    BY <1>9
  <2>2. last[1] = FcsHi(h) /\ last[2] = FcsLo(h) /\ last[3] = FRAME_CHAR
    OBVIOUS
  <2>3. /\ Len(m) + 3 + 1 = Len(m) + 4
        /\ Len(m) + 3 + 2 = Len(m) + 5
        /\ Len(m) + 3 + 3 = Len(m) + 6
    BY <1>1
  <2> QED
    BY <2>1, <2>2, <2>3
<1>8. ASSUME NEW i \in 1 .. Len(m) + 6, i # Len(m) + 5
      PROVE  Frame(m)[i].k # "fcsLo"
  <2>1. CASE i = 1
    <3>1. Frame(m)[i] = FRAME_CHAR
      BY <2>1, <1>1, <1>3, <1>4, <1>5
    <3> QED
      BY <3>1 DEF FRAME_CHAR
  <2>2. CASE i \in 2 .. Len(m) + 3
    <3>1. Frame(m)[i] = h[i - 1]
      BY <2>2, <1>1, <1>3, <1>4, <1>5
    <3>2. CASE i = 2
      <4>1. Frame(m)[i] = h[1]
        BY <3>1, <3>2
      <4>2. h[1] = REVISION
        BY HeaderShape
      <4> QED
        BY <4>1, <4>2 DEF REVISION
    <3>3. CASE i = 3
      <4>1. Frame(m)[i] = h[2]
        BY <3>1, <3>3
      <4>2. h[2] = CountByte(Len(m) % CountMod)
        BY HeaderShape
      <4> QED
        BY <4>1, <4>2 DEF CountByte
    <3>4. CASE i \in 4 .. Len(m) + 3
      <4>1. h[i - 1] = m[i - 3] /\ i - 3 \in 1 .. Len(m)
        <5>1. i - 3 \in 1 .. Len(m) /\ (i - 3) + 2 = i - 1
          BY <3>4, <1>1
        <5> QED
          BY <5>1, HeaderShape
      <4>2. m[i - 3] \in PayloadByte
        BY <4>1, MessageIsSeq
      <4>3. Frame(m)[i] \in PayloadByte
        BY <3>1, <4>1, <4>2
      <4> QED
        BY <4>3, PayloadKind
    <3> QED
      BY <2>2, <3>2, <3>3, <3>4, <1>1
  <2>3. CASE i = Len(m) + 4
    <3>1. Frame(m)[i] = FcsHi(h)
      BY <2>3, <1>10
    <3> QED
      BY <3>1 DEF FcsHi, FRAME_CHAR
  <2>4. CASE i = Len(m) + 6
    <3>1. Frame(m)[i] = FRAME_CHAR
      BY <2>4, <1>10
    <3> QED
      BY <3>1 DEF FRAME_CHAR
  <2> QED
    BY <2>1, <2>2, <2>3, <2>4, <1>1, <1>8
<1> QED
  BY <1>6, <1>8, <1>10

-----------------------------------------------------------------------------
(***************************************************************************)
(* Type correctness.                                                       *)
(***************************************************************************)

\* What transmitFrame writes next is a byte, and it is of the kind "fcsLo"
\* only when the sender has come to the second FCS byte.
LEMMA NextByteShape ==
  ASSUME NEW m \in Message, txFrame = Frame(m), txPos \in 1 .. Len(txFrame)
  PROVE  /\ NextByte \in Byte
         /\ NextByte.k = "fcsLo" => /\ txPos = Len(txFrame) - 1
                                   /\ NextByte = FcsLo(Header(m))
                                   /\ ~MustEscape
<1>1. /\ txFrame \in Seq(Byte) /\ Len(txFrame) = Len(m) + 6
      /\ Len(m) \in Nat /\ txFrame[txPos] \in Byte
  BY FrameShape, MessageIsSeq
<1>2. CASE MustEscape
  <2>1. NextByte \in {FRAME_SUB, ESCAPE_SUB, ESCAPE_CHAR}
    BY <1>2 DEF NextByte, Escaped
  <2>2. NextByte \in PayloadByte
    BY <2>1 DEF PayloadByte
  <2> QED
    BY <2>2, PayloadKind
<1>3. CASE ~MustEscape
  <2>1. NextByte = txFrame[txPos]
    BY <1>3 DEF NextByte
  <2>2. CASE txPos = Len(m) + 5
    <3>1. NextByte = FcsLo(Header(m))
      BY <2>1, <2>2, FrameShape
    <3> QED
      BY <1>1, <1>3, <2>1, <2>2, <3>1
  <2>3. CASE txPos # Len(m) + 5
    <3>1. NextByte.k # "fcsLo"
      BY <1>1, <2>1, <2>3, FrameShape
    <3> QED
      BY <1>1, <2>1, <3>1
  <2> QED
    BY <2>2, <2>3
<1> QED
  BY <1>2, <1>3

\* The initial values have their types.
LEMMA TypeInit == Init => TypeOK
<1>1. <<>> \in Seq(Message) /\ <<>> \in Seq(Byte)
  OBVIOUS
<1>2. Init => SenderTypeOK
  BY <1>1 DEF Init, SenderTypeOK
<1>3. Init => LineTypeOK
  BY <1>1 DEF Init, LineTypeOK
<1>4. Init => ReceiverTypeOK
  <2>1. 0 \in 0 .. PipeCap
    BY BoundAssumption
  <2>2. Init => running \in BOOLEAN
    BY DEF Init
  <2>3. Init => /\ rxBuffer \in Seq(Message) /\ delivered \in Seq(Message)
                /\ rxThread = "none" /\ owner = "closed" /\ reader = "select"
    BY <1>1 DEF Init
  <2>4. Init => pipe \in 0 .. PipeCap /\ faults \in Nat /\ opens \in Nat
    BY <2>1 DEF Init
  <2> QED
    BY <2>2, <2>3, <2>4 DEF ReceiverTypeOK
<1> QED
  BY <1>2, <1>3, <1>4 DEF TypeOK

\* While it is writing a frame the sender is at a byte of that frame.
LEMMA SenderAtByte ==
  ASSUME SenderTypeOK, txFrame # <<>>
  PROVE  \E m \in Message :
            /\ txFrame = Frame(m)
            /\ Len(txFrame) = Len(m) + 6 /\ Len(m) \in Nat
            /\ txPos \in 1 .. Len(txFrame)
<1>1. PICK m \in Message : txFrame = Frame(m)
  BY DEF SenderTypeOK
<1>2. Len(txFrame) = Len(m) + 6 /\ Len(m) \in Nat
  BY <1>1, FrameShape, MessageIsSeq
<1>3. txPos \in 1 .. Len(txFrame)
  BY <1>2 DEF SenderTypeOK
<1> QED
  BY <1>1, <1>2, <1>3

\* Advancing the sender keeps its variables well-typed.
LEMMA AdvanceType ==
  ASSUME SenderTypeOK, txFrame # <<>>, Advance
  PROVE  SenderTypeOK'
<1>1. PICK m \in Message : /\ txFrame = Frame(m)
                           /\ Len(txFrame) = Len(m) + 6 /\ Len(m) \in Nat
                           /\ txPos \in 1 .. Len(txFrame)
  BY SenderAtByte
<1>2. sent' \in Seq(Message) /\ txEscaped' \in BOOLEAN
  BY DEF Advance, SenderTypeOK
<1>3. CASE MustEscape /\ ~txEscaped
  BY <1>2, <1>3 DEF Advance, SenderTypeOK
<1>4. CASE ~(MustEscape /\ ~txEscaped) /\ txPos = Len(txFrame)
  BY <1>2, <1>4 DEF Advance, SenderTypeOK
<1>5. CASE ~(MustEscape /\ ~txEscaped) /\ txPos # Len(txFrame)
  <2>1. txFrame' = txFrame /\ txPos' = txPos + 1
    BY <1>5 DEF Advance
  <2>2. txPos' \in 1 .. Len(txFrame')
    BY <1>1, <1>5, <2>1
  <2> QED
    BY <1>1, <1>2, <2>1, <2>2 DEF SenderTypeOK
<1> QED
  BY <1>3, <1>4, <1>5

\* A step that leaves the sender alone keeps its types.
LEMMA SenderTypeUnchanged ==
  ASSUME SenderTypeOK, UNCHANGED txVars
  PROVE  SenderTypeOK'
BY DEF SenderTypeOK, txVars

\* A step that leaves the receiving end alone keeps its types.
LEMMA ReceiverTypeUnchanged ==
  ASSUME ReceiverTypeOK,
         UNCHANGED <<rxBuffer, pipeVars, rxThread, ownerVars, readerVars>>
  PROVE  ReceiverTypeOK'
BY DEF ReceiverTypeOK, pipeVars, ownerVars, readerVars

\* The special bytes and line noise are bytes.
LEMMA SpecialBytes ==
  /\ {FRAME_CHAR, ESCAPE_CHAR, FRAME_SUB, ESCAPE_SUB} \subseteq PayloadByte
  /\ {FRAME_CHAR, ESCAPE_CHAR, FRAME_SUB, ESCAPE_SUB} \subseteq Byte
  /\ Noise \subseteq Byte
BY MessageAssumption DEF Byte, PayloadByte

\* A step of the FSM that ends no valid frame keeps the types.
LEMMA StepType ==
  ASSUME TypeOK, NEW s \in {"WAITING_FOR_SYNC", "BODY", "ESCAPE"},
         NEW f \in Seq(Byte), Step(s, f)
  PROVE  TypeOK'
<1>1. wire' = Tail(wire) /\ wire # <<>> /\ UNCHANGED errors
  BY DEF Step, ReadByte
<1>2. LineTypeOK'
  BY <1>1 DEF TypeOK, LineTypeOK, Step
<1>3. SenderTypeOK'
  BY SenderTypeUnchanged DEF TypeOK, Step, ReadByte
<1>4. ReceiverTypeOK'
  BY DEF TypeOK, ReceiverTypeOK, Step, ReadByte, pipeVars, ownerVars, readerVars
<1> QED
  BY <1>2, <1>3, <1>4 DEF TypeOK

\* Every step keeps the types: the induction step of TypeCorrect.
LEMMA TypeNext == TypeOK /\ [Next]_vars => TypeOK'
<1> SUFFICES ASSUME TypeOK, [Next]_vars
             PROVE  TypeOK'
  OBVIOUS
<1>0. SenderTypeOK /\ LineTypeOK /\ ReceiverTypeOK
  BY DEF TypeOK
<1>1. ASSUME NEW m \in Message, Send(m)
      PROVE  TypeOK'
  <2>1. SenderTypeOK'
    <3>1. txPos = 1
      BY <1>0, <1>1 DEF SenderTypeOK, Send
    <3>2. sent' \in Seq(Message)
      BY <1>0, <1>1 DEF SenderTypeOK, Send
    <3> QED
      BY <1>0, <1>1, <3>1, <3>2 DEF SenderTypeOK, Send
  <2>2. LineTypeOK'
    BY <1>0, <1>1 DEF LineTypeOK, Send, wireVars, fsmVars
  <2> QED
    BY <1>0, <1>1, <2>1, <2>2, ReceiverTypeUnchanged DEF TypeOK, Send
<1>2. CASE WriteByte
  <2>1. NextByte \in Byte
    BY <1>0, <1>2, SenderAtByte, NextByteShape DEF WriteByte
  <2>2. LineTypeOK'
    BY <1>0, <1>2, <2>1 DEF LineTypeOK, WriteByte, Advance, fsmVars
  <2> QED
    BY <1>0, <1>2, <2>2, AdvanceType, ReceiverTypeUnchanged
       DEF TypeOK, WriteByte, Advance
<1>3. CASE LoseByte
  <2>1. LineTypeOK'
    BY <1>0, <1>3 DEF LineTypeOK, LoseByte, Advance, fsmVars
  <2> QED
    BY <1>0, <1>3, <2>1, AdvanceType, ReceiverTypeUnchanged
       DEF TypeOK, LoseByte, Advance
<1>4. ASSUME NEW n \in Noise, GarbleByte(n)
      PROVE  TypeOK'
  <2>1. LineTypeOK'
    BY <1>0, <1>4, SpecialBytes DEF LineTypeOK, GarbleByte, Advance, fsmVars
  <2> QED
    BY <1>0, <1>4, <2>1, AdvanceType, ReceiverTypeUnchanged
       DEF TypeOK, GarbleByte, Advance
<1>5. ASSUME NEW n \in Noise, SpuriousByte(n)
      PROVE  TypeOK'
  <2>1. LineTypeOK'
    BY <1>0, <1>5, SpecialBytes DEF LineTypeOK, SpuriousByte, fsmVars
  <2> QED
    BY <1>0, <1>5, <2>1, SenderTypeUnchanged, ReceiverTypeUnchanged
       DEF TypeOK, SpuriousByte
<1>6. CASE UpdateRxFSM
  <2>0. Head(wire) \in Byte /\ Tail(wire) \in Seq(Byte)
    BY <1>0, <1>6 DEF LineTypeOK, UpdateRxFSM
  <2>1. /\ <<FRAME_CHAR>> \in Seq(Byte)
        /\ rx_in_progress \in Seq(Byte)
        /\ \A b \in Byte : Append(rx_in_progress, b) \in Seq(Byte)
    BY <1>0, SpecialBytes DEF LineTypeOK
  <2>2. CASE WaitForSync
    BY <2>1, <2>2, StepType DEF WaitForSync
  <2>3. CASE BodyEscape
    BY <2>1, <2>3, StepType DEF BodyEscape
  <2>4. CASE BodyByte
    BY <2>0, <2>1, <2>4, StepType DEF BodyByte, Extend
  <2>5. CASE BodyResync
    BY <2>1, <2>5, StepType DEF BodyResync
  <2>6. CASE BodyAccept
    <3> DEFINE f == Append(rx_in_progress, FRAME_CHAR)
    <3>1. f \in Seq(Byte)
      BY <2>1, SpecialBytes
    <3>2. Packet(f) \in Message
      BY <2>6, <3>1, ValidFrame DEF BodyAccept
    <3>3. Packet(f) \in Seq(Byte)
      BY <3>2, MessageIsSeq, SeqMonotonic DEF Byte
    <3>4. /\ rxBuffer' = Append(rxBuffer, Packet(f))
          /\ rx_in_progress' = Packet(f)
          /\ wire' = Tail(wire)
          /\ rxState' = "WAITING_FOR_SYNC"
          /\ rxThread' = "notify"
          /\ UNCHANGED <<txVars, errors, pipeVars, ownerVars, readerVars>>
      BY <2>6 DEF BodyAccept, ReadByte
    <3> HIDE DEF f
    <3>5. LineTypeOK'
      BY <1>0, <2>0, <3>3, <3>4 DEF LineTypeOK
    <3>6. ReceiverTypeOK'
      BY <1>0, <3>2, <3>4 DEF ReceiverTypeOK, pipeVars, ownerVars, readerVars
    <3> QED
      BY <1>0, <3>4, <3>5, <3>6, SenderTypeUnchanged DEF TypeOK
  <2>7. CASE EscapeByte
    <3>1. Unescaped(Head(wire)) \in Byte
      BY SpecialBytes DEF Unescaped
    <3> QED
      BY <2>1, <2>7, <3>1, StepType DEF EscapeByte, Extend
  <2>8. CASE EscapeResync
    BY <2>1, <2>8, StepType DEF EscapeResync
  <2>9. CASE EscapeError
    BY <2>1, <2>9, StepType DEF EscapeError
  <2> QED
    BY <1>6, <2>2, <2>3, <2>4, <2>5, <2>6, <2>7, <2>8, <2>9 DEF UpdateRxFSM
<1>7. CASE Poll \/ SelectTimeout \/ SelectError \/ Notify \/ NotifyFails
           \/ Open \/ StopReader \/ Close \/ TakeNotification \/ Receive
  <2>1. UNCHANGED <<txVars, wireVars, fsmVars>>
    BY <1>7 DEF Poll, SelectTimeout, SelectError, Notify, NotifyFails, Open,
                StopReader, Close, TakeNotification, Receive
  <2>2. LineTypeOK'
    BY <1>0, <2>1 DEF LineTypeOK, wireVars, fsmVars
  <2>3. pipe' \in 0 .. PipeCap /\ faults' \in Nat /\ opens' \in Nat
    BY <1>0, <1>7, BoundAssumption
       DEF ReceiverTypeOK, Poll, SelectTimeout, SelectError, Notify,
           NotifyFails, Open, StopReader, Close, TakeNotification, Receive, pipeVars,
           ownerVars
  <2>4. rxBuffer' = rxBuffer /\ delivered' = delivered
    BY <1>7 DEF Poll, SelectTimeout, SelectError, Notify, NotifyFails, Open,
                StopReader, Close, TakeNotification, Receive, readerVars
  <2>5. /\ rxThread' \in {"none", "poll", "select", "notify", "done"}
        /\ owner' \in {"closed", "open", "stopped", "closing"}
        /\ reader' \in {"select", "receive", "pop"}
    BY <1>0, <1>7
       DEF ReceiverTypeOK, Poll, SelectTimeout, SelectError, Notify,
           NotifyFails, Open, StopReader, Close, TakeNotification, Receive, ownerVars,
           readerVars
  <2>6. running' \in BOOLEAN
    BY <1>0, <1>7
       DEF ReceiverTypeOK, Poll, SelectTimeout, SelectError, Notify,
           NotifyFails, Open, StopReader, Close, TakeNotification, Receive, ownerVars
  <2>7. ReceiverTypeOK'
    BY <1>0, <2>3, <2>4, <2>5, <2>6 DEF ReceiverTypeOK
  <2> QED
    BY <1>0, <2>1, <2>2, <2>7, SenderTypeUnchanged DEF TypeOK
<1>8. CASE Join
  <2>1. Len(wire) \in Nat /\ <<>> \in Seq(Byte)
    BY <1>0 DEF LineTypeOK
  <2>2. wire' \in Seq(Byte) /\ errors' \in Nat
    <3>1. \/ wire' = wire /\ errors' = errors
          \/ wire' = <<>> /\ errors' = errors + Len(wire)
      BY <1>8 DEF Join, wireVars
    <3>2. wire \in Seq(Byte) /\ errors \in Nat
      BY <1>0 DEF LineTypeOK
    <3>3. CASE wire' = wire /\ errors' = errors
      BY <3>2, <3>3
    <3>4. CASE wire' = <<>> /\ errors' = errors + Len(wire)
      <4>1. errors + Len(wire) \in Nat
        BY <2>1, <3>2
      <4> QED
        BY <2>1, <3>4, <4>1
    <3> QED
      BY <3>1, <3>3, <3>4
  <2>4. LineTypeOK'
    BY <1>0, <1>8, <2>2 DEF LineTypeOK, Join, fsmVars
  <2>3. ReceiverTypeOK'
    BY <1>0, <1>8 DEF ReceiverTypeOK, Join, pipeVars, readerVars
  <2> QED
    BY <1>0, <1>8, <2>3, <2>4, SenderTypeUnchanged DEF TypeOK, Join
<1>9. CASE Pop
  <2>1. Head(rxBuffer) \in Message /\ Tail(rxBuffer) \in Seq(Message)
    BY <1>0, <1>9 DEF ReceiverTypeOK, Pop
  <2>2. ReceiverTypeOK'
    BY <1>0, <1>9, <2>1 DEF ReceiverTypeOK, Pop, pipeVars, ownerVars
  <2>3. LineTypeOK'
    BY <1>0, <1>9 DEF LineTypeOK, Pop, wireVars, fsmVars
  <2> QED
    BY <1>0, <1>9, <2>2, <2>3, SenderTypeUnchanged DEF TypeOK, Pop
<1>10. CASE UNCHANGED vars
  <2>1. LineTypeOK'
    BY <1>0, <1>10 DEF LineTypeOK, vars, wireVars, fsmVars
  <2> QED
    BY <1>0, <1>10, <2>1, SenderTypeUnchanged, ReceiverTypeUnchanged
       DEF TypeOK, vars
<1> QED
  BY <1>1, <1>2, <1>3, <1>4, <1>5, <1>6, <1>7, <1>8, <1>9, <1>10
     DEF Next, RxThread, Reader

\* The variables of the link always have their types; in particular whatever
\* reaches rxBuffer or the reader is a packet that can be sent.
THEOREM TypeCorrect == Spec => []TypeOK
<1>1. Init => TypeOK
  BY TypeInit
<1>2. TypeOK /\ [Next]_vars => TypeOK'
  BY TypeNext
<1> QED
  BY <1>1, <1>2, PTL DEF Spec

-----------------------------------------------------------------------------
(***************************************************************************)
(* Notifications.                                                          *)
(***************************************************************************)

\* There is an rx thread exactly while the link is not closed, so that open()
\* never starts a second one, nor forgets one that is about to notify.
ThreadMatchesOwner == owner = "closed" <=> rxThread = "none"

NotificationInv == ThreadMatchesOwner /\ NotificationsMatchPackets

\* The steps that leave the receiver alone.
LEMMA NotificationUnchanged ==
  ASSUME NotificationInv,
         UNCHANGED <<rxBuffer, pipeVars, rxThread, ownerVars, readerVars>>
  PROVE  NotificationInv'
BY DEF NotificationInv, ThreadMatchesOwner, NotificationsMatchPackets, InHand,
       pipeVars, ownerVars, readerVars

\* Every step keeps notifications and packets in step.
LEMMA NotificationNext ==
  TypeOK /\ NotificationInv /\ [Next]_vars => NotificationInv'
<1> SUFFICES ASSUME TypeOK, NotificationInv, [Next]_vars
             PROVE  NotificationInv'
  OBVIOUS
<1> USE DEF InHand
<1>0. /\ pipe \in Nat /\ faults \in Nat /\ Len(rxBuffer) \in Nat
      /\ rxBuffer \in Seq(Message)
      /\ reader \in {"select", "receive", "pop"}
  BY BoundAssumption DEF TypeOK, ReceiverTypeOK
<1>1. ASSUME NEW m \in Message, Send(m)
      PROVE  NotificationInv'
  BY <1>1, NotificationUnchanged DEF Send
<1>2. CASE WriteByte \/ LoseByte
  BY <1>2, NotificationUnchanged DEF WriteByte, LoseByte, Advance
<1>3. ASSUME NEW n \in Noise, GarbleByte(n) \/ SpuriousByte(n)
      PROVE  NotificationInv'
  BY <1>3, NotificationUnchanged DEF GarbleByte, SpuriousByte, Advance
<1>4. CASE Poll \/ SelectTimeout \/ SelectError
  <2>1. /\ rxThread \in {"poll", "select"}
        /\ rxThread' \in {"poll", "select", "done"}
        /\ UNCHANGED <<rxBuffer, pipe, owner, reader>>
        /\ faults' \in {faults, faults + 1}
    BY <1>4 DEF Poll, SelectTimeout, SelectError, pipeVars, ownerVars,
                readerVars
  <2> QED
    BY <1>0, <2>1 DEF NotificationInv, ThreadMatchesOwner,
                      NotificationsMatchPackets
<1>5. CASE UpdateRxFSM /\ ~BodyAccept
  <2>1. /\ rxThread = "select" /\ rxThread' = "poll"
        /\ UNCHANGED <<rxBuffer, pipeVars, ownerVars, readerVars>>
    BY <1>5 DEF UpdateRxFSM, WaitForSync, BodyEscape, BodyByte, BodyResync,
                EscapeByte, EscapeResync, EscapeError, Extend, Step, ReadByte
  <2> QED
    BY <2>1 DEF NotificationInv, ThreadMatchesOwner, NotificationsMatchPackets,
                pipeVars, ownerVars, readerVars
<1>6. CASE BodyAccept
  <2>1. /\ rxThread = "select" /\ rxThread' = "notify"
        /\ UNCHANGED <<pipeVars, ownerVars, readerVars>>
    BY <1>6 DEF BodyAccept, ReadByte
  <2>2. Len(rxBuffer') = Len(rxBuffer) + 1
    BY <1>0, <1>6 DEF BodyAccept
  <2> QED
    BY <1>0, <2>1, <2>2
       DEF NotificationInv, ThreadMatchesOwner, NotificationsMatchPackets,
           pipeVars, ownerVars, readerVars
<1>7. CASE Notify \/ NotifyFails
  <2>1. /\ rxThread = "notify" /\ rxThread' = "poll"
        /\ UNCHANGED <<rxBuffer, owner, reader>>
        /\ \/ pipe' = pipe + 1 /\ faults' = faults
           \/ pipe' = pipe /\ faults' = faults + 1
    BY <1>7 DEF Notify, NotifyFails, ownerVars, readerVars
  <2> QED
    BY <1>0, <2>1 DEF NotificationInv, ThreadMatchesOwner,
                      NotificationsMatchPackets
<1>8. CASE Open
  BY <1>0, <1>8 DEF Open, NotificationInv, ThreadMatchesOwner,
                    NotificationsMatchPackets, pipeVars, readerVars
<1>9. CASE Close
  BY <1>0, <1>9 DEF Close, NotificationInv, ThreadMatchesOwner,
                    NotificationsMatchPackets, pipeVars, readerVars
<1>10. CASE Join
  BY <1>0, <1>10 DEF Join, NotificationInv, ThreadMatchesOwner,
                     NotificationsMatchPackets, pipeVars, readerVars
<1>15. CASE StopReader
  BY <1>0, <1>15 DEF StopReader, NotificationInv, ThreadMatchesOwner,
                     NotificationsMatchPackets, pipeVars, readerVars
<1>11. CASE TakeNotification
  BY <1>0, <1>11 DEF TakeNotification, NotificationInv, ThreadMatchesOwner,
                     NotificationsMatchPackets, ownerVars
<1>12. CASE Receive
  <2>1. rxBuffer # <<>>
    BY <1>0, <1>12 DEF Receive, NotificationInv, NotificationsMatchPackets
  <2> QED
    BY <1>0, <1>12, <2>1
       DEF Receive, NotificationInv, ThreadMatchesOwner,
           NotificationsMatchPackets, pipeVars, ownerVars
<1>13. CASE Pop
  <2>1. Len(rxBuffer') = Len(rxBuffer) - 1
    BY <1>0, <1>13 DEF Pop
  <2> QED
    BY <1>0, <1>13, <2>1
       DEF Pop, NotificationInv, ThreadMatchesOwner, NotificationsMatchPackets,
           pipeVars, ownerVars
<1>14. CASE UNCHANGED vars
  BY <1>14, NotificationUnchanged DEF vars
<1> QED
  BY <1>1, <1>2, <1>3, <1>4, <1>5, <1>6, <1>7, <1>8, <1>9, <1>10, <1>11,
     <1>12, <1>13, <1>14, <1>15
     DEF Next, RxThread, Reader, UpdateRxFSM

\* A notification is read only when its packet is in rxBuffer, and no packet
\* is left there unannounced unless a pipe write failed.
THEOREM NotificationsCorrect == Spec => []NotificationsMatchPackets
<1>1. Init => NotificationInv
  BY DEF Init, NotificationInv, ThreadMatchesOwner, NotificationsMatchPackets,
         InHand
<1>2. TypeOK /\ NotificationInv /\ [Next]_vars => NotificationInv'
  BY NotificationNext
<1>3. NotificationInv => NotificationsMatchPackets
  BY DEF NotificationInv
<1> QED
  BY <1>1, <1>2, <1>3, TypeCorrect, PTL DEF Spec

\* pop() never waits: receive() calls it only when there is a packet, and the
\* reader is the only one to take packets.
THEOREM PopNeverWaits == Spec => [](reader = "pop" => rxBuffer # <<>>)
<1>1. TypeOK /\ NotificationsMatchPackets => (reader = "pop" => rxBuffer # <<>>)
  <2> SUFFICES ASSUME TypeOK, NotificationsMatchPackets, reader = "pop"
               PROVE  rxBuffer # <<>>
    OBVIOUS
  <2>1. pipe \in Nat
    BY BoundAssumption DEF TypeOK, ReceiverTypeOK
  <2> QED
    BY <2>1 DEF NotificationsMatchPackets, InHand
<1> QED
  BY <1>1, TypeCorrect, NotificationsCorrect, PTL

-----------------------------------------------------------------------------
(***************************************************************************)
(* The link is a port to its reader.                                       *)
(***************************************************************************)

\* One more element of a prefix, and a prefix that is there already.
LEMMA PrefixGrows ==
  ASSUME NEW S, NEW q \in Seq(S), NEW m \in S, NEW n \in 0 .. Len(q)
  PROVE  /\ SubSeq(Append(q, m), 1, n) = SubSeq(q, 1, n)
         /\ n < Len(q) => SubSeq(q, 1, n + 1) = Append(SubSeq(q, 1, n), q[n + 1])
<1>1. /\ Append(q, m) \in Seq(S) /\ Len(Append(q, m)) = Len(q) + 1
      /\ \A i \in 1 .. Len(q) : Append(q, m)[i] = q[i]
      /\ Len(q) \in Nat /\ n \in Nat /\ n <= Len(q)
  OBVIOUS
<1>2. /\ SubSeq(Append(q, m), 1, n) \in Seq(S) /\ SubSeq(q, 1, n) \in Seq(S)
      /\ Len(SubSeq(Append(q, m), 1, n)) = n /\ Len(SubSeq(q, 1, n)) = n
      /\ \A i \in 1 .. n : SubSeq(q, 1, n)[i] = q[i]
      /\ \A i \in 1 .. n : SubSeq(Append(q, m), 1, n)[i] = Append(q, m)[i]
  BY <1>1
<1>3. SubSeq(Append(q, m), 1, n) = SubSeq(q, 1, n)
  BY <1>1, <1>2, SeqEqual
<1>4. ASSUME n < Len(q)
      PROVE  SubSeq(q, 1, n + 1) = Append(SubSeq(q, 1, n), q[n + 1])
  <2> DEFINE a == SubSeq(q, 1, n + 1)
             b == Append(SubSeq(q, 1, n), q[n + 1])
  <2>1. /\ a \in Seq(S) /\ Len(a) = n + 1
        /\ \A i \in 1 .. n + 1 : a[i] = q[i]
    BY <1>1, <1>4
  <2>2. q[n + 1] \in S
    BY <1>1, <1>4
  <2>3. /\ b \in Seq(S) /\ Len(b) = n + 1 /\ b[n + 1] = q[n + 1]
        /\ \A i \in 1 .. n : b[i] = SubSeq(q, 1, n)[i]
    BY <1>1, <1>2, <2>2
  <2>4. \A i \in 1 .. n + 1 : a[i] = b[i]
    BY <1>1, <1>2, <2>1, <2>3
  <2> QED  BY <2>1, <2>3, <2>4, SeqEqual
<1> QED  BY <1>3, <1>4

\* The prefix of what is left when the first is taken.
LEMMA PrefixShrinks ==
  ASSUME NEW S, NEW q \in Seq(S), NEW n \in 1 .. Len(q)
  PROVE  /\ SubSeq(q, 1, n) # <<>> /\ Head(SubSeq(q, 1, n)) = Head(q)
         /\ SubSeq(Tail(q), 1, n - 1) = Tail(SubSeq(q, 1, n))
<1> DEFINE p == SubSeq(q, 1, n)
           a == SubSeq(Tail(q), 1, n - 1)
<1>1. Len(q) \in Nat /\ n \in Nat /\ 1 <= n /\ n <= Len(q)
  OBVIOUS
<1>2. /\ p \in Seq(S) /\ Len(p) = n /\ \A i \in 1 .. n : p[i] = q[i]
  BY <1>1
<1>3. p # <<>> /\ Head(p) = p[1] /\ Head(q) = q[1]
  BY <1>1, <1>2
<1>4. /\ Tail(q) \in Seq(S) /\ Len(Tail(q)) = Len(q) - 1
      /\ \A i \in 1 .. Len(q) - 1 : Tail(q)[i] = q[i + 1]
  BY <1>1
<1>5. /\ Tail(p) \in Seq(S) /\ Len(Tail(p)) = n - 1
      /\ \A i \in 1 .. n - 1 : Tail(p)[i] = p[i + 1]
  BY <1>1, <1>2, <1>3
<1>6. /\ a \in Seq(S) /\ Len(a) = n - 1
      /\ \A i \in 1 .. n - 1 : a[i] = Tail(q)[i]
  BY <1>1, <1>4
<1>7. \A i \in 1 .. n - 1 : a[i] = Tail(p)[i]
  BY <1>1, <1>2, <1>4, <1>5, <1>6
<1>8. a = Tail(p)
  BY <1>5, <1>6, <1>7, SeqEqual
<1> QED  BY <1>1, <1>2, <1>3, <1>8

\* What the reader can know of is a prefix of rxBuffer.
LEMMA VisibleIsPrefix ==
  ASSUME TypeOK, NotificationsMatchPackets
  PROVE  /\ rxBuffer \in Seq(Message) /\ Noted \in 0 .. Len(rxBuffer)
         /\ Visible = SubSeq(rxBuffer, 1, Noted)
         /\ rxThread = "notify" => Noted < Len(rxBuffer)
         /\ reader # "select" => Noted # 0
<1>1. /\ rxBuffer \in Seq(Message) /\ Len(rxBuffer) \in Nat /\ pipe \in Nat
      /\ reader \in {"select", "receive", "pop"}
  BY BoundAssumption DEF TypeOK, ReceiverTypeOK
<1> QED
  BY <1>1 DEF Visible, Noted, NotificationsMatchPackets, InHand

\* Every step of the link is a step of the port, or none.
LEMMA PortStep ==
  ASSUME TypeOK, NotificationInv, [Next]_vars
  PROVE  [Port!Next]_Port!vars
<1>0. /\ rxBuffer \in Seq(Message) /\ Noted \in 0 .. Len(rxBuffer)
      /\ Visible = SubSeq(rxBuffer, 1, Noted)
      /\ rxThread = "notify" => Noted < Len(rxBuffer)
      /\ reader # "select" => Noted # 0
  BY VisibleIsPrefix DEF NotificationInv
<1>1. /\ rxBuffer' \in Seq(Message) /\ Noted' \in 0 .. Len(rxBuffer')
      /\ Visible' = SubSeq(rxBuffer', 1, Noted')
  <2>1. TypeOK' /\ NotificationsMatchPackets'
    BY TypeNext, NotificationNext DEF NotificationInv
  <2>2. /\ rxBuffer' \in Seq(Message) /\ Len(rxBuffer') \in Nat /\ pipe' \in Nat
        /\ reader' \in {"select", "receive", "pop"}
    BY <2>1, BoundAssumption DEF TypeOK, ReceiverTypeOK
  <2>3. Noted' \in Nat /\ Noted' <= Len(rxBuffer')
    <3>1. \A r, t : InHand(r, t) \in {0, 1}
      BY DEF InHand
    <3>2. PICK p \in Nat, held \in {0, 1} : Noted' = p + held
      BY <2>2, <3>1 DEF Noted
    <3>3. PICK due \in {0, 1} : Noted' + due <= Len(rxBuffer')
      BY <2>1, <3>1 DEF NotificationsMatchPackets, Noted
    <3>4. PICK n \in Nat : n = Noted'
      <4>1. p + held \in Nat
        OBVIOUS
      <4> QED  BY <3>2, <4>1
    <3>5. PICK l \in Nat : l = Len(rxBuffer')
      BY <2>2
    <3>6. n <= l
      BY <3>3, <3>4, <3>5
    <3> QED  BY <3>4, <3>5, <3>6
  <2>4. Visible' = SubSeq(rxBuffer', 1, Noted')
    BY <2>3 DEF Visible
  <2> QED  BY <2>2, <2>3, <2>4
<1>2. pipe \in Nat /\ reader \in {"select", "receive", "pop"}
  BY BoundAssumption DEF TypeOK, ReceiverTypeOK
<1>3. ASSUME UNCHANGED <<rxBuffer, pipe, reader, delivered>>
      PROVE  UNCHANGED Port!vars
  BY <1>3 DEF Port!vars, Visible, Noted, InHand
<1>4. ASSUME NEW m \in Message, Send(m) PROVE UNCHANGED Port!vars
  BY <1>3, <1>4 DEF Send, pipeVars, readerVars
<1>5. ASSUME NEW n \in Noise, GarbleByte(n) \/ SpuriousByte(n)
      PROVE  UNCHANGED Port!vars
  BY <1>3, <1>5 DEF GarbleByte, SpuriousByte, Advance, pipeVars, readerVars
<1>6. CASE WriteByte \/ LoseByte \/ Poll \/ SelectTimeout \/ SelectError
             \/ NotifyFails \/ Open \/ StopReader \/ Close \/ Join
  <2>1. UNCHANGED <<rxBuffer, pipe, reader, delivered>>
    BY <1>6
    DEF WriteByte, LoseByte, Advance, Poll, SelectTimeout, SelectError, NotifyFails,
        Open, StopReader, Close, Join, pipeVars, readerVars
  <2> QED  BY <1>3, <2>1
<1>7. CASE UpdateRxFSM /\ ~BodyAccept
  <2>1. UNCHANGED <<rxBuffer, pipe, reader, delivered>>
    BY <1>7
    DEF UpdateRxFSM, WaitForSync, BodyEscape, BodyByte, BodyResync, EscapeByte,
        EscapeResync, EscapeError, Extend, Step, ReadByte, pipeVars, readerVars
  <2> QED  BY <1>3, <2>1
<1>8. CASE BodyAccept
  <2>1. UNCHANGED <<pipe, reader, delivered>> /\ Noted' = Noted
    BY <1>8 DEF BodyAccept, ReadByte, pipeVars, readerVars, Noted, InHand
  <2>2. PICK m : rxBuffer' = Append(rxBuffer, m)
    BY <1>8 DEF BodyAccept
  <2>3. m \in Message
    <3>1. rxBuffer'[Len(rxBuffer) + 1] = m /\ Len(rxBuffer') = Len(rxBuffer) + 1
      BY <1>0, <2>2
    <3>2. Len(rxBuffer) \in Nat
      BY <1>0
    <3> QED  BY <1>1, <3>1, <3>2
  <2>4. Visible' = Visible
    BY <1>0, <1>1, <2>1, <2>2, <2>3, PrefixGrows
  <2> QED  BY <2>1, <2>4 DEF Port!vars
<1>9. CASE Notify
  <2>1. /\ UNCHANGED <<rxBuffer, reader, delivered>> /\ Noted' = Noted + 1
        /\ Noted < Len(rxBuffer)
    BY <1>0, <1>2, <1>9 DEF Notify, readerVars, Noted, InHand
  <2>2. rxBuffer[Noted + 1] \in Message
    BY <1>0, <2>1
  <2>3. Visible' = Append(Visible, rxBuffer[Noted + 1])
    BY <1>0, <1>1, <2>1, <2>2, PrefixGrows
  <2>4. Port!Arrive(rxBuffer[Noted + 1])
    BY <2>1, <2>3 DEF Port!Arrive
  <2> QED  BY <2>2, <2>4 DEF Port!Next
<1>10. CASE TakeNotification
  <2>1. /\ reader = "select" /\ reader' = "receive" /\ pipe > 0 /\ pipe' = pipe - 1
        /\ UNCHANGED <<rxBuffer, delivered>>
    BY <1>10 DEF TakeNotification
  <2>2. Noted' = Noted /\ Noted > 0
    BY <1>2, <2>1 DEF Noted, InHand
  <2>3. Visible' = Visible /\ Visible # <<>>
    BY <1>0, <1>1, <2>1, <2>2, PrefixShrinks
  <2> QED  BY <2>1, <2>3 DEF Port!Next, Port!Select
<1>11. CASE Receive
  <2>1. rxBuffer # <<>>
    BY <1>0, <1>11 DEF Receive
  <2>2. /\ reader = "receive" /\ reader' = "pop"
        /\ UNCHANGED <<rxBuffer, pipe, delivered>>
    BY <1>11, <2>1 DEF Receive, pipeVars
  <2>3. Visible' = Visible
    BY <1>0, <1>1, <2>2 DEF Noted, InHand
  <2> QED  BY <2>2, <2>3 DEF Port!vars
<1>12. CASE Pop
  <2>1. /\ reader = "pop" /\ reader' = "select" /\ pipe' = pipe
        /\ delivered' = Append(delivered, Head(rxBuffer)) /\ rxBuffer' = Tail(rxBuffer)
    BY <1>12 DEF Pop, pipeVars
  <2>2. Noted' = Noted - 1 /\ Noted \in 1 .. Len(rxBuffer)
    BY <1>0, <1>2, <2>1 DEF Noted, InHand
  <2>3. Visible # <<>> /\ Head(Visible) = Head(rxBuffer) /\ Visible' = Tail(Visible)
    BY <1>0, <1>1, <2>1, <2>2, PrefixShrinks
  <2> QED  BY <2>1, <2>3 DEF Port!Next, Port!Take
<1>13. CASE UNCHANGED vars
  BY <1>3, <1>13 DEF vars, pipeVars, readerVars
<1> QED
  BY <1>4, <1>5, <1>6, <1>7, <1>8, <1>9, <1>10, <1>11, <1>12, <1>13
  DEF Next, RxThread, Reader, UpdateRxFSM

\* To the reader the link is a port: for any packets, line errors, failing
\* system calls and cycles of open() and close(), each notification it reads
\* stands for one packet that is there, and taking it in two steps (the
\* notification, then the packet) lets nothing else be seen.
THEOREM LinkImplementsPort == Spec => ImplementsPort
<1>1. Init => Port!Init /\ NotificationInv
  <2> SUFFICES ASSUME Init PROVE Port!Init /\ NotificationInv
    OBVIOUS
  <2>1. NotificationInv
    BY DEF Init, NotificationInv, ThreadMatchesOwner, NotificationsMatchPackets,
           InHand
  <2>2. rxBuffer = <<>> /\ Noted = 0 /\ delivered = <<>> /\ reader = "select"
    BY DEF Init, Noted, InHand
  <2>3. Visible = <<>>
    BY <2>2 DEF Visible
  <2> QED  BY <2>1, <2>2, <2>3 DEF Port!Init
<1>2. TypeOK /\ NotificationInv /\ [Next]_vars => NotificationInv'
  BY NotificationNext
<1>3. TypeOK /\ NotificationInv /\ [Next]_vars => [Port!Next]_Port!vars
  BY PortStep
<1> QED
  BY <1>1, <1>2, <1>3, TypeCorrect, PTL DEF Spec, ImplementsPort, Port!Spec

=============================================================================
