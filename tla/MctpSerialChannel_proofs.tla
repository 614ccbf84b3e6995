---------------------- MODULE MctpSerialChannel_proofs ----------------------
(***************************************************************************)
(* MctpSerial implements FrameChannel: whatever bytes are lost, garbled or *)
(* added, the packets accepted are packets that were sent, in that order,  *)
(* each at most once.                                                      *)
(*                                                                         *)
(* The second FCS byte of a frame is its mark.  The argument follows the   *)
(* marks: a mark on the wire or in the frame under construction is the     *)
(* mark of a frame sent, marks keep the order of the frames, and those yet *)
(* to come are of later frames than every packet accepted.                 *)
(*                                                                         *)
(* The second half is about what errors cost: at most a packet each.  The  *)
(* argument plays the bytes on the wire to the receive FSM and keeps an    *)
(* account of the packets at every byte.                                   *)
(***************************************************************************)
EXTENDS MctpSerial_proofs, FiniteSetTheorems

-----------------------------------------------------------------------------
(***************************************************************************)
(* The invariant.  Below, s is the sequence of packets sent, n the number  *)
(* of those whose mark transmitFrame has passed, q and r are sequences of  *)
(* bytes and a is the sequence of packets accepted.                        *)
(***************************************************************************)

Mark(s, b, j) == b = FcsLo(Header(s[j]))

MarksSent(s, n, q) ==
    \A i \in DOMAIN q : q[i].k = "fcsLo" => \E j \in 1 .. n : Mark(s, q[i], j)

MarksAscend(s, n, q) ==
    \A i, k \in DOMAIN q : \A j, l \in 1 .. n :
        i < k /\ Mark(s, q[i], j) /\ Mark(s, q[k], l) => j < l

MarksBefore(s, n, q, r) ==
    \A i \in DOMAIN q, k \in DOMAIN r : \A j, l \in 1 .. n :
        Mark(s, q[i], j) /\ Mark(s, r[k], l) => j < l

PacketsSent(s, n, a) ==
    \A i \in DOMAIN a : \E j \in 1 .. n : a[i] = s[j]

PacketsBefore(s, n, a, q) ==
    \A i \in DOMAIN a, k \in DOMAIN q : \A j, l \in 1 .. n :
        a[i] = s[j] /\ Mark(s, q[k], l) => j < l

Order(s, n, q, r, a) ==
    /\ MarksSent(s, n, q) /\ MarksSent(s, n, r)
    /\ MarksAscend(s, n, q) /\ MarksAscend(s, n, r)
    /\ MarksBefore(s, n, q, r)
    /\ PacketsSent(s, n, a)
    /\ PacketsBefore(s, n, a, q) /\ PacketsBefore(s, n, a, r)

Distinct(s) == \A i, j \in DOMAIN s : s[i] = s[j] => i = j

\* The frames whose mark the sender has passed, all but possibly the last.
Passed ==
    IF txFrame = <<>> \/ txPos = Len(txFrame) THEN Len(sent) ELSE Len(sent) - 1

\* The frame under construction as far as it can still become a packet.
Live == IF rxState = "WAITING_FOR_SYNC" THEN <<>> ELSE rx_in_progress

SenderInv ==
    /\ Distinct(sent)
    /\ txFrame # <<>> => /\ sent # <<>>
                         /\ txFrame = Frame(sent[Len(sent)])

ChannelInv == SenderInv /\ Order(sent, Passed, Live, wire, Accepted)

-----------------------------------------------------------------------------
(***************************************************************************)
(* What the steps do to the order of the marks.                            *)
(***************************************************************************)

\* A byte leaves the wire.
LEMMA OrderTail ==
  ASSUME NEW s, NEW n \in Nat, NEW q \in Seq(Byte), NEW r \in Seq(Byte), NEW a,
         r # <<>>, Order(s, n, q, r, a)
  PROVE  Order(s, n, q, Tail(r), a)
<1>1. \A i \in DOMAIN Tail(r) : i + 1 \in DOMAIN r /\ Tail(r)[i] = r[i + 1]
  OBVIOUS
<1>2. \A i \in DOMAIN Tail(r) : i \in Nat
  OBVIOUS
<1>3. MarksSent(s, n, Tail(r))
  BY <1>1 DEF Order, MarksSent
<1>4. MarksAscend(s, n, Tail(r))
  BY <1>1, <1>2 DEF Order, MarksAscend
<1>5. MarksBefore(s, n, q, Tail(r)) /\ PacketsBefore(s, n, a, Tail(r))
  BY <1>1 DEF Order, MarksBefore, PacketsBefore
<1> QED
  BY <1>3, <1>4, <1>5 DEF Order

\* The frame under construction is given up, or starts again.
LEMMA OrderRestart ==
  ASSUME NEW s, NEW n \in Nat, NEW q, NEW r, NEW a, Order(s, n, q, r, a)
  PROVE  Order(s, n, <<>>, r, a) /\ Order(s, n, <<FRAME_CHAR>>, r, a)
<1>1. DOMAIN <<>> = {} /\ DOMAIN <<FRAME_CHAR>> = {1}
  OBVIOUS
<1>2. <<FRAME_CHAR>>[1] = FRAME_CHAR /\ \A j : ~Mark(s, FRAME_CHAR, j)
  BY DEF Mark, FRAME_CHAR, FcsLo
<1>3. Order(s, n, <<>>, r, a)
  BY <1>1 DEF Order, MarksSent, MarksAscend, MarksBefore, PacketsBefore
<1>4. MarksSent(s, n, <<FRAME_CHAR>>)
  BY <1>1, <1>2 DEF MarksSent, FRAME_CHAR
<1>5. /\ MarksAscend(s, n, <<FRAME_CHAR>>)
      /\ MarksBefore(s, n, <<FRAME_CHAR>>, r)
      /\ PacketsBefore(s, n, a, <<FRAME_CHAR>>)
  BY <1>1, <1>2 DEF MarksAscend, MarksBefore, PacketsBefore
<1> QED
  BY <1>3, <1>4, <1>5 DEF Order

\* A byte that is no mark is added to the frame under construction.
LEMMA OrderAppendPayload ==
  ASSUME NEW s, NEW n \in Nat, NEW q \in Seq(Byte), NEW r \in Seq(Byte), NEW a,
         NEW b \in Byte, b.k # "fcsLo", Order(s, n, q, r, a)
  PROVE  Order(s, n, Append(q, b), r, a) /\ Order(s, n, q, Append(r, b), a)
<1>1. \A j : ~Mark(s, b, j)
  BY DEF Mark, FcsLo
<1>2. ASSUME NEW t \in Seq(Byte)
      PROVE  \A i \in DOMAIN Append(t, b) :
                \/ i \in DOMAIN t /\ Append(t, b)[i] = t[i]
                \/ Append(t, b)[i] = b
  OBVIOUS
<1>3. ASSUME NEW t \in Seq(Byte), MarksSent(s, n, t), MarksAscend(s, n, t)
      PROVE  MarksSent(s, n, Append(t, b)) /\ MarksAscend(s, n, Append(t, b))
  BY <1>1, <1>2, <1>3 DEF MarksSent, MarksAscend
<1>4. MarksBefore(s, n, Append(q, b), r) /\ MarksBefore(s, n, q, Append(r, b))
  BY <1>1, <1>2 DEF Order, MarksBefore
<1>5. PacketsBefore(s, n, a, Append(q, b)) /\ PacketsBefore(s, n, a, Append(r, b))
  BY <1>1, <1>2 DEF Order, PacketsBefore
<1> QED
  BY <1>3, <1>4, <1>5 DEF Order

\* A byte goes from the wire to the frame under construction.
LEMMA OrderMove ==
  ASSUME NEW s, NEW n \in Nat, NEW q \in Seq(Byte), NEW r \in Seq(Byte), NEW a,
         r # <<>>, Order(s, n, q, r, a)
  PROVE  Order(s, n, Append(q, Head(r)), Tail(r), a)
<1> DEFINE p == Append(q, Head(r))
           t == Tail(r)
<1>1. \A i \in DOMAIN t : i \in Nat \ {0} /\ i + 1 \in DOMAIN r /\ t[i] = r[i + 1]
  OBVIOUS
<1>2. \A i \in DOMAIN p :
         \/ i \in DOMAIN q /\ p[i] = q[i] /\ i < Len(q) + 1
         \/ i = Len(q) + 1 /\ p[i] = r[1] /\ 1 \in DOMAIN r
  OBVIOUS
<1>3. Order(s, n, q, t, a)
  BY OrderTail
<1>4. Len(q) \in Nat /\ \A i \in DOMAIN q : i \in Nat
  OBVIOUS
<1> HIDE DEF p, t
<1>5. MarksSent(s, n, p)
  BY <1>2 DEF Order, MarksSent
<1>6. MarksAscend(s, n, p)
  <2> SUFFICES ASSUME NEW i \in DOMAIN p, NEW k \in DOMAIN p,
                      NEW j \in 1 .. n, NEW l \in 1 .. n,
                      i < k, Mark(s, p[i], j), Mark(s, p[k], l)
               PROVE  j < l
    BY DEF MarksAscend
  <2>1. i \in DOMAIN q /\ p[i] = q[i]
    BY <1>2, <1>4
  <2>2. CASE k \in DOMAIN q /\ p[k] = q[k]
    BY <2>1, <2>2 DEF Order, MarksAscend
  <2>3. CASE p[k] = r[1] /\ 1 \in DOMAIN r
    BY <2>1, <2>3 DEF Order, MarksBefore
  <2> QED
    BY <1>2, <2>2, <2>3
<1>7. MarksBefore(s, n, p, t)
  <2> SUFFICES ASSUME NEW i \in DOMAIN p, NEW k \in DOMAIN t,
                      NEW j \in 1 .. n, NEW l \in 1 .. n,
                      Mark(s, p[i], j), Mark(s, t[k], l)
               PROVE  j < l
    BY DEF MarksBefore
  <2>1. CASE i \in DOMAIN q /\ p[i] = q[i]
    BY <1>3, <2>1 DEF Order, MarksBefore
  <2>2. CASE p[i] = r[1] /\ 1 \in DOMAIN r
    <3>1. k + 1 \in DOMAIN r /\ t[k] = r[k + 1] /\ 1 < k + 1
      BY <1>1
    <3> QED
      BY <2>2, <3>1 DEF Order, MarksAscend
  <2> QED
    BY <1>2, <2>1, <2>2
<1>8. PacketsBefore(s, n, a, p)
  BY <1>2 DEF Order, PacketsBefore
<1> QED
  BY <1>3, <1>5, <1>6, <1>7, <1>8 DEF Order, p, t

\* Marks of different packets of the history are different.
LEMMA MarkUnique ==
  ASSUME NEW s \in Seq(Message), Distinct(s), NEW b,
         NEW j \in DOMAIN s, NEW l \in DOMAIN s, Mark(s, b, j), Mark(s, b, l)
  PROVE  j = l
<1>1. Header(s[j]) = Header(s[l])
  BY DEF Mark, FcsLo
<1>2. s[j] \in Message /\ s[l] \in Message
  OBVIOUS
<1>3. s[j] = s[l]
  BY <1>1, <1>2, HeaderInjective
<1> QED
  BY <1>3 DEF Distinct

\* The order is about the first n packets of the history only.
LEMMA OrderSend ==
  ASSUME NEW s, NEW t, NEW n \in Nat, NEW q, NEW r, NEW a,
         \A j \in 1 .. n : t[j] = s[j], Order(s, n, q, r, a)
  PROVE  Order(t, n, q, r, a)
<1>1. \A b : \A j \in 1 .. n : Mark(s, b, j) <=> Mark(t, b, j)
  BY DEF Mark
<1>2. MarksSent(t, n, q) /\ MarksSent(t, n, r)
  BY <1>1 DEF Order, MarksSent
<1>3. MarksAscend(t, n, q) /\ MarksAscend(t, n, r)
  BY <1>1 DEF Order, MarksAscend
<1>4. MarksBefore(t, n, q, r)
  BY <1>1 DEF Order, MarksBefore
<1>5. PacketsSent(t, n, a)
  BY DEF Order, PacketsSent
<1>6. PacketsBefore(t, n, a, q) /\ PacketsBefore(t, n, a, r)
  BY <1>1 DEF Order, PacketsBefore
<1> QED
  BY <1>2, <1>3, <1>4, <1>5, <1>6 DEF Order

\* The sender passes the mark of the next packet, which is not the mark of
\* any byte on its way.
LEMMA OrderPass ==
  ASSUME NEW s \in Seq(Message), Distinct(s), NEW n \in Nat, n + 1 \in DOMAIN s,
         NEW q, NEW r, NEW a, Order(s, n, q, r, a)
  PROVE  /\ Order(s, n + 1, q, r, a)
         /\ \A i \in DOMAIN q : ~Mark(s, q[i], n + 1)
         /\ \A i \in DOMAIN r : ~Mark(s, r[i], n + 1)
         /\ \A i \in DOMAIN a : a[i] # s[n + 1]
<1>1. 1 .. n \subseteq DOMAIN s /\ n + 1 \notin 1 .. n
  OBVIOUS
<1>2. 1 .. n + 1 = 1 .. n \cup {n + 1}
  OBVIOUS
<1>3. ASSUME NEW t, MarksSent(s, n, t), NEW i \in DOMAIN t, Mark(s, t[i], n + 1)
      PROVE  FALSE
  <2>1. t[i].k = "fcsLo"
    BY <1>3 DEF Mark, FcsLo
  <2>2. PICK j \in 1 .. n : Mark(s, t[i], j)
    BY <1>3, <2>1 DEF MarksSent
  <2>3. j = n + 1
    BY <1>1, <1>3, <2>2, MarkUnique
  <2> QED
    BY <1>1, <2>3
<1>4. \A i \in DOMAIN q : ~Mark(s, q[i], n + 1)
  BY <1>3 DEF Order
<1>5. \A i \in DOMAIN r : ~Mark(s, r[i], n + 1)
  BY <1>3 DEF Order
<1>6. \A i \in DOMAIN a : a[i] # s[n + 1]
  <2> SUFFICES ASSUME NEW i \in DOMAIN a, a[i] = s[n + 1]
               PROVE  FALSE
    OBVIOUS
  <2>1. PICK j \in 1 .. n : a[i] = s[j]
    BY DEF Order, PacketsSent
  <2> QED
    BY <1>1, <2>1 DEF Distinct
<1>7. MarksSent(s, n + 1, q) /\ MarksSent(s, n + 1, r)
  BY <1>2 DEF Order, MarksSent
<1>8. MarksAscend(s, n + 1, q) /\ MarksAscend(s, n + 1, r)
  BY <1>2, <1>4, <1>5 DEF Order, MarksAscend
<1>9. MarksBefore(s, n + 1, q, r)
  BY <1>2, <1>4, <1>5 DEF Order, MarksBefore
<1>10. PacketsSent(s, n + 1, a)
  BY <1>2 DEF Order, PacketsSent
<1>11. PacketsBefore(s, n + 1, a, q) /\ PacketsBefore(s, n + 1, a, r)
  BY <1>2, <1>4, <1>5, <1>6 DEF Order, PacketsBefore
<1> QED
  BY <1>4, <1>5, <1>6, <1>7, <1>8, <1>9, <1>10, <1>11 DEF Order

\* The sender passes the mark of the next packet and puts it on the wire.
LEMMA OrderPassMark ==
  ASSUME NEW s \in Seq(Message), Distinct(s), NEW n \in Nat, n + 1 \in DOMAIN s,
         NEW q, NEW r \in Seq(Byte), NEW a, Order(s, n, q, r, a),
         NEW b, Mark(s, b, n + 1)
  PROVE  Order(s, n + 1, q, Append(r, b), a)
<1> DEFINE t == Append(r, b)
<1>1. /\ Order(s, n + 1, q, r, a)
      /\ \A i \in DOMAIN q : ~Mark(s, q[i], n + 1)
      /\ \A i \in DOMAIN r : ~Mark(s, r[i], n + 1)
      /\ \A i \in DOMAIN a : a[i] # s[n + 1]
  BY OrderPass
<1>2. \A i \in DOMAIN t : \/ i \in DOMAIN r /\ t[i] = r[i]
                          \/ i = Len(r) + 1 /\ t[i] = b
  OBVIOUS
<1>3. Len(r) \in Nat /\ \A i \in DOMAIN r : i \in 1 .. Len(r)
  OBVIOUS
<1>4. 1 .. n + 1 \subseteq DOMAIN s
  OBVIOUS
<1>5. \A l \in 1 .. n + 1 : Mark(s, b, l) => l = n + 1
  BY <1>4, MarkUnique
<1>6. \A l \in 1 .. n + 1 : l # n + 1 => l < n + 1
  OBVIOUS
<1>7. n + 1 \in 1 .. n + 1
  OBVIOUS
<1> HIDE DEF t
<1>8. MarksSent(s, n + 1, t)
  BY <1>1, <1>2, <1>7 DEF Order, MarksSent
<1>9. MarksAscend(s, n + 1, t)
  <2> SUFFICES ASSUME NEW i \in DOMAIN t, NEW k \in DOMAIN t,
                      NEW j \in 1 .. n + 1, NEW l \in 1 .. n + 1,
                      i < k, Mark(s, t[i], j), Mark(s, t[k], l)
               PROVE  j < l
    BY DEF MarksAscend
  <2>1. CASE k \in DOMAIN r /\ t[k] = r[k]
    <3>1. i \in DOMAIN r /\ t[i] = r[i]
      BY <1>2, <1>3, <2>1
    <3> QED
      BY <1>1, <2>1, <3>1 DEF Order, MarksAscend
  <2>2. CASE k = Len(r) + 1 /\ t[k] = b
    <3>1. i \in DOMAIN r /\ t[i] = r[i]
      BY <1>2, <1>3, <2>2
    <3>2. l = n + 1 /\ j # n + 1
      BY <1>1, <1>5, <2>2, <3>1
    <3> QED
      BY <1>6, <3>2
  <2> QED
    BY <1>2, <2>1, <2>2
<1>10. MarksBefore(s, n + 1, q, t)
  BY <1>1, <1>2, <1>5, <1>6 DEF Order, MarksBefore
<1>11. PacketsBefore(s, n + 1, a, t)
  BY <1>1, <1>2, <1>5, <1>6 DEF Order, PacketsBefore
<1> QED
  BY <1>1, <1>8, <1>9, <1>10, <1>11 DEF Order, t

\* A valid frame ends: its packet was sent, after every packet accepted so far
\* and before every mark on the wire.
LEMMA OrderAccept ==
  ASSUME NEW s \in Seq(Message), Distinct(s), NEW n \in 0 .. Len(s),
         NEW q \in Seq(Byte), NEW r, NEW a \in Seq(Message),
         Order(s, n, q, r, a), ValidRx(Append(q, FRAME_CHAR))
  PROVE  LET p == Packet(Append(q, FRAME_CHAR)) IN
         /\ Order(s, n, <<>>, r, Append(a, p))
         /\ \E j \in 1 .. n : /\ p = s[j]
                             /\ \A i \in DOMAIN a : \A l \in 1 .. n :
                                   a[i] = s[l] => l < j
<1> DEFINE f == Append(q, FRAME_CHAR)
           p == Packet(f)
           e == Append(a, p)
<1>1. FRAME_CHAR \in Byte
  BY SpecialBytes
<1>2. f \in Seq(Byte) /\ Len(f) = Len(q) + 1 /\ Len(q) \in Nat
  BY <1>1
<1>3. p \in Message /\ f[Len(f) - 1] = FcsLo(Header(p))
  BY <1>2, ValidFrame
<1>4. Len(q) >= 6
  <2>1. Len(f) >= MinFrame
    BY DEF ValidRx
  <2> QED
    BY <1>2, <2>1, BoundAssumption
<1>5. Len(q) \in DOMAIN q /\ q[Len(q)] = FcsLo(Header(p))
  BY <1>2, <1>3, <1>4
<1>6. PICK j \in 1 .. n : Mark(s, q[Len(q)], j)
  BY <1>5 DEF Order, MarksSent, FcsLo
<1>7. j \in DOMAIN s /\ 1 .. n \subseteq DOMAIN s
  OBVIOUS
<1>8. p = s[j]
  <2>1. Header(p) = Header(s[j]) /\ s[j] \in Message
    BY <1>5, <1>6, <1>7 DEF Mark, FcsLo
  <2> QED
    BY <1>3, <2>1, HeaderInjective
<1>9. \A i \in DOMAIN a : \A l \in 1 .. n : a[i] = s[l] => l < j
  BY <1>5, <1>6 DEF Order, PacketsBefore
<1>10. \A i \in DOMAIN e : (i \in DOMAIN a /\ e[i] = a[i]) \/ e[i] = p
  OBVIOUS
<1>11. \A l \in 1 .. n : p = s[l] => l = j
  BY <1>7, <1>8 DEF Distinct
<1> HIDE DEF f, p, e
<1>12. PacketsSent(s, n, e)
  BY <1>8, <1>10 DEF Order, PacketsSent
<1>13. PacketsBefore(s, n, e, r)
  BY <1>5, <1>6, <1>10, <1>11 DEF Order, PacketsBefore, MarksBefore
<1>14. Order(s, n, <<>>, r, a)
  BY OrderRestart
<1>15. PacketsBefore(s, n, e, <<>>)
  BY DEF PacketsBefore
<1>16. Order(s, n, <<>>, r, e)
  BY <1>12, <1>13, <1>14, <1>15 DEF Order
<1> QED
  BY <1>8, <1>9, <1>16 DEF f, p, e

-----------------------------------------------------------------------------
(***************************************************************************)
(* The invariant is kept.                                                  *)
(***************************************************************************)

\* Passed counts packets of the history.
LEMMA PassedRange ==
  ASSUME TypeOK, SenderInv
  PROVE  Passed \in 0 .. Len(sent) /\ Len(sent) \in Nat /\ sent \in Seq(Message)
<1>1. sent \in Seq(Message) /\ Len(sent) \in Nat
  BY DEF TypeOK, SenderTypeOK
<1>2. txFrame # <<>> => Len(sent) >= 1
  BY <1>1 DEF SenderInv
<1> QED
  BY <1>1, <1>2 DEF Passed

\* Giving a packet to send() adds a frame whose mark is yet to come.
LEMMA SendSender ==
  ASSUME TypeOK, SenderInv, NEW m \in Message, Send(m)
  PROVE  SenderInv' /\ Passed' = Passed
<1>1. sent \in Seq(Message) /\ Len(sent) \in Nat
  BY DEF TypeOK, SenderTypeOK
<1>2. sent' = Append(sent, m) /\ txFrame' = Frame(m) /\ txFrame = <<>>
  BY DEF Send
<1>3. Len(sent') = Len(sent) + 1 /\ sent'[Len(sent')] = m
  BY <1>1, <1>2
<1>4. Len(Frame(m)) # 1 /\ Frame(m) # <<>>
  <2>1. Len(Frame(m)) = Len(m) + 6 /\ Len(m) \in Nat
    BY FrameShape, MessageIsSeq
  <2>2. Frame(m) = <<>> => Len(Frame(m)) = 0
    OBVIOUS
  <2> QED
    BY <2>1, <2>2
<1>5. txPos' = 1
  BY <1>2 DEF TypeOK, SenderTypeOK, Send
<1>6. Distinct(sent')
  BY <1>1, <1>2 DEF SenderInv, Distinct, Send
<1>7. SenderInv'
  BY <1>2, <1>3, <1>6 DEF SenderInv
<1>8. Passed = Len(sent)
  BY <1>2 DEF Passed
<1>9. Passed' = Len(sent') - 1
  <2>1. txFrame' # <<>> /\ txPos' # Len(txFrame')
    BY <1>2, <1>4, <1>5
  <2> QED
    BY <2>1 DEF Passed
<1> QED
  BY <1>1, <1>3, <1>7, <1>8, <1>9

\* Writing a byte passes the mark of the current frame, or no mark at all.
LEMMA AdvanceSender ==
  ASSUME TypeOK, SenderInv, txFrame # <<>>, Advance
  PROVE  /\ SenderInv' /\ sent' = sent /\ NextByte \in Byte
         /\ \/ Passed' = Passed /\ NextByte.k # "fcsLo"
            \/ /\ Passed' = Passed + 1 /\ Passed + 1 \in DOMAIN sent
               /\ Mark(sent, NextByte, Passed + 1)
<1> DEFINE m == sent[Len(sent)]
<1>1. /\ sent \in Seq(Message) /\ Len(sent) \in Nat \ {0}
      /\ Len(sent) \in DOMAIN sent /\ m \in Message /\ txFrame = Frame(m)
  BY DEF TypeOK, SenderTypeOK, SenderInv
<1>2. Len(txFrame) = Len(m) + 6 /\ Len(m) \in Nat
  BY <1>1, FrameShape, MessageIsSeq
<1>3. txPos \in 1 .. Len(txFrame)
  BY <1>2 DEF TypeOK, SenderTypeOK
<1>4. sent' = sent
  BY DEF Advance
<1>5. txFrame' = txFrame \/ txFrame' = <<>>
  BY DEF Advance
<1>6. SenderInv'
  BY <1>4, <1>5 DEF SenderInv
<1> HIDE DEF m
<1>7. /\ NextByte \in Byte
      /\ NextByte.k = "fcsLo" => /\ txPos = Len(txFrame) - 1
                                /\ NextByte = FcsLo(Header(m))
                                /\ ~MustEscape
  BY <1>1, <1>3, NextByteShape
<1>8. CASE MustEscape /\ ~txEscaped
  <2>1. txFrame' = txFrame /\ txPos' = txPos
    BY <1>8 DEF Advance
  <2>2. Passed' = Passed
    BY <2>1, <1>4 DEF Passed
  <2> QED
    BY <2>2, <1>4, <1>6, <1>7, <1>8
<1>9. CASE ~(MustEscape /\ ~txEscaped) /\ txPos = Len(txFrame)
  <2>1. txFrame' = <<>>
    BY <1>9 DEF Advance
  <2>2. Passed' = Passed
    BY <2>1, <1>4, <1>9 DEF Passed
  <2>3. NextByte.k # "fcsLo"
    BY <1>2, <1>7, <1>9
  <2> QED
    BY <2>2, <2>3, <1>4, <1>6, <1>7
<1>10. CASE ~(MustEscape /\ ~txEscaped) /\ txPos = Len(txFrame) - 1
  <2>1. txPos # Len(txFrame)
    BY <1>2, <1>10
  <2>2. txFrame' = txFrame /\ txPos' = txPos + 1
    BY <1>10, <2>1 DEF Advance
  <2>3. txPos' = Len(txFrame)
    BY <1>2, <1>10, <2>2
  <2>4. Passed' = Len(sent) /\ Passed = Len(sent) - 1
    BY <1>4, <2>1, <2>2, <2>3 DEF Passed
  <2>5. txFrame[txPos] = FcsLo(Header(m))
    <3>1. txPos = Len(m) + 5
      BY <1>2, <1>10
    <3> QED
      BY <1>1, <3>1, FrameShape
  <2>6. ~MustEscape
    BY <2>5 DEF MustEscape, Escapable, FcsLo, FRAME_CHAR, ESCAPE_CHAR
  <2>7. NextByte = FcsLo(Header(m))
    BY <2>5, <2>6 DEF NextByte
  <2>8. Passed + 1 = Len(sent)
    BY <1>1, <2>4
  <2>9. Mark(sent, NextByte, Passed + 1)
    BY <2>7, <2>8 DEF Mark, m
  <2> QED
    BY <2>4, <2>8, <2>9, <1>1, <1>4, <1>6, <1>7
<1>11. CASE /\ ~(MustEscape /\ ~txEscaped)
            /\ txPos # Len(txFrame) /\ txPos # Len(txFrame) - 1
  <2>1. txFrame' = txFrame /\ txPos' = txPos + 1
    BY <1>11 DEF Advance
  <2>2. txPos' # Len(txFrame)
    BY <1>2, <1>3, <1>11, <2>1
  <2>3. Passed' = Passed
    BY <1>4, <1>11, <2>1, <2>2 DEF Passed
  <2> QED
    BY <2>3, <1>4, <1>6, <1>7, <1>11
<1> QED
  BY <1>8, <1>9, <1>10, <1>11

\* Steps that leave the sender alone.
LEMMA SenderUnchanged ==
  ASSUME SenderInv, UNCHANGED txVars
  PROVE  SenderInv' /\ Passed' = Passed /\ sent' = sent
<1>1. sent' = sent /\ txFrame' = txFrame /\ txPos' = txPos
  BY DEF txVars
<1> QED
  BY <1>1 DEF SenderInv, Passed

\* Steps that touch neither the line nor what is accepted.
LEMMA ChannelUnchanged ==
  ASSUME ChannelInv, UNCHANGED <<txVars, wire, fsmVars>>, Accepted' = Accepted
  PROVE  ChannelInv'
<1>1. SenderInv' /\ Passed' = Passed /\ sent' = sent
  BY SenderUnchanged DEF ChannelInv
<1>2. wire' = wire /\ Live' = Live
  BY DEF fsmVars, Live
<1> QED
  BY <1>1, <1>2 DEF ChannelInv

\* Steps of the FSM that end no valid frame.
LEMMA StepChannel ==
  ASSUME TypeOK, ChannelInv, NEW s, NEW f, Step(s, f),
         Order(sent, Passed, IF s = "WAITING_FOR_SYNC" THEN <<>> ELSE f,
               Tail(wire), Accepted)
  PROVE  ChannelInv' /\ Accepted' = Accepted /\ sent' = sent
<1>1. UNCHANGED txVars /\ wire' = Tail(wire)
  BY DEF Step, ReadByte
<1>2. SenderInv' /\ Passed' = Passed /\ sent' = sent
  BY <1>1, SenderUnchanged DEF ChannelInv
<1>3. Live' = IF s = "WAITING_FOR_SYNC" THEN <<>> ELSE f
  BY DEF Step, Live
<1>4. Accepted' = Accepted
  BY DEF Step, ReadByte, Accepted, readerVars
<1> QED
  BY <1>1, <1>2, <1>3, <1>4 DEF ChannelInv

\* The steps of updateRxFSM that end no valid frame.
LEMMA FsmChannel ==
  ASSUME TypeOK, ChannelInv, UpdateRxFSM, ~BodyAccept
  PROVE  ChannelInv' /\ Accepted' = Accepted /\ sent' = sent
<1> DEFINE O(q, r) == Order(sent, Passed, q, r, Accepted)
<1>1. Passed \in Nat
  BY PassedRange DEF ChannelInv
<1>2. /\ wire \in Seq(Byte) /\ rx_in_progress \in Seq(Byte)
      /\ Live \in Seq(Byte) /\ wire # <<>>
  <2>1. <<>> \in Seq(Byte)
    OBVIOUS
  <2> QED
    BY <2>1 DEF TypeOK, LineTypeOK, UpdateRxFSM, Live
<1>3. Head(wire) \in Byte /\ Tail(wire) \in Seq(Byte)
  BY <1>2
<1>4. O(Live, wire)
  BY DEF ChannelInv
<1>5. O(Live, Tail(wire))
  BY <1>1, <1>2, <1>4, OrderTail
<1>6. O(<<>>, Tail(wire)) /\ O(<<FRAME_CHAR>>, Tail(wire))
  BY <1>1, <1>5, OrderRestart
<1>7. O(Append(Live, Head(wire)), Tail(wire))
  BY <1>1, <1>2, <1>4, OrderMove
<1>8. FRAME_CHAR \in PayloadByte /\ ESCAPE_CHAR \in PayloadByte
  BY SpecialBytes
<1>9. \A b \in PayloadByte : O(Append(Live, b), Tail(wire))
  <2> SUFFICES ASSUME NEW b \in PayloadByte
               PROVE  O(Append(Live, b), Tail(wire))
    OBVIOUS
  <2>1. b \in Byte /\ b.k # "fcsLo"
    BY PayloadKind
  <2> QED
    BY <1>1, <1>2, <1>3, <1>5, <2>1, OrderAppendPayload
<1> HIDE DEF O
<1>10. ASSUME NEW s, NEW f, Step(s, f),
              s = "WAITING_FOR_SYNC" \/ O(f, Tail(wire))
       PROVE  ChannelInv' /\ Accepted' = Accepted /\ sent' = sent
  <2>1. O(IF s = "WAITING_FOR_SYNC" THEN <<>> ELSE f, Tail(wire))
    BY <1>6, <1>10
  <2> QED
    BY <1>10, <2>1, StepChannel DEF O
<1>11. ASSUME NEW b, Extend(b), O(Append(Live, b), Tail(wire)),
              rxState # "WAITING_FOR_SYNC"
       PROVE  ChannelInv' /\ Accepted' = Accepted /\ sent' = sent
  <2>1. Live = rx_in_progress
    BY <1>11 DEF Live
  <2>2. PICK s : Step(s, Append(rx_in_progress, b))
    BY <1>11 DEF Extend
  <2> QED
    BY <1>10, <1>11, <2>1, <2>2
<1>12. CASE WaitForSync
  BY <1>6, <1>10, <1>12 DEF WaitForSync
<1>13. CASE BodyEscape
  <2>1. Live = rx_in_progress /\ Step("ESCAPE", rx_in_progress)
    BY <1>13 DEF BodyEscape, Live
  <2> QED
    BY <1>5, <1>10, <2>1
<1>14. CASE BodyByte
  <2>1. Extend(Head(wire)) /\ rxState = "BODY"
    BY <1>14 DEF BodyByte
  <2> QED
    BY <1>7, <1>11, <2>1
<1>15. CASE BodyResync
  BY <1>6, <1>10, <1>15 DEF BodyResync
<1>16. CASE EscapeByte
  <2>1. Extend(Unescaped(Head(wire))) /\ rxState = "ESCAPE"
    BY <1>16 DEF EscapeByte
  <2>2. Unescaped(Head(wire)) \in PayloadByte
    BY <1>8 DEF Unescaped
  <2> QED
    BY <1>9, <1>11, <2>1, <2>2
<1>17. CASE EscapeResync
  BY <1>6, <1>10, <1>17 DEF EscapeResync
<1>18. CASE EscapeError
  BY <1>10, <1>18 DEF EscapeError
<1> QED
  BY <1>12, <1>13, <1>14, <1>15, <1>16, <1>17, <1>18 DEF UpdateRxFSM

\* The end of a valid frame: its packet was sent, later than every packet
\* accepted before.
LEMMA AcceptChannel ==
  ASSUME TypeOK, ChannelInv, BodyAccept
  PROVE  /\ ChannelInv' /\ sent' = sent
         /\ \E j \in 1 .. Passed :
               /\ Accepted' = Append(Accepted, sent[j])
               /\ \A i \in DOMAIN Accepted : \A l \in 1 .. Passed :
                     Accepted[i] = sent[l] => l < j
<1> DEFINE p == Packet(Append(rx_in_progress, FRAME_CHAR))
<1>1. /\ Passed \in 0 .. Len(sent) /\ Passed \in Nat /\ sent \in Seq(Message)
      /\ Distinct(sent)
  BY PassedRange DEF ChannelInv, SenderInv
<1>2. /\ wire \in Seq(Byte) /\ rx_in_progress \in Seq(Byte)
      /\ delivered \in Seq(Message) /\ rxBuffer \in Seq(Message)
  BY DEF TypeOK, LineTypeOK, ReceiverTypeOK
<1>3. Live = rx_in_progress /\ wire # <<>>
  BY DEF Live, BodyAccept, ReadByte
<1>4. Accepted \in Seq(Message)
  BY <1>2 DEF Accepted
<1>5. Order(sent, Passed, rx_in_progress, wire, Accepted)
  BY <1>3 DEF ChannelInv
<1>6. Order(sent, Passed, rx_in_progress, Tail(wire), Accepted)
  BY <1>1, <1>2, <1>3, <1>5, OrderTail
<1>7. ValidRx(Append(rx_in_progress, FRAME_CHAR))
  BY DEF BodyAccept
<1>8. /\ Order(sent, Passed, <<>>, Tail(wire), Append(Accepted, p))
      /\ \E j \in 1 .. Passed :
            /\ p = sent[j]
            /\ \A i \in DOMAIN Accepted : \A l \in 1 .. Passed :
                  Accepted[i] = sent[l] => l < j
  BY <1>1, <1>2, <1>4, <1>6, <1>7, OrderAccept
<1>9. p \in Message
  <2>1. PICK j \in 1 .. Passed : p = sent[j]
    BY <1>8
  <2> QED
    BY <1>1, <2>1
<1>10. Accepted' = Append(Accepted, p)
  <2>1. rxBuffer' = Append(rxBuffer, p) /\ delivered' = delivered
    BY DEF BodyAccept, ReadByte, readerVars
  <2> HIDE DEF p
  <2>2. delivered \o Append(rxBuffer, p) = Append(delivered \o rxBuffer, p)
    BY <1>2, <1>9
  <2> QED
    BY <2>1, <2>2 DEF Accepted
<1>11. wire' = Tail(wire) /\ Live' = <<>> /\ UNCHANGED txVars
  BY DEF BodyAccept, ReadByte, Live
<1>12. SenderInv' /\ Passed' = Passed /\ sent' = sent
  BY <1>11, SenderUnchanged DEF ChannelInv
<1>13. ChannelInv'
  BY <1>8, <1>10, <1>11, <1>12 DEF ChannelInv
<1> QED
  BY <1>8, <1>10, <1>12, <1>13

\* Pop moves a packet from rxBuffer to what is delivered.
LEMMA PopAccepted ==
  ASSUME TypeOK, Pop
  PROVE  Accepted' = Accepted
<1>1. /\ rxBuffer \in Seq(Message) /\ rxBuffer # <<>>
      /\ delivered \in Seq(Message)
  BY DEF TypeOK, ReceiverTypeOK, Pop
<1>2. delivered' = Append(delivered, Head(rxBuffer)) /\ rxBuffer' = Tail(rxBuffer)
  BY DEF Pop
<1>3. Append(delivered, Head(rxBuffer)) \o Tail(rxBuffer) = delivered \o rxBuffer
  BY <1>1
<1> QED
  BY <1>2, <1>3 DEF Accepted

\* The steps that accept no packet and send none.
QuietStep == ChannelInv' /\ Accepted' = Accepted /\ sent' = sent

\* The sender writes, or loses, a byte.
LEMMA SenderChannel ==
  ASSUME TypeOK, ChannelInv,
         WriteByte \/ LoseByte \/ (\E n \in Noise : GarbleByte(n) \/ SpuriousByte(n))
  PROVE  QuietStep
<1> DEFINE O(n, r) == Order(sent, n, Live, r, Accepted)
<1>1. /\ Passed \in Nat /\ sent \in Seq(Message) /\ Distinct(sent)
      /\ SenderInv /\ O(Passed, wire)
  BY PassedRange DEF ChannelInv, SenderInv
<1>2. /\ wire \in Seq(Byte) /\ Live \in Seq(Byte)
  <2>1. <<>> \in Seq(Byte)
    OBVIOUS
  <2> QED
    BY <2>1 DEF TypeOK, LineTypeOK, Live
<1>3. Live' = Live /\ Accepted' = Accepted
  BY DEF WriteByte, LoseByte, GarbleByte, SpuriousByte, Advance, fsmVars, Live,
         Accepted, readerVars
<1>4. ASSUME NEW n \in Noise
      PROVE  Append(wire, n) \in Seq(Byte) /\ O(Passed, Append(wire, n))
  <2>1. n \in Byte /\ n.k # "fcsLo"
    BY MessageAssumption, PayloadKind
  <2>2. Append(wire, n) \in Seq(Byte)
    BY <1>2, <2>1
  <2>3. O(Passed, Append(wire, n))
    BY <1>1, <1>2, <2>1, OrderAppendPayload
  <2> QED
    BY <2>2, <2>3
<1>5. ASSUME SenderInv', sent' = sent, O(Passed', wire')
      PROVE  QuietStep
  BY <1>3, <1>5 DEF QuietStep, ChannelInv
\* Whatever happens to the byte itself, the sender moves on.
<1>6. ASSUME txFrame # <<>>, Advance, NEW r \in Seq(Byte), O(Passed, r), wire' = r
      PROVE  QuietStep
  <2>1. /\ SenderInv' /\ sent' = sent
        /\ \/ Passed' = Passed
           \/ Passed' = Passed + 1 /\ Passed + 1 \in DOMAIN sent
    BY <1>1, <1>6, AdvanceSender
  <2>2. Passed + 1 \in DOMAIN sent => O(Passed + 1, r)
    BY <1>1, <1>6, OrderPass
  <2>3. O(Passed', wire')
    BY <1>6, <2>1, <2>2
  <2> QED
    BY <1>5, <2>1, <2>3
<1>7. CASE WriteByte
  <2>1. txFrame # <<>> /\ Advance /\ wire' = Append(wire, NextByte)
    BY <1>7 DEF WriteByte
  <2>2. /\ SenderInv' /\ sent' = sent /\ NextByte \in Byte
        /\ \/ Passed' = Passed /\ NextByte.k # "fcsLo"
           \/ /\ Passed' = Passed + 1 /\ Passed + 1 \in DOMAIN sent
              /\ Mark(sent, NextByte, Passed + 1)
    BY <1>1, <2>1, AdvanceSender
  <2>3. CASE Passed' = Passed /\ NextByte.k # "fcsLo"
    <3>1. O(Passed, Append(wire, NextByte))
      BY <1>1, <1>2, <2>2, <2>3, OrderAppendPayload
    <3> QED
      BY <1>5, <2>1, <2>2, <2>3, <3>1
  <2>4. CASE /\ Passed' = Passed + 1 /\ Passed + 1 \in DOMAIN sent
             /\ Mark(sent, NextByte, Passed + 1)
    <3>1. O(Passed + 1, Append(wire, NextByte))
      BY <1>1, <1>2, <2>4, OrderPassMark
    <3> QED
      BY <1>5, <2>1, <2>2, <2>4, <3>1
  <2> QED
    BY <2>2, <2>3, <2>4
<1>8. CASE LoseByte
  BY <1>1, <1>2, <1>6, <1>8 DEF LoseByte
<1>9. ASSUME NEW n \in Noise, GarbleByte(n)
      PROVE  QuietStep
  BY <1>4, <1>6, <1>9 DEF GarbleByte
<1>10. ASSUME NEW n \in Noise, SpuriousByte(n)
       PROVE  QuietStep
  <2>1. wire' = Append(wire, n) /\ UNCHANGED txVars
    BY <1>10 DEF SpuriousByte
  <2>2. SenderInv' /\ Passed' = Passed /\ sent' = sent
    BY <1>1, <2>1, SenderUnchanged
  <2> QED
    BY <1>4, <1>5, <2>1, <2>2
<1> QED
  BY <1>7, <1>8, <1>9, <1>10

\* A packet is given to send().
LEMMA SendChannel ==
  ASSUME TypeOK, ChannelInv, NEW m \in Message, Send(m)
  PROVE  ChannelInv' /\ Accepted' = Accepted
<1>1. Passed \in 0 .. Len(sent) /\ Passed \in Nat /\ sent \in Seq(Message)
  BY PassedRange DEF ChannelInv
<1>2. SenderInv' /\ Passed' = Passed
  BY SendSender DEF ChannelInv
<1>3. sent' = Append(sent, m) /\ wire' = wire /\ Live' = Live /\ Accepted' = Accepted
  BY DEF Send, wireVars, fsmVars, readerVars, Live, Accepted
<1>4. \A j \in 1 .. Passed : sent'[j] = sent[j]
  BY <1>1, <1>3
<1>5. Order(sent', Passed, Live, wire, Accepted)
  BY <1>1, <1>4, OrderSend DEF ChannelInv
<1> QED
  BY <1>2, <1>3, <1>5 DEF ChannelInv

\* The steps of the other actors, and of the rx thread outside the FSM.
LEMMA OtherChannel ==
  ASSUME TypeOK, ChannelInv,
         \/ Poll \/ SelectTimeout \/ SelectError \/ Notify \/ NotifyFails
         \/ Open \/ StopReader \/ Close \/ Join \/ Reader
         \/ UNCHANGED vars
  PROVE  QuietStep
<1>1. ASSUME UNCHANGED <<txVars, wire, fsmVars>>, Accepted' = Accepted
      PROVE  QuietStep
  BY <1>1, ChannelUnchanged DEF QuietStep, txVars
<1>2. CASE Poll \/ SelectTimeout \/ SelectError \/ Notify \/ NotifyFails
  BY <1>1, <1>2 DEF Poll, SelectTimeout, SelectError, Notify, NotifyFails,
                    wireVars, readerVars, Accepted
<1>3. CASE Open \/ StopReader \/ Close
  BY <1>1, <1>3 DEF Open, StopReader, Close, wireVars, readerVars, Accepted
<1>4. CASE TakeNotification \/ Receive
  BY <1>1, <1>4 DEF TakeNotification, Receive, wireVars, Accepted
<1>5. CASE Pop
  <2>1. UNCHANGED <<txVars, wire, fsmVars>>
    BY <1>5 DEF Pop, wireVars
  <2> QED
    BY <1>1, <1>5, <2>1, PopAccepted
<1>6. CASE UNCHANGED vars
  BY <1>1, <1>6 DEF vars, wireVars, readerVars, Accepted
<1>7. CASE Join
  <2>1. /\ UNCHANGED txVars /\ Accepted' = Accepted /\ UNCHANGED fsmVars
        /\ wire' = wire \/ wire' = <<>>
    BY <1>7 DEF Join, wireVars, readerVars, Accepted
  <2>2. CASE wire' = wire
    BY <1>1, <2>1, <2>2
  <2>3. CASE wire' = <<>>
    <3>1. SenderInv' /\ Passed' = Passed /\ sent' = sent
      BY <2>1, SenderUnchanged DEF ChannelInv
    <3>2. Live' = Live
      BY <2>1 DEF fsmVars, Live
    <3>3. Order(sent, Passed, Live, <<>>, Accepted)
      BY DEF ChannelInv, Order, MarksSent, MarksAscend, MarksBefore,
             PacketsBefore
    <3> QED
      BY <2>1, <2>3, <3>1, <3>2, <3>3 DEF QuietStep, ChannelInv
  <2> QED
    BY <2>1, <2>2, <2>3
<1> QED
  BY <1>2, <1>3, <1>4, <1>5, <1>6, <1>7 DEF Reader

\* Every step sends a packet, accepts one that is next in order, or neither.
LEMMA ChannelCases ==
  ASSUME TypeOK, ChannelInv, [Next]_vars
  PROVE  /\ ChannelInv'
         /\ \/ QuietStep
            \/ \E m \in Message : Send(m) /\ Accepted' = Accepted
            \/ BodyAccept
<1>1. ASSUME NEW m \in Message, Send(m)
      PROVE  ChannelInv' /\ Send(m) /\ Accepted' = Accepted
  BY <1>1, SendChannel
<1>2. CASE \/ WriteByte \/ LoseByte
           \/ \E n \in Noise : GarbleByte(n) \/ SpuriousByte(n)
  BY <1>2, SenderChannel DEF QuietStep
<1>3. CASE BodyAccept
  BY <1>3, AcceptChannel
<1>4. CASE UpdateRxFSM /\ ~BodyAccept
  BY <1>4, FsmChannel DEF QuietStep
<1>5. CASE \/ Poll \/ SelectTimeout \/ SelectError \/ Notify \/ NotifyFails
           \/ Open \/ StopReader \/ Close \/ Join \/ Reader
           \/ UNCHANGED vars
  BY <1>5, OtherChannel DEF QuietStep
<1> QED
  BY <1>1, <1>2, <1>3, <1>4, <1>5 DEF Next, RxThread

\* The invariant holds before anything is sent.
LEMMA ChannelInit == Init => ChannelInv
<1> SUFFICES ASSUME Init PROVE ChannelInv
  OBVIOUS
<1>1. SenderInv
  BY DEF Init, SenderInv, Distinct
<1>2. Accepted = <<>> /\ Live = <<>> /\ wire = <<>>
  BY DEF Init, Accepted, Live
<1>3. Order(sent, Passed, <<>>, <<>>, <<>>)
  BY DEF Order, MarksSent, MarksAscend, MarksBefore, PacketsSent, PacketsBefore
<1> QED
  BY <1>1, <1>2, <1>3 DEF ChannelInv

-----------------------------------------------------------------------------
(***************************************************************************)
(* The refinement.                                                         *)
(***************************************************************************)

\* In a history of distinct packets the cursor is the place of the last
\* packet accepted.
LEMMA LastIndexOf ==
  ASSUME NEW s, Distinct(s), NEW a, a # <<>>,
         NEW j \in DOMAIN s, s[j] = a[Len(a)]
  PROVE  LastIndex(s, a) = j
<1>1. {i \in DOMAIN s : a # <<>> /\ s[i] = a[Len(a)]} = {j}
  BY DEF Distinct
<1> QED
  BY <1>1 DEF LastIndex

\* A step that accepts nothing leaves the index of the last packet alone.
LEMMA LastIndexKept ==
  ASSUME TypeOK, ChannelInv, ChannelInv', Accepted' = Accepted,
         sent' = sent \/ \E m \in Message : sent' = Append(sent, m)
  PROVE  LastIndex(sent, Accepted)' = LastIndex(sent, Accepted)
<1>1. /\ Distinct(sent) /\ Distinct(sent') /\ sent \in Seq(Message)
      /\ Passed \in 0 .. Len(sent) /\ PacketsSent(sent, Passed, Accepted)
  BY PassedRange DEF ChannelInv, SenderInv, Order
<1>2. Accepted \in Seq(Message)
  BY DEF TypeOK, ReceiverTypeOK, Accepted
<1>3. CASE Accepted = <<>>
  <2>1. LastIndex(sent, Accepted) = 0
    BY <1>3 DEF LastIndex
  <2>2. LastIndex(sent', Accepted') = 0
    BY <1>3 DEF LastIndex
  <2> QED
    BY <2>1, <2>2
<1>4. CASE Accepted # <<>>
  <2>1. Len(Accepted) \in DOMAIN Accepted
    BY <1>2, <1>4
  <2>2. PICK j \in 1 .. Passed : sent[j] = Accepted[Len(Accepted)]
    BY <1>1, <2>1 DEF PacketsSent
  <2>3. j \in DOMAIN sent /\ j \in DOMAIN sent' /\ sent'[j] = sent[j]
    BY <1>1
  <2>4. LastIndex(sent, Accepted) = j
    BY <1>1, <1>4, <2>2, <2>3, LastIndexOf
  <2>5. LastIndex(sent', Accepted') = j
    BY <1>1, <1>4, <2>2, <2>3, LastIndexOf
  <2> QED
    BY <2>4, <2>5
<1> QED
  BY <1>3, <1>4

\* A step that accepts a packet delivers a later one than the last.
LEMMA AcceptDelivers ==
  ASSUME TypeOK, ChannelInv, BodyAccept
  PROVE  \E i \in DOMAIN sent : Channel!Deliver(i)
<1> DEFINE c == LastIndex(sent, Accepted)
<1>1. /\ Distinct(sent) /\ sent \in Seq(Message)
      /\ Passed \in 0 .. Len(sent) /\ PacketsSent(sent, Passed, Accepted)
  BY PassedRange DEF ChannelInv, SenderInv, Order
<1>2. Accepted \in Seq(Message)
  BY DEF TypeOK, ReceiverTypeOK, Accepted
<1>3. sent' = sent
  BY AcceptChannel
<1>4. PICK j \in 1 .. Passed :
         /\ Accepted' = Append(Accepted, sent[j])
         /\ \A i \in DOMAIN Accepted : \A l \in 1 .. Passed :
               Accepted[i] = sent[l] => l < j
  BY AcceptChannel
<1>5. j \in DOMAIN sent /\ j > 0
  BY <1>1
<1>6. LastIndex(sent', Accepted') = j
  <2>1. Accepted' # <<>> /\ Accepted'[Len(Accepted')] = sent[j]
    BY <1>1, <1>2, <1>4, <1>5
  <2> QED
    BY <1>1, <1>3, <1>5, <2>1, LastIndexOf
<1>7. j > c
  <2>1. CASE Accepted = <<>>
    <3>1. c = 0
      BY <2>1 DEF LastIndex
    <3> QED
      BY <3>1, <1>5
  <2>2. CASE Accepted # <<>>
    <3>1. Len(Accepted) \in DOMAIN Accepted
      BY <1>2, <2>2
    <3>2. PICK l \in 1 .. Passed : Accepted[Len(Accepted)] = sent[l]
      BY <1>1, <3>1 DEF PacketsSent
    <3>3. l \in DOMAIN sent
      BY <1>1
    <3>4. c = l
      BY <1>1, <2>2, <3>2, <3>3, LastIndexOf
    <3> QED
      BY <1>4, <3>1, <3>2, <3>4
  <2> QED
    BY <2>1, <2>2
<1> QED
  BY <1>3, <1>4, <1>5, <1>6, <1>7 DEF Channel!Deliver

\* Every step of the link is a step of the channel or none.
LEMMA ChannelStep ==
  ASSUME TypeOK, ChannelInv, [Next]_vars
  PROVE  [Channel!Next]_Channel!vars
<1>1. ChannelInv'
  BY ChannelCases
<1>2. CASE QuietStep
  <2>1. Accepted' = Accepted /\ sent' = sent
    BY <1>2 DEF QuietStep
  <2>2. LastIndex(sent, Accepted)' = LastIndex(sent, Accepted)
    BY <1>1, <2>1, LastIndexKept
  <2> QED
    BY <2>1, <2>2 DEF Channel!vars
<1>3. ASSUME NEW m \in Message, Send(m), Accepted' = Accepted
      PROVE  Channel!Send(m)
  <2>1. sent' = Append(sent, m) /\ \A i \in DOMAIN sent : sent[i] # m
    BY <1>3 DEF Send
  <2>2. LastIndex(sent, Accepted)' = LastIndex(sent, Accepted)
    BY <1>1, <1>3, <2>1, LastIndexKept
  <2> QED
    BY <1>3, <2>1, <2>2 DEF Channel!Send
<1>4. CASE BodyAccept
  BY <1>4, AcceptDelivers DEF Channel!Next
<1> QED
  BY <1>2, <1>3, <1>4, ChannelCases DEF Channel!Next

\* The initial states are initial states of the channel.
LEMMA ChannelStarts == Init => Channel!Init
<1> SUFFICES ASSUME Init PROVE Channel!Init
  OBVIOUS
<1>1. sent = <<>> /\ Accepted = <<>>
  BY DEF Init, Accepted
<1>2. LastIndex(sent, Accepted) = 0
  BY <1>1 DEF LastIndex
<1> QED
  BY <1>1, <1>2 DEF Channel!Init

\* Whatever bytes the line loses, garbles or adds, and however often the link
\* is closed and opened again, the packets accepted are packets that were
\* sent, in that order, each at most once (MctpSerial.cpp:330-450).
THEOREM LinkImplementsChannel == Spec => ImplementsChannel
<1>1. Init => Channel!Init /\ ChannelInv /\ TypeOK
  BY ChannelStarts, ChannelInit, TypeInit
<1>2. TypeOK /\ ChannelInv /\ [Next]_vars => ChannelInv' /\ TypeOK'
  BY ChannelCases, TypeNext
<1>3. TypeOK /\ ChannelInv /\ [Next]_vars => [Channel!Next]_Channel!vars
  BY ChannelStep
<1> QED
  BY <1>1, <1>2, <1>3, PTL DEF Spec, ImplementsChannel, Channel!Spec

-----------------------------------------------------------------------------
(***************************************************************************)
(* What line errors cost.  A receiver q is the state of the receive FSM,   *)
(* the frame under construction and the number of packets accepted, which  *)
(* is all the bytes on the wire can change.                                *)
(***************************************************************************)

RxReceiver ==
    [s : {"WAITING_FOR_SYNC", "BODY", "ESCAPE"}, f : Seq(Byte), c : Nat]

\* The receiver as it is.
Current == [s |-> rxState, f |-> rx_in_progress, c |-> Len(Accepted)]

\* The receiver q gone to state s, with g under construction.
To(q, s, g) == [s |-> s, f |-> g, c |-> q.c]

\* One more byte of the frame, unless it is already too long.
Extended(q, b) ==
    LET g == Append(q.f, b)
    IN  To(q, IF Len(g) > MaxRx THEN "WAITING_FOR_SYNC" ELSE "BODY", g)

\* The receiver q after it has read byte b.
After(q, b) ==
    CASE q.s = "WAITING_FOR_SYNC" ->
            IF b = FRAME_CHAR THEN To(q, "BODY", <<FRAME_CHAR>>) ELSE q
      [] q.s = "BODY" ->
            IF b = ESCAPE_CHAR THEN To(q, "ESCAPE", q.f)
            ELSE IF b # FRAME_CHAR THEN Extended(q, b)
            ELSE LET g == Append(q.f, FRAME_CHAR)
                 IN  IF ValidRx(g)
                       THEN [s |-> "WAITING_FOR_SYNC", f |-> Packet(g), c |-> q.c + 1]
                       ELSE To(q, "BODY", <<FRAME_CHAR>>)
      [] q.s = "ESCAPE" ->
            IF b \in {FRAME_SUB, ESCAPE_SUB} THEN Extended(q, Unescaped(b))
            ELSE IF b = FRAME_CHAR THEN To(q, "BODY", <<FRAME_CHAR>>)
            ELSE To(q, "WAITING_FOR_SYNC", q.f)

\* The receivers on the way when q reads the bytes w, one after the other.
Reads(t, q, w) ==
    /\ t \in Seq(RxReceiver)
    /\ Len(t) = Len(w) + 1
    /\ t[1] = q
    /\ \A i \in 1 .. Len(w) : t[i + 1] = After(t[i], w[i])

\* The packets sent that the receiver could accept.
Owed == Cardinality({i \in DOMAIN sent : Acceptable(sent[i])})

\* The frame that is being sent will be accepted if nothing happens to it: its
\* opening mark is still to come, or the receiver has all of it so far.
OnTrack(q) ==
    /\ txFrame # <<>> /\ Acceptable(sent[Len(sent)])
    /\ txPos # 1 =>
          /\ q.s = IF txEscaped THEN "ESCAPE" ELSE "BODY"
          /\ q.f = SubSeq(txFrame, 1, txPos - 1)

\* The packets accepted and e errors account for all that were sent, but for
\* the one on its way.
Accounted(q, e) ==
    \/ Owed <= q.c + e
    \/ OnTrack(q) /\ Owed <= q.c + e + 1

\* A byte that is escaped is one that must be.
EscapeInv == txEscaped => txFrame # <<>> /\ MustEscape

\* The i-th receiver on the way through the wire has still to read the other
\* Len(t) - i bytes, all of which may be lost with the line.
LossInv ==
    \E t : /\ Reads(t, Current, wire)
           /\ \A i \in DOMAIN t, e \in Nat :
                 i + e = errors + Len(t) => Accounted(t[i], e)

\* A history has as many acceptable packets as a number says.
LEMMA OwedIsNat ==
  ASSUME NEW s \in Seq(Message)
  PROVE  /\ IsFiniteSet({i \in DOMAIN s : Acceptable(s[i])})
         /\ Cardinality({i \in DOMAIN s : Acceptable(s[i])}) \in Nat
<1>1. DOMAIN s = 1 .. Len(s) /\ Len(s) \in Nat
  OBVIOUS
<1>2. IsFiniteSet(DOMAIN s)
  BY <1>1, FS_Interval
<1>3. IsFiniteSet({i \in DOMAIN s : Acceptable(s[i])})
  BY <1>2, FS_Subset
<1> QED
  BY <1>3, FS_CardinalityType

\* A packet given to send() adds itself to what is owed, if it is acceptable.
LEMMA OwedSend ==
  ASSUME NEW s \in Seq(Message), NEW m \in Message
  PROVE  Cardinality({i \in DOMAIN Append(s, m) : Acceptable(Append(s, m)[i])})
           = Cardinality({i \in DOMAIN s : Acceptable(s[i])})
               + (IF Acceptable(m) THEN 1 ELSE 0)
<1> DEFINE t == Append(s, m)
           A == {i \in DOMAIN s : Acceptable(s[i])}
           B == {i \in DOMAIN t : Acceptable(t[i])}
           n == Len(s) + 1
<1>1. /\ n \in Nat /\ n \notin DOMAIN s /\ DOMAIN t = DOMAIN s \cup {n}
      /\ t[n] = m /\ \A i \in DOMAIN s : t[i] = s[i]
  OBVIOUS
<1>2. IsFiniteSet(A) /\ Cardinality(A) \in Nat
  BY OwedIsNat
<1> HIDE DEF t, n
<1>3. ASSUME Acceptable(m) PROVE Cardinality(B) = Cardinality(A) + 1
  <2>1. B = A \cup {n} /\ n \notin A
    BY <1>1, <1>3
  <2> HIDE DEF A
  <2>2. Cardinality(A \cup {n}) = Cardinality(A) + 1
    BY <1>2, <2>1, FS_AddElement
  <2> QED
    BY <2>1, <2>2
<1>4. ASSUME ~Acceptable(m) PROVE Cardinality(B) = Cardinality(A)
  <2>1. B = A
    BY <1>1, <1>4
  <2> HIDE DEF A, B
  <2> QED
    BY <2>1
<1>5. Cardinality(B) = Cardinality(A) + (IF Acceptable(m) THEN 1 ELSE 0)
  <2> HIDE DEF A, B
  <2> QED
    BY <1>2, <1>3, <1>4
<1> QED
  BY <1>5 DEF t

\* The bytes of a frame.
LEMMA FrameBytes ==
  ASSUME NEW m \in Message
  PROVE  /\ Frame(m) \in Seq(Byte) /\ Len(Frame(m)) = Len(m) + 6
         /\ Frame(m)[1] = FRAME_CHAR
         /\ \A i \in 1 .. Len(m) + 2 : Frame(m)[i + 1] = Header(m)[i]
         /\ Frame(m)[Len(m) + 4] = FcsHi(Header(m))
         /\ Frame(m)[Len(m) + 5] = FcsLo(Header(m))
         /\ Frame(m)[Len(m) + 6] = FRAME_CHAR
<1> DEFINE h == Header(m)
           last == <<FcsHi(h), FcsLo(h), FRAME_CHAR>>
           body == <<FRAME_CHAR>> \o h
<1>1. /\ Len(m) \in Nat /\ h \in Seq(Byte) /\ Len(h) = Len(m) + 2
  BY HeaderShape, MessageIsSeq
<1>2. last \in Seq(Byte) /\ <<FRAME_CHAR>> \in Seq(Byte)
  BY DEF Byte, PayloadByte
<1> HIDE DEF h
<1>3. Len(last) = 3 /\ last[1] = FcsHi(h) /\ last[2] = FcsLo(h) /\ last[3] = FRAME_CHAR
  OBVIOUS
<1>4. /\ body \in Seq(Byte) /\ Len(body) = Len(m) + 3 /\ body[1] = FRAME_CHAR
      /\ \A i \in 1 .. Len(m) + 2 : body[i + 1] = h[i]
  BY <1>1, <1>2
<1>5. Frame(m) = body \o last
  BY DEF Frame, h
<1> HIDE DEF last, body
<1>6. /\ \A i \in 1 .. Len(m) + 3 : Frame(m)[i] = body[i]
      /\ \A i \in 1 .. 3 : Frame(m)[Len(m) + 3 + i] = last[i]
  <2>1. /\ \A i \in 1 .. Len(body) : (body \o last)[i] = body[i]
        /\ \A i \in 1 .. Len(last) : (body \o last)[Len(body) + i] = last[i]
    BY <1>2, <1>4, ConcatIndex
  <2>2. Len(body) = Len(m) + 3 /\ Len(last) = 3
    BY <1>3, <1>4
  <2> QED
    BY <1>5, <2>1, <2>2
<1>7. Frame(m)[1] = FRAME_CHAR
  BY <1>1, <1>4, <1>6
<1>8. \A i \in 1 .. Len(m) + 2 : Frame(m)[i + 1] = h[i]
  BY <1>1, <1>4, <1>6
<1>9. /\ Frame(m)[Len(m) + 3 + 1] = FcsHi(h)
      /\ Frame(m)[Len(m) + 3 + 2] = FcsLo(h)
      /\ Frame(m)[Len(m) + 3 + 3] = FRAME_CHAR
  BY <1>3, <1>6
<1>10. /\ Len(m) + 3 + 1 = Len(m) + 4 /\ Len(m) + 3 + 2 = Len(m) + 5
       /\ Len(m) + 3 + 3 = Len(m) + 6
  BY <1>1
<1> QED
  BY <1>7, <1>8, <1>9, <1>10, FrameShape DEF h

\* The frame of an acceptable packet is valid when it arrives as it was sent.
LEMMA FrameIsValid ==
  ASSUME NEW m \in Message, Acceptable(m)
  PROVE  ValidRx(Frame(m))
<1> DEFINE f == Frame(m)
           h == Header(m)
           text == SubSeq(f, 2, Len(f) - 3)
<1>1. /\ Len(m) \in Nat /\ h \in Seq(Byte) /\ Len(h) = Len(m) + 2
      /\ h[2] = CountByte(Len(m) % CountMod)
  BY HeaderShape, MessageIsSeq
<1>2. Len(m) % CountMod = Len(m)
  BY <1>1, BoundAssumption DEF Acceptable
<1>3. /\ f \in Seq(Byte) /\ Len(f) = Len(m) + 6
      /\ \A i \in 1 .. Len(m) + 2 : f[i + 1] = h[i]
      /\ f[Len(m) + 4] = FcsHi(h) /\ f[Len(m) + 5] = FcsLo(h)
  BY FrameBytes
<1> HIDE DEF f, h
<1>4. text = h
  <2>1. text \in Seq(Byte) /\ Len(text) = Len(m) + 2
    BY <1>1, <1>3
  <2>2. \A i \in 1 .. Len(m) + 2 : text[i] = h[i]
    BY <1>1, <1>3
  <2> QED
    BY <1>1, <2>1, <2>2, SeqEqual
<1>5. f[3] = CountByte(Len(m))
  <2>1. f[2 + 1] = h[2]
    BY <1>1, <1>3
  <2> QED
    BY <1>1, <1>2, <2>1
<1>6. Len(f) >= MinFrame /\ Len(f) - 6 < CountMod /\ Len(f) - 6 = Len(m)
  BY <1>1, <1>3, BoundAssumption DEF Acceptable
<1>7. Len(f) - 2 = Len(m) + 4 /\ Len(f) - 1 = Len(m) + 5
  BY <1>1, <1>3
<1> HIDE DEF text
<1>8. ValidRx(f)
  BY <1>3, <1>4, <1>5, <1>6, <1>7 DEF ValidRx, text
<1> QED
  BY <1>8 DEF f

\* A receiver that reads a byte is a receiver, and has accepted no fewer
\* packets than before.
LEMMA AfterType ==
  ASSUME NEW q \in RxReceiver, NEW b \in Byte
  PROVE  After(q, b) \in RxReceiver /\ After(q, b).c >= q.c
<1>1. /\ q.s \in {"WAITING_FOR_SYNC", "BODY", "ESCAPE"}
      /\ q.f \in Seq(Byte) /\ q.c \in Nat
  BY DEF RxReceiver
<1>2. FRAME_CHAR \in Byte /\ ESCAPE_CHAR \in Byte
  BY SpecialBytes, PayloadKind
<1> DEFINE Fine(r) == r \in RxReceiver /\ r.c >= q.c
<1>3. ASSUME NEW s \in {"WAITING_FOR_SYNC", "BODY", "ESCAPE"}, NEW g \in Seq(Byte)
      PROVE  Fine(To(q, s, g))
  BY <1>1 DEF To, RxReceiver
<1>4. ASSUME NEW x \in Byte
      PROVE  Fine(Extended(q, x))
  <2>1. Append(q.f, x) \in Seq(Byte)
    BY <1>1
  <2> HIDE DEF Fine
  <2> QED
    BY <1>3, <2>1 DEF Extended
<1>5. <<FRAME_CHAR>> \in Seq(Byte) /\ Unescaped(b) \in Byte /\ Fine(q)
  BY <1>1, <1>2 DEF Unescaped
<1>6. ASSUME ValidRx(Append(q.f, FRAME_CHAR))
      PROVE  Fine([s |-> "WAITING_FOR_SYNC",
                   f |-> Packet(Append(q.f, FRAME_CHAR)), c |-> q.c + 1])
  <2> DEFINE g == Append(q.f, FRAME_CHAR)
  <2>1. g \in Seq(Byte)
    BY <1>1, <1>2
  <2>2. Packet(g) \in Message
    BY <1>6, <2>1, ValidFrame
  <2>3. Packet(g) \in Seq(Byte)
    BY <2>2, MessageIsSeq, SeqMonotonic DEF Byte
  <2> HIDE DEF g
  <2>4. Fine([s |-> "WAITING_FOR_SYNC", f |-> Packet(g), c |-> q.c + 1])
    BY <1>1, <2>3 DEF RxReceiver
  <2> QED
    BY <2>4 DEF g
<1> HIDE DEF Fine
<1>7. CASE q.s = "WAITING_FOR_SYNC"
  <2>1. Fine(After(q, b))
    BY <1>1, <1>3, <1>5, <1>7 DEF After
  <2> QED
    BY <2>1 DEF Fine
<1>8. CASE q.s = "BODY"
  <2>1. Fine(After(q, b))
    BY <1>1, <1>3, <1>4, <1>5, <1>6, <1>8 DEF After
  <2> QED
    BY <2>1 DEF Fine
<1>9. CASE q.s = "ESCAPE"
  <2>1. Fine(After(q, b))
    BY <1>1, <1>3, <1>4, <1>5, <1>9 DEF After
  <2> QED
    BY <2>1 DEF Fine
<1> QED
  BY <1>1, <1>7, <1>8, <1>9

\* A byte of a frame between its marks needs an ESCAPE_CHAR if it is special;
\* the marks never do.
LEMMA EscapeInside ==
  ASSUME NEW m \in Message, txFrame = Frame(m), txPos \in 1 .. Len(txFrame)
  PROVE  /\ MustEscape <=> txPos \in 2 .. Len(txFrame) - 1 /\ Escapable(txFrame[txPos])
         /\ txPos \in {1, Len(txFrame)} => NextByte = FRAME_CHAR
<1>1. /\ Len(m) \in Nat /\ Len(txFrame) = Len(m) + 6
      /\ txFrame[1] = FRAME_CHAR /\ txFrame[Len(txFrame)] = FRAME_CHAR
  BY MessageIsSeq, FrameBytes
<1>2. txPos \in {1, Len(txFrame)} => ~MustEscape
  BY DEF MustEscape
<1> QED
  BY <1>1, <1>2 DEF MustEscape, NextByte

\* A receiver on track that reads the next byte stays on track, or accepts a
\* packet.
LEMMA TrackStep ==
  ASSUME TypeOK, SenderInv, EscapeInv, txFrame # <<>>, Advance,
         NEW q \in RxReceiver, OnTrack(q),
         NEW r, r = After(q, NextByte)
  PROVE  OnTrack(r)' \/ r.c = q.c + 1
<1> DEFINE m == sent[Len(sent)]
           n == Len(txFrame)
           b == txFrame[txPos]
<1>1. /\ m \in Message /\ txFrame = Frame(m) /\ Acceptable(m)
  BY DEF TypeOK, SenderTypeOK, SenderInv, OnTrack
<1>2. /\ txFrame \in Seq(Byte) /\ n = Len(m) + 6 /\ Len(m) \in Nat
      /\ txFrame[1] = FRAME_CHAR /\ txFrame[n] = FRAME_CHAR
  BY <1>1, FrameBytes, MessageIsSeq
<1>3. txPos \in 1 .. n
  BY <1>2 DEF TypeOK, SenderTypeOK
<1>4. /\ MustEscape <=> txPos \in 2 .. n - 1 /\ Escapable(b)
      /\ txPos \in {1, n} => NextByte = FRAME_CHAR
  BY <1>1, <1>3, EscapeInside
<1>5. sent' = sent
  BY DEF Advance
<1>6. /\ q.s \in {"WAITING_FOR_SYNC", "BODY", "ESCAPE"}
      /\ q.f \in Seq(Byte) /\ q.c \in Nat
  BY DEF RxReceiver
<1>7. txPos # 1 => /\ q.s = IF txEscaped THEN "ESCAPE" ELSE "BODY"
                  /\ q.f = SubSeq(txFrame, 1, txPos - 1)
  BY DEF OnTrack
<1>8. txEscaped => MustEscape
  BY DEF EscapeInv
<1> HIDE DEF m
\* What the sender and the receiver have to agree on afterwards.
<1>9. ASSUME txFrame' = txFrame, txPos' # 1,
             r.s = IF txEscaped' THEN "ESCAPE" ELSE "BODY",
             r.f = SubSeq(txFrame, 1, txPos' - 1)
      PROVE  OnTrack(r)'
  BY <1>1, <1>5, <1>9 DEF OnTrack, m
<1>10. ASSUME txPos \in 2 .. n - 1
       PROVE  /\ Append(SubSeq(txFrame, 1, txPos - 1), b) = SubSeq(txFrame, 1, txPos)
              /\ Len(SubSeq(txFrame, 1, txPos)) = txPos /\ txPos <= MaxRx
              /\ b \in Byte
  <2>1. txPos <= MaxRx
    BY <1>1, <1>2, <1>10, SizeAssumption, BoundAssumption DEF Acceptable
  <2> QED
    BY <1>2, <1>10, <2>1
<1>11. ASSUME NEW x, x = b, txPos \in 2 .. n - 1
       PROVE  Extended(q, x) = To(q, "BODY", SubSeq(txFrame, 1, txPos))
  <2>1. txPos # 1
    BY <1>2, <1>11
  <2>2. Append(q.f, x) = SubSeq(txFrame, 1, txPos)
    BY <1>7, <1>10, <1>11, <2>1
  <2>3. ~(Len(Append(q.f, x)) > MaxRx)
    BY <1>10, <1>11, <2>2, BoundAssumption
  <2> QED
    BY <2>2, <2>3 DEF Extended
\* The opening mark.
<1>12. CASE txPos = 1
  <2>1. txFrame' = txFrame /\ txPos' = 2 /\ txEscaped' = FALSE
    BY <1>2, <1>4, <1>12 DEF Advance
  <2>2. SubSeq(txFrame, 1, 1) = <<FRAME_CHAR>>
    <3>1. ASSUME NEW t \in Seq(Byte), Len(t) = 1, t[1] = FRAME_CHAR
          PROVE  t = <<FRAME_CHAR>>
      BY <3>1
    <3>2. SubSeq(txFrame, 1, 1) \in Seq(Byte) /\ Len(SubSeq(txFrame, 1, 1)) = 1
      BY <1>2
    <3>3. SubSeq(txFrame, 1, 1)[1] = FRAME_CHAR
      BY <1>2
    <3> QED
      BY <3>1, <3>2, <3>3
  <2>3. NextByte = FRAME_CHAR
    BY <1>4, <1>12
  <2>4. \/ r = To(q, "BODY", <<FRAME_CHAR>>)
        \/ r.c = q.c + 1
    <3>1. FRAME_CHAR # ESCAPE_CHAR /\ FRAME_CHAR \notin {FRAME_SUB, ESCAPE_SUB}
      BY DEF FRAME_CHAR, ESCAPE_CHAR, FRAME_SUB, ESCAPE_SUB
    <3> QED
      BY <1>6, <2>3, <3>1 DEF After
  <2>5. ASSUME r = To(q, "BODY", <<FRAME_CHAR>>)
        PROVE  OnTrack(r)'
    <3>1. r.s = "BODY" /\ r.f = <<FRAME_CHAR>>
      BY <2>5 DEF To
    <3>2. txPos' - 1 = 1 /\ txPos' # 1
      BY <2>1
    <3> QED
      BY <1>9, <2>1, <2>2, <3>1, <3>2
  <2> QED
    BY <2>4, <2>5
\* The ESCAPE_CHAR before a special byte.
<1>13. CASE MustEscape /\ ~txEscaped
  <2>1. txFrame' = txFrame /\ txPos' = txPos /\ txEscaped' = TRUE
    BY <1>13 DEF Advance
  <2>2. NextByte = ESCAPE_CHAR /\ q.s = "BODY" /\ txPos # 1
    BY <1>4, <1>7, <1>13 DEF NextByte
  <2>3. r.s = "ESCAPE" /\ r.f = q.f
    BY <2>2 DEF After, To
  <2> QED
    BY <1>7, <1>9, <2>1, <2>2, <2>3
\* A byte between the marks.
<1>14. CASE txPos \in 2 .. n - 1 /\ ~(MustEscape /\ ~txEscaped)
  <2>1. txFrame' = txFrame /\ txPos' = txPos + 1 /\ txEscaped' = FALSE
    BY <1>14 DEF Advance
  <2>2. r = To(q, "BODY", SubSeq(txFrame, 1, txPos))
    <3>1. CASE MustEscape
      <4>1. q.s = "ESCAPE" /\ NextByte = Escaped(b) /\ Escapable(b)
        BY <1>4, <1>7, <1>14, <3>1 DEF NextByte
      <4>2. Escaped(b) \in {FRAME_SUB, ESCAPE_SUB} /\ Unescaped(Escaped(b)) = b
        BY <4>1 DEF Escapable, Escaped, Unescaped, FRAME_CHAR, ESCAPE_CHAR,
                    FRAME_SUB, ESCAPE_SUB
      <4>3. r = Extended(q, Unescaped(Escaped(b)))
        BY <4>1, <4>2 DEF After
      <4> QED
        BY <1>11, <1>14, <4>2, <4>3
    <3>2. CASE ~MustEscape
      <4>1. q.s = "BODY" /\ NextByte = b /\ ~Escapable(b)
        BY <1>4, <1>7, <1>8, <1>14, <3>2 DEF NextByte
      <4>2. r = Extended(q, b)
        BY <4>1 DEF After, Escapable
      <4> QED
        BY <1>11, <1>14, <4>2
    <3> QED
      BY <3>1, <3>2
  <2>3. r.s = "BODY" /\ r.f = SubSeq(txFrame, 1, txPos)
    <3>1. ASSUME NEW g
          PROVE  To(q, "BODY", g).s = "BODY" /\ To(q, "BODY", g).f = g
      BY DEF To
    <3> QED
      BY <2>2, <3>1
  <2>4. txPos' - 1 = txPos /\ txPos' # 1
    BY <1>14, <2>1
  <2> QED
    BY <1>9, <2>1, <2>3, <2>4
\* The closing mark.
<1>15. CASE txPos = n
  <2>1. NextByte = FRAME_CHAR /\ ~MustEscape /\ txPos # 1
    BY <1>2, <1>4, <1>15
  <2>2. q.s = "BODY" /\ q.f = SubSeq(txFrame, 1, n - 1)
    BY <1>7, <1>8, <1>15, <2>1
  <2>3. Append(SubSeq(txFrame, 1, n - 1), FRAME_CHAR) = txFrame
    BY <1>2
  <2>4. ValidRx(Append(q.f, FRAME_CHAR))
    BY <1>1, <2>2, <2>3, FrameIsValid
  <2>5. FRAME_CHAR # ESCAPE_CHAR
    BY DEF FRAME_CHAR, ESCAPE_CHAR
  <2> QED
    BY <2>1, <2>2, <2>4, <2>5 DEF After
<1> QED
  BY <1>2, <1>3, <1>12, <1>13, <1>14, <1>15

-----------------------------------------------------------------------------
(***************************************************************************)
(* The receivers on the way through the wire.                              *)
(***************************************************************************)

\* One more byte on the wire.
LEMMA ReadsAppend ==
  ASSUME NEW q, NEW w \in Seq(Byte), NEW t, Reads(t, q, w), NEW b \in Byte
  PROVE  LET u == Append(t, After(t[Len(t)], b))
         IN  /\ Reads(u, q, Append(w, b))
             /\ Len(u) = Len(t) + 1 /\ DOMAIN u = DOMAIN t \cup {Len(t) + 1}
             /\ \A i \in DOMAIN t : u[i] = t[i]
             /\ u[Len(t) + 1] = After(t[Len(t)], b)
<1> DEFINE r == After(t[Len(t)], b)
           u == Append(t, r)
           x == Append(w, b)
<1>1. /\ t \in Seq(RxReceiver) /\ Len(t) = Len(w) + 1 /\ Len(w) \in Nat
      /\ t[1] = q /\ \A i \in 1 .. Len(w) : t[i + 1] = After(t[i], w[i])
  BY DEF Reads
<1>2. t[Len(t)] \in RxReceiver
  BY <1>1
<1>3. r \in RxReceiver
  BY <1>2, AfterType
<1>4. /\ u \in Seq(RxReceiver) /\ Len(u) = Len(t) + 1
      /\ DOMAIN u = DOMAIN t \cup {Len(t) + 1}
      /\ \A i \in DOMAIN t : u[i] = t[i]
      /\ u[Len(t) + 1] = r
  <2> HIDE DEF r
  <2> QED
    BY <1>1, <1>3
<1>5. /\ Len(x) = Len(w) + 1 /\ x[Len(w) + 1] = b
      /\ \A i \in 1 .. Len(w) : x[i] = w[i]
  OBVIOUS
<1> HIDE DEF u, x
<1>6. ASSUME NEW i \in 1 .. Len(w) + 1
      PROVE  u[i + 1] = After(u[i], x[i])
  <2>1. CASE i \in 1 .. Len(w)
    <3>1. i \in DOMAIN t /\ i + 1 \in DOMAIN t
      BY <1>1, <2>1
    <3> QED
      BY <1>1, <1>4, <1>5, <2>1, <3>1
  <2>2. CASE i = Len(t)
    <3>1. i \in DOMAIN t /\ i = Len(w) + 1
      BY <1>1, <2>2
    <3> QED
      BY <1>4, <1>5, <2>2, <3>1
  <2> QED
    BY <1>1, <2>1, <2>2
<1>7. u[1] = q
  BY <1>1, <1>4
<1>8. Reads(u, q, x)
  BY <1>1, <1>4, <1>5, <1>6, <1>7 DEF Reads
<1> QED
  BY <1>4, <1>8 DEF u, x

\* The first byte on the wire is read.
LEMMA ReadsTail ==
  ASSUME NEW q, NEW w \in Seq(Byte), w # <<>>, NEW t, Reads(t, q, w)
  PROVE  /\ Reads(Tail(t), After(q, Head(w)), Tail(w))
         /\ Len(t) \in Nat /\ Len(Tail(t)) = Len(t) - 1
         /\ \A i \in DOMAIN Tail(t) : i \in Nat /\ i + 1 \in DOMAIN t /\ Tail(t)[i] = t[i + 1]
<1>1. /\ t \in Seq(RxReceiver) /\ Len(t) = Len(w) + 1 /\ Len(w) \in Nat \ {0}
      /\ t[1] = q /\ \A i \in 1 .. Len(w) : t[i + 1] = After(t[i], w[i])
  BY DEF Reads
<1>2. /\ Tail(t) \in Seq(RxReceiver) /\ Len(Tail(t)) = Len(t) - 1
      /\ \A i \in DOMAIN Tail(t) : i \in Nat /\ i + 1 \in DOMAIN t /\ Tail(t)[i] = t[i + 1]
      /\ DOMAIN Tail(t) = 1 .. Len(w)
  BY <1>1
<1>3. /\ Len(Tail(w)) = Len(w) - 1 /\ Head(w) = w[1]
      /\ \A i \in 1 .. Len(w) - 1 : Tail(w)[i] = w[i + 1]
  BY <1>1
<1>4. Tail(t)[1] = After(q, Head(w))
  <2>1. t[1 + 1] = After(t[1], w[1]) /\ Tail(t)[1] = t[1 + 1]
    BY <1>1, <1>2
  <2> QED
    BY <1>1, <1>3, <2>1
<1>5. ASSUME NEW i \in 1 .. Len(w) - 1
      PROVE  Tail(t)[i + 1] = After(Tail(t)[i], Tail(w)[i])
  <2>1. i + 1 \in 1 .. Len(w) /\ i \in 1 .. Len(w)
    BY <1>1
  <2>2. Tail(t)[i + 1] = t[i + 1 + 1] /\ Tail(t)[i] = t[i + 1]
    BY <1>2, <2>1
  <2>3. t[i + 1 + 1] = After(t[i + 1], w[i + 1])
    BY <1>1, <2>1
  <2> QED
    BY <1>3, <2>2, <2>3
<1>6. Reads(Tail(t), After(q, Head(w)), Tail(w))
  BY <1>1, <1>2, <1>3, <1>4, <1>5 DEF Reads
<1> QED
  BY <1>1, <1>2, <1>6

\* Nothing is left on the wire.
LEMMA ReadsNone ==
  ASSUME NEW q \in RxReceiver
  PROVE  Reads(<<q>>, q, <<>>) /\ Len(<<q>>) = 1 /\ DOMAIN <<q>> = {1} /\ <<q>>[1] = q
BY DEF Reads

-----------------------------------------------------------------------------
(***************************************************************************)
(* What the steps do to the account.                                       *)
(***************************************************************************)

\* Steps that neither send a packet nor move the sender.
LEMMA AccountKept ==
  ASSUME UNCHANGED txVars, NEW q, NEW e, Accounted(q, e)
  PROVE  Accounted(q, e)'
BY DEF Accounted, Owed, OnTrack, txVars

\* One more error pays for the frame on its way.
LEMMA ErrorPays ==
  ASSUME TypeOK, sent' = sent, NEW q \in RxReceiver, NEW r \in RxReceiver,
         r.c >= q.c, NEW e \in Nat, NEW d \in Nat, d > e, Accounted(q, e)
  PROVE  Accounted(r, d)'
<1>1. Owed \in Nat /\ Owed' = Owed
  BY OwedIsNat DEF TypeOK, SenderTypeOK, Owed
<1>2. q.c \in Nat /\ r.c \in Nat
  BY DEF RxReceiver
<1>3. Owed <= q.c + e + 1
  BY <1>1, <1>2 DEF Accounted
<1>4. Owed' <= r.c + d
  BY <1>1, <1>2, <1>3
<1> QED
  BY <1>4 DEF Accounted

\* A byte written without an error leaves the account right.
LEMMA WritePays ==
  ASSUME TypeOK, SenderInv, EscapeInv, txFrame # <<>>, Advance,
         NEW q \in RxReceiver, NEW r, r = After(q, NextByte),
         NEW e \in Nat, Accounted(q, e)
  PROVE  Accounted(r, e)'
<1>1. Owed \in Nat /\ Owed' = Owed
  BY OwedIsNat DEF TypeOK, SenderTypeOK, Owed, Advance
<1>2. NextByte \in Byte
  BY AdvanceSender
<1>3. r \in RxReceiver /\ r.c >= q.c
  BY <1>2, AfterType
<1>4. q.c \in Nat /\ r.c \in Nat
  BY <1>3 DEF RxReceiver
<1>5. CASE Owed <= q.c + e
  <2>1. Owed' <= r.c + e
    BY <1>1, <1>3, <1>4, <1>5
  <2> QED
    BY <2>1 DEF Accounted
<1>6. CASE OnTrack(q) /\ Owed <= q.c + e + 1
  <2>1. OnTrack(r)' \/ r.c = q.c + 1
    BY <1>6, TrackStep
  <2>2. CASE OnTrack(r)'
    <3>1. Owed' <= r.c + e + 1
      BY <1>1, <1>3, <1>4, <1>6
    <3> QED
      BY <2>2, <3>1 DEF Accounted
  <2>3. CASE r.c = q.c + 1
    <3>1. Owed' <= r.c + e
      BY <1>1, <1>4, <1>6, <2>3
    <3> QED
      BY <3>1 DEF Accounted
  <2> QED
    BY <2>1, <2>2, <2>3
<1> QED
  BY <1>5, <1>6 DEF Accounted

\* A packet given to send() is on its way, whatever the receiver is doing.
LEMMA SendPays ==
  ASSUME TypeOK, NEW m \in Message, Send(m),
         NEW q \in RxReceiver, NEW e \in Nat, Accounted(q, e)
  PROVE  Accounted(q, e)'
<1>1. /\ txFrame = <<>> /\ sent' = Append(sent, m) /\ txFrame' = Frame(m)
      /\ txPos' = txPos /\ txEscaped' = txEscaped /\ sent \in Seq(Message)
  BY DEF Send, TypeOK, SenderTypeOK
<1>2. Owed \in Nat /\ Owed' = Owed + (IF Acceptable(m) THEN 1 ELSE 0)
  BY <1>1, OwedIsNat, OwedSend DEF Owed
<1>3. q.c \in Nat /\ Owed <= q.c + e
  BY <1>1 DEF RxReceiver, Accounted, OnTrack
<1>4. CASE Acceptable(m)
  <2>1. txPos' = 1
    BY <1>1 DEF TypeOK, SenderTypeOK
  <2>2. txFrame' # <<>>
    <3>1. Len(Frame(m)) = Len(m) + 6 /\ Len(m) \in Nat
      BY FrameShape, MessageIsSeq
    <3>2. Frame(m) = <<>> => Len(Frame(m)) = 0
      OBVIOUS
    <3> QED
      BY <1>1, <3>1, <3>2
  <2>3. sent'[Len(sent')] = m
    BY <1>1
  <2>4. OnTrack(q)'
    BY <1>4, <2>1, <2>2, <2>3 DEF OnTrack
  <2>5. Owed' <= q.c + e + 1
    BY <1>2, <1>3, <1>4
  <2> QED
    BY <2>4, <2>5 DEF Accounted
<1>5. CASE ~Acceptable(m)
  <2>1. Owed' <= q.c + e
    BY <1>2, <1>3, <1>5
  <2> QED
    BY <2>1 DEF Accounted
<1> QED
  BY <1>4, <1>5

\* updateRxFSM makes the receiver one that has read the first byte.
LEMMA FsmReads ==
  ASSUME TypeOK, UpdateRxFSM
  PROVE  /\ Current' = After(Current, Head(wire))
         /\ wire # <<>> /\ wire' = Tail(wire) /\ errors' = errors
         /\ UNCHANGED txVars
<1> DEFINE b == Head(wire)
<1>1. /\ wire # <<>> /\ wire' = Tail(wire) /\ errors' = errors
      /\ UNCHANGED <<txVars, delivered>>
  BY DEF UpdateRxFSM, WaitForSync, BodyEscape, BodyByte, BodyResync, BodyAccept,
         EscapeByte, EscapeResync, EscapeError, Extend, Step, ReadByte, readerVars
<1>2. /\ Current.s = rxState /\ Current.f = rx_in_progress
      /\ Current.c = Len(Accepted)
  BY DEF Current
<1>3. FRAME_CHAR # ESCAPE_CHAR /\ FRAME_CHAR \notin {FRAME_SUB, ESCAPE_SUB}
  BY DEF FRAME_CHAR, ESCAPE_CHAR, FRAME_SUB, ESCAPE_SUB
<1>4. ASSUME NEW s, NEW f, Step(s, f)
      PROVE  Current' = To(Current, s, f)
  <2>1. rxState' = s /\ rx_in_progress' = f /\ Accepted' = Accepted
    BY <1>1, <1>4 DEF Step, Accepted
  <2> QED
    BY <1>2, <2>1 DEF Current, To
<1>5. ASSUME NEW x, Extend(x)
      PROVE  Current' = Extended(Current, x)
  BY <1>2, <1>4, <1>5 DEF Extend, Extended
<1> HIDE DEF b
<1> SUFFICES Current' = After(Current, b)
  BY <1>1 DEF b
<1>6. CASE WaitForSync
  <2>1. CASE b = FRAME_CHAR
    <3>1. Step("BODY", <<FRAME_CHAR>>) /\ rxState = "WAITING_FOR_SYNC"
      BY <1>6, <2>1 DEF WaitForSync, b
    <3> QED
      BY <1>2, <1>4, <2>1, <3>1 DEF After, b
  <2>2. CASE b # FRAME_CHAR
    <3>1. Step("WAITING_FOR_SYNC", rx_in_progress) /\ rxState = "WAITING_FOR_SYNC"
      BY <1>6, <2>2 DEF WaitForSync, b
    <3>2. Current' = Current
      BY <1>1, <3>1 DEF Step, Current, Accepted
    <3> QED
      BY <1>2, <2>2, <3>1, <3>2 DEF After, b
  <2> QED
    BY <2>1, <2>2
<1>7. CASE BodyEscape
  BY <1>2, <1>4, <1>7 DEF BodyEscape, After, b
<1>8. CASE BodyByte
  BY <1>2, <1>5, <1>8 DEF BodyByte, After, Escapable, b
<1>9. CASE BodyResync
  BY <1>2, <1>3, <1>4, <1>9 DEF BodyResync, After, b
<1>10. CASE BodyAccept
  <2> DEFINE p == Packet(Append(rx_in_progress, FRAME_CHAR))
  <2>1. /\ rxState = "BODY" /\ Head(wire) = FRAME_CHAR
        /\ ValidRx(Append(rx_in_progress, FRAME_CHAR))
        /\ rxBuffer' = Append(rxBuffer, p) /\ rx_in_progress' = p
        /\ rxState' = "WAITING_FOR_SYNC"
    BY <1>10 DEF BodyAccept
  <2> HIDE DEF p
  <2>2. Len(Accepted') = Len(Accepted) + 1
    <3>1. rxBuffer \in Seq(Message) /\ delivered \in Seq(Message)
      BY DEF TypeOK, ReceiverTypeOK
    <3> QED
      BY <1>1, <2>1, <3>1 DEF Accepted
  <2>3. Current' = [s |-> "WAITING_FOR_SYNC", f |-> p, c |-> Current.c + 1]
    BY <1>2, <2>1, <2>2 DEF Current
  <2> QED
    BY <1>2, <1>3, <2>1, <2>3 DEF After, p, b
<1>11. CASE EscapeByte
  BY <1>2, <1>5, <1>11 DEF EscapeByte, After, b
<1>12. CASE EscapeResync
  BY <1>2, <1>3, <1>4, <1>12 DEF EscapeResync, After, b
<1>13. CASE EscapeError
  BY <1>2, <1>4, <1>13 DEF EscapeError, After, b
<1> QED
  BY <1>1, <1>6, <1>7, <1>8, <1>9, <1>10, <1>11, <1>12, <1>13 DEF UpdateRxFSM

\* The steps of the other actors leave the line and its receiver alone; with
\* the descriptor the unread bytes may go.
LEMMA OtherReads ==
  ASSUME TypeOK,
         \/ Poll \/ SelectTimeout \/ SelectError \/ Notify \/ NotifyFails
         \/ Open \/ StopReader \/ Close \/ Join \/ Reader
         \/ UNCHANGED vars
  PROVE  /\ UNCHANGED txVars /\ Current' = Current
         /\ \/ UNCHANGED wireVars
            \/ wire' = <<>> /\ errors' = errors + Len(wire)
<1>1. ASSUME UNCHANGED fsmVars, Accepted' = Accepted
      PROVE  Current' = Current
  BY <1>1 DEF Current, fsmVars
<1>2. CASE Poll \/ SelectTimeout \/ SelectError \/ Notify \/ NotifyFails
  BY <1>1, <1>2 DEF Poll, SelectTimeout, SelectError, Notify, NotifyFails,
                    readerVars, Accepted
<1>3. CASE Open \/ StopReader \/ Close \/ Join
  BY <1>1, <1>3 DEF Open, StopReader, Close, Join, readerVars, Accepted
<1>4. CASE TakeNotification \/ Receive
  BY <1>1, <1>4 DEF TakeNotification, Receive, Accepted
<1>5. CASE Pop
  <2>1. UNCHANGED <<txVars, wireVars, fsmVars>>
    BY <1>5 DEF Pop
  <2> QED
    BY <1>1, <1>5, <2>1, PopAccepted
<1>6. CASE UNCHANGED vars
  BY <1>1, <1>6 DEF vars, readerVars, Accepted
<1> QED
  BY <1>2, <1>3, <1>4, <1>5, <1>6 DEF Reader

\* A byte is escaped only while it is being sent.
LEMMA EscapeNext ==
  ASSUME TypeOK, EscapeInv, [Next]_vars
  PROVE  EscapeInv'
<1>1. ASSUME UNCHANGED txVars PROVE EscapeInv'
  BY <1>1 DEF EscapeInv, MustEscape, txVars
<1>2. ASSUME txFrame # <<>>, Advance PROVE EscapeInv'
  <2>1. CASE MustEscape /\ ~txEscaped
    <3>1. txFrame' = txFrame /\ txPos' = txPos
      BY <2>1, <1>2 DEF Advance
    <3> QED
      BY <1>2, <2>1, <3>1 DEF EscapeInv, MustEscape
  <2>2. CASE ~(MustEscape /\ ~txEscaped)
    BY <1>2, <2>2 DEF Advance, EscapeInv
  <2> QED
    BY <2>1, <2>2
<1>3. ASSUME NEW m \in Message, Send(m) PROVE EscapeInv'
  <2>1. txFrame = <<>> /\ txEscaped' = txEscaped
    BY <1>3 DEF Send
  <2>2. ~txEscaped
    BY <2>1 DEF EscapeInv
  <2> QED
    BY <2>1, <2>2 DEF EscapeInv
<1>4. CASE WriteByte \/ LoseByte \/ \E n \in Noise : GarbleByte(n)
  BY <1>2, <1>4 DEF WriteByte, LoseByte, GarbleByte
<1>5. CASE \E n \in Noise : SpuriousByte(n)
  BY <1>1, <1>5 DEF SpuriousByte
<1>6. CASE UpdateRxFSM
  BY <1>1, <1>6, FsmReads
<1>7. CASE \/ Poll \/ SelectTimeout \/ SelectError \/ Notify \/ NotifyFails
           \/ Open \/ StopReader \/ Close \/ Join \/ Reader
           \/ UNCHANGED vars
  BY <1>1, <1>7, OtherReads
<1> QED
  BY <1>3, <1>4, <1>5, <1>6, <1>7 DEF Next, RxThread

\* Every step leaves the account right.
LEMMA LossNext ==
  ASSUME TypeOK, ChannelInv, EscapeInv, LossInv, [Next]_vars
  PROVE  LossInv'
<1>1. PICK t : /\ Reads(t, Current, wire)
               /\ \A i \in DOMAIN t, e \in Nat :
                     i + e = errors + Len(t) => Accounted(t[i], e)
  BY DEF LossInv
<1> DEFINE n == Len(t)
<1>2. /\ wire \in Seq(Byte) /\ errors \in Nat /\ SenderInv
  BY DEF TypeOK, LineTypeOK, ChannelInv
<1>3. /\ t \in Seq(RxReceiver) /\ n = Len(wire) + 1 /\ n \in Nat \ {0}
      /\ Len(wire) \in Nat
      /\ DOMAIN t = 1 .. n /\ t[n] \in RxReceiver /\ t[1] = Current
      /\ \A i \in DOMAIN t : t[i] \in RxReceiver
  <2>1. t \in Seq(RxReceiver) /\ Len(t) = Len(wire) + 1 /\ t[1] = Current
    BY <1>1 DEF Reads
  <2> QED
    BY <1>2, <2>1
<1>4. Accounted(t[n], errors)
  <2>1. n \in DOMAIN t /\ n + errors = errors + n
    BY <1>2, <1>3
  <2> QED
    BY <1>1, <1>2, <2>1
<1>5. ASSUME NEW u, Reads(u, Current', wire'), NEW k \in Nat, errors' = k,
             \A i \in DOMAIN u, e \in Nat :
                i + e = k + Len(u) => Accounted(u[i], e)'
      PROVE  LossInv'
  BY <1>5 DEF LossInv
\* Errors and bytes on the wire that pay for what is on its way.
<1>6. ASSUME sent' = sent, NEW i \in DOMAIN t, NEW e \in Nat, i + e > errors + n
      PROVE  Accounted(t[i], e)'
  <2> DEFINE d == errors + n - i
  <2>1. d \in Nat /\ e > d /\ i + d = errors + n
    BY <1>2, <1>3, <1>6
  <2>2. Accounted(t[i], d)
    BY <1>1, <2>1
  <2>3. t[i] \in RxReceiver /\ t[i].c >= t[i].c
    BY <1>3 DEF RxReceiver
  <2> HIDE DEF d
  <2> QED
    BY <1>6, <2>1, <2>2, <2>3, ErrorPays
\* A byte is added to the wire.
<1>7. ASSUME NEW b \in Byte, wire' = Append(wire, b), Current' = Current,
             sent' = sent, NEW k \in Nat, errors' = k, k >= errors,
             NEW r, r = After(t[n], b), Accounted(r, k)'
      PROVE  LossInv'
  <2> DEFINE u == Append(t, After(t[n], b))
  <2>1. /\ Reads(u, Current, Append(wire, b))
        /\ Len(u) = n + 1 /\ DOMAIN u = DOMAIN t \cup {n + 1}
        /\ \A i \in DOMAIN t : u[i] = t[i]
        /\ u[n + 1] = r
    <3>1. /\ Reads(u, Current, Append(wire, b))
          /\ Len(u) = n + 1 /\ DOMAIN u = DOMAIN t \cup {n + 1}
          /\ \A i \in DOMAIN t : u[i] = t[i]
          /\ u[n + 1] = After(t[n], b)
      BY <1>1, <1>2, ReadsAppend
    <3> HIDE DEF u
    <3> QED
      BY <1>7, <3>1
  <2> HIDE DEF u
  <2>2. Reads(u, Current', wire')
    BY <1>7, <2>1
  <2>3. ASSUME NEW i \in DOMAIN u, NEW e \in Nat, i + e = k + Len(u)
        PROVE  Accounted(u[i], e)'
    <3>1. CASE i \in DOMAIN t
      <4>1. i + e > errors + n
        BY <1>2, <1>3, <1>7, <2>1, <2>3, <3>1
      <4>2. Accounted(t[i], e)' /\ u[i] = t[i]
        BY <1>6, <1>7, <2>1, <3>1, <4>1
      <4> QED
        BY <4>2
    <3>2. CASE i = n + 1
      <4>1. e = k /\ u[i] = r
        BY <1>3, <1>7, <2>1, <2>3, <3>2
      <4> QED
        BY <1>7, <4>1
    <3> QED
      BY <2>1, <3>1, <3>2
  <2> QED
    BY <1>5, <1>7, <2>2, <2>3
\* The steps of the sender and of the line.
<1>8. CASE WriteByte
  <2>1. /\ txFrame # <<>> /\ Advance /\ wire' = Append(wire, NextByte)
        /\ errors' = errors
    BY <1>8 DEF WriteByte
  <2>2. sent' = sent /\ Current' = Current
    BY <2>1 DEF Advance, Current, Accepted, fsmVars, readerVars
  <2>3. NextByte \in Byte
    BY <1>2, <2>1, AdvanceSender
  <2>4. PICK r : r = After(t[n], NextByte)
    OBVIOUS
  <2>5. PICK k \in Nat : errors = k
    BY <1>2
  <2>6. Accounted(r, k)'
    BY <1>2, <1>3, <1>4, <2>1, <2>4, <2>5, WritePays
  <2> QED
    BY <1>7, <2>1, <2>2, <2>3, <2>4, <2>5, <2>6
<1>9. ASSUME NEW b \in Noise, GarbleByte(b) \/ SpuriousByte(b)
      PROVE  LossInv'
  <2>1. /\ wire' = Append(wire, b) /\ errors' = errors + 1
        /\ sent' = sent /\ Current' = Current
    BY <1>9 DEF GarbleByte, SpuriousByte, Advance, Current, Accepted, txVars,
                fsmVars, readerVars
  <2>2. b \in Byte
    BY SpecialBytes
  <2>3. PICK r : r = After(t[n], b)
    OBVIOUS
  <2>4. r \in RxReceiver /\ r.c >= t[n].c
    BY <1>3, <2>2, <2>3, AfterType
  <2>5. PICK k \in Nat : errors = k
    BY <1>2
  <2>6. Accounted(r, k + 1)'
    <3>1. k + 1 \in Nat /\ k + 1 > k
      BY <2>5
    <3> QED
      BY <1>3, <1>4, <2>1, <2>4, <2>5, <3>1, ErrorPays
  <2> QED
    BY <1>7, <2>1, <2>2, <2>3, <2>5, <2>6
<1>10. CASE LoseByte
  <2>1. /\ wire' = wire /\ errors' = errors + 1 /\ sent' = sent
        /\ Current' = Current
    BY <1>10 DEF LoseByte, Advance, Current, Accepted, fsmVars, readerVars
  <2>2. PICK k \in Nat : k = errors + 1
    BY <1>2
  <2>3. ASSUME NEW i \in DOMAIN t, NEW e \in Nat, i + e = k + Len(t)
        PROVE  Accounted(t[i], e)'
    <3>1. i + e > errors + n
      BY <1>2, <1>3, <2>2, <2>3
    <3> QED
      BY <1>6, <2>1, <3>1
  <2>4. Reads(t, Current', wire')
    BY <1>1, <2>1
  <2> QED
    BY <1>5, <2>1, <2>2, <2>3, <2>4
\* The other steps.
<1>11. ASSUME NEW m \in Message, Send(m)
       PROVE  LossInv'
  <2>1. wire' = wire /\ errors' = errors /\ Current' = Current
    BY <1>11 DEF Send, wireVars, Current, Accepted, fsmVars, readerVars
  <2>2. PICK k \in Nat : k = errors
    BY <1>2
  <2>3. ASSUME NEW i \in DOMAIN t, NEW e \in Nat, i + e = k + Len(t)
        PROVE  Accounted(t[i], e)'
    BY <1>1, <1>3, <1>11, <2>2, <2>3, SendPays
  <2>4. Reads(t, Current', wire')
    BY <1>1, <2>1
  <2> QED
    BY <1>5, <2>1, <2>2, <2>3, <2>4
<1>12. CASE UpdateRxFSM
  <2>1. /\ Current' = After(Current, Head(wire))
        /\ wire # <<>> /\ wire' = Tail(wire) /\ errors' = errors
        /\ UNCHANGED txVars
    BY <1>12, FsmReads
  <2>2. PICK u : u = Tail(t)
    OBVIOUS
  <2>3. /\ Reads(u, After(Current, Head(wire)), Tail(wire)) /\ Len(u) = n - 1
        /\ \A i \in DOMAIN u : i \in Nat /\ i + 1 \in DOMAIN t /\ u[i] = t[i + 1]
    BY <1>1, <1>2, <2>1, <2>2, ReadsTail
  <2>4. PICK k \in Nat : k = errors
    BY <1>2
  <2>5. ASSUME NEW i \in DOMAIN u, NEW e \in Nat, i + e = k + Len(u)
        PROVE  Accounted(u[i], e)'
    <3>1. (i + 1) + e = errors + n
      BY <1>2, <1>3, <2>3, <2>4, <2>5
    <3>2. Accounted(u[i], e)
      BY <1>1, <2>3, <3>1
    <3> QED
      BY <2>1, <3>2, AccountKept
  <2>6. Reads(u, Current', wire')
    BY <2>1, <2>3
  <2> QED
    BY <1>5, <2>1, <2>4, <2>5, <2>6
<1>13. CASE \/ Poll \/ SelectTimeout \/ SelectError \/ Notify \/ NotifyFails
            \/ Open \/ StopReader \/ Close \/ Join \/ Reader
            \/ UNCHANGED vars
  <2>1. /\ UNCHANGED txVars /\ Current' = Current
        /\ \/ UNCHANGED wireVars
           \/ wire' = <<>> /\ errors' = errors + Len(wire)
    BY <1>13, OtherReads
  <2>2. CASE UNCHANGED wireVars
    <3>1. PICK k \in Nat : k = errors
      BY <1>2
    <3>2. ASSUME NEW i \in DOMAIN t, NEW e \in Nat, i + e = k + Len(t)
          PROVE  Accounted(t[i], e)'
      BY <1>1, <2>1, <3>1, <3>2, AccountKept
    <3>3. Reads(t, Current', wire') /\ errors' = k
      BY <1>1, <2>1, <2>2, <3>1 DEF wireVars
    <3> QED
      BY <1>5, <3>2, <3>3
  <2>3. CASE wire' = <<>> /\ errors' = errors + Len(wire)
    <3>1. PICK q \in RxReceiver : q = Current /\ q = t[1]
      BY <1>3
    <3>2. PICK k \in Nat : k = errors + Len(wire)
      BY <1>2, <1>3
    <3>3. Reads(<<q>>, q, <<>>) /\ Len(<<q>>) = 1 /\ DOMAIN <<q>> = {1}
          /\ <<q>>[1] = q
      BY ReadsNone
    <3>4. Accounted(q, k)'
      <4>1. 1 \in DOMAIN t /\ 1 + k = errors + n
        BY <1>2, <1>3, <3>2
      <4>2. Accounted(q, k)
        BY <1>1, <3>1, <4>1
      <4> QED
        BY <2>1, <4>2, AccountKept
    <3>5. ASSUME NEW i \in DOMAIN <<q>>, NEW e \in Nat, i + e = k + Len(<<q>>)
          PROVE  Accounted(<<q>>[i], e)'
      <4>1. e = k /\ <<q>>[i] = q
        BY <3>2, <3>3, <3>5
      <4> QED
        BY <3>4, <4>1
    <3>6. Reads(<<q>>, Current', wire') /\ errors' = k
      BY <2>1, <2>3, <3>1, <3>2, <3>3
    <3> QED
      BY <1>5, <3>5, <3>6
  <2> QED
    BY <2>1, <2>2, <2>3
<1> QED
  BY <1>8, <1>9, <1>10, <1>11, <1>12, <1>13 DEF Next, RxThread

\* The account is right before anything is sent.
LEMMA LossInit == Init => EscapeInv /\ LossInv
<1> SUFFICES ASSUME Init PROVE EscapeInv /\ LossInv
  OBVIOUS
<1>1. EscapeInv
  BY DEF Init, EscapeInv
<1>2. /\ sent = <<>> /\ wire = <<>> /\ errors = 0 /\ Accepted = <<>>
      /\ rxState = "WAITING_FOR_SYNC" /\ rx_in_progress = <<>>
  BY DEF Init, Accepted
<1>3. Current \in RxReceiver /\ Current.c = 0
  <2>1. <<>> \in Seq(Byte) /\ Len(<<>>) = 0
    OBVIOUS
  <2> QED
    BY <1>2, <2>1 DEF Current, RxReceiver
<1>4. Owed = 0
  <2>1. {i \in DOMAIN sent : Acceptable(sent[i])} = {}
    BY <1>2
  <2> QED
    BY <2>1, FS_EmptySet DEF Owed
<1>5. PICK q \in RxReceiver : q = Current
  BY <1>3
<1>6. Reads(<<q>>, Current, wire) /\ Len(<<q>>) = 1 /\ DOMAIN <<q>> = {1}
      /\ <<q>>[1] = q
  BY <1>2, <1>5, ReadsNone
<1>7. ASSUME NEW i \in DOMAIN <<q>>, NEW e \in Nat, i + e = errors + Len(<<q>>)
      PROVE  Accounted(<<q>>[i], e)
  <2>1. e = 0 /\ <<q>>[i] = q
    BY <1>2, <1>6, <1>7
  <2>2. Owed <= q.c + e
    BY <1>3, <1>4, <1>5, <2>1
  <2> QED
    BY <2>1, <2>2 DEF Accounted
<1> QED
  BY <1>1, <1>6, <1>7 DEF LossInv

\* On a quiet line the account is that of the receiver as it is.
LEMMA LossImplies ==
  ASSUME TypeOK, LossInv
  PROVE  BoundedLoss
<1> SUFFICES ASSUME txFrame = <<>>, wire = <<>>
             PROVE  Owed <= Len(Accepted) + errors
  BY DEF BoundedLoss, Owed
<1>1. PICK t : /\ Reads(t, Current, wire)
               /\ \A i \in DOMAIN t, e \in Nat :
                     i + e = errors + Len(t) => Accounted(t[i], e)
  BY DEF LossInv
<1>2. t \in Seq(RxReceiver) /\ Len(t) = 1 /\ t[1] = Current
  <2>1. Len(wire) = 0
    OBVIOUS
  <2> QED
    BY <1>1, <2>1 DEF Reads
<1>3. errors \in Nat /\ 1 \in DOMAIN t /\ 1 + errors = errors + Len(t)
  BY <1>2 DEF TypeOK, LineTypeOK
<1>4. Accounted(Current, errors)
  BY <1>1, <1>2, <1>3
<1>5. Current.c = Len(Accepted)
  BY DEF Current
<1> QED
  BY <1>4, <1>5 DEF Accounted, OnTrack

\* Once the line is quiet, no more packets are missing than bytes were lost,
\* garbled or added: an error costs the frame it hits or the one after it, and
\* the receiver finds its place again by itself (MctpSerial.cpp:330-450).
THEOREM LossIsBounded == Spec => []BoundedLoss
<1>1. Init => TypeOK /\ ChannelInv /\ EscapeInv /\ LossInv
  BY TypeInit, ChannelInit, LossInit
<1>2. TypeOK /\ ChannelInv /\ EscapeInv /\ LossInv /\ [Next]_vars
        => TypeOK' /\ ChannelInv' /\ EscapeInv' /\ LossInv'
  BY TypeNext, ChannelCases, EscapeNext, LossNext
<1>3. TypeOK /\ LossInv => BoundedLoss
  BY LossImplies
<1> QED
  BY <1>1, <1>2, <1>3, PTL DEF Spec
=============================================================================
