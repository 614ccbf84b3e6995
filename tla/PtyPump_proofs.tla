--------------------------- MODULE PtyPump_proofs ---------------------------
(***************************************************************************)
(* What a copying thread does to the bytes on their way, for buffers and   *)
(* ttys of any size, any number of bytes, any device numbers and any       *)
(* number of calls of setTty(): on the way to a pty that stays open it     *)
(* loses no more than a closed device and interrupted writes take, and in  *)
(* any case it is a line that only loses (FrameChannel).                   *)
(***************************************************************************)
EXTENDS PtyPump, SequenceTheorems, TLAPS

-----------------------------------------------------------------------------
(***************************************************************************)
(* Sequences: a way is what was got, what is in the tty, in hand, and      *)
(* waiting to be read.                                                     *)
(***************************************************************************)

Cat(p, q) == p \o q
Joined(g, f, h, t) == Cat(Cat(Cat(g, f), h), t)

LEMMA CatProperties ==
  ASSUME NEW S, NEW p \in Seq(S), NEW q \in Seq(S), NEW r \in Seq(S)
  PROVE  /\ Cat(p, q) \in Seq(S)
         /\ Cat(Cat(p, q), r) = Cat(p, Cat(q, r))
BY DEF Cat

LEMMA CatEmpty ==
  ASSUME NEW S, NEW p \in Seq(S)
  PROVE  /\ <<>> \in Seq(S)
         /\ Cat(p, <<>>) = p /\ Cat(<<>>, p) = p
BY DEF Cat

LEMMA SplitSeq ==
  ASSUME NEW S, NEW q \in Seq(S), NEW k \in 0 .. Len(q)
  PROVE  /\ First(k, q) \in Seq(S) /\ Rest(k, q) \in Seq(S)
         /\ Len(First(k, q)) = k /\ Len(Rest(k, q)) = Len(q) - k
         /\ Cat(First(k, q), Rest(k, q)) = q
<1> DEFINE a == First(k, q)
           b == Rest(k, q)
<1>1. /\ a \in Seq(S) /\ b \in Seq(S) /\ Len(a) = k /\ Len(b) = Len(q) - k
      /\ \A i \in 1 .. k : a[i] = q[i]
      /\ \A i \in 1 .. Len(q) - k : b[i] = q[k + i]
  BY DEF First, Rest
<1>2. a \o b = q
  <2> HIDE DEF a, b
  <2>1. Len(q) \in Nat /\ k \in Nat /\ k <= Len(q)
    OBVIOUS
  <2>2. Len(a \o b) = Len(q) /\ a \o b \in Seq(S)
    <3>1. Len(a \o b) = Len(a) + Len(b) /\ a \o b \in Seq(S)
      BY <1>1, ConcatProperties
    <3> QED  BY <1>1, <2>1, <3>1
  <2>3. \A i \in 1 .. Len(q) : (a \o b)[i] = q[i]
    <3> TAKE i \in 1 .. Len(q)
    <3>1. CASE i <= k
      BY <1>1, <2>1, <3>1
    <3>2. CASE i > k
      <4> DEFINE j == i - k
      <4>1. j \in 1 .. Len(q) - k /\ k + j = i
        BY <2>1, <3>2
      <4>2. (a \o b)[i] = b[j]
        BY <1>1, <2>1, <3>2
      <4> HIDE DEF j
      <4>3. b[j] = q[k + j]
        BY <1>1, <4>1
      <4>4. q[k + j] = q[i]
        BY <4>1
      <4> QED  BY <1>1, <2>1, <3>2, <4>1, <4>3, <4>4
    <3>3. i <= k \/ i > k
      BY <2>1
    <3> QED  BY <3>1, <3>2, <3>3, Zenon
  <2> QED  BY <2>2, <2>3, SeqEqual
<1> QED  BY <1>1, <1>2 DEF Cat

LEMMA HeadTailSeq ==
  ASSUME NEW S, NEW q \in Seq(S), q # <<>>
  PROVE  /\ Head(q) \in S /\ Tail(q) \in Seq(S)
         /\ <<Head(q)>> \in Seq(S) /\ Cat(<<Head(q)>>, Tail(q)) = q
BY DEF Cat

LEMMA AppendIsCat ==
  ASSUME NEW S, NEW q \in Seq(S), NEW b \in S
  PROVE  Append(q, b) = Cat(q, <<b>>) /\ <<b>> \in Seq(S)
BY DEF Cat

LEMMA JoinedSeq ==
  ASSUME NEW S, NEW g \in Seq(S), NEW f \in Seq(S), NEW h \in Seq(S),
         NEW t \in Seq(S)
  PROVE  /\ Joined(g, f, h, t) \in Seq(S)
         /\ Joined(g, f, h, t) = Cat(Cat(g, f), Cat(h, t))
         /\ Joined(g, f, h, t) = Cat(g, Cat(f, Cat(h, t)))
BY CatProperties DEF Joined

\* A read moves bytes into the hand.
LEMMA JoinedRead ==
  ASSUME NEW S, NEW g \in Seq(S), NEW f \in Seq(S), NEW t \in Seq(S),
         NEW k \in 0 .. Len(t)
  PROVE  Joined(g, f, First(k, t), Rest(k, t)) = Joined(g, f, <<>>, t)
<1>1. <<>> \in Seq(S) /\ Cat(<<>>, t) = t
  BY CatEmpty
<1>2. Joined(g, f, <<>>, t) = Cat(Cat(g, f), t)
  <2> DEFINE e == <<>>
  <2>1. e \in Seq(S) /\ Cat(e, t) = t
    BY <1>1
  <2> HIDE DEF e
  <2>2. Joined(g, f, e, t) = Cat(Cat(g, f), Cat(e, t))
    BY <2>1, JoinedSeq
  <2> QED  BY <2>1, <2>2 DEF e
<1> DEFINE a == First(k, t)
           b == Rest(k, t)
<1>3. a \in Seq(S) /\ b \in Seq(S) /\ Cat(a, b) = t
  BY SplitSeq
<1> HIDE DEF a, b
<1>4. Joined(g, f, a, b) = Cat(Cat(g, f), t)
  BY <1>3, JoinedSeq
<1> QED  BY <1>2, <1>4 DEF a, b

\* A write moves bytes from the hand into the tty.
LEMMA JoinedWrite ==
  ASSUME NEW S, NEW g \in Seq(S), NEW f \in Seq(S), NEW h \in Seq(S),
         NEW t \in Seq(S), NEW k \in 0 .. Len(h)
  PROVE  Joined(g, Cat(f, First(k, h)), Rest(k, h), t) = Joined(g, f, h, t)
<1> DEFINE a == First(k, h)
           b == Rest(k, h)
<1>1. a \in Seq(S) /\ b \in Seq(S) /\ Cat(a, b) = h
  BY SplitSeq
<1> HIDE DEF a, b
<1>2. Joined(g, Cat(f, a), b, t) = Cat(g, Cat(Cat(f, a), Cat(b, t)))
  <2> DEFINE fa == Cat(f, a)
  <2>1. fa \in Seq(S)
    BY <1>1, CatProperties
  <2> HIDE DEF fa
  <2>2. Joined(g, fa, b, t) = Cat(g, Cat(fa, Cat(b, t)))
    BY <1>1, <2>1, JoinedSeq
  <2> QED  BY <2>2 DEF fa
<1>3. Cat(Cat(f, a), Cat(b, t)) = Cat(f, Cat(h, t))
  BY <1>1, CatProperties
<1> QED  BY <1>2, <1>3, JoinedSeq DEF a, b

\* The far end moves a byte from the tty to what it has got.
LEMMA JoinedGet ==
  ASSUME NEW S, NEW g \in Seq(S), NEW f \in Seq(S), NEW h \in Seq(S),
         NEW t \in Seq(S), f # <<>>
  PROVE  Joined(Append(g, Head(f)), Tail(f), h, t) = Joined(g, f, h, t)
<1> DEFINE a == <<Head(f)>>
           b == Tail(f)
<1>1. /\ a \in Seq(S) /\ b \in Seq(S) /\ Cat(a, b) = f
      /\ Append(g, Head(f)) = Cat(g, a)
  BY HeadTailSeq, AppendIsCat
<1> HIDE DEF a, b
<1>2. Cat(Append(g, Head(f)), b) = Cat(g, f)
  <2>1. Cat(Cat(g, a), b) = Cat(g, Cat(a, b))
    BY <1>1, CatProperties
  <2> QED  BY <1>1, <2>1, Zenon
<1> QED  BY <1>2 DEF Joined, b

\* The other far end sends one more.
LEMMA CatAppend ==
  ASSUME NEW S, NEW p \in Seq(S), NEW q \in Seq(S), NEW b \in S
  PROVE  Cat(p, Append(q, b)) = Append(Cat(p, q), b)
BY DEF Cat

LEMMA JoinedEmpty ==
  ASSUME NEW S, NEW g \in Seq(S), NEW f \in Seq(S), NEW h \in Seq(S),
         NEW t \in Seq(S), Joined(g, f, h, t) = <<>>
  PROVE  h = <<>>
<1>1. \A p, q \in Seq(S) : /\ Cat(p, q) \in Seq(S)
                            /\ Cat(p, q) = <<>> => p = <<>> /\ q = <<>>
  BY DEF Cat
<1>2. Cat(Cat(g, f), h) \in Seq(S) /\ Cat(g, f) \in Seq(S)
  BY CatProperties
<1>3. Cat(Cat(g, f), h) = <<>>
  <2> DEFINE p == Cat(Cat(g, f), h)
  <2>1. p \in Seq(S) /\ Cat(p, t) = <<>>
    BY <1>2 DEF Joined
  <2> HIDE DEF p
  <2>2. p = <<>>
    BY <2>1 DEF Cat
  <2> QED  BY <2>2 DEF p
<1> QED  BY <1>1, <1>2, <1>3, Zenon

LEMMA JoinedLen ==
  ASSUME NEW S, NEW g \in Seq(S), NEW f \in Seq(S), NEW h \in Seq(S),
         NEW t \in Seq(S)
  PROVE  /\ Len(Joined(g, f, h, t)) = Len(g) + Len(f) + Len(h) + Len(t)
         /\ Len(g) \in Nat /\ Len(f) \in Nat /\ Len(h) \in Nat
         /\ Len(t) \in Nat
<1>1. \A p, q \in Seq(S) : /\ Cat(p, q) \in Seq(S)
                           /\ Len(Cat(p, q)) = Len(p) + Len(q)
  BY DEF Cat
<1>2. Cat(g, f) \in Seq(S) /\ Len(Cat(g, f)) = Len(g) + Len(f)
  BY <1>1
<1> DEFINE u == Cat(g, f)
<1> HIDE DEF u
<1>3. Cat(u, h) \in Seq(S) /\ Len(Cat(u, h)) = Len(u) + Len(h)
  BY <1>1, <1>2 DEF u
<1> DEFINE v == Cat(u, h)
<1> HIDE DEF v
<1>4. Len(Cat(v, t)) = Len(v) + Len(t)
  BY <1>1, <1>3 DEF v
<1> QED  BY <1>2, <1>3, <1>4 DEF Joined, u, v

\* v is w without a segment.
Cut(v, w, S) ==
    \E p, q, r \in Seq(S) : w = Cat(Cat(p, q), r) /\ v = Cat(p, r)

LEMMA CutWaiting ==
  ASSUME NEW S, NEW g \in Seq(S), NEW f \in Seq(S), NEW h \in Seq(S),
         NEW t \in Seq(S)
  PROVE  Cut(Joined(g, f, h, <<>>), Joined(g, f, h, t), S)
<1> DEFINE p == Cat(Cat(g, f), h)
<1>1. p \in Seq(S) /\ <<>> \in Seq(S) /\ Cat(p, t) = Cat(Cat(p, t), <<>>)
  BY CatProperties, CatEmpty
<1> QED  BY <1>1 DEF Cut, Joined

LEMMA CutTty ==
  ASSUME NEW S, NEW g \in Seq(S), NEW f \in Seq(S), NEW h \in Seq(S),
         NEW t \in Seq(S)
  PROVE  Cut(Joined(g, <<>>, h, t), Joined(g, f, h, t), S)
<1>1. Cat(h, t) \in Seq(S) /\ Joined(g, f, h, t) = Cat(Cat(g, f), Cat(h, t))
  BY JoinedSeq, CatProperties
<1>2. Joined(g, <<>>, h, t) = Cat(g, Cat(h, t))
  BY CatEmpty, CatProperties DEF Joined
<1> QED  BY <1>1, <1>2 DEF Cut

LEMMA CutHand ==
  ASSUME NEW S, NEW g \in Seq(S), NEW f \in Seq(S), NEW h \in Seq(S),
         NEW t \in Seq(S), NEW k \in 0 .. Len(h)
  PROVE  Cut(Joined(g, Cat(f, First(k, h)), <<>>, t), Joined(g, f, h, t), S)
<1> DEFINE a == First(k, h)
           b == Rest(k, h)
           p == Cat(g, Cat(f, a))
<1>1. a \in Seq(S) /\ b \in Seq(S)
  BY SplitSeq
<1>2. Joined(g, Cat(f, a), b, t) = Joined(g, f, h, t)
  BY JoinedWrite
<1> HIDE DEF a, b
<1>3. p \in Seq(S) /\ Cat(p, <<>>) = p
  BY <1>1, CatProperties, CatEmpty
<1>4. Joined(g, Cat(f, a), b, t) = Cat(Cat(p, b), t)
  BY DEF Joined
<1>5. Joined(g, Cat(f, a), <<>>, t) = Cat(p, t)
  BY <1>3 DEF Joined
<1>6. Cut(Joined(g, Cat(f, a), <<>>, t), Joined(g, f, h, t), S)
  BY <1>1, <1>2, <1>3, <1>4, <1>5 DEF Cut
<1> QED  BY <1>6 DEF a

Ascending(q) == \A i, j \in DOMAIN q : i < j => q[i] < q[j]
UpTo(q, n)   == \A i \in DOMAIN q : q[i] <= n

LEMMA CutAscends ==
  ASSUME NEW v, NEW w, NEW n \in Nat, Cut(v, w, Nat), Ascending(w), UpTo(w, n)
  PROVE  Ascending(v) /\ UpTo(v, n)
<1> PICK p \in Seq(Nat), q \in Seq(Nat), r \in Seq(Nat) :
            w = Cat(Cat(p, q), r) /\ v = Cat(p, r)
  BY DEF Cut
<1> DEFINE At(i) == IF i <= Len(p) THEN i ELSE i + Len(q)
<1>1. /\ Len(p) \in Nat /\ Len(q) \in Nat /\ Len(r) \in Nat
      /\ DOMAIN v = 1 .. Len(p) + Len(r)
      /\ DOMAIN w = 1 .. Len(p) + Len(q) + Len(r)
  BY DEF Cat
<1>2. \A i \in DOMAIN v : At(i) \in DOMAIN w /\ v[i] = w[At(i)]
  <2> TAKE i \in DOMAIN v
  <2>1. CASE i <= Len(p)
    BY <1>1, <2>1 DEF Cat
  <2>2. CASE i > Len(p)
    BY <1>1, <2>2 DEF Cat
  <2> QED  BY <1>1, <2>1, <2>2
<1>3. \A i, j \in DOMAIN v : i < j => At(i) < At(j)
  BY <1>1
<1> HIDE DEF At
<1> QED  BY <1>2, <1>3 DEF Ascending, UpTo

LEMMA AppendAscends ==
  ASSUME NEW w \in Seq(Nat), NEW n \in Nat, Ascending(w), UpTo(w, n)
  PROVE  Ascending(Append(w, n + 1)) /\ UpTo(Append(w, n + 1), n + 1)
BY DEF Ascending, UpTo

-----------------------------------------------------------------------------
(***************************************************************************)
(* Types.                                                                  *)
(***************************************************************************)

LEMMA SideFacts ==
  /\ Side = {"a", "b"} /\ none \notin Nat /\ none \notin Fd
  /\ \A s \in Side : Other(s) \in Side /\ Other(s) # s /\ Other(Other(s)) = s
BY PumpAssumption DEF Side, Other, none

LEMMA InitType == Init => TypeOK
<1> SUFFICES ASSUME Init PROVE TypeOK
  OBVIOUS
<1>1. <<>> \in Seq(Byte) /\ Len(<<>>) = 0
  OBVIOUS
<1>2. /\ {toPump, fromPump, sent, got} \subseteq [Side -> Seq(Byte)]
      /\ \A s \in Side : Len(fromPump[s]) <= Cap
      /\ hand \in Seq(Byte) /\ Len(hand) <= BufSize
  BY <1>1, PumpAssumption DEF Init
<1>3. /\ far \in [Side -> {"new", "open", "closed"}]
      /\ steady \in [Side -> BOOLEAN] /\ running \in BOOLEAN
      /\ {real_fd, openFd, watch} \subseteq Fd \cup {none} /\ class \in Class
  BY PumpAssumption DEF Init
<1>4. /\ pc = "top" /\ ready = {} /\ owner = "idle" /\ opens = 0
      /\ moved = FALSE /\ unread = 0 /\ cut \in [Side -> Nat]
  BY DEF Init
<1> QED  BY <1>2, <1>3, <1>4 DEF TypeOK

\* A read takes some of what waits, at most a buffer.
LEMMA ReadTypes ==
  ASSUME TypeOK, NEW s \in Side, Read(s)
  PROVE  TypeOK'
<1>1. CASE UNCHANGED <<hand, toPump>> /\ pc' = After[s]
  BY <1>1 DEF Read, TypeOK, Side, After, fdVars, history
<1>2. CASE \E k \in 1 .. AtMost(BufSize, Len(toPump[s])) :
              /\ hand' = First(k, toPump[s])
              /\ toPump' = [toPump EXCEPT ![s] = Rest(k, @)]
              /\ pc' = Writing[Other(s)]
  <2> PICK k \in 1 .. AtMost(BufSize, Len(toPump[s])) :
              /\ hand' = First(k, toPump[s])
              /\ toPump' = [toPump EXCEPT ![s] = Rest(k, @)]
              /\ pc' = Writing[Other(s)]
    BY <1>2
  <2>1. toPump \in [Side -> Seq(Byte)] /\ toPump[s] \in Seq(Byte)
    BY DEF TypeOK
  <2>2. Len(toPump[s]) \in Nat /\ k \in 0 .. Len(toPump[s]) /\ k <= BufSize
    BY <2>1, PumpAssumption DEF AtMost
  <2>3. /\ First(k, toPump[s]) \in Seq(Byte) /\ Rest(k, toPump[s]) \in Seq(Byte)
        /\ Len(First(k, toPump[s])) = k
    BY <2>1, <2>2, SplitSeq
  <2>4. hand' \in Seq(Byte) /\ Len(hand') <= BufSize
    BY <2>2, <2>3
  <2>5. toPump' \in [Side -> Seq(Byte)]
    BY <2>1, <2>3
  <2>6. pc' \in {"writeA", "writeB"}
    BY DEF Side, Other, Writing
  <2> QED
    BY <2>4, <2>5, <2>6 DEF Read, TypeOK, fdVars, history
<1> QED  BY <1>1, <1>2 DEF Read

\* A write puts some of the hand into the tty, at most what there is room for.
LEMMA WriteTypes ==
  ASSUME TypeOK, NEW s \in Side, Write(s)
  PROVE  TypeOK'
<1> DEFINE there == Reaches(s) /\ far[s] = "open"
           k == IF there THEN AtMost(Cap - Len(fromPump[s]), Len(hand)) ELSE 0
<1>1. /\ fromPump \in [Side -> Seq(Byte)] /\ fromPump[s] \in Seq(Byte)
      /\ Len(fromPump[s]) <= Cap /\ hand \in Seq(Byte) /\ Len(hand) <= BufSize
      /\ Len(hand) \in Nat /\ Len(fromPump[s]) \in Nat
  BY DEF TypeOK
<1>2. k \in 0 .. Len(hand) /\ Len(fromPump[s]) + k <= Cap
  BY <1>1, PumpAssumption DEF AtMost
<1>3. /\ fromPump' = [fromPump EXCEPT ![s] = @ \o First(k, hand)]
      /\ hand' = IF there /\ Pty(s) THEN Rest(k, hand) ELSE <<>>
  BY DEF Write
<1> HIDE DEF k, there
<1>4. /\ First(k, hand) \in Seq(Byte) /\ Rest(k, hand) \in Seq(Byte)
      /\ Len(First(k, hand)) = k /\ Len(Rest(k, hand)) = Len(hand) - k
  BY <1>1, <1>2, SplitSeq
<1>5. hand' \in Seq(Byte) /\ Len(hand') <= BufSize
  BY <1>1, <1>2, <1>3, <1>4, PumpAssumption
<1>6. /\ fromPump[s] \o First(k, hand) \in Seq(Byte)
      /\ Len(fromPump[s] \o First(k, hand)) <= Cap
  <2>1. /\ fromPump[s] \o First(k, hand) \in Seq(Byte)
        /\ Len(fromPump[s] \o First(k, hand))
              = Len(fromPump[s]) + Len(First(k, hand))
    <3>1. \A p, q \in Seq(Byte) :
              p \o q \in Seq(Byte) /\ Len(p \o q) = Len(p) + Len(q)
      OBVIOUS
    <3> QED  BY <1>1, <1>4, <3>1, Zenon
  <2> QED  BY <1>2, <1>4, <2>1
<1> DEFINE new == fromPump[s] \o First(k, hand)
<1>7. /\ fromPump' \in [Side -> Seq(Byte)]
      /\ \A r \in Side : Len(fromPump'[r]) <= Cap
  <2>1. fromPump' = [fromPump EXCEPT ![s] = new]
    BY <1>3
  <2>2. new \in Seq(Byte) /\ Len(new) <= Cap
    BY <1>6
  <2> HIDE DEF new
  <2> QED  BY <1>1, <2>1, <2>2 DEF TypeOK
<1>8. pc' \in {"top", "readA", "readB", "writeA", "writeB"}
  BY DEF Write, TypeOK, After, Other, Side, Writing
<1>9. moved' \in BOOLEAN
  BY Zenon DEF Write
<1> QED
  BY <1>5, <1>7, <1>8, <1>9 DEF Write, TypeOK, fdVars, history

LEMMA InterruptTypes ==
  ASSUME TypeOK, NEW s \in Side, WriteInterrupted(s)
  PROVE  TypeOK'
<1>1. hand' \in Seq(Byte) /\ Len(hand') <= BufSize
  BY PumpAssumption DEF WriteInterrupted
<1>2. pc' \in {"top", "readB"} /\ cut' \in [Side -> Nat] /\ moved' = FALSE
  BY DEF WriteInterrupted, After, Side, Other, TypeOK
<1> QED
  BY <1>1, <1>2 DEF WriteInterrupted, TypeOK, fdVars, lineVars, Byte

LEMMA FarTypes ==
  ASSUME TypeOK, NEW s \in Side,
         FarOpens(s) \/ FarWrites(s) \/ FarReads(s) \/ FarCloses(s)
  PROVE  TypeOK'
<1>1. CASE FarOpens(s)
  BY <1>1 DEF FarOpens, TypeOK, threadVars, fdVars, history, Byte
<1>2. CASE FarWrites(s)
  <2>1. Len(sent[s]) + 1 \in Byte
    BY <1>2, PumpAssumption DEF FarWrites, TypeOK, Byte
  <2> DEFINE byte == Len(sent[s]) + 1
  <2>2. /\ Append(sent[s], byte) \in Seq(Byte)
        /\ Append(toPump[s], byte) \in Seq(Byte)
    BY <2>1 DEF TypeOK
  <2>3. sent' \in [Side -> Seq(Byte)] /\ toPump' \in [Side -> Seq(Byte)]
    BY <1>2, <2>2 DEF FarWrites, TypeOK
  <2> HIDE DEF byte
  <2>4. steady' \in [Side -> BOOLEAN]
    BY <1>2, Zenon, SideFacts DEF FarWrites, TypeOK
  <2> QED
    BY <1>2, <2>3, <2>4 DEF FarWrites, TypeOK, threadVars, fdVars, Byte
<1>3. CASE FarReads(s)
  <2>1. /\ fromPump[s] \in Seq(Byte) /\ fromPump[s] # <<>>
        /\ got[s] \in Seq(Byte)
    BY <1>3 DEF FarReads, TypeOK
  <2>2. /\ Append(got[s], Head(fromPump[s])) \in Seq(Byte)
        /\ Tail(fromPump[s]) \in Seq(Byte)
        /\ Len(Tail(fromPump[s])) <= Len(fromPump[s])
    BY <2>1
  <2>3. /\ got' \in [Side -> Seq(Byte)] /\ fromPump' \in [Side -> Seq(Byte)]
        /\ \A r \in Side : Len(fromPump'[r]) <= Cap
    <3>1. got' \in [Side -> Seq(Byte)] /\ fromPump' \in [Side -> Seq(Byte)]
      BY <1>3, <2>2 DEF FarReads, TypeOK
    <3>2. \A r \in Side : fromPump'[r] = IF r = s THEN Tail(fromPump[s])
                                                  ELSE fromPump[r]
      BY <1>3 DEF FarReads, TypeOK
    <3>3. \A r \in Side : Len(fromPump[r]) <= Cap /\ Len(fromPump[r]) \in Nat
      BY DEF TypeOK
    <3> DEFINE t == Tail(fromPump[s])
    <3>4. Len(t) <= Cap
      BY <2>1, <2>2, <3>3, PumpAssumption
    <3> HIDE DEF t
    <3> QED  BY <3>1, <3>2, <3>3, <3>4 DEF t
  <2> QED
    BY <1>3, <2>3 DEF FarReads, TypeOK, threadVars, fdVars, Byte
<1>4. CASE FarCloses(s)
  <2>1. /\ fromPump' \in [Side -> Seq(Byte)]
        /\ \A r \in Side : Len(fromPump'[r]) <= Cap
    <3>1. <<>> \in Seq(Byte) /\ Len(<<>>) <= Cap
      BY PumpAssumption
    <3> QED  BY <1>4, <3>1 DEF FarCloses, TypeOK
  <2>2. steady' \in [Side -> BOOLEAN]
    BY <1>4, Zenon DEF FarCloses, TypeOK
  <2> QED
    BY <1>4, <2>1, <2>2 DEF FarCloses, TypeOK, threadVars, fdVars
<1> QED  BY <1>1, <1>2, <1>3, <1>4

LEMMA OwnerTypes ==
  ASSUME TypeOK, SetTty \/ ClearFd \/ OpenTty \/ Configure \/ Destroy \/ Join
  PROVE  TypeOK'
<1>1. ASSUME DeviceGone
      PROVE  /\ openFd' \in Fd \cup {none} /\ steady' \in [Side -> BOOLEAN]
             /\ far' \in [Side -> {"new", "open", "closed"}]
             /\ {toPump', fromPump'} \subseteq [Side -> Seq(Byte)]
             /\ \A s \in Side : Len(fromPump'[s]) <= Cap
             /\ unread' \in Nat
  BY <1>1, PumpAssumption DEF DeviceGone, TypeOK, Side
<1>2. CASE SetTty
  <2>1. /\ openFd' \in Fd \cup {none} /\ steady' \in [Side -> BOOLEAN]
        /\ far' \in [Side -> {"new", "open", "closed"}]
        /\ {toPump', fromPump'} \subseteq [Side -> Seq(Byte)]
        /\ \A s \in Side : Len(fromPump'[s]) <= Cap
        /\ unread' \in Nat
    BY <1>1, <1>2 DEF SetTty, TypeOK, lineVars
  <2> QED  BY <1>2, <2>1 DEF SetTty, TypeOK, threadVars
<1>3. CASE ClearFd
  BY <1>3 DEF ClearFd, TypeOK, threadVars, lineVars, history, Byte
<1>4. CASE OpenTty
  BY <1>4 DEF OpenTty, TypeOK, threadVars, fdVars, history, Byte, Side
<1>5. CASE Configure
  BY <1>1, <1>5 DEF Configure, TypeOK, threadVars, lineVars, Byte
<1>6. CASE Destroy
  BY <1>6 DEF Destroy, TypeOK, threadVars, lineVars, fdVars, history, Byte
<1>7. CASE Join
  BY <1>7 DEF Join, TypeOK, threadVars, lineVars, history, Byte
<1> QED  BY <1>2, <1>3, <1>4, <1>5, <1>6, <1>7

LEMMA TypeIsKept == TypeOK /\ [Next]_vars => TypeOK'
<1> SUFFICES ASSUME TypeOK, [Next]_vars PROVE TypeOK'
  OBVIOUS
<1>1. CASE Top \/ Abort \/ Select \/ SelectFails
  BY <1>1
  DEF Top, Abort, Select, SelectFails, TypeOK, fdVars, lineVars, history, Byte
<1>2. CASE \E s \in Side : Read(s) \/ Write(s) \/ WriteInterrupted(s)
  BY <1>2, ReadTypes, WriteTypes, InterruptTypes
<1>3. CASE \E s \in Side :
              FarOpens(s) \/ FarWrites(s) \/ FarReads(s) \/ FarCloses(s)
  BY <1>3, FarTypes
<1>4. CASE SetTty \/ ClearFd \/ OpenTty \/ Configure \/ Destroy \/ Join
  BY <1>4, OwnerTypes
<1>5. CASE UNCHANGED vars
  BY <1>5
  DEF vars, TypeOK, fdVars, lineVars, threadVars, history, Byte
<1> QED  BY <1>1, <1>2, <1>3, <1>4, <1>5 DEF Next, Thread

-----------------------------------------------------------------------------
(***************************************************************************)
(* What a step may do to the way from side s to the other one.             *)
(***************************************************************************)

\* A pty's descriptor is open as long as the thread may use it.
PtysStay ==
    /\ owner = "gone" => pc \in {"done", "ended"}
    /\ class = "NullModem" =>
          /\ owner \notin {"clear", "open", "configure", "undo"}
          /\ owner # "gone" => real_fd = openFd /\ real_fd \in Fd

\* Nobody has sent to a far end that is steady and not there.
SteadyIsThere ==
    \A s \in Side : steady[s] /\ far[s] # "open" => sent[Other(s)] = <<>>

Steady(s) == Pty(Other(s)) /\ steady[Other(s)]

\* What signals and closed devices may have cost, and that there were none.
Loss(s)  == unread + (BufSize - 1) * cut[Other(s)]
Whole(s) == unread = 0 /\ cut[Other(s)] = 0

\* Bytes are numbered as they are sent.
SentInOrder == \A s \in Side : \A i \in DOMAIN sent[s] : sent[s][i] = i

\* Whatever is on its way is in the order in which it was sent.
WayAscends ==
    \A s \in Side : Ascending(Way(s)) /\ UpTo(Way(s), Len(sent[s]))

\* What a signal can take is less than a buffer.
HandIsShort == moved => pc \in {"writeA", "writeB"} /\ Len(hand) < BufSize

SameLoss == UNCHANGED <<cut, unread>>

Kept(s) ==
    /\ Way(s)' = Way(s) /\ sent'[s] = sent[s]
    /\ Steady(s)' => Steady(s) /\ Loss(s)' = Loss(s) /\ (Whole(s)' => Whole(s))

Shortened(s) ==
    /\ Cut(Way(s)', Way(s), Byte) /\ sent'[s] = sent[s]
    /\ Steady(s)' => /\ Steady(s) /\ ~Whole(s)'
                     /\ Len(Way(s)) + Loss(s) <= Len(Way(s)') + Loss(s)'

Lengthened(s) ==
    LET byte == Len(sent[s]) + 1 IN
    /\ byte \in Byte /\ Way(s)' = Append(Way(s), byte)
    /\ sent'[s] = Append(sent[s], byte)
    /\ Steady(s)' => Steady(s) /\ Loss(s)' = Loss(s) /\ (Whole(s)' => Whole(s))

WayStep(s) == Kept(s) \/ Shortened(s) \/ Lengthened(s)

LEMMA WayIs ==
  ASSUME TypeOK, NEW s \in Side
  PROVE  LET o == Other(s) IN
         /\ o \in Side
         /\ got[o] \in Seq(Byte) /\ fromPump[o] \in Seq(Byte)
         /\ InHand(o) \in Seq(Byte) /\ toPump[s] \in Seq(Byte)
         /\ Way(s) = Joined(got[o], fromPump[o], InHand(o), toPump[s])
<1>1. Other(s) \in Side
  BY SideFacts
<1>2. <<>> \in Seq(Byte)
  OBVIOUS
<1> QED  BY <1>1, <1>2 DEF TypeOK, InHand, Way, Joined, Cat

LEMMA WayTypes ==
  ASSUME TypeOK
  PROVE  \A s \in Side : Way(s) \in Seq(Byte) /\ Len(Way(s)) \in Nat
<1>1. ASSUME NEW s \in Side
      PROVE  Way(s) \in Seq(Byte) /\ Len(Way(s)) \in Nat
  BY WayIs, JoinedSeq
<1> QED  BY <1>1

LEMMA ProductIsNat == \A m, n \in Nat : m * n \in Nat
OBVIOUS

LEMMA LossIsNat ==
  ASSUME TypeOK, NEW s \in Side
  PROVE  Loss(s) \in Nat
<1>1. cut[Other(s)] \in Nat /\ unread \in Nat /\ BufSize - 1 \in Nat
  <2>1. Other(s) \in Side
    BY SideFacts
  <2>2. cut \in [Side -> Nat] /\ unread \in Nat
    BY DEF TypeOK
  <2>3. BufSize \in Nat \ {0}
    BY PumpAssumption
  <2>4. BufSize - 1 \in Nat
    BY <2>3
  <2>5. cut[Other(s)] \in Nat
    BY <2>1, <2>2
  <2> QED  BY <2>2, <2>4, <2>5
<1>2. (BufSize - 1) * cut[Other(s)] \in Nat
  BY <1>1, ProductIsNat, Zenon
<1> QED  BY <1>1, <1>2 DEF Loss

LEMMA LossIsSame ==
  ASSUME SameLoss, NEW s \in Side
  PROVE  Loss(s)' = Loss(s) /\ (Whole(s)' => Whole(s))
BY DEF SameLoss, Loss, Whole

LEMMA WayKept ==
  ASSUME TypeOK, UNCHANGED <<class, got, fromPump, toPump, sent>>, SameLoss,
         \A s \in Side : steady'[s] => steady[s],
         \A s \in Side : InHand(s)' = InHand(s)
  PROVE  \A s \in Side : Kept(s)
BY SideFacts, LossIsSame DEF Kept, Way, Steady, Pty

\* Steps of the thread that do not touch what is in its hands.
LEMMA ThreadKeeps ==
  ASSUME TypeOK, Top \/ Abort \/ Select \/ SelectFails
  PROVE  \A s \in Side : Kept(s)
<1>1. /\ UNCHANGED <<class, got, fromPump, toPump, sent>>
      /\ UNCHANGED steady /\ SameLoss
  BY DEF Top, Abort, Select, SelectFails, lineVars, history, SameLoss
<1>2. \A s \in Side : pc # Writing[s] /\ pc' # Writing[s]
  BY DEF Top, Abort, Select, SelectFails, Writing, Side
<1> QED  BY <1>1, <1>2, WayKept, Zenon DEF InHand

LEMMA ReadKeeps ==
  ASSUME TypeOK, NEW s \in Side, Read(s)
  PROVE  \A r \in Side : Kept(r)
<1>1. /\ UNCHANGED <<class, got, fromPump, sent, steady>> /\ SameLoss
      /\ \A r \in Side : pc # Writing[r]
      /\ pc' # Writing[s]
  BY DEF Read, history, Reading, Writing, After, Side, Other, SameLoss
<1>2. CASE UNCHANGED <<hand, toPump>> /\ pc' = After[s]
  <2>1. \A r \in Side : pc' # Writing[r]
    BY <1>2 DEF After, Writing, Side
  <2> QED  BY <1>1, <1>2, <2>1, WayKept, Zenon DEF InHand
<1>3. CASE \E k \in 1 .. AtMost(BufSize, Len(toPump[s])) :
              /\ hand' = First(k, toPump[s])
              /\ toPump' = [toPump EXCEPT ![s] = Rest(k, @)]
              /\ pc' = Writing[Other(s)]
  <2> PICK k \in 1 .. AtMost(BufSize, Len(toPump[s])) :
              /\ hand' = First(k, toPump[s])
              /\ toPump' = [toPump EXCEPT ![s] = Rest(k, @)]
              /\ pc' = Writing[Other(s)]
    BY <1>3
  <2> DEFINE o == Other(s)
  <2>1. k \in 0 .. Len(toPump[s]) /\ o \in Side
    BY PumpAssumption, SideFacts DEF AtMost, TypeOK
  <2>2. toPump'[s] = Rest(k, toPump[s]) /\ toPump'[o] = toPump[o]
    BY SideFacts DEF TypeOK
  <2>3. InHand(o) = <<>> /\ InHand(o)' = First(k, toPump[s])
    BY <1>1, <2>1 DEF InHand
  <2>4. Way(s)' = Joined(got[o], fromPump[o], InHand(o)', toPump'[s])
    BY <1>1 DEF Way, Joined, Cat
  <2>5. Way(s)' = Way(s)
    BY <2>1, <2>2, <2>3, <2>4, WayIs, JoinedRead
  <2>6. InHand(s)' = InHand(s)
    BY <1>1 DEF InHand
  <2>7. Way(o)' = Way(o)
    BY <1>1, <2>2, <2>6, SideFacts DEF Way
  <2> HIDE DEF o
  <2>8. \A r \in Side : Way(r)' = Way(r)
    BY <2>5, <2>7, SideFacts DEF o, Side, Other
  <2> QED  BY <1>1, <2>8, LossIsSame DEF Kept, Steady, Pty
<1> QED  BY <1>2, <1>3 DEF Read

\* A write drops bytes only if its side is no pty, or not a steady one.
LEMMA WriteSteps ==
  ASSUME TypeOK, PtysStay, SteadyIsThere, WayAscends,
         NEW s \in Side, Write(s)
  PROVE  \A r \in Side : WayStep(r)
<1> DEFINE o == Other(s)
           there == Reaches(s) /\ far[s] = "open"
           k == IF there THEN AtMost(Cap - Len(fromPump[s]), Len(hand)) ELSE 0
<1>1. /\ o \in Side /\ o # s /\ Other(o) = s
      /\ UNCHANGED <<class, toPump, got, sent, steady>> /\ SameLoss
      /\ fromPump' = [fromPump EXCEPT ![s] = @ \o First(k, hand)]
      /\ hand' = IF there /\ Pty(s) THEN Rest(k, hand) ELSE <<>>
      /\ pc = Writing[s] /\ pc' = IF hand' = <<>> THEN After[o] ELSE pc
  BY SideFacts DEF Write, history, SameLoss
<1>2. k \in 0 .. Len(hand)
  BY PumpAssumption DEF AtMost, TypeOK
<1>3. ~there /\ Pty(s) /\ steady[s] => hand = <<>>
  <2> SUFFICES ASSUME ~there, Pty(s), steady[s] PROVE hand = <<>>
    OBVIOUS
  <2>1. owner # "gone"
    BY <1>1 DEF PtysStay, Writing, Side
  <2>2. Reaches(s)
    BY <2>1, SideFacts DEF PtysStay, Pty, Reaches
  <2>3. sent[o] = <<>>
    BY <2>2 DEF SteadyIsThere
  <2>4. Way(o) = <<>>
    <3>1. Way(o) \in Seq(Byte) /\ \A i \in DOMAIN Way(o) : Way(o)[i] <= 0
      <4>1. Way(o) \in Seq(Byte)
        BY <1>1, WayTypes
      <4>2. UpTo(Way(o), Len(sent[o])) /\ Len(sent[o]) = 0
        BY <1>1, <2>3 DEF WayAscends
      <4> QED  BY <4>1, <4>2 DEF UpTo
    <3>2. \A i \in DOMAIN Way(o) : Way(o)[i] >= 1
      BY <3>1, PumpAssumption DEF Byte
    <3> DEFINE w == Way(o)
    <3> HIDE DEF w
    <3>3. w \in Seq(Byte) /\ Byte \subseteq Nat
          /\ \A i \in DOMAIN w : w[i] <= 0 /\ w[i] >= 1
      BY <3>1, <3>2, PumpAssumption DEF w, Byte
    <3>4. w = <<>>
      <4> SUFFICES ASSUME w # <<>> PROVE FALSE
        OBVIOUS
      <4>1. 1 \in DOMAIN w /\ w[1] \in Nat
        <5>1. Len(w) \in Nat /\ Len(w) # 0 /\ DOMAIN w = 1 .. Len(w)
          BY <3>3
        <5>2. 1 \in DOMAIN w
          BY <5>1
        <5>3. \A q \in Seq(Byte) : \A i \in 1 .. Len(q) : q[i] \in Byte
          OBVIOUS
        <5>4. 1 \in 1 .. Len(w)
          BY <5>1
        <5>5. w[1] \in Byte
          BY <3>3, <5>3, <5>4, Zenon
        <5> QED  BY <3>3, <5>2, <5>5
      <4> QED  BY <3>3, <4>1
    <3> QED  BY <3>4 DEF w
  <2>5. /\ got[s] \in Seq(Byte) /\ fromPump[s] \in Seq(Byte)
        /\ hand \in Seq(Byte) /\ toPump[o] \in Seq(Byte)
        /\ Way(o) = got[s] \o fromPump[s] \o hand \o toPump[o]
    BY <1>1 DEF TypeOK, Way, InHand
  <2>6. Joined(got[s], fromPump[s], hand, toPump[o]) = <<>>
    BY <2>4, <2>5 DEF Joined, Cat
  <2> QED  BY <2>5, <2>6, JoinedEmpty
<1>4. there \/ k = 0
  OBVIOUS
<1> HIDE DEF o, there, k
<1>5. /\ fromPump'[s] = Cat(fromPump[s], First(k, hand))
      /\ fromPump'[o] = fromPump[o]
  BY <1>1 DEF Cat, TypeOK
<1>6. InHand(s) = hand /\ InHand(s)' = hand'
  BY <1>1, SideFacts DEF InHand, Writing, After, Side
<1>7. /\ hand \in Seq(Byte) /\ got[s] \in Seq(Byte)
      /\ fromPump[s] \in Seq(Byte) /\ toPump[o] \in Seq(Byte)
      /\ Way(o) = Joined(got[s], fromPump[s], hand, toPump[o])
      /\ Way(o)' = Joined(got[s], Cat(fromPump[s], First(k, hand)), hand', toPump[o])
  BY <1>1, <1>5, <1>6 DEF TypeOK, Way, Joined, Cat
<1>8. ASSUME hand' = Rest(k, hand) PROVE Kept(o)
  <2>1. Way(o)' = Way(o)
    BY <1>2, <1>7, <1>8, JoinedWrite
  <2>2. Steady(o)' = Steady(o) /\ sent'[o] = sent[o]
    BY <1>1, Zenon DEF Steady, Pty
  <2>3. Loss(o)' = Loss(o) /\ (Whole(o)' => Whole(o))
    BY <1>1, LossIsSame
  <2> QED  BY <2>1, <2>2, <2>3, Zenon DEF Kept
<1>9. ASSUME hand' # Rest(k, hand) PROVE Shortened(o)
  <2>1. hand' = <<>> /\ ~(there /\ Pty(s))
    BY <1>1, <1>9
  <2>2. ~(Pty(s) /\ steady[s])
    <3> SUFFICES ASSUME Pty(s), steady[s] PROVE FALSE
      OBVIOUS
    <3>1. hand = <<>> /\ k = 0
      BY <1>3, <1>4, <2>1
    <3>2. Rest(0, <<>>) = <<>>
      BY DEF Rest
    <3> QED  BY <1>9, <2>1, <3>1, <3>2
  <2>3. Cut(Way(o)', Way(o), Byte)
    BY <1>2, <1>7, <2>1, CutHand
  <2>4. ~Steady(o)'
    BY <1>1, <2>2, Zenon DEF Steady, Pty
  <2>5. sent'[o] = sent[o]
    BY <1>1
  <2> QED  BY <2>3, <2>4, <2>5, Zenon DEF Shortened
<1>10. WayStep(o)
  BY <1>8, <1>9, Zenon DEF WayStep
<1>11. Kept(s)
  <2>1. InHand(o) = <<>> /\ InHand(o)' = <<>>
    BY <1>1 DEF InHand, Writing, After, Side
  <2> QED  BY <1>1, <1>5, <2>1, LossIsSame DEF Kept, Way, Steady, Pty, o
<1> QED  BY <1>1, <1>10, <1>11 DEF WayStep, Side

\* A signal in the middle of a write takes what is left in the hand.
LEMMA InterruptSteps ==
  ASSUME TypeOK, HandIsShort, NEW s \in Side, WriteInterrupted(s)
  PROVE  \A r \in Side : WayStep(r)
<1> DEFINE o == Other(s)
<1>1. /\ o \in Side /\ o # s /\ Other(o) = s
      /\ UNCHANGED <<class, toPump, fromPump, got, sent, steady, unread>>
      /\ hand' = <<>> /\ pc = Writing[s] /\ pc' = After[o]
      /\ cut'[s] = cut[s] + 1 /\ cut'[o] = cut[o]
  BY SideFacts DEF WriteInterrupted, lineVars, TypeOK
<1>2. /\ InHand(s) = hand /\ InHand(s)' = <<>>
      /\ InHand(o) = <<>> /\ InHand(o)' = <<>>
  BY <1>1 DEF InHand, Writing, After, Side
<1> HIDE DEF o
<1>3. /\ hand \in Seq(Byte) /\ got[s] \in Seq(Byte)
      /\ fromPump[s] \in Seq(Byte) /\ toPump[o] \in Seq(Byte)
      /\ Way(o) = Joined(got[s], fromPump[s], hand, toPump[o])
      /\ Way(o)' = Joined(got[s], fromPump[s], <<>>, toPump[o])
  BY <1>1, <1>2 DEF TypeOK, Way, Joined, Cat
<1>4. Cut(Way(o)', Way(o), Byte)
  <2>1. 0 \in 0 .. Len(hand) /\ Cat(fromPump[s], First(0, hand)) = fromPump[s]
    BY <1>3 DEF First, Cat
  <2>2. Cut(Joined(got[s], Cat(fromPump[s], First(0, hand)), <<>>, toPump[o]),
            Joined(got[s], fromPump[s], hand, toPump[o]), Byte)
    BY <1>3, <2>1, CutHand
  <2> QED  BY <1>3, <2>1, <2>2, Zenon
<1>5. Len(Way(o)) + Loss(o) <= Len(Way(o)') + Loss(o)'
  <2> DEFINE e == <<>>
  <2>1. /\ Len(Way(o)) = Len(got[s]) + Len(fromPump[s]) + Len(hand) + Len(toPump[o])
        /\ Len(got[s]) \in Nat /\ Len(fromPump[s]) \in Nat
        /\ Len(hand) \in Nat /\ Len(toPump[o]) \in Nat
    <3> DEFINE g == got[s]
               f == fromPump[s]
               t == toPump[o]
    <3>1. /\ g \in Seq(Byte) /\ f \in Seq(Byte) /\ hand \in Seq(Byte)
          /\ t \in Seq(Byte) /\ Way(o) = Joined(g, f, hand, t)
      BY <1>3
    <3> HIDE DEF g, f, t
    <3>2. Len(Way(o)) = Len(g) + Len(f) + Len(hand) + Len(t)
      BY <3>1, JoinedLen
    <3> QED  BY <3>1, <3>2 DEF g, f, t
  <2>2. Len(Way(o)') = Len(got[s]) + Len(fromPump[s]) + Len(e) + Len(toPump[o])
    <3>1. e \in Seq(Byte) /\ Way(o)' = Joined(got[s], fromPump[s], e, toPump[o])
      BY <1>3
    <3> DEFINE g == got[s]
               f == fromPump[s]
               t == toPump[o]
    <3>2. g \in Seq(Byte) /\ f \in Seq(Byte) /\ t \in Seq(Byte)
      BY <1>3
    <3>3. Way(o)' = Joined(g, f, e, t)
      BY <3>1
    <3> HIDE DEF e, g, f, t
    <3>4. Len(Joined(g, f, e, t)) = Len(g) + Len(f) + Len(e) + Len(t)
      BY <3>1, <3>2, JoinedLen
    <3> QED  BY <3>3, <3>4 DEF g, f, t
  <2>3. Loss(o)' = Loss(o) + (BufSize - 1)
    <3> DEFINE b == BufSize - 1
               c == cut[s]
    <3>1. b \in Nat /\ c \in Nat /\ unread \in Nat
      BY PumpAssumption DEF TypeOK
    <3>2. Loss(o) = unread + b * c /\ Loss(o)' = unread + b * (c + 1)
      BY <1>1 DEF Loss
    <3> HIDE DEF b, c
    <3>3. \A m, n \in Nat : m * (n + 1) = m * n + m /\ m * n \in Nat
      OBVIOUS
    <3>4. b * (c + 1) = b * c + b /\ b * c \in Nat
      BY <3>1, <3>3, Zenon
    <3> DEFINE x == b * c
    <3> HIDE DEF x
    <3>5. Loss(o)' = unread + (x + b) /\ Loss(o) = unread + x /\ x \in Nat
      BY <3>2, <3>4 DEF x
    <3> QED  BY <3>1, <3>5 DEF b
  <2>4. Len(hand) <= BufSize - 1
    BY <2>1, PumpAssumption DEF HandIsShort, WriteInterrupted
  <2>5. Len(e) = 0 /\ Loss(o) \in Nat
    BY <1>1, LossIsNat
  <2> HIDE DEF e
  <2> DEFINE m == Len(got[s]) + Len(fromPump[s]) + Len(toPump[o])
  <2>6. Len(Way(o)) = m + Len(hand) /\ Len(Way(o)') = m /\ m \in Nat
    <3> DEFINE i == Len(got[s])
               j == Len(fromPump[s])
               k == Len(toPump[o])
               h == Len(hand)
               z == Len(e)
    <3>1. /\ Len(Way(o)) = i + j + h + k /\ Len(Way(o)') = i + j + z + k
          /\ i \in Nat /\ j \in Nat /\ k \in Nat /\ h \in Nat /\ z = 0
      BY <2>1, <2>2, <2>5
    <3> HIDE DEF i, j, k, h, z
    <3>2. i + j + h + k = i + j + k + h /\ i + j + z + k = i + j + k
      BY <3>1
    <3>3. i + j + k \in Nat
      BY <3>1
    <3> QED  BY <3>1, <3>2, <3>3, Zenon DEF i, j, k, h
  <2>7. BufSize - 1 \in Nat /\ Len(hand) \in Nat
    BY <2>1, PumpAssumption
  <2> HIDE DEF m
  <2> QED  BY <2>3, <2>4, <2>5, <2>6, <2>7
<1>6. Shortened(o)
  <2>1. ~Whole(o)'
    BY <1>1 DEF Whole, TypeOK
  <2>2. Steady(o)' = Steady(o) /\ sent'[o] = sent[o]
    BY <1>1, Zenon DEF Steady, Pty
  <2> QED  BY <1>4, <1>5, <2>1, <2>2 DEF Shortened
<1>7. Kept(s)
  BY <1>1, <1>2 DEF Kept, Way, Steady, Pty, Loss, Whole, o
<1> QED  BY <1>1, <1>6, <1>7 DEF WayStep, o, Side, Other

LEMMA FarSteps ==
  ASSUME TypeOK, NEW s \in Side,
         FarOpens(s) \/ FarWrites(s) \/ FarReads(s) \/ FarCloses(s)
  PROVE  \A r \in Side : WayStep(r)
<1> DEFINE o == Other(s)
<1>1. /\ o \in Side /\ o # s /\ Other(o) = s
      /\ \A r \in Side : r = s \/ r = o
      /\ UNCHANGED <<class, hand>> /\ \A r \in Side : InHand(r)' = InHand(r)
      /\ SameLoss
      /\ \A r \in Side : Loss(r)' = Loss(r) /\ (Whole(r)' => Whole(r))
  <2>1. SameLoss
    BY DEF FarOpens, FarWrites, FarReads, FarCloses, history, SameLoss
  <2>2. UNCHANGED <<class, hand>> /\ \A r \in Side : InHand(r)' = InHand(r)
    BY DEF FarOpens, FarWrites, FarReads, FarCloses, threadVars, InHand
  <2> QED  BY <2>1, <2>2, SideFacts, LossIsSame DEF Side
<1>2. /\ got[s] \in Seq(Byte) /\ fromPump[s] \in Seq(Byte)
      /\ InHand(s) \in Seq(Byte) /\ toPump[o] \in Seq(Byte)
      /\ Way(o) = Joined(got[s], fromPump[s], InHand(s), toPump[o])
  BY <1>1, WayIs
<1> HIDE DEF o
<1>3. CASE FarOpens(s)
  BY <1>1, <1>3, WayKept DEF FarOpens, history, WayStep
<1>4. CASE FarWrites(s)
  <2> DEFINE byte == Len(sent[s]) + 1
  <2>1. byte \in Byte
    BY <1>4, PumpAssumption DEF FarWrites, TypeOK, Byte
  <2>2. /\ sent'[s] = Append(sent[s], byte) /\ sent'[o] = sent[o]
        /\ toPump'[s] = Append(toPump[s], byte) /\ toPump'[o] = toPump[o]
        /\ UNCHANGED <<got, fromPump>>
        /\ \A r \in Side : steady'[r] => steady[r]
    BY <1>1, <1>4 DEF FarWrites, TypeOK
  <2>3. Kept(o)
    BY <1>1, <2>2 DEF Kept, Way, Steady, Pty
  <2> HIDE DEF byte
  <2>4. Way(s)' = Append(Way(s), byte)
    <3>1. /\ got[o] \in Seq(Byte) /\ fromPump[o] \in Seq(Byte)
          /\ InHand(o) \in Seq(Byte) /\ toPump[s] \in Seq(Byte)
          /\ Way(s) = Joined(got[o], fromPump[o], InHand(o), toPump[s])
      BY WayIs DEF o
    <3>2. Way(s)' = Joined(got[o], fromPump[o], InHand(o), Append(toPump[s], byte))
      BY <1>1, <2>2 DEF Way, Joined, Cat, o
    <3>3. Joined(got[o], fromPump[o], InHand(o), Append(toPump[s], byte))
            = Append(Joined(got[o], fromPump[o], InHand(o), toPump[s]), byte)
      <4> DEFINE p == Cat(Cat(got[o], fromPump[o]), InHand(o))
      <4>1. p \in Seq(Byte) /\ toPump[s] \in Seq(Byte)
        BY <3>1, CatProperties
      <4> HIDE DEF p
      <4>2. Cat(p, Append(toPump[s], byte)) = Append(Cat(p, toPump[s]), byte)
        BY <2>1, <4>1, CatAppend
      <4> QED  BY <4>2 DEF Joined, p
    <3> QED  BY <3>1, <3>2, <3>3, Zenon
  <2>5. Steady(s)' => Steady(s)
    BY <1>1, <2>2 DEF Steady, Pty, o
  <2>6. Lengthened(s)
    BY <1>1, <2>1, <2>2, <2>4, <2>5 DEF Lengthened, byte
  <2> QED  BY <1>1, <2>3, <2>6 DEF WayStep
<1>5. CASE FarReads(s)
  <2>1. /\ got'[s] = Append(got[s], Head(fromPump[s])) /\ got'[o] = got[o]
        /\ fromPump'[s] = Tail(fromPump[s]) /\ fromPump'[o] = fromPump[o]
        /\ fromPump[s] # <<>>
        /\ UNCHANGED <<toPump, sent, steady>>
    BY <1>1, <1>5 DEF FarReads, TypeOK
  <2>2. Kept(s)
    BY <1>1, <2>1 DEF Kept, Way, Steady, Pty, o
  <2>3. Way(o)' = Joined(Append(got[s], Head(fromPump[s])), Tail(fromPump[s]),
                         InHand(s), toPump[o])
    BY <1>1, <2>1 DEF Way, Joined, Cat
  <2>4. Way(o)' = Way(o)
    BY <1>2, <2>1, <2>3, JoinedGet
  <2>5. Kept(o)
    BY <1>1, <2>1, <2>4 DEF Kept, Steady, Pty
  <2> QED  BY <1>1, <2>2, <2>5 DEF WayStep
<1>6. CASE FarCloses(s)
  <2>1. /\ fromPump'[o] = fromPump[o]
        /\ fromPump'[s] = fromPump[s] \/ fromPump'[s] = <<>>
        /\ UNCHANGED <<toPump, sent, got>> /\ ~steady'[s]
        /\ \A r \in Side : steady'[r] => steady[r]
    BY <1>1, <1>6 DEF FarCloses, TypeOK
  <2>2. Kept(s)
    BY <1>1, <2>1 DEF Kept, Way, Steady, Pty, o
  <2>3. Way(o)' = Joined(got[s], fromPump'[s], InHand(s), toPump[o])
    BY <1>1, <2>1 DEF Way, Joined, Cat
  <2>4. Kept(o) \/ Shortened(o)
    <3>1. CASE fromPump'[s] = fromPump[s]
      BY <1>1, <1>2, <2>1, <2>3, <3>1 DEF Kept, Steady, Pty
    <3>2. CASE fromPump'[s] = <<>>
      BY <1>1, <1>2, <2>1, <2>3, <3>2, CutTty DEF Shortened, Steady, Pty
    <3> QED  BY <2>1, <3>1, <3>2
  <2> QED  BY <1>1, <2>2, <2>4 DEF WayStep
<1> QED  BY <1>3, <1>4, <1>5, <1>6

LEMMA OwnerSteps ==
  ASSUME TypeOK, SetTty \/ ClearFd \/ OpenTty \/ Configure \/ Destroy \/ Join
  PROVE  \A r \in Side : WayStep(r)
<1>1. /\ UNCHANGED <<class, sent, got>>
      /\ \A r \in Side : InHand(r)' = InHand(r)
  BY DEF SetTty, ClearFd, OpenTty, Configure, Destroy, Join, threadVars,
         history, InHand
<1>2. CASE UNCHANGED <<toPump, fromPump, steady, cut, unread>>
  BY <1>1, <1>2, WayKept DEF WayStep, SameLoss
<1>3. CASE DeviceGone /\ UNCHANGED cut
  <2>1. /\ toPump'["a"] = toPump["a"] /\ toPump'["b"] = <<>>
        /\ fromPump'["a"] = fromPump["a"] /\ fromPump'["b"] = <<>>
        /\ ~steady'["b"] /\ steady'["a"] = steady["a"]
        /\ unread' = unread + Len(toPump["b"])
    BY <1>3 DEF DeviceGone, TypeOK, Side
  <2>2. Way("a")' = Joined(got["b"], <<>>, InHand("b"), toPump["a"])
    BY <1>1, <2>1 DEF Way, Joined, Cat, Side, Other
  <2>3. Way("b")' = Joined(got["a"], fromPump["a"], InHand("a"), <<>>)
    BY <1>1, <2>1 DEF Way, Joined, Cat, Side, Other
  <2>4. Cut(Way("a")', Way("a"), Byte)
    BY <2>2, WayIs, CutTty DEF Side, Other
  <2>5. Cut(Way("b")', Way("b"), Byte)
    BY <2>3, WayIs, CutWaiting DEF Side, Other
  <2>6. Shortened("a")
    BY <1>1, <2>1, <2>4 DEF Shortened, Steady, Other
  <2>7. Kept("b") \/ Shortened("b")
    <3>1. /\ got["a"] \in Seq(Byte) /\ fromPump["a"] \in Seq(Byte)
          /\ InHand("a") \in Seq(Byte) /\ toPump["b"] \in Seq(Byte)
          /\ Way("b") = Joined(got["a"], fromPump["a"], InHand("a"), toPump["b"])
      BY WayIs DEF Side, Other
    <3>2. CASE toPump["b"] = <<>>
      <4>1. unread' = unread /\ Way("b")' = Way("b")
        BY <2>1, <2>3, <3>1, <3>2 DEF TypeOK
      <4> QED
        BY <1>1, <1>3, <2>1, <4>1 DEF Kept, Steady, Pty, Loss, Whole, Other
    <3>3. CASE toPump["b"] # <<>>
      <4> DEFINE n == Len(toPump["b"])
                 m == Len(got["a"]) + Len(fromPump["a"]) + Len(InHand("a"))
                 x == (BufSize - 1) * cut["a"]
                 e == <<>>
      <4>1. n \in Nat /\ n > 0 /\ unread \in Nat
        BY <3>1, <3>3 DEF TypeOK
      <4>2. /\ Len(Way("b")) = m + n /\ m \in Nat
            /\ \A q \in Seq(Byte) :
                  Len(Joined(got["a"], fromPump["a"], InHand("a"), q)) = m + Len(q)
        <5> DEFINE g == got["a"]
                   f == fromPump["a"]
                   h == InHand("a")
                   t == toPump["b"]
        <5>1. /\ g \in Seq(Byte) /\ f \in Seq(Byte) /\ h \in Seq(Byte)
              /\ t \in Seq(Byte) /\ Way("b") = Joined(g, f, h, t)
          BY <3>1
        <5> HIDE DEF g, f, h, t
        <5>2. \A q \in Seq(Byte) :
                  Len(Joined(g, f, h, q)) = Len(g) + Len(f) + Len(h) + Len(q)
          BY <5>1, JoinedLen
        <5>3. Len(g) + Len(f) + Len(h) \in Nat
          BY <5>1
        <5> QED  BY <5>1, <5>2, <5>3 DEF g, f, h, t
      <4>3. Len(Way("b")') = m
        <5>1. e \in Seq(Byte) /\ Len(e) = 0
              /\ Way("b")' = Joined(got["a"], fromPump["a"], InHand("a"), e)
          BY <2>3
        <5> HIDE DEF e, m
        <5>2. Len(Way("b")') = m + Len(e)
          BY <4>2, <5>1
        <5> QED  BY <4>2, <5>1, <5>2
      <4>4. x \in Nat
        <5>1. BufSize - 1 \in Nat /\ cut["a"] \in Nat
          BY PumpAssumption DEF TypeOK, Side
        <5> QED  BY <5>1, ProductIsNat, Zenon
      <4>5. Loss("b") = unread + x /\ Loss("b")' = unread + n + x
        BY <1>3, <2>1 DEF Loss, Other
      <4> HIDE DEF m, n, x
      <4>6. Len(Way("b")) + Loss("b") <= Len(Way("b")') + Loss("b")'
        BY <4>1, <4>2, <4>3, <4>4, <4>5
      <4>7. ~Whole("b")'
        BY <2>1, <4>1 DEF Whole, n
      <4> QED
        BY <1>1, <2>1, <2>5, <4>6, <4>7 DEF Shortened, Steady, Pty, Other
    <3> QED  BY <3>2, <3>3
  <2> QED  BY <2>6, <2>7 DEF WayStep, Side
<1> QED
  BY <1>2, <1>3
  DEF SetTty, ClearFd, OpenTty, Configure, Destroy, Join, lineVars, history

-----------------------------------------------------------------------------
(***************************************************************************)
(* The invariant.                                                          *)
(***************************************************************************)

PumpInv ==
    /\ TypeOK /\ PtysStay /\ SteadyIsThere /\ HandIsShort
    /\ PtyIsLossless /\ SentInOrder /\ WayAscends

LEMMA InitInv == Init => PumpInv
<1> SUFFICES ASSUME Init PROVE PumpInv
  OBVIOUS
<1>1. TypeOK
  BY InitType
<1>2. /\ PtysStay /\ SteadyIsThere /\ HandIsShort
      /\ \A s \in Side : sent[s] = <<>> /\ got[s] = <<>> /\ toPump[s] = <<>>
                        /\ fromPump[s] = <<>> /\ InHand(s) = <<>>
  BY SideFacts DEF Init, PtysStay, SteadyIsThere, HandIsShort, InHand, Side
<1>3. \A s \in Side : Way(s) = <<>>
  BY <1>2, SideFacts DEF Way
<1>4. PtyIsLossless
  <2>1. ASSUME NEW s \in Side
        PROVE  0 <= 0 + (unread + (BufSize - 1) * cut[s])
    <3>1. unread = 0 /\ cut[s] = 0 /\ BufSize - 1 \in Nat
      BY PumpAssumption DEF Init
    <3> QED  BY <3>1
  <2>2. \A s \in Side : sent[s] = <<>> /\ Way(s) = <<>> /\ Len(<<>>) = 0
    BY <1>2, <1>3
  <2> QED  BY <2>1, <2>2, SideFacts, Zenon DEF PtyIsLossless
<1>5. SentInOrder /\ WayAscends
  BY <1>2, <1>3 DEF SentInOrder, WayAscends, Ascending, UpTo
<1> QED  BY <1>1, <1>2, <1>4, <1>5 DEF PumpInv

LEMMA PtysStayStep == TypeOK /\ PtysStay /\ [Next]_vars => PtysStay'
<1> SUFFICES ASSUME TypeOK, PtysStay, [Next]_vars PROVE PtysStay'
  OBVIOUS
<1>1. CASE Top \/ Abort \/ Select \/ SelectFails
  BY <1>1, SideFacts DEF Top, Abort, Select, SelectFails, PtysStay, fdVars
<1>2. CASE \E s \in Side : Read(s) \/ Write(s) \/ WriteInterrupted(s)
  <2>1. pc \notin {"done", "ended"} /\ UNCHANGED <<class, fdVars, owner>>
    <3>1. \A s \in Side : /\ Reading[s] \notin {"done", "ended"}
                          /\ Writing[s] \notin {"done", "ended"}
      BY DEF Side, Reading, Writing
    <3> QED  BY <1>2, <3>1, Zenon DEF Read, Write, WriteInterrupted
  <2> QED  BY <2>1, Zenon DEF PtysStay, fdVars
<1>3. CASE \E s \in Side :
              FarOpens(s) \/ FarWrites(s) \/ FarReads(s) \/ FarCloses(s)
  BY <1>3
  DEF FarOpens, FarWrites, FarReads, FarCloses, PtysStay, fdVars, threadVars
<1>4. CASE SetTty \/ ClearFd \/ OpenTty \/ Configure
  BY <1>4
  DEF SetTty, ClearFd, OpenTty, Configure, PtysStay, threadVars
<1>5. CASE Destroy \/ Join \/ UNCHANGED vars
  BY <1>5 DEF Destroy, Join, vars, PtysStay, threadVars, fdVars
<1> QED  BY <1>1, <1>2, <1>3, <1>4, <1>5 DEF Next, Thread

LEMMA HandStep == TypeOK /\ HandIsShort /\ [Next]_vars => HandIsShort'
<1> SUFFICES ASSUME TypeOK, HandIsShort, [Next]_vars PROVE HandIsShort'
  OBVIOUS
<1>1. CASE Top \/ Abort \/ Select \/ SelectFails
  BY <1>1 DEF Top, Abort, Select, SelectFails, HandIsShort
<1>2. ASSUME NEW s \in Side, Read(s)
      PROVE  ~moved'
  BY <1>2 DEF Read, HandIsShort, Reading, Side
<1>3. ASSUME NEW s \in Side, WriteInterrupted(s)
      PROVE  ~moved'
  BY <1>3 DEF WriteInterrupted
<1>4. ASSUME NEW s \in Side, Write(s)
      PROVE  HandIsShort'
  <2> SUFFICES ASSUME hand' # <<>>
               PROVE  pc' \in {"writeA", "writeB"} /\ Len(hand') < BufSize
    BY <1>4 DEF Write, HandIsShort
  <2> DEFINE there == Reaches(s) /\ far[s] = "open"
             k == IF there THEN AtMost(Cap - Len(fromPump[s]), Len(hand)) ELSE 0
  <2>1. /\ there /\ Pty(s) /\ k > 0 /\ hand' = Rest(k, hand)
        /\ pc' = Writing[s]
    BY <1>4 DEF Write
  <2>2. k \in 0 .. Len(hand) /\ hand \in Seq(Byte) /\ Len(hand) <= BufSize
    BY PumpAssumption DEF AtMost, TypeOK
  <2> HIDE DEF k, there
  <2>3. Len(hand') = Len(hand) - k
    BY <2>1, <2>2, SplitSeq
  <2> QED  BY <2>1, <2>2, <2>3, PumpAssumption DEF Writing, Side
<1>5. CASE \E s \in Side :
              FarOpens(s) \/ FarWrites(s) \/ FarReads(s) \/ FarCloses(s)
  BY <1>5
  DEF FarOpens, FarWrites, FarReads, FarCloses, HandIsShort, threadVars
<1>6. CASE \/ SetTty \/ ClearFd \/ OpenTty \/ Configure \/ Destroy \/ Join
           \/ UNCHANGED vars
  BY <1>6
  DEF SetTty, ClearFd, OpenTty, Configure, Destroy, Join, vars, HandIsShort,
      threadVars
<1> QED  BY <1>1, <1>2, <1>3, <1>4, <1>5, <1>6 DEF Next, Thread, HandIsShort

LEMMA SteadyStep ==
  TypeOK /\ SteadyIsThere /\ [Next]_vars => SteadyIsThere'
<1> SUFFICES ASSUME TypeOK, SteadyIsThere, [Next]_vars PROVE SteadyIsThere'
  OBVIOUS
<1>1. CASE UNCHANGED <<sent, steady, far>>
  BY <1>1 DEF SteadyIsThere
<1>2. CASE DeviceGone /\ UNCHANGED sent
  BY <1>2 DEF DeviceGone, SteadyIsThere, TypeOK
<1>3. CASE OpenTty
  BY <1>3 DEF OpenTty, SteadyIsThere, TypeOK, history
<1>4. ASSUME NEW s \in Side, FarOpens(s)
      PROVE  SteadyIsThere'
  BY <1>4 DEF FarOpens, SteadyIsThere, TypeOK, history
<1>5. ASSUME NEW s \in Side, FarWrites(s)
      PROVE  SteadyIsThere'
  <2> SUFFICES ASSUME NEW r \in Side, steady'[r], far'[r] # "open"
               PROVE  sent'[Other(r)] = <<>>
    BY DEF SteadyIsThere
  <2>1. /\ sent'[Other(r)] = sent[Other(r)] \/ Other(r) = s
        /\ steady'[r] = (steady[r] /\ (r = Other(s) => far[r] = "open"))
        /\ far' = far
    BY <1>5, SideFacts, Zenon DEF FarWrites, TypeOK
  <2>2. Other(r) # s
    BY <2>1, SideFacts
  <2> QED  BY <2>1, <2>2 DEF SteadyIsThere
<1>6. ASSUME NEW s \in Side, FarCloses(s)
      PROVE  SteadyIsThere'
  BY <1>6 DEF FarCloses, SteadyIsThere, TypeOK
<1>7. ASSUME NEW s \in Side, FarReads(s)
      PROVE  UNCHANGED <<sent, steady, far>>
  BY <1>7 DEF FarReads
<1>8. ASSUME \/ Thread \/ Abort \/ SelectFails \/ ClearFd \/ Destroy \/ Join
             \/ UNCHANGED vars \/ \E s \in Side : WriteInterrupted(s)
      PROVE  UNCHANGED <<sent, steady, far>>
  BY <1>8
  DEF Thread, Top, Abort, Select, SelectFails, Read, Write, WriteInterrupted,
      ClearFd, Destroy, Join, vars, lineVars, history
<1>9. ASSUME SetTty \/ Configure
      PROVE  \/ DeviceGone /\ UNCHANGED sent
             \/ UNCHANGED <<sent, steady, far>>
  BY <1>9 DEF SetTty, Configure, lineVars
<1> QED
  BY <1>1, <1>2, <1>3, <1>4, <1>5, <1>6, <1>7, <1>8, <1>9 DEF Next

LEMMA EveryStep ==
  ASSUME PumpInv, [Next]_vars
  PROVE  \A s \in Side : WayStep(s)
<1>1. CASE \/ Thread \/ Abort \/ SelectFails
           \/ \E s \in Side : WriteInterrupted(s)
  BY <1>1, ThreadKeeps, ReadKeeps, WriteSteps, InterruptSteps
  DEF Thread, WayStep, PumpInv
<1>2. CASE \E s \in Side :
              FarOpens(s) \/ FarWrites(s) \/ FarReads(s) \/ FarCloses(s)
  BY <1>2, FarSteps DEF PumpInv
<1>3. CASE SetTty \/ ClearFd \/ OpenTty \/ Configure \/ Destroy \/ Join
  BY <1>3, OwnerSteps DEF PumpInv
<1>4. CASE UNCHANGED vars
  <2>1. /\ UNCHANGED <<class, got, fromPump, toPump, sent, steady>> /\ SameLoss
        /\ \A s \in Side : InHand(s)' = InHand(s)
    BY <1>4 DEF vars, lineVars, history, threadVars, InHand, SameLoss
  <2> QED  BY <2>1, WayKept DEF WayStep, PumpInv
<1> QED  BY <1>1, <1>2, <1>3, <1>4 DEF Next

\* The parts of the invariant about the way from side s.
Lossless(s) ==
    Steady(s) => /\ Len(sent[s]) <= Len(Way(s)) + Loss(s)
                 /\ Whole(s) => Way(s) = sent[s]

Ordered(s) ==
    /\ \A i \in DOMAIN sent[s] : sent[s][i] = i
    /\ Ascending(Way(s)) /\ UpTo(Way(s), Len(sent[s]))

LEMMA InvIsKept == PumpInv /\ [Next]_vars => PumpInv'
<1> SUFFICES ASSUME PumpInv, [Next]_vars PROVE PumpInv'
  OBVIOUS
<1>1. TypeOK' /\ PtysStay' /\ SteadyIsThere' /\ HandIsShort'
  BY TypeIsKept, PtysStayStep, SteadyStep, HandStep DEF PumpInv
<1>2. ASSUME NEW s \in Side
      PROVE  Lossless(s)' /\ Ordered(s)'
  <2>1. Lossless(s) /\ Ordered(s)
    <3>1. Other(s) \in Side /\ Other(Other(s)) = s
      BY SideFacts
    <3> QED
      BY <3>1, Zenon
      DEF PumpInv, PtyIsLossless, Lossless, Steady, Loss, Whole, Ordered,
          SentInOrder, WayAscends
  <2>2. /\ sent[s] \in Seq(Byte) /\ Len(sent[s]) \in Nat /\ Byte \subseteq Nat
        /\ Way(s) \in Seq(Byte) /\ Len(Way(s)) \in Nat
        /\ Loss(s) \in Nat /\ Loss(s)' \in Nat
    <3>1. sent[s] \in Seq(Byte) /\ Len(sent[s]) \in Nat /\ Byte \subseteq Nat
      BY PumpAssumption DEF PumpInv, TypeOK, Byte
    <3>2. Way(s) \in Seq(Byte) /\ Len(Way(s)) \in Nat
      BY WayIs, JoinedSeq DEF PumpInv
    <3>3. Loss(s) \in Nat
      BY LossIsNat DEF PumpInv
    <3>4. Loss(s)' \in Nat
      <4>1. cut'[Other(s)] \in Nat /\ unread' \in Nat /\ BufSize - 1 \in Nat
        <5>1. cut' \in [Side -> Nat] /\ unread' \in Nat
          BY <1>1 DEF TypeOK
        <5> QED  BY <5>1, SideFacts, PumpAssumption
      <4>2. (BufSize - 1) * cut'[Other(s)] \in Nat
        BY <4>1, ProductIsNat, Zenon
      <4> QED  BY <4>1, <4>2 DEF Loss
    <3> QED  BY <3>1, <3>2, <3>3, <3>4
  <2>3. CASE Kept(s)
    BY <2>1, <2>3 DEF Kept, Lossless, Ordered
  <2>4. CASE Shortened(s)
    <3>1. Ordered(s)'
      <4>1. Cut(Way(s)', Way(s), Nat)
        <5>1. Seq(Byte) \subseteq Seq(Nat)
          BY <2>2, SeqMonotonic
        <5> QED  BY <2>4, <5>1, Zenon DEF Shortened, Cut
      <4>2. Ascending(Way(s)') /\ UpTo(Way(s)', Len(sent[s]))
        BY <2>1, <2>2, <4>1, CutAscends DEF Ordered
      <4> QED  BY <2>1, <2>4, <4>2, Zenon DEF Shortened, Ordered
    <3>2. Lossless(s)'
      <4>1. Len(Way(s)') \in Nat
        BY <1>1, WayIs, JoinedSeq
      <4> QED  BY <2>1, <2>2, <2>4, <4>1 DEF Shortened, Lossless
    <3> QED  BY <3>1, <3>2
  <2>5. CASE Lengthened(s)
    <3> DEFINE n == Len(sent[s])
    <3>1. /\ Way(s)' = Append(Way(s), n + 1)
          /\ sent'[s] = Append(sent[s], n + 1)
          /\ Steady(s)' => Steady(s) /\ Loss(s)' = Loss(s)
                           /\ (Whole(s)' => Whole(s))
      BY <2>5 DEF Lengthened
    <3>2. Way(s) \in Seq(Nat)
      BY <2>2, SeqMonotonic
    <3>3. Ascending(Way(s)') /\ UpTo(Way(s)', n + 1)
      BY <2>1, <2>2, <3>1, <3>2, AppendAscends DEF Ordered
    <3>4. Len(sent'[s]) = n + 1 /\ \A i \in DOMAIN sent'[s] : sent'[s][i] = i
      BY <2>1, <2>2, <3>1 DEF Ordered
    <3>5. Ordered(s)'
      BY <3>3, <3>4, Zenon DEF Ordered
    <3>6. Len(Way(s)') = Len(Way(s)) + 1
      BY <3>1, <3>2
    <3> HIDE DEF n
    <3>7. Lossless(s)'
      BY <2>1, <2>2, <3>1, <3>4, <3>6 DEF Lossless, n
    <3> QED  BY <3>5, <3>7
  <2> QED  BY <2>3, <2>4, <2>5, EveryStep DEF WayStep
<1>3. PtyIsLossless'
  BY <1>2, SideFacts, Zenon DEF PtyIsLossless, Lossless, Steady, Loss, Whole
<1>4. SentInOrder' /\ WayAscends'
  BY <1>2 DEF SentInOrder, WayAscends, Ordered, Ascending, UpTo
<1> QED  BY <1>1, <1>3, <1>4 DEF PumpInv

THEOREM PumpInvariant == Spec => []PumpInv
BY InitInv, InvIsKept, PTL DEF Spec

-----------------------------------------------------------------------------
(***************************************************************************)
(* The theorems.                                                           *)
(***************************************************************************)

\* Every variable keeps its type; in particular no tty ever holds more than
\* there is room for and buf no more than its size.
THEOREM PumpTypeCorrect == Spec => []TypeOK
BY PumpInvariant, PTL DEF PumpInv

\* On the way to a pty whose slave stays open nothing is lost but what the
\* thread had not read of a device that was closed, and less than one buffer
\* for each write() that a signal cut short.
THEOREM PtyCorrect == Spec => []PtyIsLossless
BY PumpInvariant, PTL DEF PumpInv

-----------------------------------------------------------------------------
(***************************************************************************)
(* The refinement.                                                         *)
(***************************************************************************)

\* The byte a far end gets is later than all it has got before.
LEMMA NextGot ==
  ASSUME PumpInv, NEW s \in Side, fromPump[Other(s)] # <<>>
  PROVE  LET i == Head(fromPump[Other(s)]) IN
         /\ i \in DOMAIN sent[s] /\ sent[s][i] = i
         /\ i > LastOf(got[Other(s)])
<1> DEFINE g == got[Other(s)]
           f == fromPump[Other(s)]
           u == Cat(f, Cat(InHand(Other(s)), toPump[s]))
           w == Way(s)
<1>1. /\ g \in Seq(Byte) /\ f \in Seq(Byte) /\ f # <<>>
      /\ u \in Seq(Byte) /\ w = Cat(g, u)
  <2> DEFINE h == InHand(Other(s))
             t == toPump[s]
  <2>1. /\ g \in Seq(Byte) /\ f \in Seq(Byte) /\ h \in Seq(Byte)
        /\ t \in Seq(Byte) /\ w = Joined(g, f, h, t)
    BY WayIs DEF PumpInv
  <2> HIDE DEF g, f, h, t
  <2>2. Joined(g, f, h, t) = Cat(g, Cat(f, Cat(h, t)))
    BY <2>1, JoinedSeq
  <2>3. Cat(h, t) \in Seq(Byte) /\ Cat(f, Cat(h, t)) \in Seq(Byte)
    BY <2>1, CatProperties
  <2> QED  BY <2>1, <2>2, <2>3 DEF g, f, h, t
<1>2. Len(u) > 0 /\ u[1] = f[1]
  <2>1. Cat(InHand(Other(s)), toPump[s]) \in Seq(Byte)
    BY WayIs, CatProperties DEF PumpInv
  <2> DEFINE v == Cat(InHand(Other(s)), toPump[s])
  <2> HIDE DEF v, f
  <2>2. v \in Seq(Byte)
    BY <2>1 DEF v
  <2>3. Len(f \o v) > 0 /\ (f \o v)[1] = f[1]
    BY <1>1, <2>2
  <2> QED  BY <2>3 DEF Cat, v
<1>3. Ascending(w) /\ UpTo(w, Len(sent[s])) /\ sent[s] \in Seq(Byte)
  BY DEF PumpInv, WayAscends, TypeOK
<1>4. Byte \subseteq Nat \ {0}
  BY PumpAssumption DEF Byte
<1>5. \A i \in DOMAIN sent[s] : sent[s][i] = i
  BY DEF PumpInv, SentInOrder
<1> HIDE DEF g, f, u, w
<1> DEFINE i == Head(f)
<1>6. i = f[1] /\ i \in Nat \ {0}
  <2>1. Head(f) = f[1] /\ f[1] \in Byte
    BY <1>1
  <2> QED  BY <1>4, <2>1
<1>7. /\ Len(g) \in Nat /\ Len(g) + 1 \in DOMAIN w /\ w[Len(g) + 1] = i
      /\ g # <<>> => Len(g) \in DOMAIN w /\ w[Len(g)] = g[Len(g)]
  BY <1>1, <1>2, <1>6 DEF Cat
<1>8. i <= Len(sent[s])
  BY <1>3, <1>7 DEF UpTo
<1>9. i > LastOf(g)
  <2>1. CASE g = <<>>
    BY <1>6, <2>1 DEF LastOf
  <2>2. CASE g # <<>>
    <3>1. w[Len(g)] < w[Len(g) + 1]
      BY <1>3, <1>7, <2>2 DEF Ascending
    <3>2. LastOf(g) = w[Len(g)] /\ LastOf(g) \in Nat
      <4>1. g[Len(g)] \in Byte
        BY <1>1, <2>2
      <4>2. LastOf(g) = g[Len(g)]
        BY <2>2 DEF LastOf
      <4> QED  BY <1>4, <1>7, <2>2, <4>1, <4>2
    <3> QED  BY <1>6, <1>7, <3>1, <3>2
  <2> QED  BY <2>1, <2>2
<1>10. i \in DOMAIN sent[s]
  BY <1>3, <1>6, <1>8
<1> QED  BY <1>5, <1>9, <1>10 DEF f, g

\* A step sends a byte, or lets the far end get one, or is none of the line's.
LEMMA LineStep ==
  ASSUME PumpInv, [Next]_vars, NEW s \in Side
  PROVE  LET o == Other(s) IN
         \/ UNCHANGED <<sent[s], got[o]>>
         \/ /\ UNCHANGED got[o] /\ Len(sent[s]) + 1 \in Byte
            /\ sent'[s] = Append(sent[s], Len(sent[s]) + 1)
         \/ /\ UNCHANGED sent[s]
            /\ \E i \in DOMAIN sent[s] :
                   /\ i > LastOf(got[o]) /\ sent[s][i] = i
                   /\ got'[o] = Append(got[o], i)
                   /\ LastOf(got'[o]) = i
<1> DEFINE o == Other(s)
<1>1. o \in Side
  BY SideFacts
<1>2. /\ got \in [Side -> Seq(Byte)] /\ got[o] \in Seq(Byte)
      /\ sent \in [Side -> Seq(Byte)] /\ fromPump \in [Side -> Seq(Byte)]
  BY <1>1 DEF PumpInv, TypeOK
<1> HIDE DEF o
<1>3. CASE FarReads(o)
  <2>1. /\ fromPump[o] # <<>> /\ UNCHANGED sent
        /\ got'[o] = Append(got[o], Head(fromPump[o]))
    BY <1>1, <1>2, <1>3 DEF FarReads
  <2> DEFINE i == Head(fromPump[o])
  <2>2. i \in DOMAIN sent[s] /\ sent[s][i] = i /\ i > LastOf(got[o])
    BY <2>1, NextGot DEF o
  <2> HIDE DEF i
  <2>3. LastOf(Append(got[o], i)) = i
    BY <1>2 DEF LastOf
  <2> QED  BY <2>1, <2>2, <2>3 DEF i, o
<1>4. CASE FarWrites(s)
  <2>1. /\ UNCHANGED got /\ sent'[s] = Append(sent[s], Len(sent[s]) + 1)
        /\ Len(sent[s]) + 1 \in Byte
    BY <1>2, <1>4, PumpAssumption DEF FarWrites, Byte
  <2> QED  BY <2>1
<1>5. CASE FarWrites(o)
  BY <1>1, <1>2, <1>5, SideFacts DEF FarWrites, o
<1>6. CASE FarReads(s)
  BY <1>1, <1>2, <1>6, SideFacts DEF FarReads, o
<1>7. CASE UNCHANGED <<sent, got>>
  BY <1>7
<1>8. ASSUME NEW r \in Side, FarWrites(r) \/ FarReads(r)
      PROVE  r = s \/ r = o
  BY <1>8 DEF o, Side, Other
<1>9. \/ UNCHANGED <<sent, got>>
      \/ \E r \in Side : FarWrites(r) \/ FarReads(r)
  BY DEF Next, Thread, Top, Abort, Select, SelectFails, Read, Write,
         WriteInterrupted, FarOpens,
         FarCloses, SetTty, ClearFd, OpenTty, Configure, DeviceGone, Destroy,
         Join, vars, history
<1> QED  BY <1>3, <1>4, <1>5, <1>6, <1>7, <1>8, <1>9

\* The copying thread implements FrameChannel in both directions: whatever is
\* opened, closed, unplugged or replaced, no byte is invented, repeated or
\* overtaken.
THEOREM PumpImplementsLine == Spec => ImplementsLine
<1>1. Init => AToB!Init /\ BToA!Init
  BY DEF Init, AToB!Init, BToA!Init, LastOf, Side
<1>2. ASSUME PumpInv, [Next]_vars
      PROVE  [AToB!Next]_AToB!vars /\ [BToA!Next]_BToA!vars
  <2>1. /\ Other("a") = "b" /\ Other("b") = "a" /\ "a" \in Side /\ "b" \in Side
        /\ \A s \in Side : /\ sent[s] \in Seq(Byte)
                            /\ \A i \in DOMAIN sent[s] : sent[s][i] # Len(sent[s]) + 1
    BY <1>2 DEF Side, Other, PumpInv, TypeOK, SentInOrder
  <2>2. [AToB!Next]_AToB!vars
    <3>1. CASE UNCHANGED <<sent["a"], got["b"]>>
      BY <3>1 DEF AToB!vars, LastOf
    <3>2. CASE /\ UNCHANGED got["b"] /\ Len(sent["a"]) + 1 \in Byte
               /\ sent'["a"] = Append(sent["a"], Len(sent["a"]) + 1)
      <4>1. AToB!Send(Len(sent["a"]) + 1)
        BY <2>1, <3>2 DEF AToB!Send, LastOf
      <4> QED  BY <3>2, <4>1 DEF AToB!Next
    <3>3. CASE /\ UNCHANGED sent["a"]
               /\ \E i \in DOMAIN sent["a"] :
                   /\ i > LastOf(got["b"]) /\ sent["a"][i] = i
                   /\ got'["b"] = Append(got["b"], i)
                   /\ LastOf(got'["b"]) = i
      <4>1. \E i \in DOMAIN sent["a"] : AToB!Deliver(i)
        BY <3>3 DEF AToB!Deliver
      <4> QED  BY <4>1 DEF AToB!Next
    <3> QED  BY <1>2, <2>1, <3>1, <3>2, <3>3, LineStep
  <2>3. [BToA!Next]_BToA!vars
    <3>1. CASE UNCHANGED <<sent["b"], got["a"]>>
      BY <3>1 DEF BToA!vars, LastOf
    <3>2. CASE /\ UNCHANGED got["a"] /\ Len(sent["b"]) + 1 \in Byte
               /\ sent'["b"] = Append(sent["b"], Len(sent["b"]) + 1)
      <4>1. BToA!Send(Len(sent["b"]) + 1)
        BY <2>1, <3>2 DEF BToA!Send, LastOf
      <4> QED  BY <3>2, <4>1 DEF BToA!Next
    <3>3. CASE /\ UNCHANGED sent["b"]
               /\ \E i \in DOMAIN sent["b"] :
                   /\ i > LastOf(got["a"]) /\ sent["b"][i] = i
                   /\ got'["a"] = Append(got["a"], i)
                   /\ LastOf(got'["a"]) = i
      <4>1. \E i \in DOMAIN sent["b"] : BToA!Deliver(i)
        BY <3>3 DEF BToA!Deliver
      <4> QED  BY <4>1 DEF BToA!Next
    <3> QED  BY <1>2, <2>1, <3>1, <3>2, <3>3, LineStep
  <2> QED  BY <2>2, <2>3
<1>3. Spec => AToB!Spec /\ BToA!Spec
  BY <1>1, <1>2, PumpInvariant, PTL DEF Spec, AToB!Spec, BToA!Spec
<1> QED  BY <1>3 DEF ImplementsLine
=============================================================================
