------------------------- MODULE MctpBridge_proofs -------------------------
(***************************************************************************)
(* What the dispatch thread does to packets, for any number of clients,    *)
(* any traffic, any sizes of queues and any failing calls: unicast packets *)
(* are neither lost nor repeated, every port keeps the order of each       *)
(* source, and clients and kernel do not see each other's packets.         *)
(***************************************************************************)
EXTENDS MctpBridge, SequenceTheorems, TLAPS

-----------------------------------------------------------------------------
(***************************************************************************)
(* The invariant.                                                          *)
(***************************************************************************)

\* A source numbers its packets.
Numbered ==
    \A s \in Source : \A i \in 1 .. Len(sent[s]) :
        sent[s][i].src = s /\ sent[s][i].seq = i

\* How many of the packets h have left the receive buffer rx.
Taken(h, rx) == Len(h) - Len(rx)

LinuxTaken == Taken(sent["linux"], linuxRx)
DeviceTaken == Taken(sent["device"], ttyRx)

\* The receive buffer rx holds the last of the packets h.
Waiting(h, rx) ==
    /\ Len(rx) <= Len(h)
    /\ \A i \in 1 .. Len(rx) : rx[i] = h[Taken(h, rx) + i]

RxHoldTheLast == Waiting(sent["linux"], linuxRx) /\ Waiting(sent["device"], ttyRx)

\* A client's datagrams wait in the order they were sent.
DatagramsAscend ==
    \A c \in Client : \A i \in 1 .. Len(toBridge[c]) :
        /\ toBridge[c][i].src = c
        /\ toBridge[c][i].seq <= Len(sent[c])
        /\ \A j \in 1 .. Len(toBridge[c]) :
               i < j => toBridge[c][i].seq < toBridge[c][j].seq

\* What went to the device left its queue before all that is still there.
TtyOutIsPast ==
    /\ InOrder(ttyOut)
    /\ \A i \in 1 .. Len(ttyOut) :
          /\ ttyOut[i].src # "device"
          /\ ttyOut[i].src = "linux" => ttyOut[i].seq <= LinuxTaken
          /\ ttyOut[i].src \in Client =>
                /\ ttyOut[i].seq <= Len(sent[ttyOut[i].src])
                /\ \A j \in 1 .. Len(toBridge[ttyOut[i].src]) :
                      ttyOut[i].seq < toBridge[ttyOut[i].src][j].seq

LinuxOutIsPast ==
    /\ InOrder(linuxOut)
    /\ \A i \in 1 .. Len(linuxOut) :
          /\ linuxOut[i].src = "device" /\ linuxOut[i].dst = "eid"
          /\ linuxOut[i].seq <= DeviceTaken

\* What has left a receive buffer has arrived.
AllArrived ==
    /\ \A n \in 1 .. LinuxTaken : In(sent["linux"][n], ttyOut)
    /\ \A n \in 1 .. DeviceTaken :
          sent["device"][n].dst = "eid" => In(sent["device"][n], linuxOut)

\* The packet in the thread's hands is a broadcast of the device.
MsgIsTaken ==
    pc = "send" =>
        msg.src = "device" /\ msg.dst = "bcast" /\ msg.seq <= DeviceTaken

\* What clients got are broadcasts of the device, each of them once, and all
\* of them earlier than the one in the thread's hands.
GotIsPast ==
    \A c \in Client :
        /\ InOrder(clientGot[c])
        /\ \A i \in 1 .. Len(clientGot[c]) :
              /\ clientGot[c][i].src = "device" /\ clientGot[c][i].dst = "bcast"
              /\ clientGot[c][i].seq <= DeviceTaken
              /\ pc = "send" => clientGot[c][i].seq < msg.seq
              /\ \A d \in Client \ {c} : \A j \in 1 .. Len(clientGot[d]) :
                    clientGot[c][i].seq # clientGot[d][j].seq

PacketInv ==
    /\ Numbered
    /\ RxHoldTheLast
    /\ DatagramsAscend
    /\ TtyOutIsPast
    /\ LinuxOutIsPast
    /\ AllArrived
    /\ MsgIsTaken
    /\ GotIsPast

BridgeInv == TypeOK /\ ReadyIsThere /\ PacketInv

-----------------------------------------------------------------------------
(***************************************************************************)
(* Types.                                                                  *)
(***************************************************************************)

LEMMA InitialInv == Init => BridgeInv
<1> SUFFICES ASSUME Init PROVE BridgeInv
  OBVIOUS
<1>1. <<>> \in Seq(PacketType) /\ <<>> \in Seq(Client) /\ Len(<<>>) = 0
  OBVIOUS
<1>2. /\ {linuxRx, ttyRx, linuxOut, ttyOut} \subseteq Seq(PacketType)
      /\ sent \in [Source -> Seq(PacketType)]
      /\ {toBridge, toClient, clientGot} \subseteq [Client -> Seq(PacketType)]
      /\ backlog \in Seq(Client)
      /\ \A c \in Client : Len(toClient[c]) <= SockCap
  BY <1>1, BridgeAssumption DEF Init
<1>3. /\ client \in [Client -> {"new", "connected", "cut", "gone", "reset"}]
      /\ running \in BOOLEAN /\ connFd = "none" /\ msg = <<>> /\ ready = {}
      /\ faults \in Nat
  BY DEF Init
<1>4. pc = "top" /\ owner = "open" /\ state = "Listening"
  BY DEF Init
<1>5. TypeOK
  BY <1>2, <1>3, <1>4 DEF TypeOK
<1>6. /\ linuxRx = <<>> /\ ttyRx = <<>> /\ linuxOut = <<>> /\ ttyOut = <<>>
      /\ \A s \in Source : sent[s] = <<>>
      /\ \A c \in Client : toBridge[c] = <<>> /\ clientGot[c] = <<>>
  BY DEF Init
<1>7. ReadyIsThere /\ MsgIsTaken
  BY <1>4 DEF ReadyIsThere, MsgIsTaken
<1>8. Numbered /\ RxHoldTheLast /\ DatagramsAscend
  BY <1>1, <1>6 DEF Numbered, RxHoldTheLast, Waiting, Taken, DatagramsAscend, Source
<1>9. TtyOutIsPast /\ LinuxOutIsPast /\ AllArrived /\ GotIsPast
  BY <1>1, <1>6 DEF TtyOutIsPast, LinuxOutIsPast, InOrder, AllArrived, LinuxTaken,
     DeviceTaken, Taken, GotIsPast, Source
<1> QED  BY <1>5, <1>7, <1>8, <1>9 DEF BridgeInv, PacketInv

\* What each variable is, without the sets of TypeOK.
LEMMA Types ==
  ASSUME TypeOK
  PROVE  /\ linuxRx \in Seq(PacketType) /\ ttyRx \in Seq(PacketType)
         /\ linuxOut \in Seq(PacketType) /\ ttyOut \in Seq(PacketType)
         /\ sent \in [Source -> Seq(PacketType)]
         /\ toBridge \in [Client -> Seq(PacketType)]
         /\ toClient \in [Client -> Seq(PacketType)]
         /\ clientGot \in [Client -> Seq(PacketType)]
         /\ connFd \in Client \cup {"none"}
         /\ \A c \in Client : c \in Source /\ c \notin {"linux", "device", "none"}
         /\ "linux" \in Source /\ "device" \in Source
BY BridgeAssumption DEF TypeOK, Source

\* Every packet that Spec allows has a number and is recorded.
LEMMA NotedIsAppend ==
  ASSUME NEW m \in PacketType
  PROVE  \A q : Noted(q, m) = Append(q, m)
BY DEF Noted, PacketType

\* The packet a source sends next.
LEMMA NewPacket ==
  ASSUME TypeOK, NEW s \in Source, NEW d \in Dst, NEW size \in Size
  PROVE  /\ NextPacket(s, d, size) \in PacketType
         /\ NextPacket(s, d, size).src = s /\ NextPacket(s, d, size).dst = d
         /\ NextPacket(s, d, size).seq = Len(sent[s]) + 1
<1>1. Len(sent[s]) + 1 \in Nat \ {0}
  BY DEF TypeOK
<1> QED  BY <1>1 DEF NextPacket, Packet, PacketType

LEMMA OutsideTypes == TypeOK /\ Outside => TypeOK'
<1> SUFFICES ASSUME TypeOK, Outside PROVE TypeOK'
  OBVIOUS
<1>1. CASE \E d \in Dst : LinuxSends(d) \/ DeviceSends(d)
  <2> PICK d \in Dst : LinuxSends(d) \/ DeviceSends(d)
    BY <1>1
  <2> DEFINE m(s) == NextPacket(s, d, "whole")
  <2>1. m("linux") \in PacketType /\ m("device") \in PacketType
    BY Types, NewPacket DEF Size
  <2> HIDE DEF m
  <2>2. CASE LinuxSends(d)
    <3>1. /\ sent' = [sent EXCEPT !["linux"] = Append(@, m("linux"))]
          /\ linuxRx' = Append(linuxRx, m("linux"))
          /\ UNCHANGED <<ttyRx, outVars, sockVars, bcastVars, threadVars, ownerVars,
                         faults>>
      BY <2>2 DEF LinuxSends, Record, m
    <3>2. sent' \in [Source -> Seq(PacketType)] /\ linuxRx' \in Seq(PacketType)
      BY <2>1, <3>1, Types
    <3> QED
      BY <3>1, <3>2 DEF TypeOK, outVars, sockVars, bcastVars, threadVars, ownerVars
  <2>3. CASE DeviceSends(d)
    <3>1. /\ sent' = [sent EXCEPT !["device"] = Append(@, m("device"))]
          /\ ttyRx' = Append(ttyRx, m("device"))
          /\ UNCHANGED <<linuxRx, outVars, sockVars, bcastVars, threadVars, ownerVars,
                         faults>>
      BY <2>3 DEF DeviceSends, Record, m
    <3>2. sent' \in [Source -> Seq(PacketType)] /\ ttyRx' \in Seq(PacketType)
      BY <2>1, <3>1, Types
    <3> QED
      BY <3>1, <3>2 DEF TypeOK, outVars, sockVars, bcastVars, threadVars, ownerVars
  <2> QED  BY <2>2, <2>3
<1>2. ASSUME NEW c \in Client, ClientConnects(c) PROVE TypeOK'
  BY <1>2
  DEF ClientConnects, TypeOK, linkVars, outVars, bcastVars, threadVars, ownerVars
<1>3. ASSUME NEW c \in Client, NEW d \in Dst, NEW size \in Size,
             ClientSends(c, d, size)
      PROVE  TypeOK'
  <2> DEFINE m == NextPacket(c, d, size)
  <2>1. m \in PacketType
    BY Types, NewPacket
  <2>2. /\ sent' = [sent EXCEPT ![c] = Append(@, m)]
        /\ toBridge' = [toBridge EXCEPT ![c] = Append(@, m)]
        /\ UNCHANGED <<linkVars, outVars, client, backlog, toClient, clientGot,
                       bcastVars, threadVars, ownerVars, faults>>
    BY <1>3 DEF ClientSends, Record
  <2> HIDE DEF m
  <2>3. /\ sent' \in [Source -> Seq(PacketType)]
        /\ toBridge' \in [Client -> Seq(PacketType)]
    BY <2>1, <2>2, Types
  <2> QED
    BY <2>2, <2>3 DEF TypeOK, linkVars, outVars, bcastVars, threadVars, ownerVars
<1>4. ASSUME NEW c \in Client, ClientReads(c) PROVE TypeOK'
  <2>1. /\ toClient[c] \in Seq(PacketType) /\ toClient[c] # <<>>
        /\ toClient' = [toClient EXCEPT ![c] = Tail(@)]
    BY <1>4, Types DEF ClientReads
  <2>2. /\ Tail(toClient[c]) \in Seq(PacketType)
        /\ Len(Tail(toClient[c])) <= Len(toClient[c])
    BY <2>1
  <2>3. toClient' \in [Client -> Seq(PacketType)]
    BY <2>1, <2>2, Types
  <2>4. \A x \in Client :
           toClient'[x] = IF x = c THEN Tail(toClient[c]) ELSE toClient[x]
    BY <2>1, Types
  <2>5. \A x \in Client : Len(toClient'[x]) <= SockCap
    <3> TAKE x \in Client
    <3>1. Len(toClient[x]) <= SockCap /\ toClient[x] \in Seq(PacketType)
      BY Types DEF TypeOK
    <3>2. CASE x = c
      BY <2>1, <2>2, <2>4, <3>1, <3>2, BridgeAssumption
    <3>3. CASE x # c
      BY <2>4, <3>1, <3>3
    <3> QED  BY <3>2, <3>3
  <2> QED
    BY <1>4, <2>3, <2>5
    DEF ClientReads, TypeOK, linkVars, outVars, bcastVars, threadVars, ownerVars
<1>5. ASSUME NEW c \in Client, ClientCloses(c) PROVE TypeOK'
  <2>1. /\ toClient' \in [Client -> Seq(PacketType)]
        /\ \A x \in Client : Len(toClient'[x]) <= SockCap
    BY <1>5, BridgeAssumption DEF ClientCloses, TypeOK
  <2> QED
    BY <1>5, <2>1
    DEF ClientCloses, TypeOK, linkVars, outVars, bcastVars, threadVars, ownerVars
<1> QED  BY <1>1, <1>2, <1>3, <1>4, <1>5 DEF Outside

\* Serving a port or dropping a client.
LEMMA Goes ==
  ASSUME TypeOK, NEW fd \in {"bcast", "linux", "tty"}, Served(fd)
  PROVE  ready' \subseteq {"linux", "tty", "bcast"} /\ pc' \in {"top", "serve"}
BY DEF Served, TypeOK

\* The head of a receive buffer that is not empty.
LEMMA TakeHead ==
  ASSUME NEW S, NEW q \in Seq(S), q # <<>>
  PROVE  /\ Head(q) \in S /\ Tail(q) \in Seq(S) /\ Head(q) = q[1]
         /\ Len(q) \in Nat \ {0} /\ Len(Tail(q)) = Len(q) - 1
         /\ \A i \in 1 .. Len(Tail(q)) : Tail(q)[i] = q[i + 1]
OBVIOUS

\* A packet put at the end of a queue.
LEMMA PutLast ==
  ASSUME NEW S, NEW q \in Seq(S), NEW m \in S
  PROVE  /\ Append(q, m) \in Seq(S) /\ Append(q, m) # <<>>
         /\ Len(q) \in Nat /\ Len(Append(q, m)) = Len(q) + 1
         /\ Append(q, m)[Len(q) + 1] = m
         /\ \A i \in 1 .. Len(q) : Append(q, m)[i] = q[i]
OBVIOUS

\* What is in a queue.
LEMMA Elements ==
  ASSUME NEW q \in Seq(PacketType), NEW i \in 1 .. Len(q)
  PROVE  /\ q[i] \in PacketType /\ q[i].seq \in Nat /\ q[i].src \in Source
         /\ q[i].dst \in Dst
<1>1. q[i] \in PacketType
  OBVIOUS
<1> QED  BY <1>1 DEF PacketType

\* When the thread serves a port, there is something to take.
LEMMA Serves ==
  ASSUME TypeOK, ReadyIsThere
  PROVE  /\ Serving("linux") => linuxRx # <<>>
         /\ Serving("tty") => ttyRx # <<>>
         /\ Serving("bcast") => connFd \in Client /\ Readable(connFd)
         /\ Serving("bcast") /\ ~EndOfClient => toBridge[connFd] # <<>>
         /\ pc = "send" => connFd \in Client /\ msg \in PacketType
BY DEF TypeOK, ReadyIsThere, Serving, Connected, Readable, EndOfClient

LEMMA DispatchTypes ==
  ASSUME TypeOK, ReadyIsThere, Dispatch
  PROVE  TypeOK'
<1>1. CASE LoopTop
  <2>1. /\ backlog' \in Seq(Client) /\ connFd' \in Client \cup {"none"}
        /\ state' \in {"Listening", "Connected"} /\ pc' \in {"select", "done"}
    <3>1. backlog \in Seq(Client) /\ connFd \in Client \cup {"none"}
          /\ state \in {"Listening", "Connected"}
      BY DEF TypeOK
    <3>2. backlog # <<>> => Head(backlog) \in Client /\ Tail(backlog) \in Seq(Client)
      BY <3>1
    <3> QED  BY <1>1, <3>1, <3>2 DEF LoopTop, bcastVars
  <2> QED  BY <1>1, <2>1 DEF LoopTop, TypeOK, linkVars, outVars, ownerVars
<1>2. CASE Select
  <2>1. ready' \subseteq {"linux", "tty", "bcast"} /\ pc' \in {"top", "serve"}
    BY <1>2 DEF Select, ReadyFds
  <2> QED
    BY <1>2, <2>1 DEF Select, TypeOK, linkVars, outVars, sockVars, bcastVars, ownerVars
<1>3. CASE SelectFails
  BY <1>3 DEF SelectFails, TypeOK, linkVars, outVars, sockVars, bcastVars, ownerVars
<1>4. CASE DropClient
  <2>1. ready' \subseteq {"linux", "tty", "bcast"} /\ pc' \in {"top", "serve"}
    BY <1>4, Goes DEF DropClient
  <2>2. toBridge' \in [Client -> Seq(PacketType)]
    <3>1. <<>> \in Seq(PacketType)
      OBVIOUS
    <3> QED  BY <1>4, <3>1, Types DEF DropClient
  <2>3. client' \in [Client -> {"new", "connected", "cut", "gone", "reset"}]
    BY <1>4 DEF DropClient, TypeOK
  <2> QED
    BY <1>4, <2>1, <2>2, <2>3 DEF DropClient, TypeOK, linkVars, outVars, ownerVars
<1>5. ASSUME NEW d \in Dst, FromBcast(d) PROVE TypeOK'
  <2>1. ready' \subseteq {"linux", "tty", "bcast"} /\ pc' \in {"top", "serve"}
    BY <1>5, Goes DEF FromBcast
  <2>2. /\ connFd \in Client /\ toBridge[connFd] \in Seq(PacketType)
        /\ toBridge[connFd] # <<>>
    BY <1>5, Serves, Types DEF FromBcast
  <2>3. /\ Head(toBridge[connFd]) \in PacketType
        /\ Tail(toBridge[connFd]) \in Seq(PacketType)
    BY <2>2, TakeHead
  <2>4. toBridge' \in [Client -> Seq(PacketType)] /\ ttyOut' \in Seq(PacketType)
    <3>1. \/ ttyOut' = ttyOut
          \/ ttyOut' = Append(ttyOut, Head(toBridge[connFd]))
      BY <1>5, <2>3, NotedIsAppend DEF FromBcast
    <3>2. toBridge' = [toBridge EXCEPT ![connFd] = Tail(@)]
      BY <1>5 DEF FromBcast
    <3>3. ttyOut' \in Seq(PacketType)
      <4> DEFINE m == Head(toBridge[connFd])
      <4>1. ttyOut \in Seq(PacketType) /\ m \in PacketType
        BY <2>3, Types
      <4> HIDE DEF m
      <4>2. Append(ttyOut, m) \in Seq(PacketType)
        BY <4>1
      <4> QED  BY <3>1, <4>1, <4>2, Zenon DEF m
    <3>4. toBridge' \in [Client -> Seq(PacketType)]
      BY <2>2, <2>3, <3>2, Types
    <3> QED  BY <3>3, <3>4
  <2> QED
    BY <1>5, <2>1, <2>4 DEF FromBcast, TypeOK, linkVars, bcastVars, ownerVars
<1>6. CASE FromLinux
  <2>1. ready' \subseteq {"linux", "tty", "bcast"} /\ pc' \in {"top", "serve"}
    BY <1>6, Goes DEF FromLinux
  <2>2. Head(linuxRx) \in PacketType /\ Tail(linuxRx) \in Seq(PacketType)
    BY <1>6, Serves, Types, TakeHead DEF FromLinux
  <2>3. linuxRx' \in Seq(PacketType) /\ ttyOut' \in Seq(PacketType)
    BY <1>6, <2>2, Types DEF FromLinux
  <2> QED
    BY <1>6, <2>1, <2>3 DEF FromLinux, TypeOK, sockVars, bcastVars, ownerVars
<1>7. CASE TtyToLinux
  <2>1. ready' \subseteq {"linux", "tty", "bcast"} /\ pc' \in {"top", "serve"}
    BY <1>7, Goes DEF TtyToLinux
  <2>2. Head(ttyRx) \in PacketType /\ Tail(ttyRx) \in Seq(PacketType)
    BY <1>7, Serves, Types, TakeHead DEF TtyToLinux
  <2>3. ttyRx' \in Seq(PacketType) /\ linuxOut' \in Seq(PacketType)
    <3>1. linuxOut' = Append(linuxOut, Head(ttyRx)) /\ ttyRx' = Tail(ttyRx)
      BY <1>7, <2>2, NotedIsAppend DEF TtyToLinux
    <3> QED  BY <2>2, <3>1, Types
  <2> QED
    BY <1>7, <2>1, <2>3 DEF TtyToLinux, TypeOK, sockVars, bcastVars, ownerVars
<1>8. CASE TtyToBcast
  <2>1. Head(ttyRx) \in PacketType /\ Tail(ttyRx) \in Seq(PacketType)
    BY <1>8, Serves, Types, TakeHead DEF TtyToBcast
  <2>2. ttyRx' \in Seq(PacketType) /\ msg' \in PacketType \cup {<<>>}
    BY <1>8, <2>1 DEF TtyToBcast, TypeOK
  <2>3. ready' \subseteq {"linux", "tty", "bcast"} /\ pc' \in {"top", "serve", "send"}
    <3>1. CASE Connected
      BY <1>8, <3>1 DEF TtyToBcast, TypeOK
    <3>2. CASE ~Connected
      BY <1>8, <3>2, Goes DEF TtyToBcast
    <3> QED  BY <3>1, <3>2
  <2> QED
    BY <1>8, <2>2, <2>3 DEF TtyToBcast, TypeOK, outVars, sockVars, bcastVars, ownerVars
<1>9. CASE SendMessage
  <2>1. connFd \in Client /\ msg \in PacketType
    BY <1>9, Serves DEF SendMessage
  <2>2. /\ toClient' \in [Client -> Seq(PacketType)]
        /\ clientGot' \in [Client -> Seq(PacketType)]
    <3>1. /\ toClient' = [toClient EXCEPT ![connFd] = Append(@, msg)]
          /\ clientGot' = [clientGot EXCEPT ![connFd] = Append(@, msg)]
      BY <1>9, <2>1, NotedIsAppend DEF SendMessage
    <3> QED  BY <2>1, <3>1, Types
  <2>3. \A x \in Client : Len(toClient'[x]) <= SockCap
    <3> TAKE x \in Client
    <3>1. /\ Len(toClient[x]) <= SockCap /\ toClient[x] \in Seq(PacketType)
          /\ toClient \in [Client -> Seq(PacketType)]
      BY Types DEF TypeOK
    <3>2. CASE x = connFd
      <4>1. toClient'[x] = Append(toClient[x], msg) /\ Len(toClient[x]) < SockCap
        BY <1>9, <3>1, <3>2 DEF SendMessage
      <4>2. Len(toClient'[x]) = Len(toClient[x]) + 1
        BY <2>1, <3>1, <4>1
      <4> QED  BY <3>1, <4>1, <4>2, BridgeAssumption
    <3>3. CASE x # connFd
      BY <1>9, <2>1, <3>1, <3>3 DEF SendMessage
    <3> QED  BY <3>2, <3>3
  <2>4. msg' = <<>> /\ pc' = "top"
    BY <1>9 DEF SendMessage
  <2> QED
    BY <1>9, <2>2, <2>3, <2>4
    DEF SendMessage, TypeOK, linkVars, outVars, bcastVars, ownerVars
<1>10. CASE SendFails
  BY <1>10 DEF SendFails, TypeOK, linkVars, outVars, sockVars, bcastVars, ownerVars
<1> QED  BY <1>1, <1>2, <1>3, <1>4, <1>5, <1>6, <1>7, <1>8, <1>9, <1>10 DEF Dispatch

LEMMA TypeIsKept ==
  ASSUME TypeOK, ReadyIsThere, [Next]_vars
  PROVE  TypeOK'
<1>1. CASE AcceptThrows
  BY <1>1
  DEF AcceptThrows, TypeOK, linkVars, outVars, sockVars, bcastVars, ownerVars
<1>2. CASE Close \/ Join
  BY <1>2
  DEF Close, Join, TypeOK, linkVars, outVars, sockVars, bcastVars, threadVars
<1>3. CASE UNCHANGED vars
  BY <1>3
  DEF vars, TypeOK, linkVars, outVars, sockVars, bcastVars, threadVars, ownerVars
<1> QED  BY <1>1, <1>2, <1>3, OutsideTypes, DispatchTypes DEF Next

\* Nobody but the thread takes what select() reported.
LEMMA ReadyStep ==
  ASSUME TypeOK, ReadyIsThere, [Next]_vars
  PROVE  ReadyIsThere'
<1> USE DEF ReadyIsThere, Connected, Readable
<1>1. ASSUME NEW d \in Dst, LinuxSends(d) \/ DeviceSends(d) PROVE ReadyIsThere'
  <2>1. /\ NextPacket("linux", d, "whole") \in PacketType
        /\ NextPacket("device", d, "whole") \in PacketType
    BY Types, NewPacket DEF Size
  <2>2. /\ Append(linuxRx, NextPacket("linux", d, "whole")) # <<>>
        /\ Append(ttyRx, NextPacket("device", d, "whole")) # <<>>
    <3> HIDE DEF ReadyIsThere, Connected, Readable
    <3>1. \A q \in Seq(PacketType), m \in PacketType : Append(q, m) # <<>>
      BY PutLast
    <3> QED  BY <2>1, <3>1, Types
  <2>3. /\ linuxRx # <<>> => linuxRx' # <<>>
        /\ ttyRx # <<>> => ttyRx' # <<>>
    BY <1>1, <2>2 DEF LinuxSends, DeviceSends
  <2> QED
    BY <1>1, <2>3 DEF LinuxSends, DeviceSends, sockVars, bcastVars, threadVars
<1>2. ASSUME NEW c \in Client, ClientConnects(c) PROVE ReadyIsThere'
  BY <1>2 DEF ClientConnects, linkVars, bcastVars, threadVars, TypeOK
<1>3. ASSUME NEW c \in Client, NEW d \in Dst, NEW size \in Size,
             ClientSends(c, d, size)
      PROVE  ReadyIsThere'
  <2>1. Append(toBridge[c], NextPacket(c, d, size)) # <<>>
    <3>1. \A q \in Seq(PacketType), m \in PacketType : Append(q, m) # <<>>
      BY PutLast
    <3>2. NextPacket(c, d, size) \in PacketType
      BY Types, NewPacket
    <3> QED  BY <3>1, <3>2, Types
  <2>2. connFd \in Client /\ toBridge[connFd] # <<>> => toBridge'[connFd] # <<>>
    BY <1>3, <2>1, Types DEF ClientSends
  <2> QED  BY <1>3, <2>2, Types DEF ClientSends, linkVars, bcastVars, threadVars
<1>4. ASSUME NEW c \in Client, ClientReads(c) \/ ClientCloses(c) PROVE ReadyIsThere'
  BY <1>4 DEF ClientReads, ClientCloses, linkVars, bcastVars, threadVars, TypeOK
<1>5. CASE LoopTop \/ SelectFails \/ SendFails \/ SendMessage \/ AcceptThrows
  BY <1>5 DEF LoopTop, SelectFails, SendFails, SendMessage, AcceptThrows
<1>6. CASE Select
  BY <1>6 DEF Select, ReadyFds, linkVars, sockVars, bcastVars
<1>7. CASE DropClient \/ \E d \in Dst : FromBcast(d)
  BY <1>7 DEF DropClient, FromBcast, Serving, Served, Before, linkVars
<1>8. CASE FromLinux
  BY <1>8 DEF FromLinux, Serving, Served, Before, sockVars, bcastVars
<1>9. CASE TtyToLinux
  BY <1>9 DEF TtyToLinux, Serving, Served, Before, sockVars, bcastVars
<1>10. CASE TtyToBcast
  <2>1. Head(ttyRx) \in PacketType
    BY <1>10, Serves, Types, TakeHead DEF TtyToBcast
  <2> QED
    BY <1>10, <2>1 DEF TtyToBcast, Serving, Served, Before, sockVars, bcastVars
<1>11. CASE Close \/ Join
  BY <1>11 DEF Close, Join, linkVars, sockVars, bcastVars, threadVars
<1>12. CASE UNCHANGED vars
  BY <1>12 DEF vars, linkVars, sockVars, bcastVars, threadVars
<1> QED
  BY <1>1, <1>2, <1>3, <1>4, <1>5, <1>6, <1>7, <1>8, <1>9, <1>10, <1>11, <1>12
  DEF Next, Outside, Dispatch

-----------------------------------------------------------------------------
(***************************************************************************)
(* Queues and histories.                                                   *)
(***************************************************************************)

\* A source sends: history and receive buffer get the packet.
LEMMA WaitingGrows ==
  ASSUME NEW h \in Seq(PacketType), NEW rx \in Seq(PacketType), NEW m \in PacketType,
         Waiting(h, rx)
  PROVE  /\ Waiting(Append(h, m), Append(rx, m))
         /\ Taken(Append(h, m), Append(rx, m)) = Taken(h, rx)
         /\ Taken(h, rx) \in Nat /\ Taken(h, rx) <= Len(h)
<1> DEFINE g == Append(h, m)
           ry == Append(rx, m)
<1>1. /\ Len(h) \in Nat /\ Len(g) = Len(h) + 1 /\ g[Len(h) + 1] = m
      /\ \A i \in 1 .. Len(h) : g[i] = h[i]
  BY PutLast
<1>2. /\ Len(rx) \in Nat /\ Len(ry) = Len(rx) + 1 /\ ry[Len(rx) + 1] = m
      /\ \A i \in 1 .. Len(rx) : ry[i] = rx[i]
  BY PutLast
<1> HIDE DEF g, ry
<1>3. Taken(g, ry) = Taken(h, rx) /\ Taken(h, rx) \in Nat /\ Taken(h, rx) <= Len(h)
  BY <1>1, <1>2 DEF Waiting, Taken
<1>4. Len(ry) <= Len(g)
  BY <1>1, <1>2 DEF Waiting
<1>5. ASSUME NEW i \in 1 .. Len(ry) PROVE ry[i] = g[Taken(g, ry) + i]
  <2>1. CASE i \in 1 .. Len(rx)
    <3>1. Taken(h, rx) + i \in 1 .. Len(h)
      BY <1>1, <1>2, <1>3, <2>1 DEF Taken
    <3> QED  BY <1>1, <1>2, <1>3, <2>1, <3>1 DEF Waiting
  <2>2. CASE i = Len(rx) + 1
    <3>1. Taken(h, rx) + i = Len(h) + 1
      BY <1>1, <1>2, <2>2 DEF Taken
    <3> QED  BY <1>1, <1>2, <1>3, <2>2, <3>1
  <2> QED  BY <1>2, <2>1, <2>2
<1>6. Waiting(g, ry)
  BY <1>4, <1>5 DEF Waiting
<1> QED  BY <1>3, <1>6 DEF g, ry

\* The thread takes a packet from a receive buffer.
LEMMA WaitingShrinks ==
  ASSUME NEW h \in Seq(PacketType), NEW rx \in Seq(PacketType), rx # <<>>,
         Waiting(h, rx)
  PROVE  /\ Waiting(h, Tail(rx))
         /\ Taken(h, Tail(rx)) = Taken(h, rx) + 1
         /\ Taken(h, rx) \in Nat
         /\ Taken(h, rx) + 1 \in 1 .. Len(h)
         /\ Head(rx) = h[Taken(h, rx) + 1]
<1> DEFINE ry == Tail(rx)
<1>1. /\ Head(rx) = rx[1] /\ Len(rx) \in Nat \ {0} /\ Len(ry) = Len(rx) - 1
      /\ \A i \in 1 .. Len(ry) : ry[i] = rx[i + 1]
  BY TakeHead
<1>2. Len(h) \in Nat
  OBVIOUS
<1> HIDE DEF ry
<1>3. /\ Taken(h, ry) = Taken(h, rx) + 1 /\ Taken(h, rx) \in Nat
      /\ Taken(h, rx) + 1 \in 1 .. Len(h)
  BY <1>1, <1>2 DEF Waiting, Taken
<1>4. Head(rx) = h[Taken(h, rx) + 1]
  BY <1>1, <1>3 DEF Waiting
<1>5. Len(ry) <= Len(h)
  BY <1>1, <1>2 DEF Waiting
<1>6. ASSUME NEW i \in 1 .. Len(ry) PROVE ry[i] = h[Taken(h, ry) + i]
  <2>1. i + 1 \in 1 .. Len(rx)
    BY <1>1
  <2>2. Taken(h, rx) + (i + 1) = Taken(h, ry) + i
    BY <1>3
  <2> QED  BY <1>1, <2>1, <2>2 DEF Waiting
<1>7. Waiting(h, ry)
  BY <1>5, <1>6 DEF Waiting
<1> QED  BY <1>3, <1>4, <1>7 DEF ry

\* A packet that is later than all of its source keeps a queue in order.
LEMMA InOrderGrows ==
  ASSUME NEW q \in Seq(PacketType), NEW m \in PacketType, InOrder(q),
         \A i \in 1 .. Len(q) : q[i].src = m.src => q[i].seq < m.seq
  PROVE  InOrder(Append(q, m))
<1> DEFINE r == Append(q, m)
<1>1. /\ r \in Seq(PacketType)
      /\ Len(q) \in Nat /\ Len(r) = Len(q) + 1 /\ r[Len(q) + 1] = m
      /\ \A i \in 1 .. Len(q) : r[i] = q[i]
  BY PutLast
<1> HIDE DEF r
<1>2. DOMAIN q = 1 .. Len(q) /\ DOMAIN r = 1 .. Len(r)
  BY <1>1
<1>3. ASSUME NEW i \in DOMAIN r, NEW j \in DOMAIN r, i < j, r[i].src = r[j].src
      PROVE  r[i].seq < r[j].seq
  <2>1. i \in 1 .. Len(q) /\ r[i] = q[i]
    BY <1>1, <1>2, <1>3
  <2>2. CASE j \in 1 .. Len(q)
    BY <1>1, <1>2, <1>3, <2>1, <2>2 DEF InOrder
  <2>3. CASE j = Len(q) + 1
    BY <1>1, <1>3, <2>1, <2>3
  <2> QED  BY <1>1, <1>2, <2>2, <2>3
<1>4. InOrder(r)
  BY <1>3 DEF InOrder
<1> QED  BY <1>4 DEF r

\* A queue that grows keeps what it had.
LEMMA InGrows ==
  ASSUME NEW q \in Seq(PacketType), NEW m \in PacketType
  PROVE  In(m, Append(q, m)) /\ \A x : In(x, q) => In(x, Append(q, m))
<1> DEFINE r == Append(q, m)
<1>1. /\ r \in Seq(PacketType)
      /\ Len(q) \in Nat /\ Len(r) = Len(q) + 1 /\ r[Len(q) + 1] = m
      /\ \A i \in 1 .. Len(q) : r[i] = q[i]
  BY PutLast
<1> HIDE DEF r
<1>2. DOMAIN q = 1 .. Len(q) /\ DOMAIN r = 1 .. Len(r)
  BY <1>1
<1>3. In(m, r)
  BY <1>1, <1>2 DEF In
<1>4. ASSUME NEW x, In(x, q) PROVE In(x, r)
  <2> PICK i \in DOMAIN q : q[i] = x
    BY <1>4 DEF In
  <2> QED  BY <1>1, <1>2 DEF In
<1> QED  BY <1>3, <1>4 DEF r

\* The history of a source that sends.
LEMMA Recorded ==
  ASSUME TypeOK, NEW s \in Source, NEW m \in PacketType, Record(s, m)
  PROVE  /\ sent'[s] = Append(sent[s], m)
         /\ \A x \in Source : x # s => sent'[x] = sent[x]
         /\ \A x \in Source :
               /\ Len(sent[x]) \in Nat /\ Len(sent[x]) <= Len(sent'[x])
               /\ \A i \in 1 .. Len(sent[x]) : sent'[x][i] = sent[x][i]
<1>1. /\ sent'[s] = Append(sent[s], m)
      /\ \A x \in Source : x # s => sent'[x] = sent[x]
  BY Types DEF Record
<1>2. ASSUME NEW x \in Source
      PROVE  /\ Len(sent[x]) \in Nat /\ Len(sent[x]) <= Len(sent'[x])
             /\ \A i \in 1 .. Len(sent[x]) : sent'[x][i] = sent[x][i]
  <2>1. sent[x] \in Seq(PacketType)
    BY Types
  <2>2. /\ Len(sent[x]) \in Nat /\ Len(Append(sent[x], m)) = Len(sent[x]) + 1
        /\ \A i \in 1 .. Len(sent[x]) : Append(sent[x], m)[i] = sent[x][i]
    BY <2>1, PutLast
  <2>3. CASE x = s
    BY <1>1, <2>2, <2>3
  <2>4. CASE x # s
    BY <1>1, <2>2, <2>4
  <2> QED  BY <2>3, <2>4
<1> QED  BY <1>1, <1>2

LEMMA NumberedStep ==
  ASSUME TypeOK, Numbered, NEW s \in Source, NEW m \in PacketType, Record(s, m),
         m.src = s, m.seq = Len(sent[s]) + 1
  PROVE  Numbered'
<1> SUFFICES ASSUME NEW x \in Source, NEW i \in 1 .. Len(sent'[x])
             PROVE  sent'[x][i].src = x /\ sent'[x][i].seq = i
  BY DEF Numbered
<1>1. sent[x] \in Seq(PacketType)
  BY Types
<1>2. CASE x # s
  <2>1. sent'[x] = sent[x]
    BY <1>2, Recorded
  <2> QED  BY <2>1 DEF Numbered
<1>3. CASE x = s
  <2>1. /\ Len(sent[s]) \in Nat /\ Len(Append(sent[s], m)) = Len(sent[s]) + 1
        /\ Append(sent[s], m)[Len(sent[s]) + 1] = m
        /\ \A k \in 1 .. Len(sent[s]) : Append(sent[s], m)[k] = sent[s][k]
    BY <1>1, <1>3, PutLast
  <2>2. sent'[s] = Append(sent[s], m)
    BY Recorded
  <2>3. i \in 1 .. Len(sent[s]) \/ i = Len(sent[s]) + 1
    BY <1>3, <2>1, <2>2
  <2> QED  BY <1>3, <2>1, <2>2, <2>3 DEF Numbered
<1> QED  BY <1>2, <1>3

-----------------------------------------------------------------------------
(***************************************************************************)
(* Steps that send.                                                        *)
(***************************************************************************)

\* What the packets' invariant says of a state, as far as arithmetic needs it.
LEMMA Bounds ==
  ASSUME TypeOK, RxHoldTheLast
  PROVE  /\ LinuxTaken \in Nat /\ LinuxTaken <= Len(sent["linux"])
         /\ DeviceTaken \in Nat /\ DeviceTaken <= Len(sent["device"])
         /\ \A s \in Source : sent[s] \in Seq(PacketType) /\ Len(sent[s]) \in Nat
<1>1. \A s \in Source : sent[s] \in Seq(PacketType) /\ Len(sent[s]) \in Nat
  BY Types
<1>2. Len(linuxRx) \in Nat /\ Len(ttyRx) \in Nat
  BY Types
<1>3. Len(sent["linux"]) \in Nat /\ Len(sent["device"]) \in Nat
  BY <1>1, Types
<1>4. Len(linuxRx) <= Len(sent["linux"]) /\ Len(ttyRx) <= Len(sent["device"])
  BY DEF RxHoldTheLast, Waiting
<1> QED
  BY <1>1, <1>2, <1>3, <1>4 DEF LinuxTaken, DeviceTaken, Taken

\* Nothing that the packets' invariant is about changes.
LEMMA QuietStep ==
  ASSUME PacketInv, UNCHANGED <<linkVars, outVars, sent, toBridge, clientGot>>,
         pc' = "send" => pc = "send" /\ msg' = msg
  PROVE  PacketInv'
<1>1. /\ linuxRx' = linuxRx /\ ttyRx' = ttyRx /\ linuxOut' = linuxOut
      /\ ttyOut' = ttyOut /\ sent' = sent /\ toBridge' = toBridge
      /\ clientGot' = clientGot
  BY DEF linkVars, outVars
<1>2. LinuxTaken' = LinuxTaken /\ DeviceTaken' = DeviceTaken
  BY <1>1 DEF LinuxTaken, DeviceTaken
<1>3. Numbered' /\ RxHoldTheLast' /\ DatagramsAscend'
  BY <1>1 DEF PacketInv, Numbered, RxHoldTheLast, DatagramsAscend
<1>4. TtyOutIsPast' /\ LinuxOutIsPast' /\ AllArrived'
  BY <1>1, <1>2 DEF PacketInv, TtyOutIsPast, LinuxOutIsPast, AllArrived
<1>5. MsgIsTaken' /\ GotIsPast'
  BY <1>1, <1>2 DEF PacketInv, MsgIsTaken, GotIsPast
<1> QED  BY <1>3, <1>4, <1>5 DEF PacketInv

LEMMA LinuxSendsStep ==
  ASSUME TypeOK, PacketInv, NEW d \in Dst, LinuxSends(d)
  PROVE  PacketInv'
<1> DEFINE m == NextPacket("linux", d, "whole")
<1>1. m \in PacketType /\ m.src = "linux" /\ m.seq = Len(sent["linux"]) + 1
  BY Types, NewPacket DEF Size
<1>2. Record("linux", m) /\ linuxRx' = Append(linuxRx, m)
  BY DEF LinuxSends
<1> HIDE DEF m
<1>3. /\ ttyRx' = ttyRx /\ linuxOut' = linuxOut /\ ttyOut' = ttyOut
      /\ toBridge' = toBridge /\ clientGot' = clientGot /\ pc' = pc /\ msg' = msg
  BY DEF LinuxSends, outVars, sockVars, threadVars
<1>4. /\ sent'["linux"] = Append(sent["linux"], m)
      /\ \A x \in Source : x # "linux" => sent'[x] = sent[x]
      /\ \A x \in Source : \A i \in 1 .. Len(sent[x]) : sent'[x][i] = sent[x][i]
  BY <1>1, <1>2, Recorded, Types
<1>5. /\ Waiting(Append(sent["linux"], m), Append(linuxRx, m))
      /\ Taken(Append(sent["linux"], m), Append(linuxRx, m)) = LinuxTaken
  BY <1>1, WaitingGrows, Types DEF PacketInv, RxHoldTheLast, LinuxTaken
<1>6. RxHoldTheLast' /\ LinuxTaken' = LinuxTaken /\ DeviceTaken' = DeviceTaken
  BY <1>2, <1>3, <1>4, <1>5, Types
  DEF PacketInv, RxHoldTheLast, LinuxTaken, DeviceTaken
<1>7. Numbered'
  BY <1>1, <1>2, NumberedStep, Types DEF PacketInv
<1>8. DatagramsAscend'
  BY <1>3, <1>4, Types DEF PacketInv, DatagramsAscend
<1>9. TtyOutIsPast' /\ LinuxOutIsPast'
  BY <1>3, <1>4, <1>6, Types DEF PacketInv, TtyOutIsPast, LinuxOutIsPast
<1>10. AllArrived'
  <2>1. /\ \A n \in 1 .. LinuxTaken : sent'["linux"][n] = sent["linux"][n]
        /\ \A n \in 1 .. DeviceTaken : sent'["device"][n] = sent["device"][n]
    <3>1. 1 .. LinuxTaken \subseteq 1 .. Len(sent["linux"])
      BY Bounds, Types DEF PacketInv
    <3>2. 1 .. DeviceTaken \subseteq 1 .. Len(sent["device"])
      BY Bounds, Types DEF PacketInv
    <3> QED  BY <1>4, <3>1, <3>2, Types
  <2> QED  BY <1>3, <1>6, <2>1 DEF PacketInv, AllArrived
<1>11. MsgIsTaken' /\ GotIsPast'
  BY <1>3, <1>6 DEF PacketInv, MsgIsTaken, GotIsPast
<1> QED  BY <1>6, <1>7, <1>8, <1>9, <1>10, <1>11 DEF PacketInv

LEMMA DeviceSendsStep ==
  ASSUME TypeOK, PacketInv, NEW d \in Dst, DeviceSends(d)
  PROVE  PacketInv'
<1> DEFINE m == NextPacket("device", d, "whole")
<1>1. m \in PacketType /\ m.src = "device" /\ m.seq = Len(sent["device"]) + 1
  BY Types, NewPacket DEF Size
<1>2. Record("device", m) /\ ttyRx' = Append(ttyRx, m)
  BY DEF DeviceSends
<1> HIDE DEF m
<1>3. /\ linuxRx' = linuxRx /\ linuxOut' = linuxOut /\ ttyOut' = ttyOut
      /\ toBridge' = toBridge /\ clientGot' = clientGot /\ pc' = pc /\ msg' = msg
  BY DEF DeviceSends, outVars, sockVars, threadVars
<1>4. /\ sent'["device"] = Append(sent["device"], m)
      /\ \A x \in Source : x # "device" => sent'[x] = sent[x]
      /\ \A x \in Source : \A i \in 1 .. Len(sent[x]) : sent'[x][i] = sent[x][i]
  BY <1>1, <1>2, Recorded, Types
<1>5. /\ Waiting(Append(sent["device"], m), Append(ttyRx, m))
      /\ Taken(Append(sent["device"], m), Append(ttyRx, m)) = DeviceTaken
  BY <1>1, WaitingGrows, Types DEF PacketInv, RxHoldTheLast, DeviceTaken
<1>6. RxHoldTheLast' /\ LinuxTaken' = LinuxTaken /\ DeviceTaken' = DeviceTaken
  BY <1>2, <1>3, <1>4, <1>5, Types
  DEF PacketInv, RxHoldTheLast, LinuxTaken, DeviceTaken
<1>7. Numbered'
  BY <1>1, <1>2, NumberedStep, Types DEF PacketInv
<1>8. DatagramsAscend'
  BY <1>3, <1>4, Types DEF PacketInv, DatagramsAscend
<1>9. TtyOutIsPast' /\ LinuxOutIsPast'
  BY <1>3, <1>4, <1>6, Types DEF PacketInv, TtyOutIsPast, LinuxOutIsPast
<1>10. AllArrived'
  <2>1. /\ \A n \in 1 .. LinuxTaken : sent'["linux"][n] = sent["linux"][n]
        /\ \A n \in 1 .. DeviceTaken : sent'["device"][n] = sent["device"][n]
    <3>1. 1 .. LinuxTaken \subseteq 1 .. Len(sent["linux"])
      BY Bounds, Types DEF PacketInv
    <3>2. 1 .. DeviceTaken \subseteq 1 .. Len(sent["device"])
      BY Bounds, Types DEF PacketInv
    <3> QED  BY <1>4, <3>1, <3>2, Types
  <2> QED  BY <1>3, <1>6, <2>1 DEF PacketInv, AllArrived
<1>11. MsgIsTaken' /\ GotIsPast'
  BY <1>3, <1>6 DEF PacketInv, MsgIsTaken, GotIsPast
<1> QED  BY <1>6, <1>7, <1>8, <1>9, <1>10, <1>11 DEF PacketInv

LEMMA ClientSendsStep ==
  ASSUME TypeOK, PacketInv, NEW c \in Client, NEW d \in Dst, NEW size \in Size,
         ClientSends(c, d, size)
  PROVE  PacketInv'
<1> DEFINE m == NextPacket(c, d, size)
<1>1. m \in PacketType /\ m.src = c /\ m.seq = Len(sent[c]) + 1
  BY Types, NewPacket
<1>2. Record(c, m) /\ toBridge' = [toBridge EXCEPT ![c] = Append(@, m)]
  BY DEF ClientSends
<1> HIDE DEF m
<1>3. /\ linuxRx' = linuxRx /\ ttyRx' = ttyRx /\ linuxOut' = linuxOut
      /\ ttyOut' = ttyOut /\ clientGot' = clientGot /\ pc' = pc /\ msg' = msg
  BY DEF ClientSends, linkVars, outVars, threadVars
<1>4. /\ sent'[c] = Append(sent[c], m)
      /\ \A x \in Source : x # c => sent'[x] = sent[x]
      /\ \A x \in Source :
            /\ Len(sent[x]) \in Nat /\ Len(sent[x]) <= Len(sent'[x])
            /\ \A i \in 1 .. Len(sent[x]) : sent'[x][i] = sent[x][i]
  BY <1>1, <1>2, Recorded, Types
<1>5. sent'["linux"] = sent["linux"] /\ sent'["device"] = sent["device"]
  BY <1>4, Types
<1>6. RxHoldTheLast' /\ LinuxTaken' = LinuxTaken /\ DeviceTaken' = DeviceTaken
  BY <1>3, <1>5 DEF PacketInv, RxHoldTheLast, LinuxTaken, DeviceTaken
<1>7. Numbered'
  BY <1>1, <1>2, NumberedStep, Types DEF PacketInv
<1> DEFINE q == Append(toBridge[c], m)
<1>8. /\ toBridge'[c] = q
      /\ \A x \in Client : x # c => toBridge'[x] = toBridge[x]
      /\ \A x \in Client : toBridge[x] \in Seq(PacketType) /\ Len(toBridge[x]) \in Nat
  BY <1>2, Types
<1>9. /\ Len(q) = Len(toBridge[c]) + 1 /\ q[Len(toBridge[c]) + 1] = m
      /\ \A i \in 1 .. Len(toBridge[c]) : q[i] = toBridge[c][i]
  BY <1>1, <1>8, PutLast
<1> HIDE DEF q
<1>10. /\ Len(sent'[c]) = Len(sent[c]) + 1 /\ Len(sent[c]) \in Nat
       /\ m.seq = Len(sent[c]) + 1 /\ c \in Source
  BY <1>1, <1>4, PutLast, Types
<1>11. \A x \in Client : \A i \in 1 .. Len(toBridge[x]) :
           toBridge[x][i] \in PacketType /\ toBridge[x][i].seq \in Nat
  BY <1>8, Elements
<1>12. DatagramsAscend'
  <2> SUFFICES ASSUME NEW x \in Client, NEW i \in 1 .. Len(toBridge'[x])
               PROVE  /\ toBridge'[x][i].src = x
                      /\ toBridge'[x][i].seq <= Len(sent'[x])
                      /\ \A j \in 1 .. Len(toBridge'[x]) :
                            i < j => toBridge'[x][i].seq < toBridge'[x][j].seq
    BY DEF DatagramsAscend
  <2>1. CASE x # c
    BY <1>4, <1>8, <2>1, Types DEF PacketInv, DatagramsAscend
  <2>2. CASE x = c /\ i \in 1 .. Len(toBridge[c])
    <3>1. /\ q[i] = toBridge[c][i] /\ q[i].src = c
          /\ q[i].seq \in Nat /\ q[i].seq <= Len(sent[c])
      BY <1>9, <1>11, <2>2 DEF PacketInv, DatagramsAscend
    <3>2. ASSUME NEW j \in 1 .. Len(q), i < j PROVE q[i].seq < q[j].seq
      <4>1. CASE j \in 1 .. Len(toBridge[c])
        BY <1>9, <2>2, <3>1, <3>2, <4>1 DEF PacketInv, DatagramsAscend
      <4>2. CASE j = Len(toBridge[c]) + 1
        BY <1>9, <1>10, <3>1, <4>2
      <4> QED  BY <1>8, <1>9, <4>1, <4>2
    <3>3. q[i].seq <= Len(sent'[c])
      BY <1>10, <3>1
    <3> QED  BY <1>8, <2>2, <3>1, <3>2, <3>3
  <2>3. CASE x = c /\ i = Len(toBridge[c]) + 1
    <3>1. q[i] = m /\ \A j \in 1 .. Len(q) : ~(i < j)
      BY <1>8, <1>9, <2>3
    <3> QED  BY <1>1, <1>8, <1>10, <2>3, <3>1
  <2> QED  BY <1>8, <1>9, <2>1, <2>2, <2>3
<1>13. TtyOutIsPast'
  <2>1. InOrder(ttyOut)'
    BY <1>3 DEF PacketInv, TtyOutIsPast
  <2> SUFFICES ASSUME NEW i \in 1 .. Len(ttyOut)
               PROVE  /\ ttyOut[i].src # "device"
                      /\ ttyOut[i].src = "linux" => ttyOut[i].seq <= LinuxTaken
                      /\ ttyOut[i].src \in Client =>
                           /\ ttyOut[i].seq <= Len(sent'[ttyOut[i].src])
                           /\ \A j \in 1 .. Len(toBridge'[ttyOut[i].src]) :
                                ttyOut[i].seq < toBridge'[ttyOut[i].src][j].seq
    BY <1>3, <1>6, <2>1 DEF TtyOutIsPast
  <2> DEFINE p == ttyOut[i]
  <2>2. p \in PacketType /\ p.seq \in Nat
    BY Types, Elements
  <2>3. /\ p.src # "device" /\ (p.src = "linux" => p.seq <= LinuxTaken)
        /\ p.src \in Client =>
              /\ p.seq <= Len(sent[p.src])
              /\ \A j \in 1 .. Len(toBridge[p.src]) : p.seq < toBridge[p.src][j].seq
    BY DEF PacketInv, TtyOutIsPast
  <2> HIDE DEF p
  <2> DEFINE Past == /\ p.src # "device" /\ (p.src = "linux" => p.seq <= LinuxTaken)
                     /\ p.src \in Client =>
                           /\ p.seq <= Len(sent'[p.src])
                           /\ \A j \in 1 .. Len(toBridge'[p.src]) :
                                  p.seq < toBridge'[p.src][j].seq
  <2>4. ASSUME p.src \in Client, p.src # c PROVE Past
    <3>1. p.src \in Source
      BY <2>4, Types
    <3> QED  BY <1>4, <1>8, <2>3, <2>4, <3>1
  <2>5. ASSUME p.src = c PROVE Past
    <3>1. p.seq <= Len(sent'[c]) /\ p.seq < m.seq
      BY <1>10, <2>2, <2>3, <2>5
    <3>2. \A j \in 1 .. Len(q) : p.seq < q[j].seq
      <4> TAKE j \in 1 .. Len(q)
      <4>1. j \in 1 .. Len(toBridge[c]) \/ j = Len(toBridge[c]) + 1
        BY <1>8, <1>9
      <4> QED  BY <1>8, <1>9, <2>3, <2>5, <3>1, <4>1
    <3> QED  BY <1>8, <2>3, <2>5, <3>1, <3>2
  <2>6. Past
    BY <2>3, <2>4, <2>5
  <2> QED  BY <2>6 DEF p
<1>14. LinuxOutIsPast' /\ AllArrived'
  BY <1>3, <1>5, <1>6 DEF PacketInv, LinuxOutIsPast, AllArrived
<1>15. MsgIsTaken' /\ GotIsPast'
  BY <1>3, <1>6 DEF PacketInv, MsgIsTaken, GotIsPast
<1> QED  BY <1>6, <1>7, <1>12, <1>13, <1>14, <1>15 DEF PacketInv

-----------------------------------------------------------------------------
(***************************************************************************)
(* Steps of the dispatch thread.                                           *)
(***************************************************************************)

\* A served port leaves nothing in the thread's hands.
LEMMA NotSending ==
  ASSUME NEW fd, Served(fd)
  PROVE  pc' # "send"
BY DEF Served

LEMMA DropClientStep ==
  ASSUME TypeOK, PacketInv, ReadyIsThere, DropClient
  PROVE  PacketInv'
<1>1. /\ sent' = sent /\ linuxRx' = linuxRx /\ ttyRx' = ttyRx
      /\ linuxOut' = linuxOut /\ ttyOut' = ttyOut /\ clientGot' = clientGot
      /\ pc' # "send"
  BY NotSending DEF DropClient, linkVars, outVars
<1>2. LinuxTaken' = LinuxTaken /\ DeviceTaken' = DeviceTaken
  BY <1>1 DEF LinuxTaken, DeviceTaken
<1>3. \A c \in Client : toBridge'[c] = toBridge[c] \/ toBridge'[c] = <<>>
  BY Types DEF DropClient
<1>4. Len(<<>>) = 0
  OBVIOUS
<1>5. Numbered' /\ RxHoldTheLast' /\ LinuxOutIsPast' /\ AllArrived'
  BY <1>1, <1>2
  DEF PacketInv, Numbered, RxHoldTheLast, LinuxOutIsPast, AllArrived
<1>6. DatagramsAscend'
  <2> SUFFICES ASSUME NEW c \in Client, NEW i \in 1 .. Len(toBridge'[c])
               PROVE  /\ toBridge'[c][i].src = c
                      /\ toBridge'[c][i].seq <= Len(sent[c])
                      /\ \A j \in 1 .. Len(toBridge'[c]) :
                            i < j => toBridge'[c][i].seq < toBridge'[c][j].seq
    BY <1>1 DEF DatagramsAscend
  <2>1. toBridge'[c] = toBridge[c]
    BY <1>3, <1>4
  <2> QED  BY <2>1 DEF PacketInv, DatagramsAscend
<1>7. TtyOutIsPast'
  <2>1. \A c \in Client : \A j \in 1 .. Len(toBridge'[c]) :
            j \in 1 .. Len(toBridge[c]) /\ toBridge'[c][j] = toBridge[c][j]
    BY <1>3, <1>4
  <2> QED  BY <1>1, <1>2, <2>1 DEF PacketInv, TtyOutIsPast
<1>8. MsgIsTaken' /\ GotIsPast'
  BY <1>1, <1>2 DEF PacketInv, MsgIsTaken, GotIsPast
<1> QED  BY <1>5, <1>6, <1>7, <1>8 DEF PacketInv

LEMMA FromBcastStep ==
  ASSUME TypeOK, PacketInv, ReadyIsThere, NEW d \in Dst, FromBcast(d)
  PROVE  PacketInv'
<1>1. /\ sent' = sent /\ linuxRx' = linuxRx /\ ttyRx' = ttyRx
      /\ linuxOut' = linuxOut /\ clientGot' = clientGot /\ pc' # "send"
  BY NotSending DEF FromBcast, linkVars
<1>2. LinuxTaken' = LinuxTaken /\ DeviceTaken' = DeviceTaken
  BY <1>1 DEF LinuxTaken, DeviceTaken
<1> DEFINE c == connFd
           b == toBridge[connFd]
           m == Head(toBridge[connFd])
           t == Tail(toBridge[connFd])
<1>3. c \in Client /\ c \in Source /\ c \notin {"linux", "device"}
      /\ b \in Seq(PacketType) /\ b # <<>>
  BY Serves, Types DEF FromBcast
<1>4. /\ m \in PacketType /\ m = b[1] /\ t \in Seq(PacketType)
      /\ Len(b) \in Nat \ {0} /\ Len(t) = Len(b) - 1
      /\ \A i \in 1 .. Len(t) : t[i] = b[i + 1]
  BY <1>3, TakeHead
<1>5. /\ toBridge'[c] = t
      /\ \A x \in Client : x # c => toBridge'[x] = toBridge[x]
      /\ toBridge[c] = b
  BY <1>3, Types DEF FromBcast
<1>6. ttyOut' = ttyOut \/ ttyOut' = Append(ttyOut, m)
  BY <1>4, NotedIsAppend DEF FromBcast
<1> HIDE DEF c, b, m, t
<1>7. /\ \A i \in 1 .. Len(b) : b[i].src = c /\ b[i].seq <= Len(sent[c])
      /\ \A i, j \in 1 .. Len(b) : i < j => b[i].seq < b[j].seq
  BY <1>3, <1>5 DEF PacketInv, DatagramsAscend
<1>8. /\ m.src = c /\ m.seq <= Len(sent[c])
      /\ \A j \in 1 .. Len(t) : m.seq < t[j].seq
  <2>1. \A j \in 1 .. Len(t) : j + 1 \in 1 .. Len(b) /\ 1 < j + 1
    BY <1>4
  <2>2. 1 \in 1 .. Len(b)
    BY <1>4
  <2> QED  BY <1>4, <1>7, <2>1, <2>2
<1>9. Numbered' /\ RxHoldTheLast' /\ LinuxOutIsPast'
  BY <1>1, <1>2 DEF PacketInv, Numbered, RxHoldTheLast, LinuxOutIsPast
<1>10. DatagramsAscend'
  <2> SUFFICES ASSUME NEW x \in Client, NEW i \in 1 .. Len(toBridge'[x])
               PROVE  /\ toBridge'[x][i].src = x
                      /\ toBridge'[x][i].seq <= Len(sent[x])
                      /\ \A j \in 1 .. Len(toBridge'[x]) :
                            i < j => toBridge'[x][i].seq < toBridge'[x][j].seq
    BY <1>1 DEF DatagramsAscend
  <2>1. CASE x = c
    <3>1. \A j \in 1 .. Len(t) : j + 1 \in 1 .. Len(b) /\ t[j] = b[j + 1]
      BY <1>4
    <3>2. i \in 1 .. Len(t)
      BY <1>5, <2>1
    <3>3. \A j \in 1 .. Len(t) : i < j => t[i].seq < t[j].seq
      <4> SUFFICES ASSUME NEW j \in 1 .. Len(t), i < j PROVE t[i].seq < t[j].seq
        OBVIOUS
      <4>1. i + 1 < j + 1
        BY <3>2
      <4> QED  BY <1>7, <3>1, <3>2, <4>1
    <3> QED  BY <1>5, <1>7, <2>1, <3>1, <3>2, <3>3
  <2>2. CASE x # c
    BY <1>5, <2>2 DEF PacketInv, DatagramsAscend
  <2> QED  BY <2>1, <2>2
\* What had gone to the device before is past what is still there.
<1>11. ASSUME NEW i \in 1 .. Len(ttyOut)
       PROVE  /\ ttyOut[i].src # "device"
              /\ ttyOut[i].src = "linux" => ttyOut[i].seq <= LinuxTaken
              /\ ttyOut[i].src \in Client =>
                    /\ ttyOut[i].seq <= Len(sent[ttyOut[i].src])
                    /\ \A j \in 1 .. Len(toBridge'[ttyOut[i].src]) :
                          ttyOut[i].seq < toBridge'[ttyOut[i].src][j].seq
  <2>1. CASE ttyOut[i].src = c
    <3>1. \A j \in 1 .. Len(t) : j + 1 \in 1 .. Len(b) /\ t[j] = b[j + 1]
      BY <1>4
    <3>2. \A j \in 1 .. Len(b) : ttyOut[i].seq < b[j].seq
      BY <1>3, <1>5, <2>1 DEF PacketInv, TtyOutIsPast
    <3>3. \A j \in 1 .. Len(t) : ttyOut[i].seq < t[j].seq
      BY <3>1, <3>2
    <3> QED  BY <1>3, <1>5, <2>1, <3>3 DEF PacketInv, TtyOutIsPast
  <2>2. CASE ttyOut[i].src # c
    BY <1>5, <2>2 DEF PacketInv, TtyOutIsPast
  <2> QED  BY <2>1, <2>2
<1>12. InOrder(ttyOut) /\ ttyOut \in Seq(PacketType)
  BY Types DEF PacketInv, TtyOutIsPast
<1>13. TtyOutIsPast'
  <2>1. CASE ttyOut' = ttyOut
    BY <1>1, <1>2, <1>11, <1>12, <2>1 DEF TtyOutIsPast
  <2>2. CASE ttyOut' = Append(ttyOut, m)
    <3> DEFINE r == Append(ttyOut, m)
    <3>1. /\ Len(ttyOut) \in Nat /\ Len(r) = Len(ttyOut) + 1 /\ r[Len(ttyOut) + 1] = m
          /\ \A i \in 1 .. Len(ttyOut) : r[i] = ttyOut[i]
      BY <1>4, <1>12, PutLast
    <3>2. InOrder(r)
      <4>1. \A i \in 1 .. Len(ttyOut) : ttyOut[i].src = m.src => ttyOut[i].seq < m.seq
        <5>1. 1 \in 1 .. Len(b)
          BY <1>4
        <5>2. \A i \in 1 .. Len(ttyOut) :
                 ttyOut[i].src = c => \A j \in 1 .. Len(b) : ttyOut[i].seq < b[j].seq
          BY <1>3, <1>5 DEF PacketInv, TtyOutIsPast
        <5> QED  BY <1>4, <1>8, <5>1, <5>2
      <4> QED  BY <1>4, <1>12, <4>1, InOrderGrows
    <3> HIDE DEF r
    <3>3. ASSUME NEW i \in 1 .. Len(r)
          PROVE  /\ r[i].src # "device"
                 /\ r[i].src = "linux" => r[i].seq <= LinuxTaken
                 /\ r[i].src \in Client =>
                       /\ r[i].seq <= Len(sent[r[i].src])
                       /\ \A j \in 1 .. Len(toBridge'[r[i].src]) :
                             r[i].seq < toBridge'[r[i].src][j].seq
      <4>1. CASE i \in 1 .. Len(ttyOut)
        BY <1>11, <3>1, <4>1
      <4>2. CASE i = Len(ttyOut) + 1
        BY <1>3, <1>5, <1>8, <3>1, <4>2
      <4> QED  BY <3>1, <4>1, <4>2
    <3>4. ttyOut' = r
      BY <2>2 DEF r
    <3> QED  BY <1>1, <1>2, <3>2, <3>3, <3>4 DEF TtyOutIsPast
  <2> QED  BY <1>6, <2>1, <2>2
<1>14. AllArrived'
  <2>1. \A x : In(x, ttyOut) => In(x, ttyOut')
    BY <1>4, <1>6, <1>12, InGrows
  <2> QED  BY <1>1, <1>2, <2>1 DEF PacketInv, AllArrived
<1>15. MsgIsTaken' /\ GotIsPast'
  BY <1>1, <1>2 DEF PacketInv, MsgIsTaken, GotIsPast
<1> QED  BY <1>9, <1>10, <1>13, <1>14, <1>15 DEF PacketInv

LEMMA FromLinuxStep ==
  ASSUME TypeOK, PacketInv, ReadyIsThere, FromLinux
  PROVE  PacketInv'
<1>1. /\ sent' = sent /\ ttyRx' = ttyRx /\ linuxOut' = linuxOut
      /\ toBridge' = toBridge /\ clientGot' = clientGot /\ pc' # "send"
  BY NotSending DEF FromLinux, sockVars
<1> DEFINE h == sent["linux"]
           m == Head(linuxRx)
<1>2. linuxRx # <<>> /\ linuxRx \in Seq(PacketType) /\ h \in Seq(PacketType)
  BY Serves, Types DEF FromLinux
<1>3. ttyOut' = Append(ttyOut, m) /\ linuxRx' = Tail(linuxRx)
  BY DEF FromLinux
<1>4. m \in PacketType
  BY <1>2, TakeHead
<1> HIDE DEF m
<1>5. /\ Waiting(h, Tail(linuxRx))
      /\ Taken(h, Tail(linuxRx)) = LinuxTaken + 1
      /\ LinuxTaken \in Nat /\ LinuxTaken + 1 \in 1 .. Len(h)
      /\ m = h[LinuxTaken + 1]
  BY <1>2, WaitingShrinks DEF PacketInv, RxHoldTheLast, LinuxTaken, m
<1>6. /\ RxHoldTheLast' /\ LinuxTaken' = LinuxTaken + 1
      /\ DeviceTaken' = DeviceTaken
  BY <1>1, <1>3, <1>5 DEF PacketInv, RxHoldTheLast, LinuxTaken, DeviceTaken
<1>7. m.src = "linux" /\ m.seq = LinuxTaken + 1
  BY <1>5, Types DEF PacketInv, Numbered
<1>8. Numbered' /\ DatagramsAscend' /\ LinuxOutIsPast'
  BY <1>1, <1>6 DEF PacketInv, Numbered, DatagramsAscend, LinuxOutIsPast
<1> DEFINE r == Append(ttyOut, m)
<1>9. /\ ttyOut \in Seq(PacketType)
      /\ Len(ttyOut) \in Nat /\ Len(r) = Len(ttyOut) + 1 /\ r[Len(ttyOut) + 1] = m
      /\ \A i \in 1 .. Len(ttyOut) : r[i] = ttyOut[i]
  BY <1>4, PutLast, Types
<1>10. \A i \in 1 .. Len(ttyOut) : ttyOut[i].seq \in Nat
  BY <1>9, Elements
<1>11. InOrder(r)
  <2>1. \A i \in 1 .. Len(ttyOut) : ttyOut[i].src = m.src => ttyOut[i].seq < m.seq
    BY <1>5, <1>7, <1>10 DEF PacketInv, TtyOutIsPast
  <2>2. InOrder(ttyOut)
    BY DEF PacketInv, TtyOutIsPast
  <2> QED  BY <1>4, <1>9, <2>1, <2>2, InOrderGrows
<1>12. In(m, r) /\ \A x : In(x, ttyOut) => In(x, r)
  BY <1>4, <1>9, InGrows
<1> HIDE DEF r
<1>13. ASSUME NEW i \in 1 .. Len(r)
       PROVE  /\ r[i].src # "device"
              /\ r[i].src = "linux" => r[i].seq <= LinuxTaken + 1
              /\ r[i].src \in Client =>
                    /\ r[i].seq <= Len(sent[r[i].src])
                    /\ \A j \in 1 .. Len(toBridge[r[i].src]) :
                          r[i].seq < toBridge[r[i].src][j].seq
  <2>1. CASE i \in 1 .. Len(ttyOut)
    <3>1. ttyOut[i].seq <= LinuxTaken => ttyOut[i].seq <= LinuxTaken + 1
      BY <1>5, <1>10, <2>1
    <3> QED  BY <1>9, <2>1, <3>1 DEF PacketInv, TtyOutIsPast
  <2>2. CASE i = Len(ttyOut) + 1
    BY <1>5, <1>7, <1>9, <2>2, Types
  <2> QED  BY <1>9, <2>1, <2>2
<1>14. ttyOut' = r
  BY <1>3 DEF r
<1>15. TtyOutIsPast'
  BY <1>1, <1>6, <1>11, <1>13, <1>14 DEF TtyOutIsPast
<1>16. AllArrived'
  <2>1. \A n \in 1 .. LinuxTaken + 1 : n \in 1 .. LinuxTaken \/ n = LinuxTaken + 1
    BY <1>5
  <2>2. \A n \in 1 .. LinuxTaken + 1 : In(sent["linux"][n], r)
    BY <1>5, <1>12, <2>1 DEF PacketInv, AllArrived
  <2> QED  BY <1>1, <1>6, <1>14, <2>2 DEF PacketInv, AllArrived
<1>17. MsgIsTaken' /\ GotIsPast'
  BY <1>1, <1>6 DEF PacketInv, MsgIsTaken, GotIsPast
<1> QED  BY <1>6, <1>8, <1>15, <1>16, <1>17 DEF PacketInv

\* The next packet of the device leaves its receive buffer.
LEMMA FromTty ==
  ASSUME TypeOK, PacketInv, ttyRx # <<>>, sent' = sent, ttyRx' = Tail(ttyRx)
  PROVE  /\ Waiting(sent["device"], ttyRx)' /\ DeviceTaken' = DeviceTaken + 1
         /\ DeviceTaken \in Nat /\ DeviceTaken + 1 \in 1 .. Len(sent["device"])
         /\ Head(ttyRx) \in PacketType
         /\ Head(ttyRx) = sent["device"][DeviceTaken + 1]
         /\ Head(ttyRx).src = "device" /\ Head(ttyRx).seq = DeviceTaken + 1
<1> DEFINE h == sent["device"]
<1>1. ttyRx \in Seq(PacketType) /\ h \in Seq(PacketType)
  BY Types
<1>2. /\ Waiting(h, Tail(ttyRx))
      /\ Taken(h, Tail(ttyRx)) = DeviceTaken + 1
      /\ DeviceTaken \in Nat /\ DeviceTaken + 1 \in 1 .. Len(h)
      /\ Head(ttyRx) = h[DeviceTaken + 1]
  BY <1>1, WaitingShrinks DEF PacketInv, RxHoldTheLast, DeviceTaken
<1>3. h[DeviceTaken + 1].src = "device" /\ h[DeviceTaken + 1].seq = DeviceTaken + 1
  BY <1>2, Types DEF PacketInv, Numbered
<1>4. Head(ttyRx) \in PacketType
  BY <1>1, TakeHead
<1> QED  BY <1>2, <1>3, <1>4 DEF DeviceTaken

LEMMA TtyToLinuxStep ==
  ASSUME TypeOK, PacketInv, ReadyIsThere, TtyToLinux
  PROVE  PacketInv'
<1>1. /\ sent' = sent /\ linuxRx' = linuxRx /\ ttyOut' = ttyOut
      /\ toBridge' = toBridge /\ clientGot' = clientGot /\ pc' # "send"
  BY NotSending DEF TtyToLinux, sockVars
<1> DEFINE m == Head(ttyRx)
<1>2. linuxOut' = Append(linuxOut, m) /\ ttyRx' = Tail(ttyRx) /\ m.dst = "eid"
  <2>1. m \in PacketType
    BY Serves, Types, TakeHead DEF TtyToLinux
  <2> QED  BY <2>1, NotedIsAppend DEF TtyToLinux
<1>3. ttyRx # <<>>
  BY Serves DEF TtyToLinux
<1>4. /\ Waiting(sent["device"], ttyRx)' /\ DeviceTaken' = DeviceTaken + 1
      /\ DeviceTaken \in Nat /\ m \in PacketType
      /\ m = sent["device"][DeviceTaken + 1]
      /\ m.src = "device" /\ m.seq = DeviceTaken + 1
  BY <1>1, <1>2, <1>3, FromTty
<1> HIDE DEF m
<1>5. LinuxTaken' = LinuxTaken
  BY <1>1 DEF LinuxTaken
<1>6. Numbered' /\ RxHoldTheLast' /\ DatagramsAscend' /\ TtyOutIsPast'
  BY <1>1, <1>4, <1>5
  DEF PacketInv, Numbered, RxHoldTheLast, DatagramsAscend, TtyOutIsPast
<1> DEFINE r == Append(linuxOut, m)
<1>7. /\ linuxOut \in Seq(PacketType)
      /\ Len(linuxOut) \in Nat /\ Len(r) = Len(linuxOut) + 1
      /\ r[Len(linuxOut) + 1] = m
      /\ \A i \in 1 .. Len(linuxOut) : r[i] = linuxOut[i]
  BY <1>4, PutLast, Types
<1>8. \A i \in 1 .. Len(linuxOut) :
         linuxOut[i].seq \in Nat /\ linuxOut[i].seq <= DeviceTaken
  BY <1>7, Elements DEF PacketInv, LinuxOutIsPast
<1>9. InOrder(r)
  <2>1. \A i \in 1 .. Len(linuxOut) : linuxOut[i].seq < m.seq
    BY <1>4, <1>8
  <2>2. InOrder(linuxOut)
    BY DEF PacketInv, LinuxOutIsPast
  <2> QED  BY <1>4, <1>7, <2>1, <2>2, InOrderGrows
<1>10. In(m, r) /\ \A x : In(x, linuxOut) => In(x, r)
  BY <1>4, <1>7, InGrows
<1> HIDE DEF r
<1>11. linuxOut' = r
  BY <1>2 DEF r
<1>12. LinuxOutIsPast'
  <2>1. ASSUME NEW i \in 1 .. Len(r)
        PROVE  r[i].src = "device" /\ r[i].dst = "eid" /\ r[i].seq <= DeviceTaken + 1
    <3>1. CASE i \in 1 .. Len(linuxOut)
      BY <1>4, <1>7, <1>8, <3>1 DEF PacketInv, LinuxOutIsPast
    <3>2. CASE i = Len(linuxOut) + 1
      BY <1>2, <1>4, <1>7, <3>2
    <3> QED  BY <1>7, <3>1, <3>2
  <2> QED  BY <1>4, <1>9, <1>11, <2>1 DEF LinuxOutIsPast
<1>13. AllArrived'
  <2>1. \A n \in 1 .. DeviceTaken + 1 : n \in 1 .. DeviceTaken \/ n = DeviceTaken + 1
    BY <1>4
  <2>2. \A n \in 1 .. DeviceTaken + 1 :
           sent["device"][n].dst = "eid" => In(sent["device"][n], r)
    BY <1>4, <1>10, <2>1 DEF PacketInv, AllArrived
  <2> QED  BY <1>1, <1>4, <1>5, <1>11, <2>2 DEF PacketInv, AllArrived
<1>14. MsgIsTaken'
  BY <1>1 DEF MsgIsTaken
<1>15. GotIsPast'
  <2>1. \A c \in Client : \A i \in 1 .. Len(clientGot[c]) :
           clientGot[c][i].seq <= DeviceTaken + 1
    <3>1. \A c \in Client : \A i \in 1 .. Len(clientGot[c]) :
             clientGot[c][i].seq \in Nat /\ clientGot[c][i].seq <= DeviceTaken
      BY Elements, Types DEF PacketInv, GotIsPast
    <3> QED  BY <1>4, <3>1
  <2> QED  BY <1>1, <1>4, <2>1 DEF PacketInv, GotIsPast
<1> QED  BY <1>6, <1>12, <1>13, <1>14, <1>15 DEF PacketInv

LEMMA TtyToBcastStep ==
  ASSUME TypeOK, PacketInv, ReadyIsThere, TtyToBcast
  PROVE  PacketInv'
<1>1. /\ sent' = sent /\ linuxRx' = linuxRx /\ ttyOut' = ttyOut
      /\ linuxOut' = linuxOut /\ toBridge' = toBridge /\ clientGot' = clientGot
  BY DEF TtyToBcast, outVars, sockVars
<1> DEFINE m == Head(ttyRx)
<1>2. /\ ttyRx' = Tail(ttyRx) /\ m.dst = "bcast"
      /\ pc' = "send" => msg' = m
  BY NotSending DEF TtyToBcast
<1>3. ttyRx # <<>>
  BY Serves DEF TtyToBcast
<1>4. /\ Waiting(sent["device"], ttyRx)' /\ DeviceTaken' = DeviceTaken + 1
      /\ DeviceTaken \in Nat
      /\ m = sent["device"][DeviceTaken + 1]
      /\ m.src = "device" /\ m.seq = DeviceTaken + 1
  BY <1>1, <1>2, <1>3, FromTty
<1> HIDE DEF m
<1>5. LinuxTaken' = LinuxTaken
  BY <1>1 DEF LinuxTaken
<1>6. Numbered' /\ RxHoldTheLast' /\ DatagramsAscend' /\ TtyOutIsPast'
  BY <1>1, <1>4, <1>5
  DEF PacketInv, Numbered, RxHoldTheLast, DatagramsAscend, TtyOutIsPast
<1>7. LinuxOutIsPast'
  <2>1. \A i \in 1 .. Len(linuxOut) :
           linuxOut[i].seq \in Nat /\ linuxOut[i].seq <= DeviceTaken
    BY Elements, Types DEF PacketInv, LinuxOutIsPast
  <2>2. \A i \in 1 .. Len(linuxOut) : linuxOut[i].seq <= DeviceTaken + 1
    BY <1>4, <2>1
  <2> QED  BY <1>1, <1>4, <2>2 DEF PacketInv, LinuxOutIsPast
<1>8. AllArrived'
  <2>1. \A n \in 1 .. DeviceTaken + 1 : n \in 1 .. DeviceTaken \/ n = DeviceTaken + 1
    BY <1>4
  <2> QED  BY <1>1, <1>2, <1>4, <1>5, <2>1 DEF PacketInv, AllArrived
<1>9. MsgIsTaken'
  BY <1>2, <1>4 DEF MsgIsTaken
<1>10. GotIsPast'
  <2>1. \A c \in Client : \A i \in 1 .. Len(clientGot[c]) :
           clientGot[c][i].seq \in Nat /\ clientGot[c][i].seq <= DeviceTaken
    BY Elements, Types DEF PacketInv, GotIsPast
  <2>2. \A c \in Client : \A i \in 1 .. Len(clientGot[c]) :
           /\ clientGot[c][i].seq < DeviceTaken + 1
           /\ clientGot[c][i].seq <= DeviceTaken + 1
    BY <1>4, <2>1
  <2> QED  BY <1>1, <1>2, <1>4, <2>2 DEF PacketInv, GotIsPast
<1> QED  BY <1>6, <1>7, <1>8, <1>9, <1>10 DEF PacketInv

LEMMA SendMessageStep ==
  ASSUME TypeOK, PacketInv, ReadyIsThere, SendMessage
  PROVE  PacketInv'
<1>1. /\ sent' = sent /\ linuxRx' = linuxRx /\ ttyRx' = ttyRx /\ ttyOut' = ttyOut
      /\ linuxOut' = linuxOut /\ toBridge' = toBridge /\ pc = "send" /\ pc' = "top"
      /\ clientGot' = [clientGot EXCEPT ![connFd] = Append(@, msg)]
  <2>1. msg \in PacketType
    BY Serves DEF SendMessage
  <2> QED  BY <2>1, NotedIsAppend, Types DEF SendMessage, linkVars, outVars
<1>2. LinuxTaken' = LinuxTaken /\ DeviceTaken' = DeviceTaken
  BY <1>1 DEF LinuxTaken, DeviceTaken
<1>3. Numbered' /\ RxHoldTheLast' /\ DatagramsAscend'
  BY <1>1 DEF PacketInv, Numbered, RxHoldTheLast, DatagramsAscend
<1>4. TtyOutIsPast' /\ LinuxOutIsPast' /\ AllArrived'
  BY <1>1, <1>2 DEF PacketInv, TtyOutIsPast, LinuxOutIsPast, AllArrived
<1>5. MsgIsTaken'
  BY <1>1 DEF MsgIsTaken
<1>6. connFd \in Client /\ msg \in PacketType
  BY <1>1, Serves
<1>7. msg.src = "device" /\ msg.dst = "bcast" /\ msg.seq <= DeviceTaken
  BY <1>1 DEF PacketInv, MsgIsTaken
<1> DEFINE g == clientGot[connFd]
           r == Append(clientGot[connFd], msg)
<1>8. /\ clientGot'[connFd] = r
      /\ \A x \in Client : x # connFd => clientGot'[x] = clientGot[x]
      /\ g \in Seq(PacketType)
  BY <1>1, <1>6, Types
<1>9. /\ Len(g) \in Nat /\ Len(r) = Len(g) + 1 /\ r[Len(g) + 1] = msg
      /\ \A i \in 1 .. Len(g) : r[i] = g[i]
  BY <1>6, <1>8, PutLast
<1>10. \A x \in Client : \A i \in 1 .. Len(clientGot[x]) :
          clientGot[x][i].seq \in Nat /\ clientGot[x][i].seq < msg.seq
  BY <1>1, Elements, Types DEF PacketInv, GotIsPast
<1>11. msg.seq \in Nat
  BY <1>6 DEF PacketType
<1>12. InOrder(r)
  <2>1. \A i \in 1 .. Len(g) : g[i].seq < msg.seq
    BY <1>6, <1>10
  <2>2. InOrder(g)
    BY <1>6 DEF PacketInv, GotIsPast
  <2> QED  BY <1>6, <1>8, <2>1, <2>2, InOrderGrows
<1> HIDE DEF r
<1>13. ASSUME NEW x \in Client, NEW i \in 1 .. Len(clientGot'[x])
       PROVE  /\ clientGot'[x][i].src = "device" /\ clientGot'[x][i].dst = "bcast"
              /\ clientGot'[x][i].seq <= DeviceTaken
              /\ \/ i \in 1 .. Len(clientGot[x]) /\ clientGot'[x][i] = clientGot[x][i]
                 \/ x = connFd /\ clientGot'[x][i] = msg
  <2>1. CASE x = connFd
    <3>1. i \in 1 .. Len(g) \/ i = Len(g) + 1
      BY <1>8, <1>9, <2>1
    <3> QED  BY <1>6, <1>7, <1>8, <1>9, <2>1, <3>1 DEF PacketInv, GotIsPast
  <2>2. CASE x # connFd
    BY <1>8, <2>2 DEF PacketInv, GotIsPast
  <2> QED  BY <2>1, <2>2
\* The message is later than all that any client got.
<1>14. ASSUME NEW x \in Client, NEW y \in Client \ {x},
              NEW i \in 1 .. Len(clientGot'[x]), NEW j \in 1 .. Len(clientGot'[y])
       PROVE  clientGot'[x][i].seq # clientGot'[y][j].seq
  <2>1. CASE clientGot'[x][i] = msg /\ x = connFd
    <3>1. j \in 1 .. Len(clientGot[y]) /\ clientGot'[y][j] = clientGot[y][j]
      BY <1>13, <2>1
    <3>2. clientGot[y][j].seq \in Nat /\ clientGot[y][j].seq < msg.seq
      BY <1>10, <3>1
    <3> QED  BY <1>11, <2>1, <3>1, <3>2
  <2>2. CASE clientGot'[y][j] = msg /\ y = connFd
    <3>1. i \in 1 .. Len(clientGot[x]) /\ clientGot'[x][i] = clientGot[x][i]
      BY <1>13, <2>2
    <3>2. clientGot[x][i].seq \in Nat /\ clientGot[x][i].seq < msg.seq
      BY <1>10, <3>1
    <3> QED  BY <1>11, <2>2, <3>1, <3>2
  <2>3. CASE /\ i \in 1 .. Len(clientGot[x]) /\ clientGot'[x][i] = clientGot[x][i]
             /\ j \in 1 .. Len(clientGot[y]) /\ clientGot'[y][j] = clientGot[y][j]
    BY <2>3 DEF PacketInv, GotIsPast
  <2> QED  BY <1>13, <2>1, <2>2, <2>3
<1>15. \A x \in Client : InOrder(clientGot[x])'
  <2> TAKE x \in Client
  <2>1. CASE x = connFd
    BY <1>8, <1>12, <2>1 DEF InOrder
  <2>2. CASE x # connFd
    BY <1>8, <2>2 DEF InOrder, PacketInv, GotIsPast
  <2> QED  BY <2>1, <2>2
<1>16. GotIsPast'
  BY <1>1, <1>2, <1>13, <1>14, <1>15 DEF GotIsPast
<1> QED  BY <1>3, <1>4, <1>5, <1>16 DEF PacketInv

-----------------------------------------------------------------------------
(***************************************************************************)
(* The invariant is inductive.                                             *)
(***************************************************************************)

LEMMA PacketStep ==
  ASSUME BridgeInv, [Next]_vars
  PROVE  PacketInv'
<1> USE DEF BridgeInv
<1>1. CASE \E d \in Dst : LinuxSends(d) \/ DeviceSends(d)
  BY <1>1, LinuxSendsStep, DeviceSendsStep
<1>2. CASE \E c \in Client, d \in Dst, size \in Size : ClientSends(c, d, size)
  BY <1>2, ClientSendsStep
<1>3. CASE \E c \in Client : ClientConnects(c) \/ ClientReads(c) \/ ClientCloses(c)
  BY <1>3, QuietStep DEF ClientConnects, ClientReads, ClientCloses, threadVars
<1>4. CASE LoopTop \/ SelectFails \/ SendFails \/ AcceptThrows
  BY <1>4, QuietStep DEF LoopTop, SelectFails, SendFails, AcceptThrows, sockVars
<1>5. CASE Select
  BY <1>5, QuietStep DEF Select, sockVars
<1>6. CASE DropClient
  BY <1>6, DropClientStep
<1>7. CASE \E d \in Dst : FromBcast(d)
  BY <1>7, FromBcastStep
<1>8. CASE FromLinux
  BY <1>8, FromLinuxStep
<1>9. CASE TtyToLinux
  BY <1>9, TtyToLinuxStep
<1>10. CASE TtyToBcast
  BY <1>10, TtyToBcastStep
<1>11. CASE SendMessage
  BY <1>11, SendMessageStep
<1>12. CASE Close \/ Join
  BY <1>12, QuietStep DEF Close, Join, sockVars, threadVars
<1>13. CASE UNCHANGED vars
  BY <1>13, QuietStep DEF vars, sockVars, threadVars
<1> QED
  BY <1>1, <1>2, <1>3, <1>4, <1>5, <1>6, <1>7, <1>8, <1>9, <1>10, <1>11, <1>12, <1>13
  DEF Next, Outside, Dispatch

(***************************************************************************)
(* Whatever run() does, every packet has a place: it waits in its buffer,  *)
(* is in the thread's hands, or is where it was routed to.                 *)
(***************************************************************************)
THEOREM BridgeInvariant == Spec => []BridgeInv
<1>1. Init => BridgeInv
  BY InitialInv
<1>2. BridgeInv /\ [Next]_vars => BridgeInv'
  BY TypeIsKept, ReadyStep, PacketStep DEF BridgeInv
<1> QED  BY <1>1, <1>2, PTL DEF Spec

-----------------------------------------------------------------------------
(***************************************************************************)
(* What it says.                                                           *)
(***************************************************************************)

(***************************************************************************)
(* Every variable of the dispatch thread's model holds a value of its      *)
(* type; in particular run() never takes from an empty buffer and never    *)
(* gives a client's socket more than it has room for.                      *)
(***************************************************************************)
THEOREM BridgeTypeCorrect == Spec => []TypeOK
<1>1. BridgeInv => TypeOK
  BY DEF BridgeInv
<1> QED  BY <1>1, BridgeInvariant, PTL

(***************************************************************************)
(* No port repeats or reorders what comes from one source: not the tty,    *)
(* where kernel and clients mix, not the kernel, and not a client that     *)
(* comes, goes and is replaced.                                            *)
(***************************************************************************)
THEOREM BridgeKeepsOrder == Spec => []PortsKeepOrder
<1>1. BridgeInv => PortsKeepOrder
  BY DEF BridgeInv, PacketInv, TtyOutIsPast, LinuxOutIsPast, GotIsPast, PortsKeepOrder
<1> QED  BY <1>1, BridgeInvariant, PTL

\* The packets of the kernel on the tty are those that left its receive buffer.
LEMMA KernelLossless ==
  ASSUME BridgeInv, NEW n \in DOMAIN sent["linux"]
  PROVE  n <= Len(sent["linux"]) - Len(linuxRx) <=> In(sent["linux"][n], ttyOut)
<1>1. /\ LinuxTaken = Len(sent["linux"]) - Len(linuxRx)
      /\ sent["linux"] \in Seq(PacketType) /\ LinuxTaken \in Nat
  BY Bounds, Types DEF BridgeInv, PacketInv, LinuxTaken, Taken
<1>2. n \in 1 .. Len(sent["linux"])
  BY <1>1
<1>3. sent["linux"][n].src = "linux" /\ sent["linux"][n].seq = n
  BY <1>2, Types DEF BridgeInv, PacketInv, Numbered
<1>4. ASSUME n <= LinuxTaken PROVE In(sent["linux"][n], ttyOut)
  <2>1. n \in 1 .. LinuxTaken
    BY <1>1, <1>2, <1>4
  <2> QED  BY <2>1 DEF BridgeInv, PacketInv, AllArrived
<1>5. ASSUME In(sent["linux"][n], ttyOut) PROVE n <= LinuxTaken
  <2>1. PICK i \in DOMAIN ttyOut : ttyOut[i] = sent["linux"][n]
    BY <1>5 DEF In
  <2>2. i \in 1 .. Len(ttyOut)
    BY Types DEF BridgeInv
  <2> QED  BY <1>3, <2>1, <2>2 DEF BridgeInv, PacketInv, TtyOutIsPast
<1> QED  BY <1>1, <1>4, <1>5

LEMMA DeviceLossless ==
  ASSUME BridgeInv, NEW n \in DOMAIN sent["device"], sent["device"][n].dst = "eid"
  PROVE  n <= Len(sent["device"]) - Len(ttyRx) <=> In(sent["device"][n], linuxOut)
<1>1. /\ DeviceTaken = Len(sent["device"]) - Len(ttyRx)
      /\ sent["device"] \in Seq(PacketType) /\ DeviceTaken \in Nat
  BY Bounds, Types DEF BridgeInv, PacketInv, DeviceTaken, Taken
<1>2. n \in 1 .. Len(sent["device"])
  BY <1>1
<1>3. sent["device"][n].src = "device" /\ sent["device"][n].seq = n
  BY <1>2, Types DEF BridgeInv, PacketInv, Numbered
<1>4. ASSUME n <= DeviceTaken PROVE In(sent["device"][n], linuxOut)
  <2>1. n \in 1 .. DeviceTaken
    BY <1>1, <1>2, <1>4
  <2> QED  BY <2>1 DEF BridgeInv, PacketInv, AllArrived
<1>5. ASSUME In(sent["device"][n], linuxOut) PROVE n <= DeviceTaken
  <2>1. PICK i \in DOMAIN linuxOut : linuxOut[i] = sent["device"][n]
    BY <1>5 DEF In
  <2>2. i \in 1 .. Len(linuxOut)
    BY Types DEF BridgeInv
  <2> QED  BY <1>3, <2>1, <2>2 DEF BridgeInv, PacketInv, LinuxOutIsPast
<1> QED  BY <1>1, <1>4, <1>5

(***************************************************************************)
(* Unicast packets between kernel and device are not lost in the bridge,   *)
(* whatever clients do: run() forwards every packet it takes, and nothing  *)
(* it has not taken.                                                       *)
(***************************************************************************)
THEOREM BridgeIsLossless == Spec => []UnicastIsLossless
<1>1. BridgeInv => UnicastIsLossless
  BY KernelLossless, DeviceLossless DEF UnicastIsLossless
<1> QED  BY <1>1, BridgeInvariant, PTL

(***************************************************************************)
(* run() gives every packet of the device to the kernel, to one client or  *)
(* to nobody, never to two of them, and nobody else's to any of them.      *)
(***************************************************************************)
THEOREM BridgeSeparates == Spec => []Separation
<1>1. ASSUME BridgeInv PROVE Separation
  <2>1. /\ DOMAIN linuxOut = 1 .. Len(linuxOut)
        /\ \A c \in Client : DOMAIN clientGot[c] = 1 .. Len(clientGot[c])
    BY <1>1, Types DEF BridgeInv
  <2>2. \A i \in DOMAIN linuxOut : linuxOut[i].src = "device" /\ linuxOut[i].dst = "eid"
    BY <1>1, <2>1 DEF BridgeInv, PacketInv, LinuxOutIsPast
  <2>3. \A c \in Client : \A i \in DOMAIN clientGot[c] :
           /\ clientGot[c][i].src = "device" /\ clientGot[c][i].dst = "bcast"
           /\ \A d \in Client \ {c} : \A j \in DOMAIN clientGot[d] :
                 clientGot[c][i].seq # clientGot[d][j].seq
    BY <1>1, <2>1 DEF BridgeInv, PacketInv, GotIsPast
  <2> QED  BY <2>2, <2>3 DEF Separation, In
<1> QED  BY <1>1, BridgeInvariant, PTL

(***************************************************************************)
(* No call of the dispatch thread waits for input or finds nothing: what   *)
(* select() reported is still there, for any number of clients that send,  *)
(* close and reset in between, and send() has a connected client.          *)
(***************************************************************************)
THEOREM ReadsFindSomething == Spec => []ReadyIsThere
<1>1. BridgeInv => ReadyIsThere
  BY DEF BridgeInv
<1> QED  BY <1>1, BridgeInvariant, PTL

-----------------------------------------------------------------------------
(***************************************************************************)
(* The thread uses its links as ports.                                     *)
(***************************************************************************)

\* Only an iteration that serves has something left to serve.
NothingLeft == pc # "serve" => ready = {}

PortInv == BridgeInv /\ NothingLeft

\* The iteration ends when all that select() reported has been served.
LEMMA NothingLeftStep ==
  ASSUME TypeOK, NothingLeft, [Next]_vars
  PROVE  NothingLeft'
<1> USE DEF NothingLeft
<1>1. CASE Outside
  BY <1>1
  DEF Outside, LinuxSends, DeviceSends, ClientConnects, ClientSends, ClientReads,
      ClientCloses, threadVars
<1>2. CASE LoopTop \/ SelectFails \/ SendFails \/ SendMessage \/ AcceptThrows
  BY <1>2 DEF LoopTop, SelectFails, SendFails, SendMessage, AcceptThrows
<1>3. CASE Select
  BY <1>3 DEF Select
<1>4. ASSUME NEW fd \in {"bcast", "linux", "tty"}, Serving(fd), Served(fd)
      PROVE  NothingLeft'
  BY <1>4 DEF Serving, Served
<1>5. CASE DropClient \/ (\E d \in Dst : FromBcast(d)) \/ FromLinux \/ TtyToLinux
  BY <1>4, <1>5 DEF DropClient, FromBcast, FromLinux, TtyToLinux
<1>6. CASE TtyToBcast
  <2>1. CASE Connected
    <3>1. ready' = ready \ {"tty"} /\ Serving("tty")
      BY <1>6, <2>1 DEF TtyToBcast
    <3>2. ready' = {}
      BY <3>1 DEF Serving, Before, TypeOK
    <3> QED  BY <3>2
  <2>2. CASE ~Connected
    BY <1>4, <1>6, <2>2 DEF TtyToBcast
  <2> QED  BY <2>1, <2>2
<1>7. CASE Close \/ Join \/ UNCHANGED vars
  BY <1>7 DEF Close, Join, vars, threadVars
<1> QED
  BY <1>1, <1>2, <1>3, <1>5, <1>6, <1>7 DEF Next, Dispatch

\* A packet that arrives is none of those taken.
LEMMA TakenStays ==
  ASSUME NEW h \in Seq(PacketType), NEW rx \in Seq(PacketType), NEW m \in PacketType,
         Waiting(h, rx)
  PROVE  SubSeq(Append(h, m), 1, Len(Append(h, m)) - Len(Append(rx, m)))
            = SubSeq(h, 1, Len(h) - Len(rx))
<1> DEFINE g == Append(h, m)
           n == Len(h) - Len(rx)
<1>1. /\ g \in Seq(PacketType) /\ Len(h) \in Nat /\ Len(g) = Len(h) + 1
      /\ \A i \in 1 .. Len(h) : g[i] = h[i]
  BY PutLast
<1>2. Len(rx) \in Nat /\ Len(Append(rx, m)) = Len(rx) + 1
  BY PutLast
<1>3. n \in Nat /\ n <= Len(h) /\ Len(g) - Len(Append(rx, m)) = n
  BY <1>1, <1>2 DEF Waiting
<1> HIDE DEF g, n
<1>4. /\ SubSeq(g, 1, n) \in Seq(PacketType) /\ Len(SubSeq(g, 1, n)) = n
      /\ SubSeq(h, 1, n) \in Seq(PacketType) /\ Len(SubSeq(h, 1, n)) = n
      /\ \A i \in 1 .. n : SubSeq(g, 1, n)[i] = g[i] /\ SubSeq(h, 1, n)[i] = h[i]
  BY <1>1, <1>3
<1>5. \A i \in 1 .. n : SubSeq(g, 1, n)[i] = SubSeq(h, 1, n)[i]
  BY <1>1, <1>3, <1>4
<1>6. SubSeq(g, 1, n) = SubSeq(h, 1, n)
  BY <1>4, <1>5, SeqEqual
<1> QED  BY <1>3, <1>6 DEF g, n

\* The packet the thread takes is the next of those taken.
LEMMA TakenGrows ==
  ASSUME NEW h \in Seq(PacketType), NEW rx \in Seq(PacketType), rx # <<>>,
         Waiting(h, rx)
  PROVE  SubSeq(h, 1, Len(h) - Len(Tail(rx)))
            = Append(SubSeq(h, 1, Len(h) - Len(rx)), Head(rx))
<1> DEFINE n == Len(h) - Len(rx)
           a == SubSeq(h, 1, n + 1)
           b == Append(SubSeq(h, 1, n), Head(rx))
<1>1. /\ Head(rx) \in PacketType /\ Head(rx) = rx[1]
      /\ Len(rx) \in Nat \ {0} /\ Len(Tail(rx)) = Len(rx) - 1
  BY TakeHead
<1>2. /\ Len(h) \in Nat /\ n \in Nat /\ n + 1 \in 1 .. Len(h)
      /\ Len(h) - Len(Tail(rx)) = n + 1
  BY <1>1 DEF Waiting
<1>3. Head(rx) = h[n + 1]
  BY <1>1, <1>2 DEF Waiting, Taken
<1> HIDE DEF n
<1>4. /\ a \in Seq(PacketType) /\ Len(a) = n + 1
      /\ \A i \in 1 .. n + 1 : a[i] = h[i]
  BY <1>2
<1>5. /\ SubSeq(h, 1, n) \in Seq(PacketType) /\ Len(SubSeq(h, 1, n)) = n
      /\ \A i \in 1 .. n : SubSeq(h, 1, n)[i] = h[i]
  BY <1>2
<1>6. /\ b \in Seq(PacketType) /\ Len(b) = n + 1 /\ b[n + 1] = Head(rx)
      /\ \A i \in 1 .. n : b[i] = SubSeq(h, 1, n)[i]
  BY <1>1, <1>5, PutLast
<1>7. \A i \in 1 .. n + 1 : a[i] = b[i]
  <2> HIDE DEF a, b
  <2> TAKE i \in 1 .. n + 1
  <2>1. i \in 1 .. n \/ i = n + 1
    BY <1>2
  <2> QED  BY <1>3, <1>4, <1>5, <1>6, <2>1
<1>8. a = b
  BY <1>4, <1>6, <1>7, SeqEqual
<1> QED  BY <1>2, <1>8 DEF n

\* A port of which nothing changes.
LEMMA PortsRest ==
  /\ UNCHANGED <<sent["linux"], linuxRx>> /\ ("linux" \in ready' <=> "linux" \in ready)
        => UNCHANGED KernelPort!vars
  /\ UNCHANGED <<sent["device"], ttyRx>> /\ ("tty" \in ready' <=> "tty" \in ready)
        => UNCHANGED DevicePort!vars
BY DEF KernelPort!vars, DevicePort!vars, TakenFrom

\* What arrives at a port.
LEMMA LinuxArrives ==
  ASSUME BridgeInv, NEW d \in Dst, LinuxSends(d)
  PROVE  KernelPort!Next /\ UNCHANGED DevicePort!vars
<1> DEFINE m == NextPacket("linux", d, "whole")
<1>1. /\ m \in PacketType /\ m.seq = Len(sent["linux"]) + 1
      /\ sent["linux"] \in Seq(PacketType) /\ linuxRx \in Seq(PacketType)
  BY Types, NewPacket DEF BridgeInv, Size
<1>2. m \in PacketsOf("linux", MaxLinux)
  <2>1. Len(sent["linux"]) < MaxLinux /\ Len(sent["linux"]) \in Nat /\ MaxLinux \in Nat
    BY <1>1, BridgeAssumption DEF LinuxSends
  <2>2. Len(sent["linux"]) + 1 \in 1 .. MaxLinux
    BY <2>1
  <2> QED  BY <2>2 DEF PacketsOf, NextPacket, Packet
<1>3. /\ sent' = [sent EXCEPT !["linux"] = Append(@, m)]
      /\ linuxRx' = Append(linuxRx, m)
      /\ ready' = ready /\ ttyRx' = ttyRx
  BY DEF LinuxSends, Record, threadVars
<1> HIDE DEF m
<1>4. /\ sent'["linux"] = Append(sent["linux"], m)
      /\ sent'["device"] = sent["device"]
  BY <1>3, Types DEF BridgeInv
<1>5. UNCHANGED TakenFrom("linux", linuxRx)
  <2>1. Waiting(sent["linux"], linuxRx)
    BY DEF BridgeInv, PacketInv, RxHoldTheLast
  <2> QED  BY <1>1, <1>3, <1>4, <2>1, TakenStays DEF TakenFrom
<1>6. KernelPort!Arrive(m)
  BY <1>3, <1>5 DEF KernelPort!Arrive
<1> QED  BY <1>2, <1>3, <1>4, <1>6, PortsRest DEF KernelPort!Next

LEMMA DeviceArrives ==
  ASSUME BridgeInv, NEW d \in Dst, DeviceSends(d)
  PROVE  DevicePort!Next /\ UNCHANGED KernelPort!vars
<1> DEFINE m == NextPacket("device", d, "whole")
<1>1. /\ m \in PacketType /\ m.seq = Len(sent["device"]) + 1
      /\ sent["device"] \in Seq(PacketType) /\ ttyRx \in Seq(PacketType)
  BY Types, NewPacket DEF BridgeInv, Size
<1>2. m \in PacketsOf("device", MaxDevice)
  <2>1. /\ Len(sent["device"]) < MaxDevice /\ Len(sent["device"]) \in Nat
        /\ MaxDevice \in Nat
    BY <1>1, BridgeAssumption DEF DeviceSends
  <2>2. Len(sent["device"]) + 1 \in 1 .. MaxDevice
    BY <2>1
  <2> QED  BY <2>2 DEF PacketsOf, NextPacket, Packet
<1>3. /\ sent' = [sent EXCEPT !["device"] = Append(@, m)]
      /\ ttyRx' = Append(ttyRx, m)
      /\ ready' = ready /\ linuxRx' = linuxRx
  BY DEF DeviceSends, Record, threadVars
<1> HIDE DEF m
<1>4. /\ sent'["device"] = Append(sent["device"], m)
      /\ sent'["linux"] = sent["linux"]
  BY <1>3, Types DEF BridgeInv
<1>5. UNCHANGED TakenFrom("device", ttyRx)
  <2>1. Waiting(sent["device"], ttyRx)
    BY DEF BridgeInv, PacketInv, RxHoldTheLast
  <2> QED  BY <1>1, <1>3, <1>4, <2>1, TakenStays DEF TakenFrom
<1>6. DevicePort!Arrive(m)
  BY <1>3, <1>5 DEF DevicePort!Arrive
<1> QED  BY <1>2, <1>3, <1>4, <1>6, PortsRest DEF DevicePort!Next

\* select() tells the thread of each port that has a packet, and of no other.
LEMMA PortsSelected ==
  ASSUME PortInv, Select
  PROVE  [KernelPort!Next]_KernelPort!vars /\ [DevicePort!Next]_DevicePort!vars
<1>1. /\ ready = {} /\ ready' = ReadyFds
      /\ UNCHANGED <<linuxRx, ttyRx, sent>>
  BY DEF PortInv, NothingLeft, Select, linkVars
<1>2. /\ "linux" \in ready' <=> linuxRx # <<>>
      /\ "tty" \in ready' <=> ttyRx # <<>>
  BY <1>1 DEF ReadyFds
<1>3. UNCHANGED <<TakenFrom("linux", linuxRx), TakenFrom("device", ttyRx)>>
  BY <1>1 DEF TakenFrom
<1>4. [KernelPort!Next]_KernelPort!vars
  BY <1>1, <1>2, <1>3, PortsRest DEF KernelPort!Next, KernelPort!Select
<1>5. [DevicePort!Next]_DevicePort!vars
  BY <1>1, <1>2, <1>3, PortsRest DEF DevicePort!Next, DevicePort!Select
<1> QED  BY <1>4, <1>5

\* The thread takes a packet of the kernel.
LEMMA KernelPortTaken ==
  ASSUME BridgeInv, FromLinux
  PROVE  KernelPort!Next /\ UNCHANGED DevicePort!vars
<1>1. /\ sent["linux"] \in Seq(PacketType) /\ linuxRx \in Seq(PacketType)
      /\ linuxRx # <<>> /\ Waiting(sent["linux"], linuxRx)
  BY Types, Serves DEF FromLinux, BridgeInv, PacketInv, RxHoldTheLast
<1>2. /\ "linux" \in ready /\ ready' = ready \ {"linux"}
      /\ linuxRx' = Tail(linuxRx) /\ UNCHANGED <<sent, ttyRx>>
  BY DEF FromLinux, Serving, Served
<1>3. TakenFrom("linux", linuxRx)' = Append(TakenFrom("linux", linuxRx), Head(linuxRx))
  BY <1>1, <1>2, TakenGrows DEF TakenFrom
<1> QED
  BY <1>1, <1>2, <1>3, PortsRest DEF KernelPort!Next, KernelPort!Take

\* The thread takes a packet of the device, wherever it goes.
LEMMA DevicePortTaken ==
  ASSUME BridgeInv, TtyToLinux \/ TtyToBcast
  PROVE  DevicePort!Next /\ UNCHANGED KernelPort!vars
<1>1. /\ sent["device"] \in Seq(PacketType) /\ ttyRx \in Seq(PacketType)
      /\ ttyRx # <<>> /\ Waiting(sent["device"], ttyRx)
  BY Types, Serves DEF TtyToLinux, TtyToBcast, BridgeInv, PacketInv, RxHoldTheLast
<1>2. /\ "tty" \in ready /\ ready' = ready \ {"tty"}
      /\ ttyRx' = Tail(ttyRx) /\ UNCHANGED <<sent, linuxRx>>
  BY DEF TtyToLinux, TtyToBcast, Serving, Served
<1>3. TakenFrom("device", ttyRx)' = Append(TakenFrom("device", ttyRx), Head(ttyRx))
  BY <1>1, <1>2, TakenGrows DEF TakenFrom
<1> QED
  BY <1>1, <1>2, <1>3, PortsRest DEF DevicePort!Next, DevicePort!Take

LEMMA PortsStep ==
  ASSUME PortInv, [Next]_vars
  PROVE  [KernelPort!Next]_KernelPort!vars /\ [DevicePort!Next]_DevicePort!vars
<1>0. BridgeInv
  BY DEF PortInv
<1>1. CASE \E d \in Dst : LinuxSends(d) \/ DeviceSends(d)
  BY <1>0, <1>1, LinuxArrives, DeviceArrives
<1>2. CASE \E c \in Client : ClientConnects(c) \/ ClientReads(c) \/ ClientCloses(c)
  BY <1>2, PortsRest DEF ClientConnects, ClientReads, ClientCloses, linkVars, threadVars
<1>3. ASSUME NEW c \in Client, NEW d \in Dst, NEW size \in Size,
             ClientSends(c, d, size)
      PROVE  UNCHANGED <<KernelPort!vars, DevicePort!vars>>
  <2>1. c # "linux" /\ c # "device"
    BY <1>0, Types DEF BridgeInv
  <2>2. sent'["linux"] = sent["linux"] /\ sent'["device"] = sent["device"]
    BY <1>0, <1>3, <2>1, Types DEF BridgeInv, ClientSends, Record
  <2> QED  BY <1>3, <2>2, PortsRest DEF ClientSends, linkVars, threadVars
<1>4. CASE LoopTop \/ SelectFails \/ SendFails \/ SendMessage \/ AcceptThrows
             \/ Close \/ Join \/ UNCHANGED vars
  BY <1>4, PortsRest
  DEF LoopTop, SelectFails, SendFails, SendMessage, AcceptThrows, Close, Join, vars,
      linkVars, threadVars
<1>5. CASE Select
  BY <1>5, PortsSelected
<1>6. CASE DropClient \/ \E d \in Dst : FromBcast(d)
  <2>1. ready' = ready \ {"bcast"} /\ UNCHANGED <<sent, linuxRx, ttyRx>>
    BY <1>6 DEF DropClient, FromBcast, Served, linkVars
  <2> QED  BY <2>1, PortsRest
<1>7. CASE FromLinux
  BY <1>0, <1>7, KernelPortTaken
<1>8. CASE TtyToLinux \/ TtyToBcast
  BY <1>0, <1>8, DevicePortTaken
<1> QED
  BY <1>1, <1>2, <1>3, <1>4, <1>5, <1>6, <1>7, <1>8 DEF Next, Outside, Dispatch

(***************************************************************************)
(* For any traffic on all three ports, the thread uses each serial link as *)
(* the port MctpSerial implements: one packet, the oldest, for each time   *)
(* select() reported the link, and no packet taken otherwise.              *)
(***************************************************************************)
THEOREM BridgeUsesPorts == Spec => UsesPorts
<1>1. Init => KernelPort!Init /\ DevicePort!Init /\ NothingLeft
  <2> SUFFICES ASSUME Init PROVE KernelPort!Init /\ DevicePort!Init /\ NothingLeft
    OBVIOUS
  <2>1. /\ linuxRx = <<>> /\ ttyRx = <<>> /\ ready = {}
        /\ sent["linux"] = <<>> /\ sent["device"] = <<>>
    BY DEF Init, Source
  <2>2. TakenFrom("linux", linuxRx) = <<>> /\ TakenFrom("device", ttyRx) = <<>>
    BY <2>1 DEF TakenFrom
  <2> QED  BY <2>1, <2>2 DEF KernelPort!Init, DevicePort!Init, NothingLeft
<1>2. BridgeInv /\ NothingLeft /\ [Next]_vars => NothingLeft'
  BY NothingLeftStep DEF BridgeInv
<1>3. BridgeInv /\ NothingLeft /\ [Next]_vars
         => [KernelPort!Next]_KernelPort!vars /\ [DevicePort!Next]_DevicePort!vars
  BY PortsStep DEF PortInv
<1> QED
  BY <1>1, <1>2, <1>3, BridgeInvariant, PTL
  DEF Spec, UsesPorts, KernelPort!Spec, DevicePort!Spec

=============================================================================
