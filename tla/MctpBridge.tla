----------------------------- MODULE MctpBridge -----------------------------
(***************************************************************************)
(* The bridge while it is open (MctpBridge::run, BcastMessenger): one      *)
(* dispatch thread moves packets between three ports,                      *)
(*                                                                         *)
(*   linux   linuxSerial, the serial link to the kernel's MCTP stack       *)
(*   tty     mctpSerial, the serial link to the device                     *)
(*   bcast   a listening SEQPACKET socket of which one client at a time is *)
(*           connected                                                     *)
(*                                                                         *)
(* and the owner (main) stops it.  The two serial links are taken at the   *)
(* level FrameChannel gives them: a packet that has arrived is in the      *)
(* link's rxBuffer with its notification in the pipe, what is sent goes    *)
(* out whole and in order.  Sockets are modelled from how the code uses    *)
(* them: a full receive queue makes send() wait, a peer that closed makes  *)
(* recv() report the end after the queued datagrams, or at once if the     *)
(* peer left datagrams unread (connection reset).                          *)
(***************************************************************************)
EXTENDS Naturals, Sequences

CONSTANTS
    Client,         \* processes that use the broadcast socket
    Backlog,        \* connections the listening socket queues, 5 in the code
    SockCap,        \* datagrams a socket's receive queue holds
    MaxLinux,       \* bound on packets the kernel sends
    MaxDevice,      \* bound on packets the device sends
    MaxClient,      \* bound on datagrams each client sends
    MaxWaiting,     \* bound on what waits of the traffic without end
    MaxFaults       \* bound on accept() and select() errors

ASSUME BridgeAssumption ==
    /\ {Backlog, SockCap} \subseteq Nat \ {0}
    /\ {MaxLinux, MaxDevice, MaxClient, MaxWaiting, MaxFaults} \subseteq Nat
    /\ Client \cap {"linux", "device", "none"} = {}

\* Destination EIDs as routing tells them apart: 0xff and 0x00, or any other.
Dst == {"bcast", "eid"}

\* Datagram sizes as recvMessage and run tell them apart: no byte, a single
\* byte (there is no msg[1]), or at least two.
Size == {"empty", "short", "whole"}

Source == Client \cup {"linux", "device"}

\* Packets: who sent it, its number at that sender, its destination, its size.
Packet(src, seq, dst, size) ==
    [src |-> src, seq |-> seq, dst |-> dst, size |-> size]

\* A history of packets with m: number 0 is traffic that no history records,
\* so that there can be any amount of it (WithoutEnd).
Noted(q, m) == IF m.seq = 0 THEN q ELSE Append(q, m)

VARIABLES
    linuxRx,        \* rxBuffer of linuxSerial
    ttyRx,          \* rxBuffer of mctpSerial
    linuxOut,       \* history: packets given to linuxSerial.send
    ttyOut,         \* history: packets given to mctpSerial.send
    sent,           \* history: packets each source has sent
    client,         \* state of each client's socket
    backlog,        \* clients waiting for accept()
    toBridge,       \* datagrams in the receive queue of the bridge's socket
    toClient,       \* datagrams in the receive queue of the client's socket
    clientGot,      \* history: datagrams put in that queue
    state,          \* BcastMessenger::state
    connFd,         \* the client behind connFd, "none" for -1
    pc,             \* where the dispatch thread is in run()
    ready,          \* readfds after select()
    msg,            \* packet in the dispatch thread's hands, <<>> if none
    running,        \* the flag run() polls
    owner,          \* what main is doing
    faults          \* accept() and select() errors so far

linkVars   == <<linuxRx, ttyRx>>
outVars    == <<linuxOut, ttyOut>>
sockVars   == <<client, backlog, toBridge, toClient, clientGot>>
bcastVars  == <<state, connFd>>
threadVars == <<pc, ready, msg>>
ownerVars  == <<running, owner>>

vars == <<linkVars, outVars, sent, sockVars, bcastVars, threadVars,
          ownerVars, faults>>

\* open() has set everything up and started the dispatch thread.
Init ==
    /\ linuxRx = <<>> /\ ttyRx = <<>>
    /\ linuxOut = <<>> /\ ttyOut = <<>>
    /\ sent = [s \in Source |-> <<>>]
    /\ client = [c \in Client |-> "new"]
    /\ backlog = <<>>
    /\ toBridge = [c \in Client |-> <<>>]
    /\ toClient = [c \in Client |-> <<>>]
    /\ clientGot = [c \in Client |-> <<>>]
    /\ state = "Listening" /\ connFd = "none"
    /\ pc = "top" /\ ready = {} /\ msg = <<>>
    /\ running = TRUE /\ owner = "open"
    /\ faults = 0

Connected == state = "Connected" /\ connFd # "none"

-----------------------------------------------------------------------------
(***************************************************************************)
(* The outside: kernel, device and clients.                                *)
(***************************************************************************)

\* The packet source s sends next, and the history with it.
NextPacket(s, d, size) == Packet(s, Len(sent[s]) + 1, d, size)
Record(s, m) == sent' = [sent EXCEPT ![s] = Append(@, m)]

LinuxSends(d) ==
    /\ owner = "open"
    /\ Len(sent["linux"]) < MaxLinux
    /\ LET m == NextPacket("linux", d, "whole")
       IN  Record("linux", m) /\ linuxRx' = Append(linuxRx, m)
    /\ UNCHANGED <<ttyRx, outVars, sockVars, bcastVars, threadVars, ownerVars,
                   faults>>

\* The device sends a packet, of its own accord or as an answer.
DeviceSends(d) ==
    /\ owner = "open"
    /\ Len(sent["device"]) < MaxDevice
    /\ LET m == NextPacket("device", d, "whole")
       IN  Record("device", m) /\ ttyRx' = Append(ttyRx, m)
    /\ UNCHANGED <<linuxRx, outVars, sockVars, bcastVars, threadVars,
                   ownerVars, faults>>

ClientConnects(c) ==
    /\ owner = "open"
    /\ client[c] = "new"
    /\ Len(backlog) < Backlog
    /\ client' = [client EXCEPT ![c] = "connected"]
    /\ backlog' = Append(backlog, c)
    /\ UNCHANGED <<linkVars, outVars, sent, toBridge, toClient, clientGot,
                   bcastVars, threadVars, ownerVars, faults>>

ClientSends(c, d, size) ==
    /\ client[c] = "connected"
    /\ size = "whole" \/ d = "eid"     \* a shorter one names no destination
    /\ Len(sent[c]) < MaxClient
    /\ Len(toBridge[c]) < SockCap
    /\ LET m == NextPacket(c, d, size)
       IN  Record(c, m) /\ toBridge' = [toBridge EXCEPT ![c] = Append(@, m)]
    /\ UNCHANGED <<linkVars, outVars, client, backlog, toClient, clientGot,
                   bcastVars, threadVars, ownerVars, faults>>

ClientReads(c) ==
    /\ client[c] \in {"connected", "cut"}
    /\ toClient[c] # <<>>
    /\ toClient' = [toClient EXCEPT ![c] = Tail(@)]
    /\ UNCHANGED <<linkVars, outVars, sent, client, backlog, toBridge,
                   clientGot, bcastVars, threadVars, ownerVars, faults>>

\* Closing a socket with unread datagrams resets the connection.
ClientCloses(c) ==
    /\ client[c] \in {"connected", "cut"}
    /\ client' = [client EXCEPT ![c] =
                     IF toClient[c] = <<>> THEN "gone" ELSE "reset"]
    /\ toClient' = [toClient EXCEPT ![c] = <<>>]
    /\ UNCHANGED <<linkVars, outVars, sent, backlog, toBridge, clientGot,
                   bcastVars, threadVars, ownerVars, faults>>

Outside ==
    \/ \E d \in Dst : LinuxSends(d) \/ DeviceSends(d)
    \/ \E c \in Client :
           \/ ClientConnects(c)
           \/ \E d \in Dst, size \in Size : ClientSends(c, d, size)
           \/ ClientReads(c)
           \/ ClientCloses(c)

-----------------------------------------------------------------------------
(***************************************************************************)
(* The dispatch thread: MctpBridge::run.                                   *)
(***************************************************************************)

\* Mutant of LoopTop: the loop does not look at running.
LoopTopForever ==
    /\ pc = "top"
    /\ pc' = "select"
    /\ IF Connected \/ backlog = <<>>
         THEN UNCHANGED <<bcastVars, backlog>>
         ELSE /\ connFd' = Head(backlog)
              /\ state' = "Connected"
              /\ backlog' = Tail(backlog)
    /\ UNCHANGED <<linkVars, outVars, sent, client, toBridge, toClient,
                   clientGot, ready, msg, ownerVars, faults>>

\* The top of the loop: stop, or go on with a connected client; without one
\* accept() takes the first that waits, or says EAGAIN and leaves connFd -1.
LoopTop ==
    /\ pc = "top"
    /\ pc' = IF running THEN "select" ELSE "done"
    /\ IF ~running \/ Connected \/ backlog = <<>>
         THEN UNCHANGED <<bcastVars, backlog>>
         ELSE /\ connFd' = Head(backlog)
              /\ state' = "Connected"
              /\ backlog' = Tail(backlog)
    /\ UNCHANGED <<linkVars, outVars, sent, client, toBridge, toClient,
                   clientGot, ready, msg, ownerVars, faults>>

\* Any other error of accept() throws; nothing catches it in this thread and
\* the process ends.
AcceptThrows ==
    /\ pc = "top"
    /\ running /\ ~Connected
    /\ faults < MaxFaults
    /\ faults' = faults + 1
    /\ pc' = "aborted"
    /\ UNCHANGED <<linkVars, outVars, sent, sockVars, bcastVars, ready, msg,
                   ownerVars>>

\* recv() has something to say: a datagram, the end of the connection or its
\* reset.
Readable(c) == toBridge[c] # <<>> \/ client[c] \in {"gone", "reset"}

\* Mutant of ReadyFds: the kernel is served when nobody else wants anything.
ReadyFdsKernelLast ==
    LET others == {fd \in {"bcast", "tty"} :
                     \/ fd = "bcast" /\ Connected /\ Readable(connFd)
                     \/ fd = "tty" /\ ttyRx # <<>>}
    IN  IF others = {} /\ linuxRx # <<>> THEN {"linux"} ELSE others

ReadyFds ==
    {fd \in {"bcast", "linux", "tty"} :
        \/ fd = "bcast" /\ Connected /\ Readable(connFd)
        \/ fd = "linux" /\ linuxRx # <<>>
        \/ fd = "tty" /\ ttyRx # <<>>}

\* select() returns what is readable now, or nothing after half a second.
Select ==
    /\ pc = "select"
    /\ ready' = ReadyFds
    /\ pc' = IF ReadyFds = {} THEN "top" ELSE "serve"
    /\ UNCHANGED <<linkVars, outVars, sent, sockVars, bcastVars, msg,
                   ownerVars, faults>>

\* Mutant of SelectFails: the descriptors that were asked for are served.
SelectFailsServes ==
    /\ pc = "select"
    /\ faults < MaxFaults
    /\ faults' = faults + 1
    /\ ready' = {"linux", "tty"} \cup (IF Connected THEN {"bcast"} ELSE {})
    /\ pc' = "serve"
    /\ UNCHANGED <<linkVars, outVars, sent, sockVars, bcastVars, msg,
                   ownerVars>>

\* select() fails (a signal handler ran in this thread): the loop goes on.
SelectFails ==
    /\ pc = "select"
    /\ faults < MaxFaults
    /\ faults' = faults + 1
    /\ pc' = "top"
    /\ UNCHANGED <<linkVars, outVars, sent, sockVars, bcastVars, ready, msg,
                   ownerVars>>

\* The iteration serves what select() reported, in the order bcast, linux,
\* tty, and then goes back to the top.
Before(fd) ==
    CASE fd = "bcast" -> {}
      [] fd = "linux" -> {"bcast"}
      [] fd = "tty"   -> {"bcast", "linux"}

Serving(fd) == pc = "serve" /\ fd \in ready /\ Before(fd) \cap ready = {}

Served(fd) ==
    /\ ready' = ready \ {fd}
    /\ pc' = IF ready = {fd} THEN "top" ELSE "serve"

\* recvMessage() finds the end of the connection, its reset, or a datagram
\* without bytes, which it takes for the end.
EndOfClient ==
    \/ client[connFd] = "reset"
    \/ IF toBridge[connFd] = <<>> THEN client[connFd] = "gone"
                                  ELSE Head(toBridge[connFd]).size = "empty"

\* Mutant of DropClient: the end of the connection does not clear it.
DropClientKeepsFd ==
    /\ Serving("bcast")
    /\ EndOfClient
    /\ client' = [client EXCEPT ![connFd] =
                      IF @ = "connected" THEN "cut" ELSE @]
    /\ toBridge' = [toBridge EXCEPT ![connFd] = <<>>]
    /\ Served("bcast")
    /\ UNCHANGED <<linkVars, outVars, sent, bcastVars, backlog, toClient,
                   clientGot, msg, ownerVars, faults>>

DropClient ==
    /\ Serving("bcast")
    /\ EndOfClient
    /\ client' = [client EXCEPT ![connFd] =
                      IF @ = "connected" THEN "cut" ELSE @]
    /\ toBridge' = [toBridge EXCEPT ![connFd] = <<>>]
    /\ connFd' = "none"
    /\ state' = "Listening"
    /\ Served("bcast")
    /\ UNCHANGED <<linkVars, outVars, sent, backlog, toClient, clientGot,
                   msg, ownerVars, faults>>

\* run() reads msg[1] without looking at the size, so that the destination of
\* a datagram of one byte is whatever follows it in memory.
DstRead(m, d) == m.size = "short" \/ d = m.dst

\* A datagram of the client: broadcasts go to the device, the rest is dropped.
FromBcast(d) ==
    /\ Serving("bcast")
    /\ ~EndOfClient
    /\ LET m == Head(toBridge[connFd])
       IN  /\ DstRead(m, d)
           /\ ttyOut' = IF d = "bcast" THEN Noted(ttyOut, m) ELSE ttyOut
    /\ toBridge' = [toBridge EXCEPT ![connFd] = Tail(@)]
    /\ Served("bcast")
    /\ UNCHANGED <<linkVars, linuxOut, sent, client, backlog, toClient,
                   clientGot, bcastVars, msg, ownerVars, faults>>

\* Mutant of FromLinux: a broadcast of the kernel is dropped like a client's
\* unicast.
FromLinuxUnicast ==
    /\ Serving("linux")
    /\ ttyOut' = IF Head(linuxRx).dst = "eid" THEN Append(ttyOut, Head(linuxRx))
                                              ELSE ttyOut
    /\ linuxRx' = Tail(linuxRx)
    /\ Served("linux")
    /\ UNCHANGED <<ttyRx, linuxOut, sent, sockVars, bcastVars, msg, ownerVars,
                   faults>>

\* Mutant of FromLinux: the packet is read and not taken.
FromLinuxPeeks ==
    /\ Serving("linux")
    /\ ttyOut' = Append(ttyOut, Head(linuxRx))
    /\ Served("linux")
    /\ UNCHANGED <<linkVars, linuxOut, sent, sockVars, bcastVars, msg,
                   ownerVars, faults>>

\* A packet of the kernel goes to the device whatever its destination.
FromLinux ==
    /\ Serving("linux")
    /\ ttyOut' = Append(ttyOut, Head(linuxRx))
    /\ linuxRx' = Tail(linuxRx)
    /\ Served("linux")
    /\ UNCHANGED <<ttyRx, linuxOut, sent, sockVars, bcastVars, msg, ownerVars,
                   faults>>

\* A packet of the device for an EID goes to the kernel.
TtyToLinux ==
    /\ Serving("tty")
    /\ Head(ttyRx).dst = "eid"
    /\ linuxOut' = Noted(linuxOut, Head(ttyRx))
    /\ ttyRx' = Tail(ttyRx)
    /\ Served("tty")
    /\ UNCHANGED <<linuxRx, ttyOut, sent, sockVars, bcastVars, msg, ownerVars,
                   faults>>

\* Mutant of TtyToBcast: a broadcast goes to the kernel as well.
TtyToBoth ==
    /\ Serving("tty")
    /\ Head(ttyRx).dst = "bcast"
    /\ ttyRx' = Tail(ttyRx)
    /\ linuxOut' = Append(linuxOut, Head(ttyRx))
    /\ IF Connected
         THEN msg' = Head(ttyRx) /\ pc' = "send" /\ ready' = ready \ {"tty"}
         ELSE Served("tty") /\ UNCHANGED msg
    /\ UNCHANGED <<linuxRx, ttyOut, sent, sockVars, bcastVars, ownerVars,
                   faults>>

\* Mutant of TtyToBcast: nobody looks whether there is a client.
TtyToBcastAlways ==
    /\ Serving("tty")
    /\ Head(ttyRx).dst = "bcast"
    /\ ttyRx' = Tail(ttyRx)
    /\ msg' = Head(ttyRx) /\ pc' = "send" /\ ready' = ready \ {"tty"}
    /\ UNCHANGED <<linuxRx, outVars, sent, sockVars, bcastVars, ownerVars,
                   faults>>

\* A broadcast of the device goes to the connected client, if there is one.
TtyToBcast ==
    /\ Serving("tty")
    /\ Head(ttyRx).dst = "bcast"
    /\ ttyRx' = Tail(ttyRx)
    /\ IF Connected
         THEN msg' = Head(ttyRx) /\ pc' = "send" /\ ready' = ready \ {"tty"}
         ELSE Served("tty") /\ UNCHANGED msg
    /\ UNCHANGED <<linuxRx, outVars, sent, sockVars, bcastVars, ownerVars,
                   faults>>

\* sendMessage(): connFd is a blocking socket, send() waits for room.
SendMessage ==
    /\ pc = "send"
    /\ client[connFd] \notin {"gone", "reset"}
    /\ Len(toClient[connFd]) < SockCap
    /\ toClient' = [toClient EXCEPT ![connFd] = Append(@, msg)]
    /\ clientGot' = [clientGot EXCEPT ![connFd] = Noted(@, msg)]
    /\ msg' = <<>>
    /\ pc' = "top"
    /\ UNCHANGED <<linkVars, outVars, sent, client, backlog, toBridge,
                   bcastVars, ready, ownerVars, faults>>

\* The client has closed: send() fails, which is logged and forgotten.
SendFails ==
    /\ pc = "send"
    /\ client[connFd] \in {"gone", "reset"}
    /\ msg' = <<>>
    /\ pc' = "top"
    /\ UNCHANGED <<linkVars, outVars, sent, sockVars, bcastVars, ready,
                   ownerVars, faults>>

Dispatch ==
    \/ LoopTop \/ Select \/ SelectFails
    \/ DropClient \/ (\E d \in Dst : FromBcast(d))
    \/ FromLinux
    \/ TtyToLinux \/ TtyToBcast
    \/ SendMessage \/ SendFails

-----------------------------------------------------------------------------
(***************************************************************************)
(* The owner: main is interrupted and close() joins the dispatch thread.   *)
(***************************************************************************)

Close ==
    /\ owner = "open" /\ pc # "aborted"
    /\ owner' = "joining"
    /\ running' = FALSE
    /\ UNCHANGED <<linkVars, outVars, sent, sockVars, bcastVars, threadVars,
                   faults>>

Join ==
    /\ owner = "joining"
    /\ pc = "done"
    /\ owner' = "closed"
    /\ UNCHANGED <<linkVars, outVars, sent, sockVars, bcastVars, threadVars,
                   running, faults>>

-----------------------------------------------------------------------------
Next == Outside \/ Dispatch \/ AcceptThrows \/ Close \/ Join

Spec == Init /\ [][Next]_vars

\* The bridge's own thread and main run; nothing is asked of anybody else.
BridgeSpec == Spec /\ WF_vars(Dispatch) /\ WF_vars(Join)

\* Traffic without end: clients and the device may send whenever there is
\* room.
Chatter(d, size) ==
    /\ \/ \E c \in Client :
             /\ client[c] = "connected" /\ Len(toBridge[c]) < SockCap
             /\ toBridge' = [toBridge EXCEPT ![c] =
                                Append(@, Packet(c, 0, d, size))]
             /\ UNCHANGED ttyRx
       \/ /\ owner = "open" /\ Len(ttyRx) < MaxWaiting
          /\ size = "whole"
          /\ ttyRx' = Append(ttyRx, Packet("device", 0, d, size))
          /\ UNCHANGED toBridge
    /\ UNCHANGED <<linuxRx, outVars, sent, client, backlog, toClient, clientGot,
                   bcastVars, threadVars, ownerVars, faults>>

WithoutEnd ==
    \/ \E d \in Dst : Chatter(d, "whole")
    \/ Chatter("eid", "empty")

\* In addition, clients read what they are sent.
FairSpec ==
    /\ Init /\ [][Next \/ WithoutEnd]_vars
    /\ WF_vars(Dispatch) /\ WF_vars(Join)
    /\ \A c \in Client : WF_vars(ClientReads(c))

-----------------------------------------------------------------------------
(***************************************************************************)
(* Properties.                                                             *)
(***************************************************************************)

PacketType == [src : Source, seq : Nat \ {0}, dst : Dst, size : Size]

\* Every variable holds a value of its type.
TypeOK ==
    /\ {linuxRx, ttyRx, linuxOut, ttyOut} \subseteq Seq(PacketType)
    /\ sent \in [Source -> Seq(PacketType)]
    /\ client \in [Client -> {"new", "connected", "cut", "gone", "reset"}]
    /\ backlog \in Seq(Client)
    /\ {toBridge, toClient, clientGot} \subseteq [Client -> Seq(PacketType)]
    /\ \A c \in Client : Len(toClient[c]) <= SockCap
    /\ state \in {"Listening", "Connected"}
    /\ connFd \in Client \cup {"none"}
    /\ pc \in {"top", "select", "serve", "send", "done", "aborted"}
    /\ ready \subseteq {"linux", "tty", "bcast"}
    /\ msg \in PacketType \cup {<<>>}
    /\ running \in BOOLEAN
    /\ owner \in {"open", "joining", "closed"}
    /\ faults \in Nat

\* What the thread is about to use is there: nobody else takes what select()
\* has reported, whatever the calls of others that fall in between.  So read()
\* on a notification pipe never waits, receive() finds a packet, recv() never
\* comes to its EAGAIN branch, and a broadcast is sent only while a client is
\* connected (MctpBridge.cpp:168-223, BcastMessenger.cpp:133-140).
ReadyIsThere ==
    /\ pc = "serve" =>
          /\ "linux" \in ready => linuxRx # <<>>
          /\ "tty" \in ready => ttyRx # <<>>
          /\ "bcast" \in ready => Connected /\ Readable(connFd)
    /\ pc = "send" => Connected /\ msg \in PacketType

\* Packet m is in q.
In(m, q) == \E i \in DOMAIN q : q[i] = m

\* The packets of any one source appear in q in the order they were sent, and
\* none twice.
InOrder(q) ==
    \A i, j \in DOMAIN q :
        i < j /\ q[i].src = q[j].src => q[i].seq < q[j].seq

\* No port reorders or repeats what comes from one source.
PortsKeepOrder ==
    /\ InOrder(ttyOut)
    /\ InOrder(linuxOut)
    /\ \A c \in Client : InOrder(clientGot[c])

\* Unicast traffic between kernel and device is lossless through the bridge,
\* whatever clients do: exactly the packets that have left a receive buffer
\* are on the other side.
UnicastIsLossless ==
    /\ \A n \in DOMAIN sent["linux"] :
           n <= Len(sent["linux"]) - Len(linuxRx)
               <=> In(sent["linux"][n], ttyOut)
    /\ \A n \in DOMAIN sent["device"] :
           sent["device"][n].dst = "eid" =>
               (n <= Len(sent["device"]) - Len(ttyRx)
                   <=> In(sent["device"][n], linuxOut))

\* Clients and kernel never see each other's packets, and one packet of the
\* device never reaches two of them.
Separation ==
    /\ \A i \in DOMAIN linuxOut : linuxOut[i].src = "device"
    /\ \A c \in Client : \A i \in DOMAIN clientGot[c] :
           /\ clientGot[c][i].src = "device"
           /\ ~In(clientGot[c][i], linuxOut)
           /\ \A d \in Client \ {c} : ~In(clientGot[c][i], clientGot[d])

\* The packets of source s that are no longer in its receive buffer rx.
TakenFrom(s, rx) == SubSeq(sent[s], 1, Len(sent[s]) - Len(rx))

\* The packets a link may bring.
PacketsOf(s, max) ==
    [src : {s}, seq : 1 .. max, dst : Dst, size : {"whole"}]

KernelPort == INSTANCE PacketPort WITH
    Message <- PacketsOf("linux", MaxLinux),
    rx      <- linuxRx,
    got     <- TakenFrom("linux", linuxRx),
    serving <- "linux" \in ready

DevicePort == INSTANCE PacketPort WITH
    Message <- PacketsOf("device", MaxDevice),
    rx      <- ttyRx,
    got     <- TakenFrom("device", ttyRx),
    serving <- "tty" \in ready

\* The thread uses its links as ports: it takes one packet, the oldest, for
\* each time select() reports the link, whatever else it serves in the same
\* iteration and whatever arrives meanwhile.  MctpSerial implements the same
\* ports.
UsesPorts == KernelPort!Spec /\ DevicePort!Spec

Stopped == ~running \/ pc = "aborted"

\* A packet of the kernel reaches the device even if the client and the device
\* send without end, unless the bridge is stopped first.
KernelPacketsFlow ==
    \A n \in 1 .. MaxLinux :
        Len(sent["linux"]) >= n
            ~> \/ Stopped
               \/ \E i \in DOMAIN ttyOut :
                      ttyOut[i].src = "linux" /\ ttyOut[i].seq = n

\* Once the connected client has gone, the first that waits is served.
NextClientIsServed ==
    \A c \in Client :
        (backlog # <<>> /\ Head(backlog) = c
            /\ (connFd = "none" \/ client[connFd] \in {"gone", "reset"}))
            ~> connFd = c \/ Stopped

\* close() returns: the dispatch thread leaves its loop.
CloseReturns == owner = "joining" ~> owner = "closed" \/ pc = "aborted"
=============================================================================
