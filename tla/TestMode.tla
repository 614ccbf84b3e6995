------------------------------ MODULE TestMode ------------------------------
(***************************************************************************)
(* Test mode (testBridge in mctp-bridge.cpp): main opens a bridge, sends   *)
(* through the kernel and through the broadcast socket of its own process, *)
(* and reads both.  The thread that serves this socket is one that main    *)
(* has started itself and joins in the end, and both use blocking send()   *)
(* on the two ends of one connection.                                      *)
(*                                                                         *)
(* Of MctpBridge only what this connection sees is left: datagrams are     *)
(* counted, and the kernel and the device may have something to say at any *)
(* time.  Nothing is bounded but the socket's queues.                      *)
(***************************************************************************)
EXTENDS Naturals

CONSTANT SockCap        \* datagrams a socket's receive queue holds

ASSUME TestAssumption == SockCap \in Nat \ {0}

VARIABLES
    at,                 \* where main is in testBridge
    readfds,            \* what main's select() reported
    interrupted,        \* SIGINT or SIGTERM has come
    peer,               \* main's socket: "new", "connected", "gone", "reset"
    other,              \* another client is there before main
    accepted,           \* main is behind connFd
    toBridge, toClient, \* datagrams in the receive queues of the two ends
    pc, ready,          \* the dispatch thread in run(), and its readfds
    running, owner

mainVars == <<at, readfds, interrupted>>
sockVars == <<peer, other, accepted, toBridge, toClient>>
runVars  == <<pc, ready>>
vars == <<mainVars, sockVars, runVars, running, owner>>

Init ==
    /\ at = "connect" /\ readfds = {} /\ interrupted = FALSE
    /\ peer = "new" /\ other = FALSE /\ accepted = FALSE
    /\ toBridge = 0 /\ toClient = 0
    /\ pc = "top" /\ ready = {}
    /\ running = TRUE /\ owner = "open"

-----------------------------------------------------------------------------
(***************************************************************************)
(* main: testBridge once the bridge is open.                               *)
(***************************************************************************)

\* configure_mctp or one of the sockets fails: main returns with what it has
\* opened so far.
SetupFails ==
    /\ at = "connect"
    /\ at' = "return"
    /\ UNCHANGED <<readfds, interrupted, sockVars, runVars, running, owner>>

Connect ==
    /\ at = "connect"
    /\ at' = "loop" /\ peer' = "connected"
    /\ UNCHANGED <<readfds, interrupted, other, accepted, toBridge, toClient,
                   runVars, running, owner>>

\* The head of the loop, and sendto() on the kernel's socket, which may fail.
Loop ==
    /\ at = "loop"
    /\ at' \in IF interrupted THEN {"close"} ELSE {"send", "close"}
    /\ UNCHANGED <<readfds, interrupted, sockVars, runVars, running, owner>>

\* Mutant of Send: main sends twice before it reads.
SendTwice ==
    /\ at = "send"
    /\ toBridge < SockCap
    /\ toBridge' = toBridge + 1
    /\ at' \in {"send", "select"}
    /\ UNCHANGED <<readfds, interrupted, peer, other, accepted, toClient,
                   runVars, running, owner>>

\* send() on the broadcast socket waits while the bridge's end is full; a
\* signal does not end the wait, as signal() makes calls restart.
Send ==
    /\ at = "send"
    /\ toBridge < SockCap
    /\ toBridge' = toBridge + 1
    /\ at' = "select"
    /\ UNCHANGED <<readfds, interrupted, peer, other, accepted, toClient,
                   runVars, running, owner>>

\* select() reports what is readable, or nothing after two seconds or a signal.
\* The kernel's socket may have a packet at any time.
SelectMain ==
    /\ at = "select"
    /\ \E rx \in {{}, {"rx"}} :
          readfds' = rx \cup (IF toClient > 0 THEN {"bcast"} ELSE {})
    /\ at' = IF readfds' = {} THEN "loop" ELSE "recv"
    /\ UNCHANGED <<interrupted, sockVars, runVars, running, owner>>

\* Mutant of Recv: the broadcast socket is looked at if the other has nothing.
RecvElse ==
    /\ at = "recv"
    /\ \/ at' = IF "rx" \in readfds THEN "loop" ELSE "recvBcast"
       \/ "rx" \in readfds /\ at' = "close"
    /\ UNCHANGED <<readfds, interrupted, sockVars, runVars, running, owner>>

\* recvfrom() on the kernel's socket if it was reported, and then the other.
Recv ==
    /\ at = "recv"
    /\ \/ at' = IF "bcast" \in readfds THEN "recvBcast" ELSE "loop"
       \/ "rx" \in readfds /\ at' = "close"
    /\ UNCHANGED <<readfds, interrupted, sockVars, runVars, running, owner>>

\* recv() of one datagram, however many there are.
RecvBcast ==
    /\ at = "recvBcast"
    /\ toClient > 0
    /\ toClient' = toClient - 1
    /\ at' = "loop"
    /\ UNCHANGED <<readfds, interrupted, peer, other, accepted, toBridge,
                   runVars, running, owner>>

\* Closing a socket with unread datagrams resets the connection.
CloseSockets ==
    /\ at = "close"
    /\ at' = "return"
    /\ peer' = IF toClient = 0 THEN "gone" ELSE "reset"
    /\ toClient' = 0
    /\ UNCHANGED <<readfds, interrupted, other, accepted, toBridge, runVars,
                   running, owner>>

\* main returns, and ~MctpBridge stops the dispatch thread and joins it.
Return ==
    /\ at = "return" /\ owner = "open"
    /\ owner' = "joining" /\ running' = FALSE
    /\ UNCHANGED <<mainVars, sockVars, runVars>>

Join ==
    /\ owner = "joining" /\ pc = "done"
    /\ owner' = "closed"
    /\ UNCHANGED <<mainVars, sockVars, runVars, running>>

Main ==
    \/ SetupFails \/ Connect \/ Loop \/ Send \/ SelectMain
    \/ Recv \/ RecvBcast \/ CloseSockets \/ Return \/ Join

-----------------------------------------------------------------------------
(***************************************************************************)
(* The dispatch thread: MctpBridge::run, as in module MctpBridge.          *)
(***************************************************************************)

\* accept() takes main when it has connected and nobody is before it.
LoopTop ==
    /\ pc = "top"
    /\ pc' = IF running THEN "select" ELSE "done"
    /\ accepted' = (accepted \/ (running /\ ~other /\ peer # "new"))
    /\ UNCHANGED <<mainVars, peer, other, toBridge, toClient, ready, running,
                   owner>>

Select ==
    /\ pc = "select"
    /\ \E rest \in SUBSET {"linux", "tty"} :
          ready' = rest \cup
              IF accepted /\ (toBridge > 0 \/ peer # "connected")
                THEN {"bcast"} ELSE {}
    /\ pc' = IF ready' = {} THEN "top" ELSE "serve"
    /\ UNCHANGED <<mainVars, sockVars, running, owner>>

\* recvMessage() first: a datagram of main's, or the end of the connection.
ServeBcast ==
    /\ pc = "serve" /\ "bcast" \in ready
    /\ IF peer = "reset" \/ toBridge = 0
         THEN accepted' = FALSE /\ toBridge' = 0 /\ peer' = "new"
         ELSE toBridge' = toBridge - 1 /\ UNCHANGED <<accepted, peer>>
    /\ ready' = ready \ {"bcast"}
    /\ pc' = IF ready' = {} THEN "top" ELSE "serve"
    /\ UNCHANGED <<mainVars, other, toClient, running, owner>>

\* Then the packet of the kernel, then that of the device, which goes to the
\* kernel or, as a broadcast, to the connected client.
ServeRest ==
    /\ pc = "serve" /\ "bcast" \notin ready
    /\ ready' = {}
    /\ \/ pc' = "top"
       \/ "tty" \in ready /\ (accepted \/ other) /\ pc' = "send"
    /\ UNCHANGED <<mainVars, sockVars, running, owner>>

\* sendMessage() waits for room, or fails when the client has closed.  Whether
\* another client has room is not known.
SendMessage ==
    /\ pc = "send"
    /\ IF accepted /\ peer = "connected"
         THEN toClient < SockCap /\ toClient' = toClient + 1
         ELSE UNCHANGED toClient
    /\ pc' = "top"
    /\ UNCHANGED <<mainVars, peer, other, accepted, toBridge, ready, running,
                   owner>>

Dispatch == LoopTop \/ Select \/ ServeBcast \/ ServeRest \/ SendMessage

-----------------------------------------------------------------------------
Interrupt ==
    /\ ~interrupted
    /\ interrupted' = TRUE
    /\ UNCHANGED <<at, readfds, sockVars, runVars, running, owner>>

OtherComes ==
    /\ at = "connect" /\ ~other
    /\ other' = TRUE
    /\ UNCHANGED <<mainVars, peer, accepted, toBridge, toClient, runVars,
                   running, owner>>

OtherLeaves ==
    /\ other
    /\ other' = FALSE
    /\ UNCHANGED <<mainVars, peer, accepted, toBridge, toClient, runVars,
                   running, owner>>

Next == Main \/ Dispatch \/ Interrupt \/ OtherComes \/ OtherLeaves

Spec == Init /\ [][Next]_vars

\* Both threads are scheduled.  Nothing is asked of the device or of others.
FairSpec == Spec /\ WF_vars(Main) /\ WF_vars(Dispatch)

-----------------------------------------------------------------------------
(***************************************************************************)
(* Properties.                                                             *)
(***************************************************************************)

\* Every variable holds a value of its type.
TypeOK ==
    /\ at \in {"connect", "loop", "send", "select", "recv", "recvBcast",
               "close", "return"}
    /\ readfds \subseteq {"rx", "bcast"} /\ interrupted \in BOOLEAN
    /\ peer \in {"new", "connected", "gone", "reset"}
    /\ other \in BOOLEAN /\ accepted \in BOOLEAN
    /\ toBridge \in 0 .. SockCap /\ toClient \in 0 .. SockCap
    /\ pc \in {"top", "select", "serve", "send", "done"}
    /\ ready \subseteq {"bcast", "linux", "tty"}
    /\ running \in BOOLEAN /\ owner \in {"open", "joining", "closed"}

\* main and the dispatch thread of its own process never wait for each other
\* in send(), however fast the device broadcasts: for every datagram that main
\* takes from its socket the dispatch thread takes one from the other end.
NoMutualWait ==
    ~ (/\ at = "send" /\ toBridge = SockCap
       /\ pc = "send" /\ accepted /\ toClient = SockCap)

\* An interrupted test ends, with the bridge closed, unless another client
\* keeps the connection: main may then be waiting in send() for a bridge that
\* does not read, and a signal does not wake it.
InterruptedReturns ==
    interrupted /\ ~other ~> owner = "closed" \/ other
=============================================================================
