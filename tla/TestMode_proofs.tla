-------------------------- MODULE TestMode_proofs --------------------------
(***************************************************************************)
(* That main and the dispatch thread of its own process never wait for     *)
(* each other in test mode, whatever the sockets hold and however many     *)
(* datagrams are sent.                                                     *)
(***************************************************************************)
EXTENDS TestMode, TLAPS

-----------------------------------------------------------------------------
(***************************************************************************)
(* The invariant.                                                          *)
(***************************************************************************)

\* main has a socket exactly while it is in its loop.
PeerMatchesMain ==
    /\ peer = "connected" <=> at \notin {"connect", "return"}
    /\ at = "connect" => peer = "new"

\* Only a connected client that has been accepted has datagrams to read.
OnlyTheAcceptedReads ==
    /\ accepted => peer # "new"
    /\ toClient > 0 => accepted /\ peer = "connected"

\* What select() has reported is still there when it is served.
ReadyIsReadable ==
    /\ pc = "serve" /\ "bcast" \in ready =>
          accepted /\ (toBridge > 0 \/ peer # "connected")
    /\ at = "recvBcast" => "bcast" \in readfds

\* The dispatch thread has taken a datagram, or found none, and may now send.
MaySend == pc = "send" \/ (pc = "serve" /\ "bcast" \notin ready)

\* main has sent a datagram and not taken one for it yet, but is about to, or
\* to look for one, or to stop.
Owes ==
    \/ at \in {"select", "close", "recvBcast"}
    \/ at = "recv" /\ "bcast" \in readfds

\* Each thread takes a datagram for every one it sends unless there is none.
Balance ==
    toBridge + toClient + (IF MaySend THEN 1 ELSE 0)
        <= SockCap + 1 + (IF Owes THEN 1 ELSE 0)

TestInv ==
    /\ TypeOK
    /\ PeerMatchesMain
    /\ OnlyTheAcceptedReads
    /\ ReadyIsReadable
    /\ Balance

-----------------------------------------------------------------------------
LEMMA InitialInv == Init => TestInv
<1> SUFFICES ASSUME Init PROVE TestInv
  OBVIOUS
<1> USE TestAssumption
<1>1. TypeOK
  <2>1. SockCap \in Nat /\ 0 \in 0 .. SockCap
    OBVIOUS
  <2> QED  BY <2>1, Zenon DEF Init, TypeOK
<1>2. PeerMatchesMain /\ OnlyTheAcceptedReads /\ ReadyIsReadable
  BY DEF Init, PeerMatchesMain, OnlyTheAcceptedReads, ReadyIsReadable
<1>3. Balance
  BY DEF Init, Balance, MaySend, Owes
<1> QED  BY <1>1, <1>2, <1>3 DEF TestInv

\* What main does in testBridge and when it returns.
LEMMA MainKeepsInv == TestInv /\ Main => TestInv'
<1> SUFFICES ASSUME TestInv, Main PROVE TestInv'
  OBVIOUS
<1> USE TestAssumption
<1>1. CASE SetupFails
  BY <1>1
  DEF SetupFails, TestInv, TypeOK, PeerMatchesMain, OnlyTheAcceptedReads, ReadyIsReadable,
          Balance, MaySend, Owes, mainVars, sockVars, runVars
<1>2. CASE Connect
  BY <1>2
  DEF Connect, TestInv, TypeOK, PeerMatchesMain, OnlyTheAcceptedReads, ReadyIsReadable,
          Balance, MaySend, Owes, mainVars, sockVars, runVars
<1>3. CASE Loop
  BY <1>3
  DEF Loop, TestInv, TypeOK, PeerMatchesMain, OnlyTheAcceptedReads, ReadyIsReadable,
          Balance, MaySend, Owes, mainVars, sockVars, runVars
<1>4. CASE Send
  BY <1>4
  DEF Send, TestInv, TypeOK, PeerMatchesMain, OnlyTheAcceptedReads, ReadyIsReadable,
          Balance, MaySend, Owes, mainVars, sockVars, runVars
<1>5. CASE SelectMain
  BY <1>5
  DEF SelectMain, TestInv, TypeOK, PeerMatchesMain, OnlyTheAcceptedReads, ReadyIsReadable,
          Balance, MaySend, Owes, mainVars, sockVars, runVars
<1>6. CASE Recv
  BY <1>6
  DEF Recv, TestInv, TypeOK, PeerMatchesMain, OnlyTheAcceptedReads, ReadyIsReadable,
          Balance, MaySend, Owes, mainVars, sockVars, runVars
<1>7. CASE RecvBcast
  BY <1>7
  DEF RecvBcast, TestInv, TypeOK, PeerMatchesMain, OnlyTheAcceptedReads, ReadyIsReadable,
          Balance, MaySend, Owes, mainVars, sockVars, runVars
<1>8. CASE CloseSockets
  BY <1>8
  DEF CloseSockets, TestInv, TypeOK, PeerMatchesMain, OnlyTheAcceptedReads, ReadyIsReadable,
          Balance, MaySend, Owes, mainVars, sockVars, runVars
<1>9. CASE Return
  BY <1>9
  DEF Return, TestInv, TypeOK, PeerMatchesMain, OnlyTheAcceptedReads, ReadyIsReadable,
          Balance, MaySend, Owes, mainVars, sockVars, runVars
<1>10. CASE Join
  BY <1>10
  DEF Join, TestInv, TypeOK, PeerMatchesMain, OnlyTheAcceptedReads, ReadyIsReadable,
          Balance, MaySend, Owes, mainVars, sockVars, runVars
<1> QED  BY <1>1, <1>2, <1>3, <1>4, <1>5, <1>6, <1>7, <1>8, <1>9, <1>10 DEF Main

\* What the dispatch thread does.
LEMMA DispatchKeepsInv == TestInv /\ Dispatch => TestInv'
<1> SUFFICES ASSUME TestInv, Dispatch PROVE TestInv'
  OBVIOUS
<1> USE TestAssumption
<1>1. CASE LoopTop
  BY <1>1
  DEF LoopTop, TestInv, TypeOK, PeerMatchesMain, OnlyTheAcceptedReads, ReadyIsReadable,
          Balance, MaySend, Owes, mainVars, sockVars, runVars
<1>2. CASE Select
  BY <1>2
  DEF Select, TestInv, TypeOK, PeerMatchesMain, OnlyTheAcceptedReads, ReadyIsReadable,
          Balance, MaySend, Owes, mainVars, sockVars, runVars
<1>3. CASE ServeBcast
  <2>1. CASE peer = "reset" \/ toBridge = 0
    <3>1. peer # "connected" /\ toClient = 0
      BY <1>3, <2>1
      DEF ServeBcast, TestInv, TypeOK, OnlyTheAcceptedReads, ReadyIsReadable
    <3>2. /\ ~accepted' /\ accepted' \in BOOLEAN
          /\ toBridge' = 0 /\ toClient' = 0 /\ peer' = "new"
          /\ at \in {"connect", "return"}
          /\ UNCHANGED <<mainVars, other, running, owner>>
      BY <1>3, <2>1, <3>1, Zenon DEF ServeBcast, TestInv, PeerMatchesMain
    <3>3. TypeOK'
      BY <1>3, <3>2 DEF ServeBcast, TestInv, TypeOK, mainVars
    <3>4. Balance'
      BY <3>2 DEF Balance, MaySend, Owes
    <3>5. PeerMatchesMain' /\ OnlyTheAcceptedReads' /\ ReadyIsReadable'
      BY <1>3, <3>2
      DEF ServeBcast, TestInv, TypeOK, PeerMatchesMain,
          OnlyTheAcceptedReads, ReadyIsReadable, mainVars
    <3> QED  BY <3>3, <3>4, <3>5 DEF TestInv
  <2>2. CASE ~(peer = "reset" \/ toBridge = 0)
    <3>1. TypeOK' /\ Balance'
      BY <1>3, <2>2
      DEF ServeBcast, TestInv, TypeOK, Balance, MaySend, Owes, mainVars
    <3>2. PeerMatchesMain' /\ OnlyTheAcceptedReads' /\ ReadyIsReadable'
      BY <1>3, <2>2
      DEF ServeBcast, TestInv, TypeOK, PeerMatchesMain,
          OnlyTheAcceptedReads, ReadyIsReadable, mainVars
    <3> QED  BY <3>1, <3>2 DEF TestInv
  <2> QED  BY <2>1, <2>2
<1>4. CASE ServeRest
  BY <1>4
  DEF ServeRest, TestInv, TypeOK, PeerMatchesMain, OnlyTheAcceptedReads, ReadyIsReadable,
          Balance, MaySend, Owes, mainVars, sockVars, runVars
<1>5. CASE SendMessage
  BY <1>5
  DEF SendMessage, TestInv, TypeOK, PeerMatchesMain, OnlyTheAcceptedReads, ReadyIsReadable,
          Balance, MaySend, Owes, mainVars, sockVars, runVars
<1> QED  BY <1>1, <1>2, <1>3, <1>4, <1>5 DEF Dispatch

LEMMA InvIsKept == TestInv /\ [Next]_vars => TestInv'
<1> SUFFICES ASSUME TestInv, [Next]_vars PROVE TestInv'
  OBVIOUS
<1>1. CASE Main
  BY <1>1, MainKeepsInv
<1>2. CASE Dispatch
  BY <1>2, DispatchKeepsInv
<1>3. CASE Interrupt
  BY <1>3
  DEF Interrupt, TestInv, TypeOK, PeerMatchesMain, OnlyTheAcceptedReads, ReadyIsReadable,
          Balance, MaySend, Owes, mainVars, sockVars, runVars
<1>4. CASE OtherComes \/ OtherLeaves
  <2>1. /\ other' \in BOOLEAN
        /\ UNCHANGED <<mainVars, peer, accepted, toBridge, toClient, runVars,
                       running, owner>>
    BY <1>4, Zenon DEF OtherComes, OtherLeaves
  <2> QED
    BY <2>1
    DEF TestInv, TypeOK, PeerMatchesMain, OnlyTheAcceptedReads,
        ReadyIsReadable, Balance, MaySend, Owes, mainVars, runVars
<1>5. CASE UNCHANGED vars
  BY <1>5
  DEF vars, TestInv, TypeOK, PeerMatchesMain, OnlyTheAcceptedReads, ReadyIsReadable,
          Balance, MaySend, Owes, mainVars, sockVars, runVars
<1> QED  BY <1>1, <1>2, <1>3, <1>4, <1>5 DEF Next

THEOREM TestInvariant == Spec => []TestInv
BY InitialInv, InvIsKept, PTL DEF Spec

-----------------------------------------------------------------------------
(***************************************************************************)
(* The theorems.                                                           *)
(***************************************************************************)

\* Every variable keeps its type; in particular neither socket ever holds more
\* than its queue takes.
THEOREM TestTypeCorrect == Spec => []TypeOK
BY TestInvariant, PTL DEF TestInv

\* main and its dispatch thread never wait for each other in send(): if both
\* queues were full while both threads are about to send, there would be more
\* datagrams than Balance allows.
THEOREM NeverWaitForEachOther == Spec => []NoMutualWait
<1>1. TestInv => NoMutualWait
  BY TestAssumption
  DEF TestInv, TypeOK, Balance, MaySend, Owes, NoMutualWait
<1> QED  BY <1>1, TestInvariant, PTL
=============================================================================
