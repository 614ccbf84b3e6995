----------------------------- MODULE MctpSerial -----------------------------
(***************************************************************************)
(* One direction of an MCTP serial link (MctpSerial.cpp, DSP0253 framing): *)
(*                                                                         *)
(*   sender     MctpSerial::send / transmitFrame, one ::write per byte     *)
(*   wire       the tty between the two ends; bytes may be lost or garbled *)
(*   rx thread  MctpSerial::run / updateRxFSM, which parses bytes, pushes  *)
(*              packets into rxBuffer and then writes one byte to the      *)
(*              notification pipe                                          *)
(*   reader     the owner (the dispatch thread of MctpBridge): select on   *)
(*              the pipe, read one byte, then receive()                    *)
(*   owner      open() and close()                                         *)
(*                                                                         *)
(* Bytes are records with a kind k and a value v.  The second FCS byte     *)
(* stands for an ideal checksum: it is the checked text itself, so that    *)
(* two texts have the same FCS only if they are equal.  The first FCS byte *)
(* carries no such identity and may be a byte that needs escaping          *)
(* (FlagFcs).                                                              *)
(***************************************************************************)
EXTENDS Naturals, Sequences, FiniteSets

CONSTANTS
    Data,           \* payload bytes that are none of the special ones
    Message,        \* the packets that may be sent
    FlagFcs,        \* packets whose FCS has FRAME_CHAR as its first byte
    Noise,          \* bytes a line error may put in place of another
    MinFrame,       \* smallest valid frame, 11 in the code
    MaxRx,          \* largest frame under construction, 550 in the code
    CountMod,       \* number of values of the count byte, 256 in the code
    WireCap,        \* bytes the tty buffers before ::write fails
    PipeCap,        \* notifications the pipe holds before ::write blocks
    MaxErrors,      \* bound on bytes lost or garbled
    MaxFaults,      \* bound on select() and pipe writes that fail
    MaxOpens        \* bound on calls of open()

FRAME_CHAR  == [k |-> "7E", v |-> 0]
ESCAPE_CHAR == [k |-> "7D", v |-> 0]
FRAME_SUB   == [k |-> "5E", v |-> 0]    \* FRAME_CHAR - 0x20
ESCAPE_SUB  == [k |-> "5D", v |-> 0]    \* ESCAPE_CHAR - 0x20
REVISION    == [k |-> "rev", v |-> 0]   \* serial protocol revision, 0x01
DataByte(d) == [k |-> "data", v |-> d]
CountByte(n) == [k |-> "count", v |-> n]

PayloadByte ==
    {FRAME_CHAR, ESCAPE_CHAR, FRAME_SUB, ESCAPE_SUB}
        \cup {DataByte(d) : d \in Data}

ASSUME MessageAssumption ==
    /\ \A m \in Message : m \in Seq(PayloadByte)
    /\ FlagFcs \subseteq Message
    /\ Noise \subseteq PayloadByte

ASSUME BoundAssumption ==
    /\ MinFrame \in Nat /\ MinFrame >= 7
    /\ MaxRx \in Nat /\ WireCap \in Nat \ {0}
    /\ CountMod \in Nat \ {0} /\ PipeCap \in Nat \ {0}
    /\ MaxErrors \in Nat /\ MaxFaults \in Nat /\ MaxOpens \in Nat

\* The frame of the longest packet the count byte can tell fits but for its
\* closing mark: 550 is more than 255 + 5.
ASSUME SizeAssumption == MaxRx >= CountMod + 4

-----------------------------------------------------------------------------
(***************************************************************************)
(* Framing.                                                                *)
(***************************************************************************)

\* What the FCS is computed over: revision, count byte and the packet.
Header(m) == <<REVISION, CountByte(Len(m) % CountMod)>> \o m

FcsHi(text) ==
    IF \E m \in FlagFcs : text = Header(m) THEN FRAME_CHAR
                                           ELSE [k |-> "fcsHi", v |-> text]
FcsLo(text) == [k |-> "fcsLo", v |-> text]

\* The frame send() builds, before escaping.
Frame(m) ==
    <<FRAME_CHAR>> \o Header(m)
        \o <<FcsHi(Header(m)), FcsLo(Header(m)), FRAME_CHAR>>

\* Mutant of ValidRx: the FCS is not compared.
ValidRxNoFcs(rx) ==
    /\ Len(rx) >= MinFrame
    /\ Len(rx) - 6 < CountMod
    /\ rx[3] = CountByte(Len(rx) - 6)

\* validateRx: rx holds a frame from its opening to its closing mark.
ValidRx(rx) ==
    LET n    == Len(rx)
        text == SubSeq(rx, 2, n - 3)
    IN  /\ n >= MinFrame
        /\ n - 6 < CountMod
        /\ rx[3] = CountByte(n - 6)
        /\ rx[n - 2] = FcsHi(text)
        /\ rx[n - 1] = FcsLo(text)

\* The packet of a valid frame: three bytes off the front and off the back.
Packet(rx) == SubSeq(rx, 4, Len(rx) - 3)

\* The packets a receiver can accept at all: the count byte must not wrap and
\* the frame must be long enough.
Acceptable(m) == Len(m) < CountMod /\ Len(m) + 6 >= MinFrame

Escapable(b) == b \in {FRAME_CHAR, ESCAPE_CHAR}
Escaped(b)   == IF b = FRAME_CHAR THEN FRAME_SUB ELSE ESCAPE_SUB
Unescaped(b) == IF b = FRAME_SUB THEN FRAME_CHAR ELSE ESCAPE_CHAR

-----------------------------------------------------------------------------
VARIABLES
    sent,               \* history: packets given to send(), in order
    txFrame,            \* the frame transmitFrame is writing, <<>> if none
    txPos,              \* index of the byte it is writing
    txEscaped,          \* TRUE when that byte's ESCAPE_CHAR has been written
    wire,               \* bytes written and not yet read
    errors,             \* bytes lost or garbled so far
    rxState,            \* state of the receive FSM
    rx_in_progress,     \* frame under construction
    rxBuffer,           \* packets waiting for receive()
    pipe,               \* notification bytes in the pipe
    faults,             \* select() and pipe writes that failed so far
    rxThread,           \* where the rx thread is
    running,            \* the flag the rx thread polls
    opens,              \* calls of open() so far
    owner,              \* where the owner's open/close cycle is
    reader,             \* where the reader is
    delivered           \* history: packets receive() has returned

txVars     == <<sent, txFrame, txPos, txEscaped>>
wireVars   == <<wire, errors>>
fsmVars    == <<rxState, rx_in_progress>>
pipeVars   == <<pipe, faults>>
ownerVars  == <<running, opens, owner>>
readerVars == <<reader, delivered>>

vars == <<txVars, wireVars, fsmVars, rxBuffer, pipeVars, rxThread, ownerVars,
          readerVars>>

Init ==
    /\ sent = <<>> /\ txFrame = <<>> /\ txPos = 1 /\ txEscaped = FALSE
    /\ wire = <<>> /\ errors = 0
    /\ rxState = "WAITING_FOR_SYNC" /\ rx_in_progress = <<>>
    /\ rxBuffer = <<>>
    /\ pipe = 0 /\ faults = 0
    /\ rxThread = "none"
    /\ running = FALSE /\ opens = 0 /\ owner = "closed"
    /\ reader = "select" /\ delivered = <<>>

-----------------------------------------------------------------------------
(***************************************************************************)
(* The sender.                                                             *)
(***************************************************************************)

\* send(): packets are distinct, so that the history tells them apart.
Send(m) ==
    /\ txFrame = <<>>
    /\ \A i \in DOMAIN sent : sent[i] # m
    /\ sent' = Append(sent, m)
    /\ txFrame' = Frame(m)
    /\ UNCHANGED <<txPos, txEscaped, wireVars, fsmVars, rxBuffer, pipeVars,
                   rxThread, ownerVars, readerVars>>

\* The byte of the frame that needs an ESCAPE_CHAR before it: any special
\* byte except the two framing marks at the ends.
MustEscape ==
    /\ txPos # 1 /\ txPos # Len(txFrame)
    /\ Escapable(txFrame[txPos])

\* The argument of the next ::write.
NextByte ==
    IF MustEscape THEN IF txEscaped THEN Escaped(txFrame[txPos])
                                    ELSE ESCAPE_CHAR
                  ELSE txFrame[txPos]

\* transmitFrame ignores what ::write returns and goes on.
Advance ==
    /\ UNCHANGED sent
    /\ IF MustEscape /\ ~txEscaped
         THEN txEscaped' = TRUE /\ UNCHANGED <<txFrame, txPos>>
         ELSE /\ txEscaped' = FALSE
              /\ IF txPos = Len(txFrame)
                   THEN txFrame' = <<>> /\ txPos' = 1
                   ELSE txPos' = txPos + 1 /\ UNCHANGED txFrame
    /\ UNCHANGED <<fsmVars, rxBuffer, pipeVars, rxThread, ownerVars,
                   readerVars>>

WriteByte ==
    /\ txFrame # <<>>
    /\ Len(wire) < WireCap
    /\ wire' = Append(wire, NextByte)
    /\ UNCHANGED errors
    /\ Advance

\* EAGAIN (the descriptor is non-blocking) or a byte lost on the line.
LoseByte ==
    /\ txFrame # <<>>
    /\ errors < MaxErrors
    /\ errors' = errors + 1
    /\ UNCHANGED wire
    /\ Advance

GarbleByte(n) ==
    /\ txFrame # <<>>
    /\ Len(wire) < WireCap
    /\ errors < MaxErrors
    /\ errors' = errors + 1
    /\ wire' = Append(wire, n)
    /\ Advance

\* A byte nobody sent.
SpuriousByte(n) ==
    /\ Len(wire) < WireCap
    /\ errors < MaxErrors
    /\ errors' = errors + 1
    /\ wire' = Append(wire, n)
    /\ UNCHANGED <<txVars, fsmVars, rxBuffer, pipeVars, rxThread, ownerVars,
                   readerVars>>

-----------------------------------------------------------------------------
(***************************************************************************)
(* The rx thread: run() and updateRxFSM().                                 *)
(***************************************************************************)

\* Mutant of Poll: the loop does not look at running.
PollForever ==
    /\ rxThread = "poll"
    /\ rxThread' = "select"
    /\ UNCHANGED <<txVars, wireVars, fsmVars, rxBuffer, pipeVars, ownerVars,
                   readerVars>>

\* The loop condition of run().
Poll ==
    /\ rxThread = "poll"
    /\ rxThread' = IF running THEN "select" ELSE "done"
    /\ UNCHANGED <<txVars, wireVars, fsmVars, rxBuffer, pipeVars, ownerVars,
                   readerVars>>

\* select() times out, or reports a descriptor from which read() then takes no
\* byte (the other side of the pty is closed): either way the loop goes on.
SelectTimeout ==
    /\ rxThread = "select"
    /\ wire = <<>>
    /\ rxThread' = "poll"
    /\ UNCHANGED <<txVars, wireVars, fsmVars, rxBuffer, pipeVars, ownerVars,
                   readerVars>>

\* select() returns -1 (a signal handler ran in this thread): run() breaks
\* out of its loop and leaves running set.
SelectError ==
    /\ rxThread = "select"
    /\ faults < MaxFaults
    /\ faults' = faults + 1
    /\ rxThread' = "done"
    /\ UNCHANGED <<txVars, wireVars, fsmVars, rxBuffer, pipe, ownerVars,
                   readerVars>>

\* select() reports a byte and updateRxFSM reads it.
ReadByte ==
    /\ rxThread = "select"
    /\ wire # <<>>
    /\ wire' = Tail(wire)
    /\ UNCHANGED <<txVars, errors, pipeVars, ownerVars, readerVars>>

\* The byte is b, it is no end of a valid frame, and the FSM goes to state s
\* with the frame under construction f.
Step(s, f) ==
    /\ ReadByte
    /\ rxState' = s
    /\ rx_in_progress' = f
    /\ rxThread' = "poll"
    /\ UNCHANGED rxBuffer

\* One more byte of the frame, unless it is already too long.
Extend(b) ==
    LET f == Append(rx_in_progress, b)
    IN  Step(IF Len(f) > MaxRx THEN "WAITING_FOR_SYNC" ELSE "BODY", f)

WaitForSync ==
    /\ rxState = "WAITING_FOR_SYNC"
    /\ IF Head(wire) = FRAME_CHAR
         THEN Step("BODY", <<FRAME_CHAR>>)
         ELSE Step("WAITING_FOR_SYNC", rx_in_progress)

BodyEscape ==
    /\ rxState = "BODY"
    /\ Head(wire) = ESCAPE_CHAR
    /\ Step("ESCAPE", rx_in_progress)

BodyByte ==
    /\ rxState = "BODY"
    /\ ~Escapable(Head(wire))
    /\ Extend(Head(wire))

\* Mutant of BodyResync: an invalid frame sends the FSM back to hunting.
BodyResyncHunts ==
    /\ rxState = "BODY"
    /\ Head(wire) = FRAME_CHAR
    /\ ~ValidRx(Append(rx_in_progress, FRAME_CHAR))
    /\ Step("WAITING_FOR_SYNC", <<FRAME_CHAR>>)

\* Mutant of BodyResync: every framing mark notifies the reader.
BodyResyncNotifies ==
    /\ rxState = "BODY"
    /\ Head(wire) = FRAME_CHAR
    /\ ~ValidRx(Append(rx_in_progress, FRAME_CHAR))
    /\ ReadByte
    /\ rxThread' = "notify"
    /\ rx_in_progress' = <<FRAME_CHAR>>
    /\ UNCHANGED <<rxState, rxBuffer>>

\* A framing mark that does not end a valid frame may start the next one.
BodyResync ==
    /\ rxState = "BODY"
    /\ Head(wire) = FRAME_CHAR
    /\ ~ValidRx(Append(rx_in_progress, FRAME_CHAR))
    /\ Step("BODY", <<FRAME_CHAR>>)

\* A framing mark that ends a valid frame: the packet goes to rxBuffer, the
\* notification is written next.
BodyAccept ==
    /\ rxState = "BODY"
    /\ ReadByte
    /\ Head(wire) = FRAME_CHAR
    /\ LET f == Append(rx_in_progress, FRAME_CHAR)
       IN  /\ ValidRx(f)
           /\ rxBuffer' = Append(rxBuffer, Packet(f))
           /\ rx_in_progress' = Packet(f)
    /\ rxState' = "WAITING_FOR_SYNC"
    /\ rxThread' = "notify"

EscapeByte ==
    /\ rxState = "ESCAPE"
    /\ Head(wire) \in {FRAME_SUB, ESCAPE_SUB}
    /\ Extend(Unescaped(Head(wire)))

EscapeResync ==
    /\ rxState = "ESCAPE"
    /\ Head(wire) = FRAME_CHAR
    /\ Step("BODY", <<FRAME_CHAR>>)

EscapeError ==
    /\ rxState = "ESCAPE"
    /\ Head(wire) \notin {FRAME_SUB, ESCAPE_SUB, FRAME_CHAR}
    /\ Step("WAITING_FOR_SYNC", rx_in_progress)

UpdateRxFSM ==
    /\ wire # <<>>
    /\ \/ WaitForSync \/ BodyEscape \/ BodyByte \/ BodyResync \/ BodyAccept
       \/ EscapeByte \/ EscapeResync \/ EscapeError

\* Mutant of Notify: the write does not wait for room.
NotifyIfRoom ==
    /\ rxThread = "notify"
    /\ pipe' = IF pipe < PipeCap THEN pipe + 1 ELSE pipe
    /\ rxThread' = "poll"
    /\ UNCHANGED <<txVars, wireVars, fsmVars, rxBuffer, faults, ownerVars,
                   readerVars>>

\* The write to the notification pipe blocks while the pipe is full.
Notify ==
    /\ rxThread = "notify"
    /\ pipe < PipeCap
    /\ pipe' = pipe + 1
    /\ rxThread' = "poll"
    /\ UNCHANGED <<txVars, wireVars, fsmVars, rxBuffer, faults, ownerVars,
                   readerVars>>

\* The write fails: reported with perror and forgotten.
NotifyFails ==
    /\ rxThread = "notify"
    /\ faults < MaxFaults
    /\ faults' = faults + 1
    /\ rxThread' = "poll"
    /\ UNCHANGED <<txVars, wireVars, fsmVars, rxBuffer, pipe, ownerVars,
                   readerVars>>

RxThread ==
    Poll \/ SelectTimeout \/ SelectError \/ UpdateRxFSM \/ Notify \/ NotifyFails

-----------------------------------------------------------------------------
(***************************************************************************)
(* The owner: open() starts the rx thread, close() clears running, joins   *)
(* the thread and closes the descriptor.  Neither touches the FSM, rxBuffer*)
(* or the pipe, so what is in them survives to the next open().            *)
(***************************************************************************)

Open ==
    /\ owner = "closed"
    /\ opens < MaxOpens
    /\ opens' = opens + 1
    /\ running' = TRUE
    /\ rxThread' = "poll"
    /\ owner' = "open"
    /\ UNCHANGED <<txVars, wireVars, fsmVars, rxBuffer, pipeVars, readerVars>>

\* MctpBridge::close joins the dispatch thread, which is the reader, before it
\* closes the link; the rx thread goes on in between.
StopReader ==
    /\ owner = "open"
    /\ reader = "select"
    /\ owner' = "stopped"
    /\ UNCHANGED <<txVars, wireVars, fsmVars, rxBuffer, pipeVars, rxThread,
                   running, opens, readerVars>>

Close ==
    /\ owner = "stopped"
    /\ running' = FALSE
    /\ owner' = "closing"
    /\ UNCHANGED <<txVars, wireVars, fsmVars, rxBuffer, pipeVars, rxThread,
                   opens, readerVars>>

\* recv_thread.join() and ::close; the tty may discard what was unread.
Join ==
    /\ owner = "closing"
    /\ rxThread = "done"
    /\ rxThread' = "none"
    /\ owner' = "closed"
    /\ \/ UNCHANGED wireVars
       \/ /\ errors + Len(wire) <= MaxErrors
          /\ errors' = errors + Len(wire)
          /\ wire' = <<>>
    /\ UNCHANGED <<txVars, fsmVars, rxBuffer, pipeVars, running, opens,
                   readerVars>>

-----------------------------------------------------------------------------
(***************************************************************************)
(* The reader: select() on the pipe, read one byte, receive().             *)
(***************************************************************************)

TakeNotification ==
    /\ owner = "open"
    /\ reader = "select"
    /\ pipe > 0
    /\ pipe' = pipe - 1
    /\ reader' = "receive"
    /\ UNCHANGED <<txVars, wireVars, fsmVars, rxBuffer, faults, rxThread,
                   ownerVars, delivered>>

\* receive() looks whether there is a packet; if not it returns nothing.
Receive ==
    /\ reader = "receive"
    /\ reader' = IF rxBuffer = <<>> THEN "select" ELSE "pop"
    /\ UNCHANGED <<txVars, wireVars, fsmVars, rxBuffer, pipeVars, rxThread,
                   ownerVars, delivered>>

\* rxBuffer.pop() waits on the condition variable while the buffer is empty.
Pop ==
    /\ reader = "pop"
    /\ rxBuffer # <<>>
    /\ delivered' = Append(delivered, Head(rxBuffer))
    /\ rxBuffer' = Tail(rxBuffer)
    /\ reader' = "select"
    /\ UNCHANGED <<txVars, wireVars, fsmVars, pipeVars, rxThread, ownerVars>>

Reader == TakeNotification \/ Receive \/ Pop

-----------------------------------------------------------------------------
Next ==
    \/ \E m \in Message : Send(m)
    \/ WriteByte
    \/ LoseByte
    \/ \E n \in Noise : GarbleByte(n) \/ SpuriousByte(n)
    \/ RxThread
    \/ Open
    \/ StopReader
    \/ Close
    \/ Join
    \/ Reader

Spec == Init /\ [][Next]_vars

(***************************************************************************)
(* Threads are scheduled and a sender that has begun a frame goes on with  *)
(* it; nothing obliges anyone to send, to close or to lose a byte.  The    *)
(* rx thread sits in a loop that does nothing else; the reader comes back  *)
(* to its select() while the link is open.                                 *)
(***************************************************************************)
Fairness ==
    /\ WF_vars(WriteByte)
    /\ WF_vars(Poll) /\ WF_vars(SelectTimeout) /\ WF_vars(UpdateRxFSM)
    /\ WF_vars(Notify)
    /\ WF_vars(Join)
    /\ WF_vars(Reader)

FairSpec == Spec /\ Fairness

-----------------------------------------------------------------------------
(***************************************************************************)
(* Properties.                                                             *)
(***************************************************************************)

\* The bytes that can be on the wire.
Byte ==
    PayloadByte \cup {REVISION}
        \cup {CountByte(n) : n \in 0 .. CountMod - 1}
        \cup {FcsHi(Header(m)) : m \in Message}
        \cup {FcsLo(Header(m)) : m \in Message}

SenderTypeOK ==
    /\ sent \in Seq(Message)
    /\ txFrame \in {<<>>} \cup {Frame(m) : m \in Message}
    /\ txPos \in {1} \cup 1 .. Len(txFrame)
    /\ txEscaped \in BOOLEAN

LineTypeOK ==
    /\ wire \in Seq(Byte)
    /\ errors \in Nat
    /\ rxState \in {"WAITING_FOR_SYNC", "BODY", "ESCAPE"}
    /\ rx_in_progress \in Seq(Byte)

ReceiverTypeOK ==
    /\ rxBuffer \in Seq(Message) /\ delivered \in Seq(Message)
    /\ pipe \in 0 .. PipeCap
    /\ faults \in Nat /\ opens \in Nat
    /\ rxThread \in {"none", "poll", "select", "notify", "done"}
    /\ owner \in {"closed", "open", "stopped", "closing"}
    /\ running \in BOOLEAN
    /\ reader \in {"select", "receive", "pop"}

\* Every variable holds a value of its type; in particular what is in rxBuffer
\* and what the reader got are packets that can be sent.
TypeOK == SenderTypeOK /\ LineTypeOK /\ ReceiverTypeOK

\* Every packet the receiver has accepted, in order.
Accepted == delivered \o rxBuffer

InHand(thread, at) == IF thread \in at THEN 1 ELSE 0

\* A notification is in the pipe, about to be written or in the reader's
\* hands for each packet in rxBuffer, except for those whose write failed:
\* receive() never comes back empty, pop() never waits, and no packet is left
\* behind (MctpSerial.cpp:405-412, 457-461).
NotificationsMatchPackets ==
    LET noted == pipe + InHand(reader, {"receive", "pop"})
        due   == InHand(rxThread, {"notify"})
    IN  noted + due <= Len(rxBuffer) /\ Len(rxBuffer) <= noted + due + faults

\* A lost, garbled or spurious byte costs at most one packet: once the line
\* is quiet, no more acceptable packets are missing than there were errors.
BoundedLoss ==
    (txFrame = <<>> /\ wire = <<>>) =>
        Cardinality({i \in DOMAIN sent : Acceptable(sent[i])})
            <= Len(Accepted) + errors

\* The index in s of the last packet of a, 0 if there is none.
LastIndex(s, a) ==
    LET last == {i \in DOMAIN s : a # <<>> /\ s[i] = a[Len(a)]}
    IN  IF last = {} THEN 0 ELSE CHOOSE i \in last : TRUE

\* The link is a channel that may lose packets but does not invent, garble,
\* repeat or reorder them.
Channel == INSTANCE FrameChannel WITH
    accepted <- Accepted,
    cursor   <- LastIndex(sent, Accepted)

ImplementsChannel == Channel!Spec

\* The notifications that have been written and the packet of which has not
\* been taken.
Noted == pipe + InHand(reader, {"receive", "pop"})

\* The packets of rxBuffer the reader can know of: it never gets to one whose
\* notification is still to be written, or could not be written.
Visible ==
    SubSeq(rxBuffer, 1, IF Noted <= Len(rxBuffer) THEN Noted ELSE Len(rxBuffer))

\* To its reader the link is a port: each notification it reads stands for one
\* packet, which is there by then, and is taken before the next notification.
\* Packets come out as they went in even where a notification was lost: the
\* next one announces the packet left behind (MctpSerial.cpp:405, 457).
Port == INSTANCE PacketPort WITH
    rx      <- Visible,
    got     <- delivered,
    serving <- reader # "select"

ImplementsPort == Port!Spec

Buffered(m)  == \E i \in DOMAIN rxBuffer : rxBuffer[i] = m
Delivered(m) == \E i \in DOMAIN delivered : delivered[i] = m

\* A packet that reached rxBuffer reaches the reader, unless a system call
\* has failed or the reader is stopped first; if it was stopped, the packet
\* and its notification wait for the next open().  (A notification that could
\* not be written leaves its packet waiting for ever, whatever the comment at
\* MctpSerial.cpp:410 says.)
AcceptedIsDelivered ==
    \A m \in Message :
        Buffered(m) ~> (Delivered(m) \/ faults > 0 \/ owner # "open")

\* close() returns: the rx thread comes back to the top of its loop.  The one
\* thing that can keep it is a full notification pipe, which nobody reads any
\* more.
CloseReturns ==
    owner = "closing" ~>
        owner = "closed" \/ (rxThread = "notify" /\ pipe = PipeCap)
=============================================================================
