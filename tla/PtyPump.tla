------------------------------ MODULE PtyPump ------------------------------
(***************************************************************************)
(* The copying threads of the bridge (NullModem::bridge and                *)
(* SerialInspector::bridge): one thread copies bytes between two           *)
(* descriptors, one direction after the other,                             *)
(*                                                                         *)
(*   a   the master of a pty, in both classes                              *)
(*   b   in NullModem the master of a second pty, in SerialInspector the   *)
(*       serial device behind real_fd, which is non-blocking and which     *)
(*       setTty() closes and opens while the thread runs.                  *)
(*                                                                         *)
(* At the far ends are MctpSerial objects, the kernel's line discipline    *)
(* and the device.  What reads and writes do is taken from the kernel's    *)
(* ttys: a blocking write waits for room while the far end is open and     *)
(* fails with EIO when it is not; a far end that closed makes the          *)
(* descriptor readable for ever.                                           *)
(***************************************************************************)
EXTENDS Integers, Sequences

CONSTANTS
    Class,          \* "NullModem", "SerialInspector" or both
    Fd,             \* numbers the device may get
    Uninit,         \* what real_fd may hold before the first setTty()
    BufSize,        \* bytes read at a time, 256 in the code
    Cap,            \* bytes a tty holds for its far end
    Signals,        \* whether signals may interrupt the thread's calls
    MaxBytes,       \* bound on bytes each far end sends
    MaxOpens        \* bound on calls of setTty() and openings of a slave

none == -1
Side == {"a", "b"}
Other(s) == IF s = "a" THEN "b" ELSE "a"

ASSUME PumpAssumption ==
    /\ Class \subseteq {"NullModem", "SerialInspector"}
    /\ Fd \subseteq Nat /\ Uninit \subseteq Fd \cup {none}
    /\ Signals \in BOOLEAN
    /\ {BufSize, Cap} \subseteq Nat \ {0}
    /\ {MaxBytes, MaxOpens} \subseteq Nat

VARIABLES
    class,          \* the class of the object, which never changes
    real_fd,        \* side b's descriptor as the object knows it
    openFd,         \* the number at which side b is really open
    far,            \* what is at each far end: "new", "open" or "closed"
    toPump,         \* bytes each far end has written and the thread not read
    fromPump,       \* bytes written to each side and not read there
    pc, watch, ready, hand,     \* the thread: where it is, the number of b in
                                \* read_fds, what select() reported, buf
    moved,          \* the write() the thread is in has moved some bytes
    running,
    owner,          \* where main is in setTty() and the destructor
    sent, got,      \* history: bytes each far end wrote and read
    steady,         \* history: the far end was there for all bytes sent to it
    cut,            \* history: writes to each side that a signal cut short
    unread,         \* history: bytes of a device that was closed before they
                    \* were read
    opens

fdVars     == <<real_fd, openFd>>
lineVars   == <<far, toPump, fromPump>>
threadVars == <<pc, watch, ready, hand, moved>>
history    == <<sent, got, steady, cut, unread>>
vars == <<class, fdVars, lineVars, threadVars, running, owner, history,
          opens>>

\* The constructors open the ptys and start the thread; nobody sets real_fd.
Init ==
    /\ class \in Class
    /\ \/ class = "NullModem" /\ real_fd \in Fd /\ openFd = real_fd
       \/ class = "SerialInspector" /\ real_fd \in Uninit /\ openFd = none
    /\ far = [s \in Side |-> "new"]
    /\ toPump = [s \in Side |-> <<>>] /\ fromPump = [s \in Side |-> <<>>]
    /\ pc = "top" /\ watch = none /\ ready = {} /\ hand = <<>> /\ moved = FALSE
    /\ running = TRUE /\ owner = "idle"
    /\ sent = [s \in Side |-> <<>>] /\ got = [s \in Side |-> <<>>]
    /\ steady = [s \in Side |-> TRUE]
    /\ cut = [s \in Side |-> 0] /\ unread = 0
    /\ opens = 0

Pty(s) == s = "a" \/ class = "NullModem"

-----------------------------------------------------------------------------
(***************************************************************************)
(* The thread: bridge() of both classes.                                   *)
(***************************************************************************)

Reading == [a |-> "readA", b |-> "readB"]
Writing == [a |-> "writeA", b |-> "writeB"]
After   == [a |-> "readB", b |-> "top"]     \* once side s has been copied

First(k, q) == SubSeq(q, 1, k)
Rest(k, q)  == SubSeq(q, k + 1, Len(q))
AtMost(m, n) == IF m < n THEN m ELSE n

\* The descriptor the thread uses for side s is the one that is open.
Reaches(s) == s = "b" => real_fd # none /\ real_fd = openFd

\* The head of the loop and FD_SET.
Top ==
    /\ pc = "top"
    /\ IF running
         THEN pc' = "select" /\ watch' = real_fd
         ELSE pc' = "done" /\ UNCHANGED watch
    /\ UNCHANGED <<class, fdVars, lineVars, ready, hand, moved, running, owner,
                   history, opens>>

\* FD_SET(-1), and FD_ISSET(-1) once setTty() has closed the device, are
\* undefined: either they set a bit select() does not look at and report one it
\* did not set, or the check that -O2 builds of most distributions have
\* (_FORTIFY_SOURCE) ends the process.
Abort ==
    /\ real_fd = none
    /\ (pc = "top" /\ running) \/ pc = "readB"
    /\ pc' = "aborted" /\ owner' = "dead"
    /\ UNCHANGED <<class, fdVars, lineVars, watch, ready, hand, moved, running,
                   history, opens>>

Readable(s) == toPump[s] # <<>> \/ far[s] = "closed"

\* select() returns with what is readable, or with nothing after half a second.
Select ==
    /\ pc = "select"
    /\ ready' = {s \in Side :
                    Readable(s) /\ (s = "b" => watch # none /\ watch = openFd)}
    /\ pc' = IF ready' = {} THEN "top" ELSE "readA"
    /\ UNCHANGED <<class, fdVars, lineVars, watch, hand, moved, running, owner,
                   history, opens>>

\* It fails and the thread ends: a number in read_fds is not open, or a signal
\* handler ran in this thread.
SelectFails ==
    /\ pc = "select"
    /\ watch \notin {none, openFd} \/ Signals
    /\ pc' = "ended"
    /\ UNCHANGED <<class, fdVars, lineVars, watch, ready, hand, moved, running,
                   owner, history, opens>>

\* Mutant of Read: what read() returns is ignored and all of buf is written,
\* with whatever is in the rest of it.
ReadFillsBuf(s) ==
    /\ pc = Reading[s]
    /\ IF s \in ready /\ toPump[s] # <<>> /\ Reaches(s)
             /\ (s = "b" => watch = real_fd)
         THEN \E k \in 1 .. AtMost(BufSize, Len(toPump[s])) :
                  /\ hand' = First(k, toPump[s]) \o [i \in 1 .. BufSize - k |-> 0]
                  /\ toPump' = [toPump EXCEPT ![s] = Rest(k, @)]
                  /\ pc' = Writing[Other(s)]
         ELSE pc' = After[s] /\ UNCHANGED <<hand, toPump>>
    /\ UNCHANGED <<class, fdVars, far, fromPump, watch, ready, moved, running,
                   owner, history, opens>>

\* FD_ISSET and read(): what is there, at most a buffer; EIO from a far end
\* that closed, EAGAIN from a new device and EBADF skip the copying.
Read(s) ==
    /\ pc = Reading[s]
    /\ IF s \in ready /\ toPump[s] # <<>> /\ Reaches(s)
             /\ (s = "b" => watch = real_fd)
         THEN \E k \in 1 .. AtMost(BufSize, Len(toPump[s])) :
                  /\ hand' = First(k, toPump[s])
                  /\ toPump' = [toPump EXCEPT ![s] = Rest(k, @)]
                  /\ pc' = Writing[Other(s)]
         ELSE pc' = After[s] /\ UNCHANGED <<hand, toPump>>
    /\ UNCHANGED <<class, fdVars, far, fromPump, watch, ready, moved, running,
                   owner, history, opens>>

\* Mutant of Write: no descriptor is non-blocking.
WriteBlocking(s) ==
    /\ pc = Writing[s]
    /\ Reaches(s) /\ far[s] = "open" => Len(fromPump[s]) < Cap
    /\ LET k == IF Reaches(s) /\ far[s] = "open"
                  THEN AtMost(Cap - Len(fromPump[s]), Len(hand)) ELSE Len(hand)
       IN  /\ fromPump' = IF Reaches(s) /\ far[s] = "open"
                            THEN [fromPump EXCEPT ![s] = @ \o First(k, hand)]
                            ELSE fromPump
           /\ hand' = Rest(k, hand)
    /\ pc' = IF hand' = <<>> THEN After[Other(s)] ELSE pc
    /\ moved' = (hand' # <<>>)
    /\ UNCHANGED <<class, fdVars, far, toPump, watch, ready, running, owner,
                   history, opens>>

\* Mutant of Write: every descriptor is non-blocking.
WriteNonBlocking(s) ==
    /\ pc = Writing[s]
    /\ LET k == AtMost(Cap - Len(fromPump[s]), Len(hand))
       IN  fromPump' = IF Reaches(s) /\ far[s] = "open"
                         THEN [fromPump EXCEPT ![s] = @ \o First(k, hand)]
                         ELSE fromPump
    /\ hand' = <<>>
    /\ pc' = After[Other(s)]
    /\ UNCHANGED <<class, fdVars, far, toPump, watch, ready, moved, running,
                   owner, history, opens>>

\* Mutant of Write: what did not fit is written once more from its start.
WriteAgain(s) ==
    /\ pc = Writing[s]
    /\ LET there == Reaches(s) /\ far[s] = "open"
           k == IF there THEN AtMost(Cap - Len(fromPump[s]), Len(hand)) ELSE 0
       IN  /\ there /\ Pty(s) => k > 0
           /\ fromPump' = [fromPump EXCEPT ![s] = @ \o First(k, hand)]
           /\ hand' = IF there /\ Pty(s) /\ k < Len(hand) THEN hand ELSE <<>>
    /\ pc' = IF hand' = <<>> THEN After[Other(s)] ELSE pc
    /\ moved' = (hand' # <<>>)
    /\ UNCHANGED <<class, fdVars, far, toPump, watch, ready, running, owner,
                   history, opens>>

\* write() to side s.  A pty takes as much as there is room for and waits for
\* more; a device takes that much and the rest is dropped, as nobody looks at
\* what write() returns; a side that is not there (EIO, EBADF) drops it all.
Write(s) ==
    /\ pc = Writing[s]
    /\ LET there == Reaches(s) /\ far[s] = "open"
           k == IF there THEN AtMost(Cap - Len(fromPump[s]), Len(hand)) ELSE 0
       IN  /\ there /\ Pty(s) => k > 0
           /\ fromPump' = [fromPump EXCEPT ![s] = @ \o First(k, hand)]
           /\ hand' = IF there /\ Pty(s) THEN Rest(k, hand) ELSE <<>>
    /\ pc' = IF hand' = <<>> THEN After[Other(s)] ELSE pc
    /\ moved' = (hand' # <<>>)
    /\ UNCHANGED <<class, fdVars, far, toPump, watch, ready, running, owner,
                   history, opens>>

\* A signal handler runs in the thread while its write() waits for more room:
\* write() returns how much it has moved, which nobody looks at, and the rest of
\* buf is dropped.  One that has moved nothing is restarted, as signal() asks
\* for (SA_RESTART).
WriteInterrupted(s) ==
    /\ Signals
    /\ pc = Writing[s] /\ moved
    /\ hand' = <<>> /\ moved' = FALSE
    /\ pc' = After[Other(s)]
    /\ cut' = [cut EXCEPT ![s] = @ + 1]
    /\ UNCHANGED <<class, fdVars, lineVars, watch, ready, running, owner, sent,
                   got, steady, unread, opens>>

Thread == Top \/ Select \/ \E s \in Side : Read(s) \/ Write(s)

-----------------------------------------------------------------------------
(***************************************************************************)
(* The far ends.  Bytes are numbered in the order they are sent.           *)
(***************************************************************************)

\* The slave of a pty is opened, at first or again.
FarOpens(s) ==
    /\ Pty(s) /\ far[s] # "open" /\ owner = "idle"
    /\ opens < MaxOpens /\ opens' = opens + 1
    /\ far' = [far EXCEPT ![s] = "open"]
    /\ UNCHANGED <<class, fdVars, toPump, fromPump, threadVars, running, owner,
                   history>>

FarWrites(s) ==
    /\ far[s] = "open"
    /\ Len(sent[s]) < MaxBytes
    /\ LET byte == Len(sent[s]) + 1
       IN  /\ sent' = [sent EXCEPT ![s] = Append(@, byte)]
           /\ toPump' = [toPump EXCEPT ![s] = Append(@, byte)]
    /\ steady' = [steady EXCEPT ![Other(s)] = @ /\ far[Other(s)] = "open"]
    /\ UNCHANGED <<class, fdVars, far, fromPump, threadVars, running, owner,
                   got, cut, unread, opens>>

FarReads(s) ==
    /\ far[s] = "open" /\ fromPump[s] # <<>>
    /\ got' = [got EXCEPT ![s] = Append(@, Head(fromPump[s]))]
    /\ fromPump' = [fromPump EXCEPT ![s] = Tail(@)]
    /\ UNCHANGED <<class, fdVars, far, toPump, threadVars, running, owner,
                   sent, steady, cut, unread, opens>>

\* A slave is closed or the device unplugged; what it had not read may go.
FarCloses(s) ==
    /\ far[s] = "open"
    /\ far' = [far EXCEPT ![s] = "closed"]
    /\ steady' = [steady EXCEPT ![s] = FALSE]
    /\ \/ UNCHANGED fromPump
       \/ fromPump' = [fromPump EXCEPT ![s] = <<>>]
    /\ UNCHANGED <<class, fdVars, toPump, threadVars, running, owner, sent,
                   got, cut, unread, opens>>

-----------------------------------------------------------------------------
(***************************************************************************)
(* The owner: setTty() and the destructor.  setTty() holds fd_mtx, which   *)
(* the thread does not take.                                               *)
(***************************************************************************)

\* ::close(): what the device had sent and the thread had not read is lost, and
\* what the device had not read.
DeviceGone ==
    /\ openFd' = IF real_fd = openFd THEN none ELSE openFd
    /\ far' = [far EXCEPT !["b"] = "new"]
    /\ toPump' = [toPump EXCEPT !["b"] = <<>>]
    /\ fromPump' = [fromPump EXCEPT !["b"] = <<>>]
    /\ steady' = [steady EXCEPT !["b"] = FALSE]
    /\ unread' = unread + Len(toPump["b"])

SetTty ==
    /\ class = "SerialInspector" /\ owner = "idle"
    /\ opens < MaxOpens /\ opens' = opens + 1
    /\ IF real_fd = none
         THEN owner' = "open" /\ UNCHANGED <<openFd, lineVars, steady, unread>>
         ELSE owner' = "clear" /\ DeviceGone
    /\ UNCHANGED <<class, real_fd, threadVars, running, sent, got, cut>>

\* real_fd = -1, before the device is opened or once it was closed again.
ClearFd ==
    /\ owner \in {"clear", "undo"}
    /\ real_fd' = none
    /\ owner' = IF owner = "clear" THEN "open" ELSE "idle"
    /\ UNCHANGED <<class, openFd, lineVars, threadVars, running, history,
                   opens>>

\* open() succeeds with a number of its choice, or fails and setTty() throws.
OpenTty ==
    /\ owner = "open"
    /\ \/ \E n \in Fd :
              /\ real_fd' = n /\ openFd' = n
              /\ far' = [far EXCEPT !["b"] = "open"]
              /\ owner' = "configure"
       \/ owner' = "idle" /\ UNCHANGED <<fdVars, far>>
    /\ UNCHANGED <<class, toPump, fromPump, threadVars, running, history,
                   opens>>

\* The attributes are set, or cannot be and the device is closed again.
Configure ==
    /\ owner = "configure"
    /\ \/ owner' = "idle" /\ UNCHANGED <<openFd, lineVars, steady, unread>>
       \/ owner' = "undo" /\ DeviceGone
    /\ UNCHANGED <<class, real_fd, threadVars, running, sent, got, cut, opens>>

\* Mutant of Destroy: the bridge is not closed first.
DestroyOpen ==
    /\ owner = "idle"
    /\ running' = FALSE /\ owner' = "joining"
    /\ UNCHANGED <<class, fdVars, lineVars, threadVars, history, opens>>

\* The destructor.  ~MctpBridge calls close() before its members go: by then
\* the slaves are closed.
Destroy ==
    /\ owner = "idle"
    /\ \A s \in Side : Pty(s) => far[s] # "open"
    /\ running' = FALSE /\ owner' = "joining"
    /\ UNCHANGED <<class, fdVars, lineVars, threadVars, history, opens>>

Join ==
    /\ owner = "joining"
    /\ pc \in {"done", "ended"}
    /\ owner' = "gone"
    /\ openFd' = IF real_fd = openFd THEN none ELSE openFd
    /\ UNCHANGED <<class, real_fd, lineVars, threadVars, running, history,
                   opens>>

-----------------------------------------------------------------------------
Next ==
    \/ Thread \/ Abort \/ SelectFails
    \/ \E s \in Side : WriteInterrupted(s)
    \/ \E s \in Side : FarOpens(s) \/ FarWrites(s) \/ FarReads(s) \/ FarCloses(s)
    \/ SetTty \/ ClearFd \/ OpenTty \/ Configure
    \/ Destroy \/ Join

Spec == Init /\ [][Next]_vars

\* Threads are scheduled, and MctpSerial's rx threads and the kernel read what
\* comes out of a pty until the bridge closes.  Nothing is asked of the device.
FairSpec ==
    /\ Spec
    /\ WF_vars(Thread)
    /\ WF_vars(ClearFd) /\ WF_vars(OpenTty) /\ WF_vars(Configure) /\ WF_vars(Join)
    /\ \A s \in Side : WF_vars(Pty(s) /\ owner = "idle" /\ FarReads(s))

-----------------------------------------------------------------------------
(***************************************************************************)
(* Properties.                                                             *)
(***************************************************************************)

Byte == 1 .. MaxBytes

\* Every variable holds a value of its type.
TypeOK ==
    /\ class \in Class
    /\ {real_fd, openFd, watch} \subseteq Fd \cup {none}
    /\ far \in [Side -> {"new", "open", "closed"}]
    /\ {toPump, fromPump, sent, got} \subseteq [Side -> Seq(Byte)]
    /\ \A s \in Side : Len(fromPump[s]) <= Cap
    /\ pc \in {"top", "select", "readA", "readB", "writeA", "writeB", "done",
               "ended", "aborted"}
    /\ ready \subseteq Side
    /\ hand \in Seq(Byte) /\ Len(hand) <= BufSize
    /\ running \in BOOLEAN /\ moved \in BOOLEAN
    /\ owner \in {"idle", "clear", "open", "configure", "undo", "joining", "gone",
                  "dead"}
    /\ steady \in [Side -> BOOLEAN]
    /\ cut \in [Side -> Nat] /\ unread \in Nat
    /\ opens \in Nat

\* What is in buf on its way to side s.
InHand(s) == IF pc = Writing[s] THEN hand ELSE <<>>

\* The way from side s to the other one, oldest byte first.
Way(s) == got[Other(s)] \o fromPump[Other(s)] \o InHand(Other(s)) \o toPump[s]

\* A direction of the thread may lose bytes but never repeats, invents or
\* reorders them, whatever is opened, closed or replaced meanwhile: it is the
\* line MctpSerial is made for.
LastOf(q) == IF q = <<>> THEN 0 ELSE q[Len(q)]

AToB == INSTANCE FrameChannel WITH
    Message <- Byte, sent <- sent["a"], accepted <- got["b"],
    cursor <- LastOf(got["b"])

BToA == INSTANCE FrameChannel WITH
    Message <- Byte, sent <- sent["b"], accepted <- got["a"],
    cursor <- LastOf(got["a"])

ImplementsLine == AToB!Spec /\ BToA!Spec

\* On the way to a pty whose slave has been open since before the first byte was
\* sent, two things cost bytes and nothing else does, whatever becomes of the
\* thread and whatever setTty() replaces: a device that is closed takes along
\* what the thread had not read of it, and a signal in the middle of a write()
\* costs less than one buffer.  Without them not a byte is lost.
PtyIsLossless ==
    \A s \in Side :
        LET o == Other(s) IN
        Pty(s) /\ steady[s] =>
            /\ Len(sent[o]) <= Len(Way(o)) + (unread + (BufSize - 1) * cut[s])
            /\ unread = 0 /\ cut[s] = 0 => Way(o) = sent[o]

Ended == pc \in {"done", "ended", "aborted"}

\* While the ptys are read, what a far end has written gets on its way, even
\* if the device does not read: it cannot stop what it sends itself.
BytesFlow ==
    \A s \in Side : toPump[s] # <<>> ~> toPump[s] = <<>> \/ Ended \/ ~running

\* The destructor returns, even if the thread is waiting in write() when the
\* bridge closes.
DestructorReturns == owner = "joining" ~> owner \in {"gone", "dead"}

\* "The loop continues while `running` is true" (SerialInspector..cpp:196).
\* Checked without the signals that may interrupt it.
LoopsWhileRunning == running => ~Ended
=============================================================================
