-------------------------- MODULE BridgeLifecycle --------------------------
(***************************************************************************)
(* Opening and closing a bridge (MctpBridge::open and close and what they  *)
(* call in MctpSerial, LinuxMctpSerial, BcastMessenger, SerialInspector):  *)
(* which file descriptors and threads exist, and which of them the objects *)
(* believe to have.                                                        *)
(*                                                                         *)
(* The process has a table of descriptors; open(2), pipe(2), socket(2) and *)
(* accept(2) take the lowest free number, as POSIX has it.  The table maps *)
(* each number to what it was opened for, which no object can see.         *)
(***************************************************************************)
EXTENDS Integers

CONSTANTS
    MaxFd,          \* descriptors are 0 .. MaxFd
    Uninit,         \* what SerialInspector's real_fd may hold at first: its
                    \* constructor does not set it
    MaxOpens,       \* bound on calls of open()
    MaxFaults,      \* bound on system calls that fail
    MaxClients      \* bound on clients that connect

Fd   == 0 .. MaxFd
Link == {"linux", "tty"}        \* linuxSerial and mctpSerial

\* 0 .. 2 are the standard streams; the constructors of NullModem and
\* SerialInspector have opened three pty masters.
Inherited == 0 .. 5

ASSUME LifecycleAssumption ==
    /\ {MaxFd, MaxOpens, MaxFaults, MaxClients} \subseteq Nat
    /\ MaxFd > 5
    /\ Uninit \subseteq Int

\* What a descriptor was opened for.
SerialOf    == [linux |-> "linuxSerial", tty |-> "mctpSerial"]
PipeReadOf  == [linux |-> "linuxPipeRead", tty |-> "ttyPipeRead"]
PipeWriteOf == [linux |-> "linuxPipeWrite", tty |-> "ttyPipeWrite"]

Role ==
    {"inherited", "linuxMctp", "listen", "conn", "device"}
        \cup {f[x] : f \in {SerialOf, PipeReadOf, PipeWriteOf}, x \in Link}

VARIABLES
    table,          \* the descriptor table: a Role or "free"
    serial,         \* the two MctpSerial objects
    fd_,            \* LinuxMctpSerial's descriptor of the kernel's pty
    listenFd, connFd, state,            \* BcastMessenger
    real_fd,        \* SerialInspector's descriptor of the device
    linux_fd, tty_fd,                   \* MctpBridge: what run() selects on
    dispatch,       \* TRUE while dispatch_thread is joinable
    at,             \* what the owner does next
    then,           \* where open() goes on once it has called close()
    crossed,        \* history: the device was given the number of linuxSerial's
                    \* pipe, which MctpBridge::close closes at every close()
    unset,          \* history: TRUE until setTty() has assigned real_fd
    strayed,        \* history: the unset real_fd was the number of something
                    \* that is not the inspector's, and setTty() closed it
    opens, faults, clients

bcastVars  == <<listenFd, connFd, state>>
ttyVars    == <<real_fd, crossed, unset, strayed>>
bridgeVars == <<linux_fd, tty_fd>>
counters   == <<opens, faults, clients>>
vars == <<table, serial, fd_, bcastVars, ttyVars, bridgeVars, dispatch, at,
          then, counters>>

Init ==
    /\ table = [n \in Fd |-> IF n \in Inherited THEN "inherited" ELSE "free"]
    /\ serial = [x \in Link |-> [serial_fd |-> -1, pipeRead |-> -1,
                                 pipeWrite |-> -1, running |-> FALSE,
                                 joinable |-> FALSE]]
    /\ fd_ = -1
    /\ listenFd = -1 /\ connFd = -1 /\ state = "Idle"
    /\ real_fd \in Uninit
    /\ linux_fd = -1 /\ tty_fd = -1
    /\ dispatch = FALSE
    /\ at = "closed" /\ then = "closed"
    /\ crossed = FALSE /\ unset = TRUE /\ strayed = FALSE
    /\ opens = 0 /\ faults = 0 /\ clients = 0

-----------------------------------------------------------------------------
(***************************************************************************)
(* The descriptor table.                                                   *)
(***************************************************************************)

\* The lowest free number; MaxFd + 1, which is no descriptor, if there is none.
Lowest(t) ==
    CHOOSE n \in 0 .. MaxFd + 1 :
        /\ n \in Fd => t[n] = "free"
        /\ \A k \in 0 .. n - 1 : t[k] # "free"

Take(t, role) ==
    IF Lowest(t) \in Fd THEN [t EXCEPT ![Lowest(t)] = role] ELSE t

\* ::close(n) of a number that is not open does nothing.
Release(t, n) == IF n \in Fd THEN [t EXCEPT ![n] = "free"] ELSE t

Fault == faults < MaxFaults /\ faults' = faults + 1

-----------------------------------------------------------------------------
(***************************************************************************)
(* MctpSerial.                                                             *)
(***************************************************************************)

\* Mutant of Piped: every open makes a pipe.
PipedEachTime(t, x) ==
    LET r == Take(t, PipeReadOf[x])
    IN  [table  |-> Take(r, PipeWriteOf[x]),
         object |-> [serial[x] EXCEPT !.pipeRead = Lowest(t),
                                      !.pipeWrite = Lowest(r)]]

\* open(path): the outcomes, as the table, the object and the number returned.
\* The pipe is made once; what it returns on success is pipe_fds[0].
Piped(t, x) ==
    IF serial[x].pipeRead >= 0
      THEN [table |-> t, object |-> serial[x]]
      ELSE LET r == Take(t, PipeReadOf[x])
           IN  [table  |-> Take(r, PipeWriteOf[x]),
                object |-> [serial[x] EXCEPT !.pipeRead = Lowest(t),
                                             !.pipeWrite = Lowest(r)]]

OpenSerialDone(x, result) ==
    /\ serial[x].serial_fd <= 0
    /\ LET p == Piped(table, x)
       IN  /\ table' = Take(p.table, SerialOf[x])
           /\ serial' = [serial EXCEPT ![x] =
                            [p.object EXCEPT !.serial_fd = Lowest(p.table),
                                             !.running = TRUE,
                                             !.joinable = TRUE]]
           /\ result = p.object.pipeRead
    /\ UNCHANGED faults

\* It fails: already open, no pipe, no such device (which returns false, that
\* is 0), or a device that cannot be configured.
OpenSerialFails(x, result) ==
    \/ /\ serial[x].serial_fd > 0
       /\ result = -1
       /\ UNCHANGED <<table, serial, faults>>
    \/ /\ serial[x].serial_fd <= 0
       /\ Fault
       /\ \/ /\ serial[x].pipeRead < 0
             /\ result = -1
             /\ UNCHANGED <<table, serial>>
          \/ LET p == Piped(table, x)
             IN  /\ result \in {0, -1}
                 /\ table' = p.table
                 /\ serial' = [serial EXCEPT ![x] =
                                  [p.object EXCEPT !.serial_fd = -1]]

\* Mutant of ClosedSerial: the rx thread is not joined.
ClosedSerialNoJoin(s) == [s EXCEPT !.running = FALSE, !.serial_fd = -1]

\* close(): the object afterwards; the thread is joined if running was set.
ClosedSerial(s) ==
    [s EXCEPT !.running = FALSE,
              !.joinable = s.joinable /\ ~s.running,
              !.serial_fd = -1]

-----------------------------------------------------------------------------
(***************************************************************************)
(* MctpBridge::close.                                                      *)
(***************************************************************************)

\* Mutant of ClosedTable: MctpBridge leaves the kernel's link up.
ClosedTableKeepsLink ==
    Release(Release(Release(table, serial["tty"].serial_fd),
                    serial["linux"].serial_fd),
            linux_fd)

\* The table after linuxMctp.close(), mctpSerial.close(), linuxSerial.close()
\* and ::close(linux_fd).  What should be ::close(tty_fd) is ::close(linux_fd)
\* again, by then -1.
ClosedTable ==
    Release(Release(Release(Release(table, fd_), serial["tty"].serial_fd),
                    serial["linux"].serial_fd),
            linux_fd)

\* Mutant of CloseAll: the dispatch thread is told to stop and not joined.
CloseAllNoJoin ==
    /\ table' = ClosedTable
    /\ serial' = [x \in Link |-> ClosedSerial(serial[x])]
    /\ fd_' = -1
    /\ linux_fd' = -1
    /\ UNCHANGED <<bcastVars, ttyVars, tty_fd, dispatch>>

\* close() joins the dispatch thread first.  linuxMctp's name and its wait for
\* the network device are left out here.
CloseAll ==
    /\ table' = ClosedTable
    /\ serial' = [x \in Link |-> ClosedSerial(serial[x])]
    /\ fd_' = -1
    /\ linux_fd' = -1
    /\ dispatch' = FALSE
    /\ UNCHANGED <<bcastVars, ttyVars, tty_fd>>

\* close() called from open(), or by the owner of an open bridge.
Close ==
    /\ at = "close"
    /\ CloseAll
    /\ at' = then
    /\ then' = "closed"
    /\ UNCHANGED counters

CallClose ==
    /\ at = "open"
    /\ at' = "close" /\ then' = "closed"
    /\ UNCHANGED <<table, serial, fd_, bcastVars, ttyVars, bridgeVars,
                   dispatch, counters>>

-----------------------------------------------------------------------------
(***************************************************************************)
(* MctpBridge::open, one action per call it makes.                         *)
(***************************************************************************)

\* open() closes first, whatever the bridge has open.
Open ==
    /\ at \in {"closed", "open", "threw"}
    /\ opens < MaxOpens
    /\ opens' = opens + 1
    /\ at' = "close" /\ then' = "linuxSerial"
    /\ UNCHANGED <<table, serial, fd_, bcastVars, ttyVars, bridgeVars,
                   dispatch, faults, clients>>

\* linux_fd = linuxSerial.open(...): the result is not looked at.
OpenLinuxSerial ==
    /\ at = "linuxSerial"
    /\ \E result \in Fd \cup {-1} :
           /\ OpenSerialDone("linux", result) \/ OpenSerialFails("linux", result)
           /\ linux_fd' = result
    /\ at' = "linuxMctp"
    /\ UNCHANGED <<fd_, bcastVars, ttyVars, tty_fd, dispatch, then, opens,
                   clients>>

\* linuxMctp.initialize() throws: it cannot open or configure the pty, or
\* cannot name the interface, and closes it again; or it waits in vain for the
\* interface and leaves the pty open.  open() throws as well.
InitializeThrows ==
    /\ at = "linuxMctp"
    /\ Fault
    /\ \/ UNCHANGED <<table, fd_>>
       \/ fd_' = Lowest(table) /\ table' = Take(table, "linuxMctp")
    /\ at' = "threw"
    /\ UNCHANGED <<serial, bcastVars, ttyVars, bridgeVars, dispatch, then,
                   opens, clients>>

Initialize ==
    /\ at = "linuxMctp"
    /\ fd_' = Lowest(table) /\ table' = Take(table, "linuxMctp")
    /\ at' = "bcast"
    /\ UNCHANGED <<serial, bcastVars, ttyVars, bridgeVars, dispatch, then,
                   counters>>

\* bcast.setup(): the old listenFd is overwritten.
SetupBcast ==
    /\ at = "bcast"
    /\ listenFd' = Lowest(table) /\ table' = Take(table, "listen")
    /\ state' = "Listening"
    /\ at' = "setTty"
    /\ UNCHANGED <<serial, fd_, connFd, ttyVars, bridgeVars, dispatch, then,
                   counters>>

\* No socket, or it cannot be bound, or not listened on: open() closes
\* everything and returns false.
SetupBcastFails ==
    /\ at = "bcast"
    /\ Fault
    /\ listenFd' = -1
    /\ state' \in {state, "Bound"}
    /\ at' = "close" /\ then' = "closed"
    /\ UNCHANGED <<table, serial, fd_, connFd, ttyVars, bridgeVars, dispatch,
                   opens, clients>>

\* The device it has open, or no descriptor at all.
IsDevice(n) == n \in Fd => table[n] \in {"free", "device"}

\* The history of the number that the constructor left unset.
SetsRealFd == unset' = FALSE /\ strayed' = (strayed \/ (unset /\ ~IsDevice(real_fd)))

\* setTty(): closes what real_fd names, opens the device.
SetTty ==
    /\ at = "setTty"
    /\ LET t == Release(table, real_fd)
       IN  real_fd' = Lowest(t) /\ table' = Take(t, "device")
    /\ SetsRealFd
    /\ crossed' = (crossed \/ real_fd' = serial["linux"].pipeRead)
    /\ at' = "mctpSerial"
    /\ UNCHANGED <<serial, fd_, bcastVars, bridgeVars, dispatch, then,
                   counters>>

\* Mutant of SetTtyThrows: the device stays open when it cannot be configured.
SetTtyThrowsOpen ==
    /\ at = "setTty"
    /\ Fault
    /\ table' = Take(Release(table, real_fd), "device")
    /\ real_fd' = -1
    /\ SetsRealFd
    /\ at' = "threw"
    /\ UNCHANGED <<serial, fd_, bcastVars, crossed, bridgeVars, dispatch, then,
                   opens, clients>>

\* Mutant of SetTtyThrows: the number of the device that was closed stays.
SetTtyThrowsKeepsFd ==
    /\ at = "setTty"
    /\ Fault
    /\ table' = Release(table, real_fd)
    /\ SetsRealFd
    /\ at' = "threw"
    /\ UNCHANGED <<serial, fd_, bcastVars, real_fd, crossed, bridgeVars, dispatch,
                   then, opens, clients>>

\* The device cannot be opened or configured: open() throws.
SetTtyThrows ==
    /\ at = "setTty"
    /\ Fault
    /\ table' = Release(table, real_fd)
    /\ real_fd' = -1
    /\ SetsRealFd
    /\ at' = "threw"
    /\ UNCHANGED <<serial, fd_, bcastVars, crossed, bridgeVars, dispatch, then,
                   opens, clients>>

\* tty_fd = mctpSerial.open(...): if it is negative open() closes everything
\* and goes on all the same.
OpenMctpSerial ==
    /\ at = "mctpSerial"
    /\ \E result \in Fd \cup {-1} :
           /\ OpenSerialDone("tty", result) \/ OpenSerialFails("tty", result)
           /\ tty_fd' = result
           /\ at' = IF result < 0 THEN "close" ELSE "start"
    /\ then' = IF at' = "close" THEN "start" ELSE then
    /\ UNCHANGED <<fd_, bcastVars, ttyVars, linux_fd, dispatch, opens, clients>>

\* The dispatch thread starts and open() returns true.
Start ==
    /\ at = "start"
    /\ at' = "open"
    /\ dispatch' = TRUE
    /\ UNCHANGED <<table, serial, fd_, bcastVars, ttyVars, bridgeVars, then,
                   counters>>

-----------------------------------------------------------------------------
(***************************************************************************)
(* The dispatch thread, as far as it opens and closes descriptors.         *)
(***************************************************************************)

Connected == state = "Connected" /\ connFd >= 0

\* acceptConnection(): connFd is overwritten, with -1 when nobody waits.
AcceptConnection ==
    /\ dispatch /\ ~Connected /\ listenFd >= 0
    /\ \/ /\ clients < MaxClients
          /\ clients' = clients + 1
          /\ connFd' = Lowest(table) /\ table' = Take(table, "conn")
          /\ state' = "Connected"
       \/ /\ connFd' = -1
          /\ UNCHANGED <<table, state, clients>>
    /\ UNCHANGED <<serial, fd_, listenFd, ttyVars, bridgeVars, dispatch, at,
                   then, opens, faults>>

\* recvMessage() finds the end of the connection.
Disconnect ==
    /\ dispatch /\ Connected
    /\ table' = Release(table, connFd)
    /\ connFd' = -1 /\ state' = "Listening"
    /\ UNCHANGED <<serial, fd_, listenFd, ttyVars, bridgeVars, dispatch, at,
                   then, counters>>

-----------------------------------------------------------------------------
Next ==
    \/ Open \/ CallClose \/ Close
    \/ OpenLinuxSerial
    \/ Initialize \/ InitializeThrows
    \/ SetupBcast \/ SetupBcastFails
    \/ SetTty \/ SetTtyThrows
    \/ OpenMctpSerial \/ Start
    \/ AcceptConnection \/ Disconnect

Spec == Init /\ [][Next]_vars

-----------------------------------------------------------------------------
(***************************************************************************)
(* Properties.                                                             *)
(***************************************************************************)

SerialType ==
    [serial_fd : Fd \cup {-1}, pipeRead : Fd \cup {-1},
     pipeWrite : Fd \cup {-1}, running : BOOLEAN, joinable : BOOLEAN]

\* Every variable holds a value of its type; as Lowest gives MaxFd + 1 when the
\* table is full, this says that MaxFd descriptors are enough.
TypeOK ==
    /\ table \in [Fd -> Role \cup {"free"}]
    /\ serial \in [Link -> SerialType]
    /\ {fd_, listenFd, connFd, linux_fd, tty_fd} \subseteq Fd \cup {-1}
    /\ state \in {"Idle", "Bound", "Listening", "Connected"}
    /\ real_fd \in Fd \cup {-1} \cup Uninit
    /\ {dispatch, crossed, unset, strayed} \subseteq BOOLEAN
    /\ {at, then} \subseteq {"closed", "threw", "close", "linuxSerial", "linuxMctp",
                             "bcast", "setTty", "mctpSerial", "start", "open"}
    /\ {opens, faults, clients} \subseteq Nat

\* An rx thread reads from its own serial link, never from a descriptor that
\* was closed or has become something else, through any sequence of open(),
\* failing open() and close().  Two known faults of the code are excepted: the
\* device that gets the number of linuxSerial's pipe, and a first setTty() that
\* closed a stranger's descriptor because real_fd was unset and happened to
\* hold its number; an unset real_fd that did no harm leaves the claim standing.
RxThreadHasItsLink ==
    \A x \in Link :
        serial[x].joinable /\ ~crossed /\ ~strayed =>
            /\ serial[x].serial_fd \in Fd
            /\ table[serial[x].serial_fd] = SerialOf[x]

\* No std::thread is assigned to while it is joinable, which would end the
\* process: whatever failed before, the old thread was joined.
NoThreadIsOverwritten ==
    /\ at = "linuxSerial" => ~serial["linux"].joinable
    /\ at = "mctpSerial" => ~serial["tty"].joinable
    /\ at = "start" => ~dispatch

\* After close() the bridge is down, whatever part of open() was done before:
\* no thread runs, the kernel's interface and both serial links are gone.
ClosedMeansDown ==
    at \in {"closed", "linuxSerial"} =>
        /\ ~dispatch
        /\ \A x \in Link : ~serial[x].joinable
        /\ \A n \in Fd : table[n] \notin {"linuxMctp", "linuxSerial", "mctpSerial"}

\* The numbers some object still has.
Held ==
    {fd_, listenFd, connFd, real_fd, linux_fd, tty_fd}
        \cup UNION {{serial[x].serial_fd, serial[x].pipeRead,
                     serial[x].pipeWrite} : x \in Link}

\* The only descriptors that no object knows of any more are sockets of
\* earlier opens: every other failing step gives back what it took.
OnlySocketsAreLost ==
    \A n \in Fd :
        table[n] \notin {"free", "inherited"} /\ n \notin Held =>
            table[n] \in {"listen", "conn"}

\* setTty() closes the device it had open, or, at its first call, the number
\* that the constructor left in real_fd, and nothing else: through any sequence
\* of opens that fail at any step the number it keeps is never a stale one.
\* After a stray first close, or a crossing with linuxSerial's pipe, the device
\* has a number that another object believes to be its own, and no such claim
\* is made.
InspectorClosesItsDevice ==
    [][\A n \in Fd :
          at = "setTty" /\ table'[n] # table[n] /\ ~crossed /\ ~strayed
             => table[n] \in {"free", "device"} \/ (unset /\ n = real_fd)]_vars

\* What MctpSerial promises of open() (MctpSerial.cpp:72, "read-end file
\* descriptor of internal pipe on success"): while the bridge is open and no
\* call has failed, run() selects on the two notification pipes.
SelectsOnPipes ==
    at = "open" /\ faults = 0 =>
        /\ linux_fd \in Fd /\ table[linux_fd] = PipeReadOf["linux"]
        /\ tty_fd \in Fd /\ table[tty_fd] = PipeReadOf["tty"]
=============================================================================
