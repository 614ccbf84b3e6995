--------------------------- MODULE InterfaceClaim ---------------------------
(***************************************************************************)
(* How a bridge gets, names and configures its network interface and its   *)
(* broadcast socket (LinuxMctpSerial::initialize and close, the requests   *)
(* of MctpNetlink, BcastMessenger::setup and cleanup, configure_mctp, and  *)
(* main, which calls them), when several bridge processes share a machine. *)
(*                                                                         *)
(* Setting the line discipline makes the kernel create an interface        *)
(* mctpserial<N>, N being the lowest number that no interface of the       *)
(* discipline has, whatever it was renamed to; the interface goes away     *)
(* with the discipline or the process.  The code is not told which one it  *)
(* got: it lists the interfaces before and afterwards.  A netlink request  *)
(* names its interface by an index that is looked up first, and the socket *)
(* is a file, /tmp/bcast_<name>, that anybody can unlink.  The rest of     *)
(* MctpBridge::open is taken to succeed or to end the process.             *)
(***************************************************************************)
EXTENDS Naturals, FiniteSets

CONSTANTS
    Bridge,         \* bridge processes
    Wanted,         \* names that may be asked for with --ifname, none of
                    \* them of the form of the kernel's
    Option,         \* what a bridge may be started with, see Options
    Retries,        \* how often a list is looked at, 50 in the code
    MaxStarts,      \* bound on the number of times a process is started
    MaxFaults       \* bound on calls that fail and processes that die

ASSUME ClaimAssumption ==
    /\ IsFiniteSet(Bridge)
    /\ Retries \in Nat \ {0}
    /\ {MaxStarts, MaxFaults} \subseteq Nat
    /\ {"mctpserial", ""} \cap Wanted = {}

\* Interface names: mctpserial<N>, or one that was asked for.
KernelName(n) == <<"mctpserial", n>>
Custom(w)     == <<w, 0>>
NoName        == <<"", 0>>
Number        == 0 .. Cardinality(Bridge) - 1
Name          == {KernelName(n) : n \in Number} \cup {Custom(w) : w \in Wanted}

\* What a command line may ask for: a name or none, and how much
\* configure_mctp has to do.
Options == [want : {Custom(w) : w \in Wanted} \cup {NoName},
            local : BOOLEAN, dest : BOOLEAN]

NoOption == [want |-> NoName, local |-> FALSE, dest |-> FALSE]

ASSUME OptionAssumption == Option \subseteq Options

\* An interface: its index, which is never used twice, its number and name,
\* the bridges whose EID it has, whether it is up, and the bridges whose
\* destination it has a route to.
NoDevice == [index |-> 0, number |-> 0, name |-> NoName, addr |-> {},
             up |-> FALSE, routes |-> {}]

VARIABLES
    dev,            \* the interface each process has created
    created,        \* interfaces created so far
    file,           \* whose listening socket /tmp/bcast_<name> names, if any
    pc,             \* where each process is
    opts,           \* its options
    before,         \* the interfaces it listed before
    tries,          \* how often it has looked since
    mctp_if_name,   \* the name it takes its interface to have
    index,          \* what if_nametoindex returned
    socketPath,     \* the name its broadcast socket was bound to
    alone,          \* history: no other process was on its way up or down
                    \* while this one took its names
    mixed,          \* history: some process has claimed an interface that it
                    \* had not created
    starts, faults

kernelVars == <<dev, created>>
socketVars == <<file, socketPath>>
claimVars  == <<before, tries, mctp_if_name>>
history    == <<alone, mixed>>
vars == <<kernelVars, socketVars, claimVars, pc, opts, index, history, starts,
          faults>>

Init ==
    /\ dev = [p \in Bridge |-> NoDevice]
    /\ created = 0
    /\ file = [n \in Name |-> {}]
    /\ pc = [p \in Bridge |-> "off"]
    /\ opts = [p \in Bridge |-> NoOption]
    /\ before = [p \in Bridge |-> {}]
    /\ tries = [p \in Bridge |-> 0]
    /\ mctp_if_name = [p \in Bridge |-> NoName]
    /\ index = [p \in Bridge |-> 0]
    /\ socketPath = [p \in Bridge |-> NoName]
    /\ alone = [p \in Bridge |-> FALSE]
    /\ mixed = FALSE
    /\ starts = 0 /\ faults = 0

-----------------------------------------------------------------------------
(***************************************************************************)
(* The kernel.                                                             *)
(***************************************************************************)

Devices == {p \in Bridge : dev[p] # NoDevice}
Names   == {dev[p].name : p \in Devices}

\* list_mctp_devices(): the names of the form mctpserial<N>; an interface that
\* was renamed is not among them.
Listed == Names \cap {KernelName(n) : n \in Number}

FreeNumber ==
    CHOOSE n \in Number :
        /\ \A q \in Devices : dev[q].number # n
        /\ \A k \in 0 .. n - 1 : \E q \in Devices : dev[q].number = k

IndexOf(name) ==
    IF name \in Names THEN (CHOOSE q \in {dev[p] : p \in Devices} :
                                q.name = name).index
                      ELSE 0

\* The process ends and all it had with it, its interface and its listening
\* socket included; a process that starts or ends leaves nobody alone who is
\* taking its names.  f is what the socket files name.
Claiming  == {"list", "bind", "wait", "rename", "sendRename", "setup"}
Disturbed == [q \in Bridge |-> alone[q] /\ pc[q] \notin Claiming]

Ends(p, f) ==
    /\ pc' = [pc EXCEPT ![p] = "off"]
    /\ dev' = [dev EXCEPT ![p] = NoDevice]
    /\ file' = [n \in Name |-> f[n] \ {p}]
    /\ opts' = [opts EXCEPT ![p] = NoOption]
    /\ before' = [before EXCEPT ![p] = {}]
    /\ tries' = [tries EXCEPT ![p] = 0]
    /\ mctp_if_name' = [mctp_if_name EXCEPT ![p] = NoName]
    /\ index' = [index EXCEPT ![p] = 0]
    /\ socketPath' = [socketPath EXCEPT ![p] = NoName]
    /\ alone' = [Disturbed EXCEPT ![p] = alone[p]]
    /\ UNCHANGED <<created, mixed, starts>>

\* An exception that nothing catches: no destructor runs.
Throws(p) == Ends(p, file)

Fault == faults < MaxFaults /\ faults' = faults + 1

\* One of the calls that throw fails (open, fcntl, tcgetattr, tcsetattr or
\* ioctl in initialize, those of setTty, accept), or the process is killed.
Dies(p) ==
    /\ pc[p] # "off"
    /\ Fault
    /\ Throws(p)

-----------------------------------------------------------------------------
(***************************************************************************)
(* LinuxMctpSerial::initialize, without the rename.                        *)
(***************************************************************************)

Start(p, o) ==
    /\ pc[p] = "off"
    /\ starts < MaxStarts
    /\ starts' = starts + 1
    /\ opts' = [opts EXCEPT ![p] = o]
    /\ pc' = [pc EXCEPT ![p] = "list"]
    /\ alone' = [Disturbed EXCEPT ![p] =
                    \A q \in Bridge : pc[q] \in {"off", "running"}]
    /\ UNCHANGED <<kernelVars, socketVars, claimVars, index, mixed, faults>>

\* Mutant of List: the interfaces that are there already are not looked at.
ListNothing(p) ==
    /\ pc[p] = "list"
    /\ pc' = [pc EXCEPT ![p] = "bind"]
    /\ UNCHANGED <<kernelVars, socketVars, claimVars, opts, index, history,
                   starts, faults>>

List(p) ==
    /\ pc[p] = "list"
    /\ before' = [before EXCEPT ![p] = Listed]
    /\ pc' = [pc EXCEPT ![p] = "bind"]
    /\ UNCHANGED <<kernelVars, socketVars, tries, mctp_if_name, opts, index,
                   history, starts, faults>>

NewDevice ==
    [NoDevice EXCEPT !.index = created + 1, !.number = FreeNumber,
                     !.name = KernelName(FreeNumber)]

\* Mutant of Bind: the list is taken once the line discipline is set.
BindThenList(p) ==
    /\ pc[p] = "bind"
    /\ dev' = [dev EXCEPT ![p] = NewDevice]
    /\ created' = created + 1
    /\ before' = [before EXCEPT ![p] = Listed \cup {NewDevice.name}]
    /\ pc' = [pc EXCEPT ![p] = "wait"]
    /\ UNCHANGED <<socketVars, tries, mctp_if_name, opts, index, history,
                   starts, faults>>

\* The tty is opened and configured and gets the MCTP line discipline.
Bind(p) ==
    /\ pc[p] = "bind"
    /\ dev' = [dev EXCEPT ![p] = NewDevice]
    /\ created' = created + 1
    /\ pc' = [pc EXCEPT ![p] = "wait"]
    /\ UNCHANGED <<socketVars, claimVars, opts, index, history, starts, faults>>

\* The first interface that was not there before is taken for the new one;
\* the directory may list it in any order.
Claim(p) ==
    /\ pc[p] = "wait"
    /\ \E d \in Listed \ before[p] :
           /\ mctp_if_name' = [mctp_if_name EXCEPT ![p] = d]
           /\ mixed' = (mixed \/ d # dev[p].name)
    /\ pc' = [pc EXCEPT ![p] =
                 IF opts[p].want # NoName THEN "rename" ELSE "setup"]
    /\ UNCHANGED <<kernelVars, socketVars, before, tries, opts, index, alone,
                   starts, faults>>

\* Mutant of LookAgain: without the limit of 50.
LookAgainForever(p) ==
    /\ pc[p] = "wait"
    /\ Listed \subseteq before[p]
    /\ tries' = [tries EXCEPT ![p] = @ + 1]
    /\ UNCHANGED <<kernelVars, socketVars, before, mctp_if_name, pc, opts,
                   index, history, starts, faults>>

\* None is new: it looks again after 100 ms, Retries times in all.
LookAgain(p) ==
    /\ pc[p] = "wait"
    /\ Listed \subseteq before[p]
    /\ tries[p] + 1 < Retries
    /\ tries' = [tries EXCEPT ![p] = @ + 1]
    /\ UNCHANGED <<kernelVars, socketVars, before, mctp_if_name, pc, opts,
                   index, history, starts, faults>>

TimesOut(p) ==
    /\ pc[p] = "wait"
    /\ Listed \subseteq before[p]
    /\ tries[p] + 1 >= Retries
    /\ Throws(p)
    /\ UNCHANGED faults

-----------------------------------------------------------------------------
(***************************************************************************)
(* Netlink requests: setMctpInterfaceName, and those of configure_mctp:    *)
(* setMctpLocalEid, setMctpInterfaceStatus, addMctpRoute.                  *)
(***************************************************************************)

Request == {"rename", "address", "up", "route"}
Sending == [rename |-> "sendRename", address |-> "sendAddress",
            up |-> "sendUp", route |-> "sendRoute"]

\* Where the process goes on when request r has been acknowledged.
Following(p, r) ==
    CASE r = "rename"  -> "setup"
      [] r = "address" -> "up"
      [] r = "up"      -> IF opts[p].dest THEN "route" ELSE "running"
      [] r = "route"   -> "running"

Proceeds(p, place) ==
    /\ pc' = [pc EXCEPT ![p] = place]
    /\ UNCHANGED <<kernelVars, socketVars, claimVars, opts, index, history,
                   starts>>

\* Mutant of Failed: configure_mctp goes on after a request that failed.
FailedGoesOn(p, r) ==
    IF r = "rename" THEN Throws(p) ELSE Proceeds(p, Following(p, r))

\* Request r has failed: a rename makes initialize throw; of the others
\* configure_mctp tells main, which warns and goes on.
Failed(p, r) == IF r = "rename" THEN Throws(p) ELSE Proceeds(p, "running")

\* if_nametoindex(): the request is sent unless there is no such interface.
Resolve(p, r) ==
    /\ pc[p] = r
    /\ mctp_if_name[p] \in Names
    /\ index' = [index EXCEPT ![p] = IndexOf(mctp_if_name[p])]
    /\ pc' = [pc EXCEPT ![p] = Sending[r]]
    /\ UNCHANGED <<kernelVars, socketVars, claimVars, opts, history, starts,
                   faults>>

NotFound(p, r) ==
    /\ pc[p] = r
    /\ mctp_if_name[p] \notin Names
    /\ Failed(p, r)
    /\ UNCHANGED faults

\* The kernel accepts request r of p for interface d.
Accepts(p, r, d) ==
    CASE r = "rename"  -> opts[p].want \notin Names
      [] r = "address" -> p \notin d.addr
      [] r = "up"      -> TRUE
      [] r = "route"   -> p \notin d.routes

Changed(p, r, d) ==
    CASE r = "rename"  -> [d EXCEPT !.name = opts[p].want]
      [] r = "address" -> [d EXCEPT !.addr = @ \cup {p}]
      [] r = "up"      -> [d EXCEPT !.up = TRUE]
      [] r = "route"   -> [d EXCEPT !.routes = @ \cup {p}]

\* The interface whose index was looked up is there and takes the request.
Takes(p, r) ==
    {q \in Devices : dev[q].index = index[p] /\ Accepts(p, r, dev[q])}

\* Mutant of Apply: the object keeps the name the kernel gave.
ApplyKeepsName(p, r) ==
    /\ pc[p] = Sending[r]
    /\ \E q \in Takes(p, r) : dev' = [dev EXCEPT ![q] = Changed(p, r, @)]
    /\ pc' = [pc EXCEPT ![p] = Following(p, r)]
    /\ UNCHANGED <<created, socketVars, claimVars, opts, index, history, starts,
                   faults>>

Apply(p, r) ==
    /\ pc[p] = Sending[r]
    /\ \E q \in Takes(p, r) : dev' = [dev EXCEPT ![q] = Changed(p, r, @)]
    /\ mctp_if_name' = [mctp_if_name EXCEPT ![p] =
                           IF r = "rename" THEN opts[p].want ELSE @]
    /\ pc' = [pc EXCEPT ![p] = Following(p, r)]
    /\ UNCHANGED <<created, socketVars, before, tries, opts, index, history,
                   starts, faults>>

\* The kernel refuses: the interface is gone, or the name, the address or the
\* route is there already.
Refused(p, r) ==
    /\ pc[p] = Sending[r]
    /\ Takes(p, r) = {}
    /\ Failed(p, r)
    /\ UNCHANGED faults

\* The socket fails before the request is sent.
RequestFails(p, r) ==
    /\ pc[p] = Sending[r]
    /\ Fault
    /\ Failed(p, r)

\* The request was carried out and recv() of the acknowledgement fails.
Unacknowledged(p, r) ==
    /\ pc[p] = Sending[r]
    /\ r # "rename"         \* the interface of a failed rename is gone at once
    /\ Fault
    /\ \E q \in Takes(p, r) : dev' = [dev EXCEPT ![q] = Changed(p, r, @)]
    /\ pc' = [pc EXCEPT ![p] = "running"]
    /\ UNCHANGED <<created, socketVars, claimVars, opts, index, history, starts>>

-----------------------------------------------------------------------------
(***************************************************************************)
(* The broadcast socket, and MctpBridge::close when main was interrupted   *)
(* or open() failed.                                                       *)
(***************************************************************************)

\* Mutant of Setup: the socket is called after the kernel's name.
SetupAutoName(p) ==
    /\ pc[p] = "setup"
    /\ LET name == IF dev[p] = NoDevice THEN mctp_if_name[p]
                                        ELSE KernelName(dev[p].number)
       IN  /\ file' = [file EXCEPT ![name] = {p}]
           /\ socketPath' = [socketPath EXCEPT ![p] = name]
    /\ pc' = [pc EXCEPT ![p] = IF opts[p].local THEN "address" ELSE "running"]
    /\ UNCHANGED <<kernelVars, claimVars, opts, index, history, starts, faults>>

\* setup(): whatever file has the name is unlinked, then the socket is bound.
Setup(p) ==
    /\ pc[p] = "setup"
    /\ file' = [file EXCEPT ![mctp_if_name[p]] = {p}]
    /\ socketPath' = [socketPath EXCEPT ![p] = mctp_if_name[p]]
    /\ pc' = [pc EXCEPT ![p] = IF opts[p].local THEN "address" ELSE "running"]
    /\ UNCHANGED <<kernelVars, claimVars, opts, index, history, starts, faults>>

\* LinuxMctpSerial::close() sets the line discipline back and closes the tty.
CloseLink(p) ==
    /\ dev' = [dev EXCEPT ![p] = NoDevice]
    /\ tries' = [tries EXCEPT ![p] = 0]
    /\ alone' = Disturbed
    /\ pc' = [pc EXCEPT ![p] = "vanish"]
    /\ UNCHANGED <<created, before, mctp_if_name, opts, index, socketPath, mixed,
                   starts>>

\* socket() fails, or bind() or listen() once the file has been unlinked.
SetupFails(p) ==
    /\ pc[p] = "setup"
    /\ Fault
    /\ file' \in {file, [file EXCEPT ![mctp_if_name[p]] = {}]}
    /\ CloseLink(p)

Stop(p) ==
    /\ pc[p] = "running"
    /\ CloseLink(p)
    /\ UNCHANGED <<file, faults>>

\* close() looks until the name has disappeared, Retries times at most.
Vanish(p) ==
    /\ pc[p] = "vanish"
    /\ tries' = [tries EXCEPT ![p] = (@ + 1) % Retries]
    /\ IF mctp_if_name[p] \notin Listed
         THEN /\ mctp_if_name' = [mctp_if_name EXCEPT ![p] = NoName]
              /\ pc' = [pc EXCEPT ![p] = "cleanup"]
         ELSE /\ UNCHANGED mctp_if_name
              /\ pc' = [pc EXCEPT ![p] =
                            IF tries[p] + 1 < Retries THEN @ ELSE "cleanup"]
    /\ UNCHANGED <<kernelVars, socketVars, before, opts, index, history, starts,
                   faults>>

\* The destructors: cleanup() unlinks socketPath, whoever's file it is by now.
Cleanup(p) ==
    /\ pc[p] = "cleanup"
    /\ Ends(p, [n \in Name |-> IF n = socketPath[p] THEN {} ELSE file[n]])
    /\ UNCHANGED faults

-----------------------------------------------------------------------------
Step(p) ==
    \/ List(p) \/ Bind(p) \/ Claim(p) \/ LookAgain(p) \/ TimesOut(p)
    \/ \E r \in Request :
           Resolve(p, r) \/ NotFound(p, r) \/ Apply(p, r) \/ Refused(p, r)
    \/ Setup(p) \/ Vanish(p) \/ Cleanup(p)

Fails(p) ==
    \/ Dies(p) \/ SetupFails(p)
    \/ \E r \in Request : RequestFails(p, r) \/ Unacknowledged(p, r)

Next ==
    \E p \in Bridge :
        \/ \E o \in Option : Start(p, o)
        \/ Step(p) \/ Fails(p) \/ Stop(p)

Spec == Init /\ [][Next]_vars

\* Processes run; nothing is asked of users, nor of failures.
FairSpec == Spec /\ \A p \in Bridge : WF_vars(Step(p))

-----------------------------------------------------------------------------
(***************************************************************************)
(* Properties.                                                             *)
(***************************************************************************)

Place == {"off", "list", "bind", "wait", "setup", "running", "vanish", "cleanup"}
             \cup Request \cup {Sending[r] : r \in Request}

\* Every variable holds a value of its type; in particular nobody looks for an
\* interface more than Retries times.
TypeOK ==
    /\ \A p \in Bridge :
           /\ dev[p].name \in Name \cup {NoName}
           /\ dev[p].index <= created
           /\ dev[p].addr \cup dev[p].routes \subseteq Bridge
    /\ file \in [Name -> SUBSET Bridge]
    /\ pc \in [Bridge -> Place]
    /\ opts \in [Bridge -> Option \cup {NoOption}]
    /\ before \in [Bridge -> SUBSET Name]
    /\ tries \in [Bridge -> 0 .. Retries - 1]
    /\ mctp_if_name \in [Bridge -> Name \cup {NoName}]
    /\ socketPath \in [Bridge -> Name \cup {NoName}]
    /\ index \in [Bridge -> Nat]
    /\ alone \in [Bridge -> BOOLEAN] /\ mixed \in BOOLEAN

\* A bridge whose claim is made.
Claimed(p) ==
    pc[p] \in {"setup", "running"} \cup Request \cup {Sending[r] : r \in Request}

\* A bridge that had the machine to itself while it took its names works on
\* the interface it created, under its present name, whatever others do later.
AloneClaimsItsOwn ==
    \A p \in Bridge :
        Claimed(p) /\ alone[p] => mctp_if_name[p] = dev[p].name

\* As long as nobody has claimed the wrong interface, an interface has a route
\* only when it is up and is up only when it has its bridge's address,
\* whichever request failed (mctp-bridge.cpp:85-88), and nobody else's address
\* or route.
ConfiguredInOrder ==
    ~mixed => \A p \in Devices :
        /\ dev[p].routes # {} => dev[p].up
        /\ dev[p].up => p \in dev[p].addr
        /\ dev[p].addr \cup dev[p].routes \subseteq {p}

\* Clients that connect to bcast_<its interface's name> reach bridge p.
Reachable(p) == file[mctp_if_name[p]] = {p}

\* A bridge that had the machine to itself while it took its names stays
\* reachable, whatever others do later, unless one of them claims wrongly.
AloneStaysReachable ==
    ~mixed => \A p \in Bridge : pc[p] = "running" /\ alone[p] => Reachable(p)

\* A bridge that starts comes to run, unless it is not alone, a call fails, or
\* its name is taken.
StartSucceeds ==
    \A p \in Bridge :
        pc[p] = "list" ~>
            \/ pc[p] = "running" \/ ~alone[p] \/ faults > 0
            \/ opts[p].want # NoName /\ opts[p].want \in Names
=============================================================================
