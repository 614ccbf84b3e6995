--------------------------- MODULE BusController ---------------------------
(***************************************************************************)
(* The Python side: MctpBusController, a singleton that makes one          *)
(* MctpSerialLink for each device and drives the mctpd service.            *)
(*                                                                         *)
(* A link starts a process "mctp link serial <device>", takes the network  *)
(* interface that appears for its own, brings it up and gives it an EID.   *)
(* One thread of Python code; beside it the processes it has started live  *)
(* and die, devices are unplugged and interfaces come from elsewhere.      *)
(*                                                                         *)
(* A dead process keeps its pid until Python reaps it.  subprocess does    *)
(* that whenever it starts another one, for all whose Popen objects are    *)
(* gone, and when a Popen object goes away.                                *)
(***************************************************************************)
EXTENDS Integers, Sequences, FiniteSets

CONSTANTS
    Device,             \* serial devices the search patterns may match
    EID,                \* addresses that exist
    EidRange,           \* ranges _configure_eid_range may come to
    MaxControllers,     \* bound on controllers made
    MaxName,            \* highest interface number
    MaxEvents           \* bound on deaths, unplugged devices and interfaces
                        \* that come from elsewhere

ASSUME ControllerAssumption ==
    /\ EidRange \subseteq SUBSET EID
    /\ "none" \notin EID \cup Device /\ "foreign" \notin Device
    /\ {MaxControllers, MaxName, MaxEvents} \subseteq Nat

Controller == 1 .. MaxControllers
Link == Controller \X Device        \* the link a controller makes of a device
Name == 0 .. MaxName                \* mctpserial<N>
none == "none"
noName == -1

VARIABLES
    \* MctpSerialLink: its two static lists and the fields of each object
    assigned_links, allocated_eids, eid, link_pid, link_name,
    \* MctpBusController: the static field and each object's list
    instance, serial_links,
    \* the Python thread: where it is, in whose method, what is left to do
    pc, me, eid_range, files, cur, next_eid, initial, previous_count, closing,
    outcome,            \* what has become of each controller
    \* the system
    proc,               \* each link's process
    iface,              \* what each interface belongs to, if it exists
    address,            \* the EIDs of each interface
    service,            \* whether mctpd is active
    plugged,            \* the devices that are there
    events,
    \* history
    alone,              \* the links made while nothing else was under way
    stale               \* a controller was closed that was closed already

linkVars   == <<assigned_links, allocated_eids, eid, link_pid, link_name>>
ctlVars    == <<instance, serial_links>>
localVars  == <<eid_range, files, cur, next_eid, initial, previous_count,
                closing>>
kernelVars == <<iface, address, plugged, events>>
vars == <<linkVars, ctlVars, pc, me, localVars, outcome, proc, kernelVars,
          service, alone, stale>>

noLink == <<0, none>>

Init ==
    /\ assigned_links = {} /\ allocated_eids = {}
    /\ eid = [l \in Link |-> none] /\ link_pid = {}
    /\ link_name = [l \in Link |-> noName]
    /\ instance = 0 /\ serial_links = [c \in Controller |-> <<>>]
    /\ pc = "idle" /\ me = 0
    /\ eid_range = {} /\ files = {} /\ cur = noLink /\ next_eid = none
    /\ initial = {} /\ previous_count = -1 /\ closing = <<>>
    /\ outcome = [c \in Controller |-> "new"]
    /\ proc = [l \in Link |-> none]
    /\ iface = [n \in Name |-> none] /\ address = [n \in Name |-> {}]
    /\ service \in BOOLEAN /\ plugged = Device /\ events = 0
    /\ alone = {} /\ stale = FALSE

-----------------------------------------------------------------------------
(***************************************************************************)
(* The system.                                                             *)
(***************************************************************************)

Interfaces == {n \in Name : iface[n] # none}

Holds(l) == proc[l] \in {"running", "term"}

\* The line discipline is set and the kernel makes an interface with the
\* lowest free number; a device that has one gets no other.
MayBind(l) == Holds(l) /\ l[2] \in plugged /\ \A n \in Name : iface[n] # l[2]

Binds(l) ==
    /\ MayBind(l)
    /\ Name \ Interfaces # {}
    /\ LET n == CHOOSE m \in Name \ Interfaces :
                    \A k \in Name \ Interfaces : m <= k
       IN  iface' = [iface EXCEPT ![n] = l[2]]
    /\ UNCHANGED <<linkVars, ctlVars, pc, me, localVars, outcome, proc, address,
                   service, plugged, events, alone, stale>>

Gone(d) ==
    /\ iface' = [n \in Name |-> IF iface[n] = d THEN none ELSE iface[n]]
    /\ address' = [n \in Name |-> IF iface[n] = d THEN {} ELSE address[n]]

\* A process ends: because it was told to, because its device is not there, or
\* for a reason of its own.  The last one on a device takes the interface along.
Dies(l) ==
    /\ Holds(l)
    /\ IF proc[l] = "term" \/ l[2] \notin plugged
         THEN UNCHANGED events
         ELSE events < MaxEvents /\ events' = events + 1
    /\ proc' = [proc EXCEPT ![l] = "zombie"]
    /\ IF \E k \in Link : k # l /\ k[2] = l[2] /\ Holds(k)
         THEN UNCHANGED <<iface, address>>
         ELSE Gone(l[2])
    /\ UNCHANGED <<linkVars, ctlVars, pc, me, localVars, outcome, service,
                   plugged, alone, stale>>

\* A device is unplugged: its interface goes, its process does not notice.
Unplug(d) ==
    /\ d \in plugged /\ events < MaxEvents
    /\ plugged' = plugged \ {d} /\ events' = events + 1
    /\ Gone(d)
    /\ UNCHANGED <<linkVars, ctlVars, pc, me, localVars, outcome, proc, service,
                   alone, stale>>

\* Another program makes an interface.
Foreign(n) ==
    /\ iface[n] = none /\ events < MaxEvents
    /\ events' = events + 1
    /\ iface' = [iface EXCEPT ![n] = "foreign"]
    /\ alone' = alone \ {cur}
    /\ UNCHANGED <<linkVars, ctlVars, pc, me, localVars, outcome, proc, address,
                   service, plugged, stale>>

\* What subprocess does before it starts a process.
Reaped == [l \in Link |-> IF proc[l] = "zombie" /\ l # cur THEN "gone" ELSE proc[l]]

-----------------------------------------------------------------------------
(***************************************************************************)
(* MctpSerialLink.                                                         *)
(***************************************************************************)

\* os.kill() by close(): a zombie takes the signal, a pid that was reaped
\* raises ProcessLookupError.
Killed(p, l) == IF p[l] = "running" THEN [p EXCEPT ![l] = "term"] ELSE p

\* The constructor or close() is left, and its local variables are gone.
Returns ==
    /\ pc' = "idle" /\ me' = 0
    /\ eid_range' = {} /\ files' = {} /\ closing' = <<>>
    /\ cur' = noLink /\ next_eid' = none /\ initial' = {} /\ previous_count' = -1

\* Mutant of Raises: a link that was not finished has no __del__.
RaisesOnly(p) ==
    /\ proc' = p
    /\ link_pid' = link_pid \ {cur}
    /\ link_name' = IF cur = noLink THEN link_name
                    ELSE [link_name EXCEPT ![cur] = noName]
    /\ outcome' = [outcome EXCEPT ![me] = "failed"]
    /\ Returns

\* The constructor of the controller is left by an exception.  The controller
\* and a link that was not finished go away; only the link has a __del__, which
\* kills its process.  The links before it stay in _assigned_links.
Raises(p) ==
    /\ proc' = IF cur \in link_pid
                 THEN [Killed(p, cur) EXCEPT ![cur] = IF @ = "zombie" THEN "gone" ELSE @]
                 ELSE p
    /\ link_pid' = link_pid \ {cur}
    /\ link_name' = IF cur = noLink THEN link_name
                    ELSE [link_name EXCEPT ![cur] = noName]
    /\ outcome' = [outcome EXCEPT ![me] = "failed"]
    /\ Returns

\* The loop over file_list takes its next device, in the order of a set.
NextLink ==
    /\ pc = "loop" /\ files # {}
    /\ \E d \in files :
          /\ files' = files \ {d}
          /\ cur' = <<me, d>>
    /\ pc' = "link"
    /\ UNCHANGED <<linkVars, ctlVars, me, eid_range, next_eid, initial,
                   previous_count, closing, outcome, proc, kernelVars, service, alone,
                   stale>>

\* Mutant of FreeEids: EIDs that were allocated are not left out.
AllEids == eid_range

\* Mutant of FreeEids: nobody looks whether an EID is left.
SomeEid == IF eid_range \subseteq allocated_eids THEN {none}
           ELSE eid_range \ allocated_eids

FreeEids == eid_range \ allocated_eids

\* No EID is left, or the device is not there.
Unlinkable ==
    /\ pc = "link"
    /\ FreeEids = {} \/ cur[2] \notin plugged
    /\ Raises(proc)
    /\ UNCHANGED <<assigned_links, allocated_eids, eid, ctlVars, kernelVars,
                   service, alone, stale>>

\* An EID, and the interfaces there are before the process is started.
List ==
    /\ pc = "link"
    /\ cur[2] \in plugged
    /\ \E e \in FreeEids : next_eid' = e
    /\ initial' = Interfaces
    /\ proc' = Reaped
    /\ alone' = IF \E l \in Link : MayBind(l) THEN alone ELSE alone \cup {cur}
    /\ pc' = "popen"
    /\ UNCHANGED <<linkVars, ctlVars, me, eid_range, files, cur, previous_count,
                   closing, outcome, kernelVars, service, stale>>

Popen ==
    /\ pc = "popen"
    /\ proc' = [Reaped EXCEPT ![cur] = "running"]
    /\ link_pid' = link_pid \cup {cur}
    /\ pc' = "wait"
    /\ UNCHANGED <<assigned_links, allocated_eids, eid, link_name, ctlVars, me,
                   localVars, outcome, kernelVars, service, alone, stale>>

\* Mutant of NewInterfaces: those listed before are not left out.
AnyInterface == Interfaces

NewInterfaces == Interfaces \ initial

\* _wait_for_new_interface: any interface that was not listed before.
Claim ==
    /\ pc = "wait"
    /\ proc' = Reaped
    /\ \E n \in NewInterfaces : link_name' = [link_name EXCEPT ![cur] = n]
    /\ pc' = "up"
    /\ UNCHANGED <<assigned_links, allocated_eids, eid, link_pid, ctlVars, me,
                   localVars, outcome, kernelVars, service, alone, stale>>

\* It has waited for two seconds.
Timeout ==
    /\ pc = "wait"
    /\ Raises(Reaped)
    /\ UNCHANGED <<assigned_links, allocated_eids, eid, ctlVars, kernelVars,
                   service, alone, stale>>

\* mctp link set <name> up.
Up ==
    /\ pc = "up" /\ link_name[cur] \in Interfaces
    /\ proc' = Reaped
    /\ pc' = "address"
    /\ UNCHANGED <<linkVars, ctlVars, me, localVars, outcome, kernelVars,
                   service, alone, stale>>

\* mctp address add <eid> dev <name>.  With the link finished its Popen object
\* goes away.
Finish ==
    /\ pc = "address" /\ link_name[cur] \in Interfaces
    /\ address' = [address EXCEPT ![link_name[cur]] = @ \cup {next_eid}]
    /\ assigned_links' = assigned_links \cup {cur}
    /\ eid' = [eid EXCEPT ![cur] = next_eid]
    /\ allocated_eids' = allocated_eids \cup {next_eid}
    /\ serial_links' = [serial_links EXCEPT ![me] = Append(@, cur)]
    /\ proc' = [Reaped EXCEPT ![cur] = IF @ = "zombie" THEN "gone" ELSE @]
    /\ cur' = noLink /\ next_eid' = none /\ initial' = {}
    /\ pc' = "loop"
    /\ UNCHANGED <<link_pid, link_name, instance, me, eid_range, files,
                   previous_count, closing, outcome, iface, plugged, events,
                   service, alone, stale>>

\* Either command fails; it always does when the interface has gone.
CommandFails ==
    /\ pc \in {"up", "address"}
    /\ Raises(Reaped)
    /\ UNCHANGED <<assigned_links, allocated_eids, eid, ctlVars, kernelVars,
                   service, alone, stale>>

-----------------------------------------------------------------------------
(***************************************************************************)
(* MctpBusController.                                                      *)
(***************************************************************************)

\* Mutant of Refused: the singleton is not enforced.
RefusedInput(r, found) == found = {} \/ Cardinality(found) > Cardinality(r)

\* The assertions of the constructor.
Refused(r, found) ==
    instance # 0 \/ found = {} \/ Cardinality(found) > Cardinality(r)

\* The constructor up to the loop over the devices.  What goes wrong in
\* _configure_eid_range is printed and leaves the range empty.
New(c) ==
    /\ pc = "idle" /\ outcome[c] = "new"
    /\ \A b \in 1 .. c - 1 : outcome[b] # "new"
    /\ \E r \in EidRange, found \in SUBSET plugged :
          IF Refused(r, found)
            THEN /\ outcome' = [outcome EXCEPT ![c] = "failed"]
                 /\ UNCHANGED <<pc, me, eid_range, files>>
            ELSE /\ outcome' = [outcome EXCEPT ![c] = "making"]
                 /\ pc' = "loop" /\ me' = c /\ eid_range' = r /\ files' = found
    /\ UNCHANGED <<linkVars, ctlVars, cur, next_eid, initial, previous_count,
                   closing, proc, kernelVars, service, alone, stale>>

\* With all links made the service is stopped if it runs, and started; what
\* systemctl returns is not looked at.
StartService ==
    /\ pc = "loop" /\ files = {}
    /\ service' \in BOOLEAN
    /\ proc' = Reaped
    /\ pc' = "discover"
    /\ UNCHANGED <<linkVars, ctlVars, me, localVars, outcome, kernelVars, alone,
                   stale>>

\* discover_endpoints() counts the endpoints: as many as the last time, or
\* another number, which may be the last one 30 seconds allow.
Discover ==
    /\ pc = "discover" /\ service
    /\ \E n \in 0 .. Len(serial_links[me]) :
          IF n = previous_count
            THEN /\ instance' = me
                 /\ outcome' = [outcome EXCEPT ![me] = "live"]
                 /\ Returns
            ELSE /\ previous_count' = n
                 /\ \/ pc' = "discover" /\ UNCHANGED closing
                    \/ pc' = "close" /\ closing' = serial_links[me]
                 /\ UNCHANGED <<instance, outcome, me, eid_range, files, cur,
                                next_eid, initial>>
    /\ UNCHANGED <<linkVars, serial_links, proc, kernelVars, service, alone,
                   stale>>

\* The system bus or the service does not answer.
DiscoverRaises ==
    /\ pc = "discover"
    /\ Raises(proc)
    /\ UNCHANGED <<assigned_links, allocated_eids, eid, ctlVars, kernelVars,
                   service, alone, stale>>

Live(c) == outcome[c] \in {"live", "stuck"}

\* close() by the user, who may have closed this controller before.
Close(c) ==
    /\ pc = "idle"
    /\ Live(c) \/ outcome[c] = "closed"
    /\ pc' = "close" /\ me' = c /\ closing' = serial_links[c]
    /\ stale' = (stale \/ ~Live(c))
    /\ UNCHANGED <<linkVars, ctlVars, eid_range, files, cur, next_eid, initial,
                   previous_count, outcome, proc, kernelVars, service, alone>>

\* close() of the next link.
CloseLink ==
    /\ pc = "close" /\ closing # <<>>
    /\ LET l == Head(closing)
       IN  /\ ~(l \in link_pid /\ proc[l] = "gone")
           /\ proc' = IF l \in link_pid THEN Killed(proc, l) ELSE proc
           /\ assigned_links' = assigned_links \ {l}
           /\ allocated_eids' = allocated_eids \ {eid[l]}
           /\ link_pid' = link_pid \ {l}
           /\ eid' = [eid EXCEPT ![l] = none]
           /\ link_name' = [link_name EXCEPT ![l] = noName]
    /\ closing' = Tail(closing)
    /\ UNCHANGED <<ctlVars, pc, me, eid_range, files, cur, next_eid, initial,
                   previous_count, outcome, kernelVars, service, alone, stale>>

\* Its pid is not there any more: os.kill raises, and close() is left there.
CloseRaises ==
    /\ pc = "close" /\ closing # <<>>
    /\ Head(closing) \in link_pid /\ proc[Head(closing)] = "gone"
    /\ outcome' = [outcome EXCEPT
                     ![me] = IF @ = "making" THEN "failed" ELSE "stuck"]
    /\ Returns
    /\ UNCHANGED <<linkVars, ctlVars, proc, kernelVars, service, alone, stale>>

\* All links are closed.  _instance is reset, whoever it is.
CloseEnds ==
    /\ pc = "close" /\ closing = <<>>
    /\ serial_links' = [serial_links EXCEPT ![me] = <<>>]
    /\ proc' = Reaped
    /\ service' = FALSE
    /\ instance' = 0
    /\ outcome' = [outcome EXCEPT
                     ![me] = IF @ = "making" THEN "undone" ELSE "closed"]
    /\ Returns
    /\ UNCHANGED <<linkVars, kernelVars, alone, stale>>

-----------------------------------------------------------------------------
Python ==
    \/ NextLink \/ Unlinkable \/ List \/ Popen \/ Claim \/ Timeout
    \/ Up \/ Finish \/ CommandFails
    \/ StartService \/ Discover \/ DiscoverRaises
    \/ CloseLink \/ CloseRaises \/ CloseEnds

User == \E c \in Controller : New(c) \/ Close(c)

System ==
    \/ \E l \in Link : Binds(l) \/ Dies(l)
    \/ \E d \in Device : Unplug(d)
    \/ \E n \in Name : Foreign(n)

Next == Python \/ User \/ System

Spec == Init /\ [][Next]_vars

-----------------------------------------------------------------------------
(***************************************************************************)
(* Properties.                                                             *)
(***************************************************************************)

\* Every variable holds a value of its type.
TypeOK ==
    /\ assigned_links \subseteq Link /\ allocated_eids \subseteq EID
    /\ eid \in [Link -> EID \cup {none}] /\ link_pid \subseteq Link
    /\ link_name \in [Link -> Name \cup {noName}]
    /\ instance \in Controller \cup {0}
    /\ serial_links \in [Controller -> Seq(Link)] /\ closing \in Seq(Link)
    /\ pc \in {"idle", "loop", "link", "popen", "wait", "up", "address",
               "discover", "close"}
    /\ me \in Controller \cup {0} /\ cur \in Link \cup {noLink}
    /\ eid_range \subseteq EID /\ files \subseteq Device
    /\ next_eid \in EID \cup {none} /\ initial \subseteq Name
    /\ previous_count \in Int
    /\ outcome \in [Controller -> {"new", "making", "live", "failed", "closed",
                                   "undone", "stuck"}]
    /\ proc \in [Link -> {none, "running", "term", "zombie", "gone"}]
    /\ iface \in [Name -> Device \cup {none, "foreign"}]
    /\ address \in [Name -> SUBSET EID]
    /\ service \in BOOLEAN /\ plugged \subseteq Device /\ events \in Nat
    /\ alone \subseteq Link /\ stale \in BOOLEAN

\* An EID belongs to one link: the two static lists agree, whichever
\* constructors failed and whichever links were closed in between.
EidsAreUnique ==
    /\ allocated_eids = {eid[l] : l \in assigned_links}
    /\ \A k, l \in assigned_links : eid[k] = eid[l] => k = l

\* Nothing is left behind.  A process that was not told to end is that of a
\* link in _assigned_links or of the one being made; close() returns with all
\* links of its controller given up; and it is left half-way only by a link
\* whose process had died and been reaped.
NothingIsLeft ==
    /\ \A l \in Link : proc[l] = "running" => l = cur \/ l \in assigned_links
    /\ \A l \in assigned_links : outcome[l[1]] \notin {"closed", "undone"}
    /\ \A c \in Controller :
          outcome[c] = "stuck" => \E l \in link_pid : l[1] = c /\ proc[l] = "gone"

\* There is one controller at a time, with mctpd running, unless the user has
\* closed one a second time.
OneController ==
    ~stale =>
        /\ \A c \in Controller : Live(c) => instance = c /\ service
        /\ instance # 0 => Live(instance)

\* A link that was made while no other interface came or went has its own
\* interface and its EID, as long as its process and its device are there.
AloneHasItsInterface ==
    \A l \in assigned_links \cap alone :
        proc[l] = "running" /\ l[2] \in plugged =>
            /\ link_name[l] \in Interfaces
            /\ iface[link_name[l]] = l[2]
            /\ address[link_name[l]] = {eid[l]}
=============================================================================
