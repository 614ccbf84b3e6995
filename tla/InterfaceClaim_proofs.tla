----------------------- MODULE InterfaceClaim_proofs -----------------------
(***************************************************************************)
(* Theorems about InterfaceClaim, for any number of bridge processes,      *)
(* names, options, starts and failures: which interface a bridge takes for *)
(* its own, how it is configured, and whom its socket reaches.             *)
(***************************************************************************)
EXTENDS InterfaceClaim, FiniteSetTheorems, TLAPS

-----------------------------------------------------------------------------
(***************************************************************************)
(* The invariant.                                                          *)
(***************************************************************************)

Customs == {Custom(w) : w \in Wanted}
Sent    == {Sending[r] : r \in Request}

\* An interface, or none.
DeviceType ==
    [index : Nat, number : Nat, name : Name \cup {NoName},
     addr : SUBSET Bridge, up : BOOLEAN, routes : SUBSET Bridge]

Types == TypeOK /\ dev \in [Bridge -> DeviceType] /\ created \in Nat

\* Where a process is while it has no interface.
Unlinked == {"off", "list", "bind", "vanish", "cleanup"}

\* A process has an interface between Bind and close(), called by its own
\* number or by a name that was asked for; an index, a number or a name means
\* one interface.  Only who asked for a name renames.
Interfaces ==
    /\ \A p \in Bridge : dev[p] = NoDevice <=> pc[p] \in Unlinked
    /\ \A p \in Devices :
          /\ dev[p].index \in 1 .. created
          /\ dev[p].name \in Customs \cup {KernelName(dev[p].number)}
    /\ \A p, q \in Devices :
          p # q => /\ dev[p].index # dev[q].index
                   /\ dev[p].number # dev[q].number
                   /\ dev[p].name # dev[q].name
    /\ \A p \in Bridge :
          pc[p] \in {"rename", "sendRename"} => opts[p].want # NoName

\* What p knows while it is alone.
OwnNames(p) ==
    /\ pc[p] \in Claiming => \A q \in Bridge \ {p} : pc[q] \in {"off", "running"}
    /\ pc[p] = "bind" => before[p] = Listed
    /\ pc[p] = "wait" => /\ dev[p].name = KernelName(dev[p].number)
                         /\ before[p] = Listed \ {dev[p].name}
    /\ Claimed(p) => mctp_if_name[p] = dev[p].name
    /\ pc[p] = "sendRename" => index[p] = dev[p].index

\* Whoever starts after p has its names takes other ones.
Spared(p, q) ==
    /\ pc[q] \in {"bind", "wait"} => dev[p].name \in before[q] \cup Customs
    /\ Claimed(q) /\ pc[q] # "running" => mctp_if_name[q] # dev[p].name
    /\ pc[q] \in Sent => index[q] # dev[p].index

Alone ==
    \A p \in Bridge : alone[p] =>
        /\ OwnNames(p)
        /\ Claimed(p) => \A q \in Bridge \ {p} : Spared(p, q)

\* A bridge names its own interface in its requests.
KnowsItsOwn(p) ==
    /\ Claimed(p) => mctp_if_name[p] = dev[p].name
    /\ pc[p] \in Sent => index[p] = dev[p].index

\* What comes before the request p is at has been done to p's interface, by p.
InOrder(p) ==
    /\ pc[p] \in {"up", "sendUp", "route", "sendRoute"} => p \in dev[p].addr
    /\ pc[p] \in {"route", "sendRoute"} => dev[p].up
    /\ dev[p].routes # {} => dev[p].up
    /\ dev[p].up => p \in dev[p].addr
    /\ dev[p].addr \cup dev[p].routes \subseteq {p}

Unmixed == ~mixed => \A p \in Bridge : KnowsItsOwn(p) /\ InOrder(p)

\* A socket has the name of its bridge's interface, and the file of a bridge
\* that was alone is its own: nobody else has ever bound that name.
PathOf(p) ==
    /\ pc[p] \in Claiming \cup {"off"} => socketPath[p] = NoName
    /\ Claimed(p) /\ pc[p] \notin Claiming => socketPath[p] = mctp_if_name[p]

HasItsFile(p) ==
    /\ \A q \in Bridge \ {p} : socketPath[q] # dev[p].name
    /\ pc[p] \notin Claiming => file[dev[p].name] = {p}

Sockets ==
    /\ \A p \in Bridge : PathOf(p)
    /\ ~mixed => \A p \in Bridge : alone[p] /\ Claimed(p) => HasItsFile(p)

ClaimInv == Types /\ Interfaces /\ Alone /\ Unmixed /\ Sockets

-----------------------------------------------------------------------------
(***************************************************************************)
(* Names, numbers and places.                                              *)
(***************************************************************************)

\* A kernel's name is no name that was asked for, and neither is empty.
LEMMA NamesDiffer ==
  /\ \A m, n : KernelName(m) = KernelName(n) => m = n
  /\ \A n : KernelName(n) \notin Customs /\ KernelName(n) # NoName
  /\ NoName \notin Name /\ NoName \notin Customs
  /\ Name = {KernelName(n) : n \in Number} \cup Customs
BY ClaimAssumption DEF KernelName, Custom, Customs, NoName, Name

\* Where a process is while its request is on its way, and what comes then.
LEMMA Places ==
  /\ Sent = {"sendRename", "sendAddress", "sendUp", "sendRoute"}
  /\ \A r \in Request : Sending[r] \in Sent
  /\ \A r \in Request : /\ Sending[r] = "sendRename" <=> r = "rename"
                        /\ Sending[r] = "sendAddress" <=> r = "address"
                        /\ Sending[r] = "sendUp" <=> r = "up"
                        /\ Sending[r] = "sendRoute" <=> r = "route"
  /\ \A p : Following(p, "rename") = "setup" /\ Following(p, "address") = "up"
            /\ Following(p, "up") \in {"route", "running"}
            /\ Following(p, "route") = "running"
  /\ \A p : Claimed(p) <=> pc[p] \in {"setup", "running", "rename", "address",
                                      "up", "route"} \cup Sent
<1>1. Sent = {"sendRename", "sendAddress", "sendUp", "sendRoute"}
  BY DEF Sent, Sending, Request
<1>2. \A r \in Request : /\ Sending[r] = "sendRename" <=> r = "rename"
                         /\ Sending[r] = "sendAddress" <=> r = "address"
                         /\ Sending[r] = "sendUp" <=> r = "up"
                         /\ Sending[r] = "sendRoute" <=> r = "route"
  BY DEF Sending, Request
<1>3. \A p : Following(p, "rename") = "setup" /\ Following(p, "address") = "up"
             /\ Following(p, "up") \in {"route", "running"}
             /\ Following(p, "route") = "running"
  BY DEF Following
<1>4. \A p : Claimed(p) <=> pc[p] \in {"setup", "running", "rename", "address",
                                       "up", "route"} \cup Sent
  BY DEF Claimed, Sent, Request
<1>5. \A r \in Request : Sending[r] \in Sent
  BY DEF Sent
<1> QED  BY <1>1, <1>2, <1>3, <1>4, <1>5

\* The fields of interfaces that are made and changed.
LEMMA DeviceFields ==
  /\ NoDevice.index = 0 /\ NoDevice.number = 0 /\ NoDevice.name = NoName
  /\ NoDevice.addr = {} /\ NoDevice.up = FALSE /\ NoDevice.routes = {}
  /\ NoDevice \in DeviceType
<1>1. NoDevice \in DeviceType
  BY DEF NoDevice, DeviceType
<1> QED  BY <1>1 DEF NoDevice

LEMMA NewDeviceFields ==
  ASSUME created \in Nat, FreeNumber \in Number
  PROVE  /\ NewDevice \in DeviceType
         /\ NewDevice.index = created + 1 /\ NewDevice.number = FreeNumber
         /\ NewDevice.name = KernelName(FreeNumber)
         /\ NewDevice.addr = {} /\ NewDevice.up = FALSE /\ NewDevice.routes = {}
<1>1. Number \subseteq Nat
  BY DEF Number
<1>2. KernelName(FreeNumber) \in Name
  BY NamesDiffer
<1> DEFINE n == NoDevice
           k == FreeNumber
           a == KernelName(FreeNumber)
           i == created + 1
<1>3. n \in DeviceType /\ k \in Nat /\ a \in Name /\ i \in Nat
  BY <1>1, <1>2, DeviceFields
<1>4. NewDevice = [n EXCEPT !.index = i, !.number = k, !.name = a]
  BY DEF NewDevice
<1>5. n.addr = {} /\ n.up = FALSE /\ n.routes = {}
  BY DeviceFields
<1> HIDE DEF n, k, a, i
<1>6. /\ NewDevice \in DeviceType
      /\ NewDevice.index = i /\ NewDevice.number = k /\ NewDevice.name = a
      /\ NewDevice.addr = {} /\ NewDevice.up = FALSE /\ NewDevice.routes = {}
  BY <1>3, <1>4, <1>5 DEF DeviceType
<1> QED  BY <1>6 DEF k, a, i

LEMMA ChangedFields ==
  ASSUME NEW p \in Bridge, NEW r \in Request, NEW d \in DeviceType,
         opts[p].want \in Name \cup {NoName}
  PROVE  /\ Changed(p, r, d) \in DeviceType
         /\ Changed(p, r, d).index = d.index
         /\ Changed(p, r, d).number = d.number
         /\ Changed(p, r, d).name = IF r = "rename" THEN opts[p].want ELSE d.name
         /\ Changed(p, r, d).addr = IF r = "address" THEN d.addr \cup {p} ELSE d.addr
         /\ Changed(p, r, d).up = IF r = "up" THEN TRUE ELSE d.up
         /\ Changed(p, r, d).routes =
               IF r = "route" THEN d.routes \cup {p} ELSE d.routes
<1>1. CASE r = "rename"
  BY <1>1 DEF Changed, DeviceType
<1>2. CASE r = "address"
  BY <1>2 DEF Changed, DeviceType
<1>3. CASE r = "up"
  BY <1>3 DEF Changed, DeviceType
<1>4. CASE r = "route"
  BY <1>4 DEF Changed, DeviceType
<1> QED  BY <1>1, <1>2, <1>3, <1>4 DEF Request

\* A set of natural numbers has a least element: of the intervals from 0 to a
\* member, the least by inclusion.
LEMMA LeastNatural ==
  ASSUME NEW S \in SUBSET Nat, S # {}
  PROVE  \E m \in S : \A k \in S : m <= k
<1> DEFINE Upto == {0 .. n : n \in S}
<1>1. Upto \subseteq FiniteSubsetsOf(Nat)
  <2>1. \A n \in S : IsFiniteSet(0 .. n)
    BY FS_Interval
  <2>2. \A n \in S : 0 .. n \subseteq Nat
    OBVIOUS
  <2> QED  BY <2>1, <2>2 DEF FiniteSubsetsOf
<1>2. Upto # {}
  OBVIOUS
<1>3. \E x \in Upto : \A y \in Upto : <<y, x>> \notin StrictSubsetOrdering(Nat)
  <2> HIDE DEF Upto
  <2> QED  BY <1>1, <1>2, FS_StrictSubsetOrderingWellFounded, WFMin
<1>4. PICK m \in S : \A k \in S : <<0 .. k, 0 .. m>> \notin StrictSubsetOrdering(Nat)
  BY <1>3
<1>5. ASSUME NEW k \in S, ~ (m <= k)
      PROVE  FALSE
  <2>1. 0 .. k \subseteq 0 .. m /\ m \in 0 .. m /\ m \notin 0 .. k
    BY <1>5
  <2>2. 0 .. k \in SUBSET Nat /\ 0 .. m \in SUBSET Nat
    OBVIOUS
  <2> QED  BY <1>4, <2>1, <2>2 DEF StrictSubsetOrdering
<1> QED  BY <1>5

\* There are fewer interfaces than processes while some process has none, so
\* that the kernel finds a number below their count.
LEMMA NumberIsFree ==
  ASSUME Types, NEW p \in Bridge, dev[p] = NoDevice
  PROVE  /\ FreeNumber \in Number
         /\ \A q \in Devices : dev[q].number # FreeNumber
<1> DEFINE Free == {n \in Number : \A q \in Devices : dev[q].number # n}
           f    == [n \in Number |-> CHOOSE q \in Devices : dev[q].number = n]
<1>1. IsFiniteSet(Bridge) /\ Cardinality(Bridge) \in Nat /\ Number \subseteq Nat
  <2>1. IsFiniteSet(Bridge)
    BY ClaimAssumption
  <2>2. Cardinality(Bridge) \in Nat
    BY <2>1, FS_CardinalityType
  <2> QED  BY <2>1, <2>2 DEF Number
<1>2. IsFiniteSet(Number) /\ Cardinality(Number) = Cardinality(Bridge)
  BY <1>1, FS_Interval DEF Number
<1>3. IsFiniteSet(Devices) /\ Cardinality(Devices) < Cardinality(Number)
  <2>1. /\ IsFiniteSet(Bridge \ {p})
        /\ Cardinality(Bridge \ {p}) = Cardinality(Bridge) - 1
    BY <1>1, FS_RemoveElement
  <2>2. Devices \in SUBSET (Bridge \ {p})
    BY DEF Devices
  <2>3. IsFiniteSet(Devices) /\ Cardinality(Devices) <= Cardinality(Bridge \ {p})
    BY <2>1, <2>2, FS_Subset
  <2>4. Cardinality(Devices) \in Nat
    BY <2>3, FS_CardinalityType
  <2> QED  BY <1>1, <1>2, <2>1, <2>3, <2>4
<1>4. Free # {}
  <2>1. SUFFICES ASSUME Free = {} PROVE FALSE
    OBVIOUS
  <2>2. \A n \in Number : f[n] \in Devices /\ dev[f[n]].number = n
    BY <2>1
  <2>3. f \in [Number -> Devices]
    BY <2>2
  <2> HIDE DEF f
  <2>4. \E x, y \in Number : x # y /\ f[x] = f[y]
    BY <1>2, <1>3, <2>3, FS_PigeonHole
  <2> QED  BY <2>2, <2>4
<1>5. PICK m \in Free : \A k \in Free : m <= k
  BY <1>1, <1>4, LeastNatural
<1>6. \A k \in 0 .. m - 1 : \E q \in Devices : dev[q].number = k
  <2>1. \A k \in 0 .. m - 1 : k \in Number /\ ~ (m <= k)
    BY <1>1 DEF Number
  <2> QED  BY <1>5, <2>1
<1> QED  BY <1>5, <1>6 DEF FreeNumber

\* An index that was looked up is that of the interface with the name.
LEMMA IndexOfName ==
  ASSUME Types, Interfaces, NEW name \in Names
  PROVE  /\ \E q \in Devices : dev[q].name = name /\ IndexOf(name) = dev[q].index
         /\ \A q \in Devices : IndexOf(name) = dev[q].index => dev[q].name = name
<1>1. PICK q \in Devices : dev[q].name = name
  BY DEF Names
<1>2. PICK d \in {dev[p] : p \in Devices} :
         d.name = name /\ IndexOf(name) = d.index
  BY <1>1 DEF IndexOf
<1>3. PICK s \in Devices : dev[s] = d
  BY <1>2
<1>4. \A t \in Devices : dev[t].index = dev[s].index => t = s
  BY DEF Interfaces
<1> QED  BY <1>2, <1>3, <1>4

\* The options of a process that runs.
LEMMA Wants ==
  ASSUME Types, NEW p \in Bridge
  PROVE  opts[p].want \in Customs \cup {NoName}
BY OptionAssumption DEF Types, TypeOK, Options, NoOption, Customs

-----------------------------------------------------------------------------
(***************************************************************************)
(* Steps that look alike.                                                  *)
(***************************************************************************)

\* The process ends.  Only cleanup() touches the files of others.
Leaves(p) ==
    /\ pc[p] # "off"
    /\ \E f \in {file, [n \in Name |-> IF n = socketPath[p] THEN {} ELSE file[n]]} :
          (pc[p] # "cleanup" => f = file) /\ Ends(p, f)

\* configure_mctp does not go on after a request that failed.
GivesUp(p) ==
    /\ pc[p] \in {"address", "up", "route"} \cup (Sent \ {"sendRename"})
    /\ Proceeds(p, "running")

\* The kernel carries out request r of p for the interface of q.
CarriesOut(p, r, q) ==
    /\ pc[p] = Sending[r] /\ q \in Takes(p, r)
    /\ dev' = [dev EXCEPT ![q] = Changed(p, r, dev[q])]
    /\ mctp_if_name' =
          IF r = "rename" THEN [mctp_if_name EXCEPT ![p] = opts[p].want]
                          ELSE mctp_if_name
    /\ \E x \in {Following(p, r), "running"} :
          (r = "rename" => x = "setup") /\ pc' = [pc EXCEPT ![p] = x]
    /\ UNCHANGED <<created, socketVars, before, tries, opts, index, history,
                   starts>>

\* close() of the link, by the user or after a setup() that failed.
Unlinks(p) ==
    /\ pc[p] \in {"setup", "running"}
    /\ file' = file \/ (pc[p] = "setup" /\
                        file' = [file EXCEPT ![mctp_if_name[p]] = {}])
    /\ CloseLink(p)

\* The steps that leave all interfaces as they are.
Quiet(p) ==
    \/ \E o \in Option : Start(p, o)
    \/ List(p) \/ Claim(p) \/ LookAgain(p) \/ GivesUp(p) \/ Setup(p) \/ Vanish(p)
    \/ \E r \in Request : Resolve(p, r)

Moves(p) ==
    \/ Leaves(p) \/ Quiet(p) \/ Bind(p) \/ Unlinks(p)
    \/ \E r \in Request, q \in Devices : CarriesOut(p, r, q)

LEMMA FailedSteps ==
  ASSUME NEW p \in Bridge, NEW r \in Request, pc[p] \in {r, Sending[r]},
         Failed(p, r)
  PROVE  Leaves(p) \/ GivesUp(p)
<1>1. CASE r = "rename"
  BY <1>1, Places DEF Failed, Throws, Leaves, Request
<1>2. CASE r # "rename"
  <2>1. pc[p] \in {"address", "up", "route"} \cup (Sent \ {"sendRename"})
    BY <1>2, Places DEF Request
  <2> QED  BY <1>2, <2>1 DEF Failed, GivesUp
<1> QED  BY <1>1, <1>2

LEMMA NextSteps ==
  ASSUME Types, [Next]_vars
  PROVE  UNCHANGED vars \/ \E p \in Bridge : Moves(p)
<1> SUFFICES ASSUME Next
             PROVE  \E p \in Bridge : Moves(p)
  OBVIOUS
<1> PICK p \in Bridge : \/ \E o \in Option : Start(p, o)
                        \/ Step(p) \/ Fails(p) \/ Stop(p)
  BY DEF Next
<1>1. CASE \/ \E o \in Option : Start(p, o)
           \/ List(p) \/ Claim(p) \/ LookAgain(p) \/ Setup(p) \/ Vanish(p)
           \/ \E r \in Request : Resolve(p, r)
  BY <1>1 DEF Quiet, Moves
<1>2. CASE TimesOut(p) \/ Dies(p) \/ Cleanup(p)
  BY <1>2 DEF TimesOut, Dies, Cleanup, Throws, Leaves, Moves
<1>3. CASE Bind(p)
  BY <1>3 DEF Moves
<1>4. CASE Stop(p) \/ SetupFails(p)
  BY <1>4 DEF Stop, SetupFails, Unlinks, Moves
<1>5. ASSUME NEW r \in Request, NotFound(p, r) \/ Refused(p, r) \/ RequestFails(p, r)
      PROVE  Leaves(p) \/ GivesUp(p)
  BY <1>5, FailedSteps DEF NotFound, Refused, RequestFails
<1>6. ASSUME NEW r \in Request, Apply(p, r)
      PROVE  \E q \in Devices : CarriesOut(p, r, q)
  <2>1. PICK q \in Takes(p, r) : dev' = [dev EXCEPT ![q] = Changed(p, r, @)]
    BY <1>6 DEF Apply
  <2>2. mctp_if_name \in [Bridge -> Name \cup {NoName}] /\ q \in Devices
    BY DEF Types, TypeOK, Takes
  <2>3. mctp_if_name' = IF r = "rename"
                          THEN [mctp_if_name EXCEPT ![p] = opts[p].want]
                          ELSE mctp_if_name
    BY <1>6, <2>2 DEF Apply
  <2>4. r = "rename" => Following(p, r) = "setup"
    BY Places
  <2> QED  BY <1>6, <2>1, <2>2, <2>3, <2>4 DEF Apply, CarriesOut
<1>7. ASSUME NEW r \in Request, Unacknowledged(p, r)
      PROVE  \E q \in Devices : CarriesOut(p, r, q)
  <2>1. PICK q \in Takes(p, r) : dev' = [dev EXCEPT ![q] = Changed(p, r, @)]
    BY <1>7 DEF Unacknowledged
  <2> QED
    BY <1>7, <2>1 DEF Unacknowledged, CarriesOut, claimVars, Takes
<1> QED
  BY <1>1, <1>2, <1>3, <1>4, <1>5, <1>6, <1>7 DEF Step, Fails, Quiet, Moves

-----------------------------------------------------------------------------
(***************************************************************************)
(* Each part of the invariant is kept.                                     *)
(***************************************************************************)

\* Who works on a request has an interface to find.
LEMMA HasPlace ==
  ASSUME Types, NEW p \in Bridge
  PROVE  /\ dev[p] \in DeviceType /\ mctp_if_name[p] \in Name \cup {NoName}
         /\ Listed \subseteq Name /\ Devices \subseteq Bridge
         /\ opts[p].want \in Name \cup {NoName}
<1>1. Listed \subseteq Name
  BY DEF Listed, Name
<1> QED  BY <1>1, Wants, NamesDiffer DEF Types, TypeOK, Devices

LEMMA DevicesKeepTypes ==
  ASSUME ClaimInv, [Next]_vars
  PROVE  /\ dev' \in [Bridge -> DeviceType] /\ created' \in Nat
         /\ \A p \in Bridge : dev'[p].index <= created'
<1> USE DEF ClaimInv
<1>0. /\ dev \in [Bridge -> DeviceType] /\ created \in Nat
      /\ \A p \in Bridge : dev[p].index <= created /\ dev[p].index \in Nat
  BY DEF Types, TypeOK, DeviceType
<1>1. CASE UNCHANGED vars
  BY <1>0, <1>1 DEF vars, kernelVars
<1>2. ASSUME NEW p \in Bridge, Leaves(p) \/ Unlinks(p)
      PROVE  /\ dev' \in [Bridge -> DeviceType] /\ created' \in Nat
             /\ \A s \in Bridge : dev'[s].index <= created'
  <2>1. dev' = [dev EXCEPT ![p] = NoDevice] /\ created' = created
    BY <1>2 DEF Leaves, Unlinks, Ends, CloseLink
  <2> QED  BY <1>0, <2>1, DeviceFields
<1>3. ASSUME NEW p \in Bridge, Quiet(p)
      PROVE  dev' = dev /\ created' = created
  BY <1>3
  DEF Quiet, Start, List, Claim, LookAgain, GivesUp, Proceeds, Setup, Vanish,
      Resolve, kernelVars
<1>4. ASSUME NEW p \in Bridge, Bind(p)
      PROVE  /\ dev' \in [Bridge -> DeviceType] /\ created' \in Nat
             /\ \A s \in Bridge : dev'[s].index <= created'
  <2>1. dev[p] = NoDevice
    BY <1>4 DEF Bind, Interfaces, Unlinked
  <2>2. NewDevice \in DeviceType /\ NewDevice.index = created + 1
    BY <2>1, NumberIsFree, NewDeviceFields DEF Types
  <2>3. dev' = [dev EXCEPT ![p] = NewDevice] /\ created' = created + 1
    BY <1>4 DEF Bind
  <2> QED  BY <1>0, <2>2, <2>3
<1>5. ASSUME NEW p \in Bridge, NEW r \in Request, NEW q \in Devices, CarriesOut(p, r, q)
      PROVE  /\ dev' \in [Bridge -> DeviceType] /\ created' \in Nat
             /\ \A s \in Bridge : dev'[s].index <= created'
  <2>1. q \in Bridge /\ dev[q] \in DeviceType /\ opts[p].want \in Name \cup {NoName}
    BY HasPlace DEF Devices
  <2>2. /\ Changed(p, r, dev[q]) \in DeviceType
        /\ Changed(p, r, dev[q]).index = dev[q].index
    BY <2>1, ChangedFields
  <2>3. dev' = [dev EXCEPT ![q] = Changed(p, r, dev[q])] /\ created' = created
    BY <1>5 DEF CarriesOut
  <2> QED  BY <1>0, <2>1, <2>2, <2>3
<1> QED
  BY <1>0, <1>1, <1>2, <1>3, <1>4, <1>5, NextSteps DEF Moves

LEMMA TypesStep ==
  ASSUME ClaimInv, [Next]_vars
  PROVE  Types'
<1> USE DEF ClaimInv, Types, TypeOK
<1>1. /\ dev' \in [Bridge -> DeviceType] /\ created' \in Nat
      /\ \A p \in Bridge : dev'[p].index <= created'
  BY DevicesKeepTypes
<1>2. \A p \in Bridge : /\ dev'[p].name \in Name \cup {NoName}
                        /\ dev'[p].addr \cup dev'[p].routes \subseteq Bridge
  BY <1>1 DEF DeviceType
<1> DEFINE Rest == /\ file' \in [Name -> SUBSET Bridge]
                   /\ pc' \in [Bridge -> Place]
                   /\ opts' \in [Bridge -> Option \cup {NoOption}]
                   /\ before' \in [Bridge -> SUBSET Name]
                   /\ tries' \in [Bridge -> 0 .. Retries - 1]
                   /\ mctp_if_name' \in [Bridge -> Name \cup {NoName}]
                   /\ socketPath' \in [Bridge -> Name \cup {NoName}]
                   /\ index' \in [Bridge -> Nat]
                   /\ alone' \in [Bridge -> BOOLEAN] /\ mixed' \in BOOLEAN
<1>3. /\ Sent \subseteq Place /\ Request \subseteq Place
      /\ {"off", "list", "bind", "wait", "setup", "running", "vanish", "cleanup",
          "rename", "address", "up", "route"} \subseteq Place
  BY DEF Place, Sent, Request
<1>4. 0 \in 0 .. Retries - 1 /\ Retries \in Nat \ {0}
  <2>1. Retries \in Nat \ {0}
    BY ClaimAssumption
  <2> QED  BY <2>1
<1>5. Disturbed \in [Bridge -> BOOLEAN]
  BY DEF Disturbed
<1>6. ASSUME NEW p \in Bridge, Leaves(p) PROVE Rest
  <2>1. PICK f \in {file, [n \in Name |-> IF n = socketPath[p] THEN {} ELSE file[n]]} :
           Ends(p, f)
    BY <1>6 DEF Leaves
  <2>2. f \in [Name -> SUBSET Bridge]
    BY <2>1
  <2>3. file' \in [Name -> SUBSET Bridge]
    BY <2>1, <2>2 DEF Ends
  <2> QED  BY <1>3, <1>4, <1>5, <2>1, <2>3 DEF Ends
<1>7. ASSUME NEW p \in Bridge, NEW o \in Option, Start(p, o) PROVE Rest
  BY <1>3, <1>5, <1>7 DEF Start, socketVars, claimVars
<1>8. ASSUME NEW p \in Bridge, List(p) PROVE Rest
  BY <1>3, <1>8, HasPlace DEF List, socketVars, history
<1>9. ASSUME NEW p \in Bridge, Bind(p) PROVE Rest
  BY <1>3, <1>9 DEF Bind, socketVars, claimVars, history
<1>10. ASSUME NEW p \in Bridge, Claim(p) PROVE Rest
  BY <1>3, <1>10, HasPlace DEF Claim, socketVars
<1>11. ASSUME NEW p \in Bridge, LookAgain(p) PROVE Rest
  BY <1>4, <1>11 DEF LookAgain, socketVars, history
<1>12. ASSUME NEW p \in Bridge, NEW r \in Request, Resolve(p, r) PROVE Rest
  <2>1. IndexOf(mctp_if_name[p]) \in Nat
    <3>1. PICK q \in Devices : IndexOf(mctp_if_name[p]) = dev[q].index
      BY <1>12, IndexOfName DEF Resolve
    <3> QED  BY <3>1 DEF Devices, DeviceType
  <2>2. Sending[r] \in Place
    BY <1>3, Places
  <2> QED  BY <1>12, <2>1, <2>2 DEF Resolve, socketVars, claimVars, history
<1>13. ASSUME NEW p \in Bridge, GivesUp(p) PROVE Rest
  BY <1>3, <1>13 DEF GivesUp, Proceeds, socketVars, claimVars, history
<1>14. ASSUME NEW p \in Bridge, NEW r \in Request, NEW q \in Devices, CarriesOut(p, r, q)
       PROVE Rest
  <2>1. Following(p, r) \in Place
    BY <1>3, Places DEF Request
  <2>2. opts[p].want \in Name \cup {NoName}
    BY HasPlace
  <2> QED  BY <1>3, <1>14, <2>1, <2>2 DEF CarriesOut, socketVars, history
<1>15. ASSUME NEW p \in Bridge, Setup(p) PROVE Rest
  BY <1>3, <1>15 DEF Setup, claimVars, history
<1>16. ASSUME NEW p \in Bridge, Unlinks(p) PROVE Rest
  <2>1. file' \in [Name -> SUBSET Bridge]
    BY <1>16 DEF Unlinks
  <2> QED  BY <1>3, <1>4, <1>5, <1>16, <2>1 DEF Unlinks, CloseLink
<1>17. ASSUME NEW p \in Bridge, Vanish(p) PROVE Rest
  <2>1. (tries[p] + 1) % Retries \in 0 .. Retries - 1
    BY <1>4
  <2> QED  BY <1>3, <1>17, <2>1 DEF Vanish, socketVars, history
<1>18. ASSUME UNCHANGED vars PROVE Rest
  BY <1>18 DEF vars, socketVars, claimVars, history
<1>19. Rest
  BY <1>6, <1>7, <1>8, <1>9, <1>10, <1>11, <1>12, <1>13, <1>14, <1>15, <1>16,
     <1>17, <1>18, NextSteps DEF Moves, Quiet
<1> QED  BY <1>1, <1>2, <1>19

LEMMA InterfacesStep ==
  ASSUME ClaimInv, [Next]_vars
  PROVE  Interfaces'
<1> USE DEF ClaimInv, Interfaces, Devices
<1>0. /\ dev \in [Bridge -> DeviceType] /\ created \in Nat
      /\ pc \in [Bridge -> Place] /\ opts \in [Bridge -> Option \cup {NoOption}]
  BY DEF Types, TypeOK
<1> DEFINE Asked == \A p \in Bridge :
                       pc'[p] \in {"rename", "sendRename"} => opts'[p].want # NoName
<1>6. Asked
  <2> HIDE DEF Devices
  <2>1. ASSUME NEW p \in Bridge, NEW o \in Option, Start(p, o) PROVE Asked
    BY <1>0, <2>1 DEF Start
  <2>2. ASSUME NEW p \in Bridge, List(p) \/ LookAgain(p) \/ Setup(p) \/ Vanish(p)
        PROVE  Asked
    BY <1>0, <2>2 DEF List, LookAgain, Setup, Vanish
  <2>3. ASSUME NEW p \in Bridge, Claim(p) PROVE Asked
    BY <1>0, <2>3 DEF Claim
  <2>4. ASSUME NEW p \in Bridge, GivesUp(p) \/ Bind(p) PROVE Asked
    BY <1>0, <2>4 DEF GivesUp, Proceeds, Bind
  <2>5. ASSUME NEW p \in Bridge, NEW r \in Request, Resolve(p, r) PROVE Asked
    <3>1. Sending[r] = "sendRename" => r = "rename"
      BY Places
    <3>2. Sending[r] # "rename"
      BY Places
    <3> QED  BY <1>0, <2>5, <3>1, <3>2 DEF Resolve
  <2>6. ASSUME NEW p \in Bridge, NEW r \in Request, NEW q \in Devices,
               CarriesOut(p, r, q)
        PROVE  Asked
    <3>1. Following(p, r) \notin {"rename", "sendRename"}
      BY Places DEF Request
    <3> QED  BY <1>0, <2>6, <3>1 DEF CarriesOut
  <2>7. ASSUME NEW p \in Bridge, Leaves(p) \/ Unlinks(p) PROVE Asked
    BY <1>0, <2>7 DEF Leaves, Unlinks, Ends, CloseLink
  <2>8. ASSUME UNCHANGED vars PROVE Asked
    BY <2>8 DEF vars
  <2> QED
    BY <2>1, <2>2, <2>3, <2>4, <2>5, <2>6, <2>7, <2>8, NextSteps DEF Moves, Quiet
<1>1. CASE UNCHANGED vars
  BY <1>1 DEF vars, kernelVars
<1>2. ASSUME NEW p \in Bridge, Quiet(p) PROVE Interfaces'
  <2>1. dev' = dev /\ created' = created
    BY <1>2
    DEF Quiet, Start, List, Claim, LookAgain, GivesUp, Proceeds, Setup, Vanish,
        Resolve, kernelVars
  <2>2. /\ \A s \in Bridge \ {p} : pc'[s] = pc[s]
        /\ pc'[p] \in Unlinked <=> pc[p] \in Unlinked
    <3>1. CASE \E o \in Option : Start(p, o)
      BY <1>0, <3>1 DEF Start, Unlinked
    <3>2. CASE List(p) \/ Claim(p) \/ LookAgain(p) \/ Setup(p) \/ Vanish(p)
      BY <1>0, <3>2 DEF List, Claim, LookAgain, Setup, Vanish, Unlinked
    <3>3. CASE GivesUp(p)
      BY <1>0, <3>3, Places DEF GivesUp, Proceeds, Unlinked
    <3>4. ASSUME NEW r \in Request, Resolve(p, r)
          PROVE  /\ \A s \in Bridge \ {p} : pc'[s] = pc[s]
                 /\ pc'[p] \in Unlinked <=> pc[p] \in Unlinked
      <4>1. r \notin Unlinked /\ Sending[r] \notin Unlinked
        BY Places DEF Request, Unlinked
      <4> QED  BY <1>0, <3>4, <4>1 DEF Resolve
    <3> QED  BY <1>2, <3>1, <3>2, <3>3, <3>4 DEF Quiet
  <2> QED  BY <1>6, <2>1, <2>2
<1>3. ASSUME NEW p \in Bridge, Leaves(p) \/ Unlinks(p) PROVE Interfaces'
  <2>1. /\ dev' = [dev EXCEPT ![p] = NoDevice] /\ created' = created
        /\ \E x \in Unlinked : pc' = [pc EXCEPT ![p] = x]
    BY <1>3 DEF Leaves, Unlinks, Ends, CloseLink, Unlinked
  <2> QED  BY <1>0, <1>6, <2>1
<1>4. ASSUME NEW p \in Bridge, Bind(p) PROVE Interfaces'
  <2>1. dev[p] = NoDevice
    BY <1>4 DEF Bind, Unlinked
  <2>2. /\ NewDevice.index = created + 1 /\ NewDevice.number = FreeNumber
        /\ NewDevice.name = KernelName(FreeNumber)
        /\ \A s \in Devices : dev[s].number # FreeNumber
    BY <1>0, <2>1, NumberIsFree, NewDeviceFields
  <2>3. NewDevice # NoDevice
    BY <1>0, <2>2, DeviceFields
  <2>4. \A s \in Devices : dev[s].name # KernelName(FreeNumber)
    BY <2>2, NamesDiffer
  <2>5. \A s \in Devices : dev[s].index # created + 1
    BY <1>0
  <2>6. /\ dev'[p] = NewDevice /\ \A s \in Bridge \ {p} : dev'[s] = dev[s]
        /\ created' = created + 1
        /\ pc'[p] = "wait" /\ \A s \in Bridge \ {p} : pc'[s] = pc[s]
    BY <1>0, <1>4 DEF Bind
  <2>7. \A s \in Bridge : dev'[s] = NoDevice <=> pc'[s] \in Unlinked
    BY <2>3, <2>6 DEF Unlinked
  <2>8. \A s \in Bridge : dev'[s] # NoDevice => s = p \/ s \in Devices
    BY <2>6
  <2>9. \A s \in Bridge : dev'[s] # NoDevice =>
           /\ dev'[s].index \in 1 .. created'
           /\ dev'[s].name \in Customs \cup {KernelName(dev'[s].number)}
    BY <1>0, <2>2, <2>6, <2>8
  <2>10. \A s, t \in Bridge : dev'[s] # NoDevice /\ dev'[t] # NoDevice /\ s # t =>
            /\ dev'[s].index # dev'[t].index
            /\ dev'[s].number # dev'[t].number
            /\ dev'[s].name # dev'[t].name
    BY <2>2, <2>4, <2>5, <2>6, <2>8
  <2> QED  BY <1>6, <2>7, <2>9, <2>10
<1>5. ASSUME NEW p \in Bridge, NEW r \in Request, NEW q \in Devices, CarriesOut(p, r, q)
      PROVE  Interfaces'
  <2> DEFINE d == Changed(p, r, dev[q])
  <2>1. /\ d.index = dev[q].index /\ d.number = dev[q].number
        /\ d.name = IF r = "rename" THEN opts[p].want ELSE dev[q].name
        /\ dev[q].index # 0
    <3>1. q \in Bridge /\ dev[q] \in DeviceType /\ opts[p].want \in Name \cup {NoName}
      BY HasPlace
    <3>2. dev[q].index \in 1 .. created
      OBVIOUS
    <3>3. dev[q].index # 0
      BY <1>0, <3>2
    <3>4. ASSUME NEW e \in DeviceType
          PROVE  /\ Changed(p, r, e).index = e.index
                 /\ Changed(p, r, e).number = e.number
                 /\ Changed(p, r, e).name =
                       IF r = "rename" THEN opts[p].want ELSE e.name
      <4> HIDE DEF ClaimInv, Interfaces, Devices
      <4> QED  BY <3>1, ChangedFields
    <3> QED  BY <3>1, <3>3, <3>4
  <2>2. r = "rename" => opts[p].want \in Customs /\ opts[p].want \notin Names
    <3>1. ASSUME r = "rename" PROVE opts[p].want \notin Names
      BY <1>5, <3>1 DEF CarriesOut, Takes, Accepts
    <3>2. ASSUME r = "rename" PROVE opts[p].want # NoName
      BY <1>5, <3>2, Places DEF CarriesOut
    <3> QED  BY <3>1, <3>2, Wants
  <2>3. /\ dev'[q] = d /\ \A s \in Bridge \ {q} : dev'[s] = dev[s]
        /\ created' = created
    BY <1>0, <1>5 DEF CarriesOut, Devices
  <2> HIDE DEF d
  <2>4. d # NoDevice
    BY <2>1, DeviceFields
  <2>5. \A s \in Devices : dev[s].name \in Names
    BY DEF Names
  <2>6. \A s \in Bridge : pc'[s] \in Unlinked <=> pc[s] \in Unlinked
    <3>1. Following(p, r) \notin Unlinked /\ "running" \notin Unlinked
      BY Places DEF Request, Unlinked
    <3>2. Sending[r] \notin Unlinked
      BY Places DEF Unlinked
    <3> QED  BY <1>0, <1>5, <3>1, <3>2 DEF CarriesOut
  <2> QED  BY <1>0, <1>6, <2>1, <2>2, <2>3, <2>4, <2>5, <2>6
<1> QED  BY <1>1, <1>2, <1>3, <1>4, <1>5, NextSteps DEF Moves

\* A step is of one process: the others stay where they are and know what they
\* knew, and nobody who is taking its names is alone once another starts or ends.
LEMMA OthersKeep ==
  ASSUME Types, NEW a \in Bridge, Moves(a), NEW s \in Bridge \ {a}
  PROVE  /\ pc'[s] = pc[s] /\ opts'[s] = opts[s] /\ before'[s] = before[s]
         /\ mctp_if_name'[s] = mctp_if_name[s] /\ index'[s] = index[s]
         /\ socketPath'[s] = socketPath[s]
         /\ alone'[s] => alone[s]
<1> DEFINE Kept == /\ pc'[s] = pc[s] /\ opts'[s] = opts[s] /\ before'[s] = before[s]
                   /\ mctp_if_name'[s] = mctp_if_name[s] /\ index'[s] = index[s]
                   /\ socketPath'[s] = socketPath[s]
                   /\ alone'[s] => alone[s]
<1> USE DEF socketVars, claimVars, history
<1>0. /\ pc \in [Bridge -> Place] /\ opts \in [Bridge -> Option \cup {NoOption}]
      /\ before \in [Bridge -> SUBSET Name] /\ index \in [Bridge -> Nat]
      /\ mctp_if_name \in [Bridge -> Name \cup {NoName}]
      /\ socketPath \in [Bridge -> Name \cup {NoName}]
      /\ alone \in [Bridge -> BOOLEAN]
  BY DEF Types, TypeOK
<1>1. Disturbed \in [Bridge -> BOOLEAN] /\ (Disturbed[s] => alone[s])
  BY <1>0 DEF Disturbed
<1>2. CASE Leaves(a)
  BY <1>0, <1>1, <1>2 DEF Leaves, Ends
<1>3. CASE \E o \in Option : Start(a, o)
  BY <1>0, <1>1, <1>3 DEF Start
<1>4. CASE List(a) \/ Claim(a) \/ LookAgain(a)
  BY <1>0, <1>4 DEF List, Claim, LookAgain
<1>5. CASE GivesUp(a) \/ Setup(a) \/ Vanish(a)
  BY <1>0, <1>5 DEF GivesUp, Proceeds, Setup, Vanish
<1>6. CASE \E r \in Request : Resolve(a, r)
  BY <1>0, <1>6 DEF Resolve
<1>7. CASE Bind(a)
  BY <1>0, <1>7 DEF Bind
<1>8. CASE Unlinks(a)
  BY <1>0, <1>1, <1>8 DEF Unlinks, CloseLink
<1>9. CASE \E r \in Request, q \in Devices : CarriesOut(a, r, q)
  BY <1>0, <1>9 DEF CarriesOut
<1> QED  BY <1>2, <1>3, <1>4, <1>5, <1>6, <1>7, <1>8, <1>9 DEF Moves, Quiet

\* The interfaces after a step.
LEMMA DeviceSteps ==
  ASSUME ClaimInv, NEW a \in Bridge, Moves(a)
  PROVE  \/ dev' = dev /\ ~ (\E r \in Request, q \in Devices : CarriesOut(a, r, q))
         \/ (Leaves(a) \/ Unlinks(a)) /\ dev' = [dev EXCEPT ![a] = NoDevice]
         \/ Bind(a) /\ dev' = [dev EXCEPT ![a] = NewDevice]
         \/ \E r \in Request, q \in Devices :
               CarriesOut(a, r, q) /\ dev' = [dev EXCEPT ![q] = Changed(a, r, dev[q])]
<1>1. CASE Leaves(a) \/ Unlinks(a)
  BY <1>1 DEF Leaves, Unlinks, Ends, CloseLink
<1>2. CASE Bind(a)
  BY <1>2 DEF Bind
<1>3. CASE \E r \in Request, q \in Devices : CarriesOut(a, r, q)
  BY <1>3 DEF CarriesOut
<1>4. CASE Quiet(a) /\ ~ (\E r \in Request, q \in Devices : CarriesOut(a, r, q))
  BY <1>4
  DEF Quiet, Start, List, Claim, LookAgain, GivesUp, Proceeds, Setup, Vanish,
      Resolve, kernelVars
<1> QED  BY <1>1, <1>2, <1>3, <1>4 DEF Moves

\* Nobody else moves while a process is taking its names and stays alone, and
\* nobody else changes its interface afterwards.
LEMMA NobodyElse ==
  ASSUME ClaimInv, NEW a \in Bridge, Moves(a),
         NEW p \in Bridge, p # a, alone'[p]
  PROVE  /\ alone[p] /\ pc[p] \notin Claiming
         /\ Claimed(p) => dev'[p] = dev[p]
<1> USE DEF ClaimInv
<1>0. /\ pc \in [Bridge -> Place] /\ dev \in [Bridge -> DeviceType]
      /\ alone \in [Bridge -> BOOLEAN]
  BY DEF Types, TypeOK
<1>1. alone[p]
  BY OthersKeep
<1>2. pc[p] \notin Claiming
  <2>1. SUFFICES ASSUME pc[p] \in Claiming PROVE FALSE
    OBVIOUS
  <2>2. pc[a] \in {"off", "running"}
    BY <1>1, <2>1 DEF Alone, OwnNames
  <2>3. ~ Disturbed[p]
    BY <2>1 DEF Disturbed
  <2>4. CASE Leaves(a) \/ Unlinks(a) \/ \E o \in Option : Start(a, o)
    <3>1. alone'[p] = Disturbed[p]
      <4>1. DOMAIN Disturbed = Bridge
        BY DEF Disturbed
      <4> QED  BY <2>4, <4>1 DEF Leaves, Unlinks, Start, Ends, CloseLink
    <3> QED  BY <2>3, <3>1
  <2>5. CASE \/ List(a) \/ Bind(a) \/ Claim(a) \/ LookAgain(a) \/ GivesUp(a)
             \/ Setup(a) \/ Vanish(a)
    BY <2>2, <2>5, Places
    DEF List, Bind, Claim, LookAgain, GivesUp, Setup, Vanish
  <2>6. CASE \E r \in Request : Resolve(a, r)
    BY <2>2, <2>6 DEF Resolve, Request
  <2>7. CASE \E r \in Request, q \in Devices : CarriesOut(a, r, q)
    BY <2>2, <2>7, Places DEF CarriesOut
  <2> QED  BY <2>4, <2>5, <2>6, <2>7 DEF Moves, Quiet
<1>3. ASSUME Claimed(p) PROVE dev'[p] = dev[p]
  <2>1. ASSUME NEW r \in Request, NEW q \in Devices, CarriesOut(a, r, q) PROVE q # p
    <3>1. pc[a] \in Sent /\ index[a] = dev[q].index
      BY <2>1, Places DEF CarriesOut, Takes
    <3>2. index[a] # dev[p].index
      BY <1>1, <1>3, <3>1 DEF Alone, Spared
    <3> QED  BY <3>1, <3>2
  <2> QED  BY <1>0, <2>1, DeviceSteps
<1> QED  BY <1>1, <1>2, <1>3

\* A process that is alone comes to know its own names.
LEMMA OwnNamesStep ==
  ASSUME ClaimInv, Types', Interfaces', NEW a \in Bridge, Moves(a),
         NEW p \in Bridge, alone'[p]
  PROVE  OwnNames(p)'
<1> USE DEF ClaimInv
<1>0. /\ pc \in [Bridge -> Place] /\ dev \in [Bridge -> DeviceType]
      /\ before \in [Bridge -> SUBSET Name] /\ index \in [Bridge -> Nat]
      /\ mctp_if_name \in [Bridge -> Name \cup {NoName}]
      /\ alone \in [Bridge -> BOOLEAN] /\ opts \in [Bridge -> Option \cup {NoOption}]
  BY DEF Types, TypeOK
<1>1. CASE p # a
  <2>1. /\ alone[p] /\ pc[p] \notin Claiming
        /\ Claimed(p) => dev'[p] = dev[p]
    BY <1>1, NobodyElse
  <2>2. pc'[p] = pc[p] /\ mctp_if_name'[p] = mctp_if_name[p]
    BY <1>1, OthersKeep
  <2>3. Claimed(p) => mctp_if_name[p] = dev[p].name
    BY <2>1 DEF Alone, OwnNames
  <2> QED
    BY <2>1, <2>2, <2>3 DEF OwnNames, Claimed, Claiming
<1>2. CASE p = a
  <2> DEFINE Waits == \A q \in Bridge \ {p} : pc'[q] \in {"off", "running"}
  <2>0. \A q \in Bridge \ {p} : pc'[q] = pc[q]
    BY <1>2, OthersKeep
  <2>1. CASE Leaves(p) \/ Unlinks(p)
    BY <1>0, <2>1 DEF Leaves, Unlinks, Ends, CloseLink, OwnNames, Claiming, Claimed,
                      Request, Sending
  <2>2. CASE \E o \in Option : Start(p, o)
    <3>1. pc'[p] = "list" /\ \A q \in Bridge : pc[q] \in {"off", "running"}
      <4>1. DOMAIN Disturbed = Bridge
        BY DEF Disturbed
      <4> QED  BY <1>0, <1>2, <2>2, <4>1 DEF Start
    <3> QED  BY <2>0, <3>1 DEF OwnNames, Claiming, Claimed, Request, Sending
  <2>3. CASE ~ (Leaves(p) \/ Unlinks(p) \/ \E o \in Option : Start(p, o))
    <3>1. alone[p]
      BY <1>2, <2>3
      DEF Moves, Quiet, List, Bind, Claim, LookAgain, GivesUp, Proceeds, Setup, Vanish,
          Resolve, CarriesOut, history
    <3>2. OwnNames(p)
      BY <3>1 DEF Alone
    <3>3. pc[p] \in Claiming => Waits
      BY <2>0, <3>2 DEF OwnNames
    <3>4. CASE List(p)
      <4>1. pc'[p] = "bind" /\ before'[p] = Listed /\ dev' = dev /\ pc[p] \in Claiming
        BY <1>0, <3>4, HasPlace DEF List, kernelVars, Claiming
      <4>2. Listed' = Listed
        BY <4>1 DEF Listed, Names, Devices
      <4> QED  BY <3>3, <4>1, <4>2 DEF OwnNames, Claiming, Claimed, Request, Sending
    <3>5. CASE Bind(p)
      <4>1. /\ pc'[p] = "wait" /\ before'[p] = Listed /\ pc[p] \in Claiming
            /\ dev' = [dev EXCEPT ![p] = NewDevice]
        BY <1>0, <3>2, <3>5 DEF Bind, claimVars, OwnNames, Claiming
      <4>2. dev[p] = NoDevice
        BY <3>5 DEF Bind, Interfaces, Unlinked
      <4>3. /\ NewDevice.number = FreeNumber
            /\ NewDevice.name = KernelName(FreeNumber) /\ FreeNumber \in Number
            /\ \A s \in Devices : dev[s].number # FreeNumber
        BY <4>2, NumberIsFree, NewDeviceFields DEF Types
      <4>4. NewDevice # NoDevice
        BY <4>3, NamesDiffer, DeviceFields
      <4>5. KernelName(FreeNumber) \notin Names
        BY <4>3, NamesDiffer DEF Interfaces, Names
      <4>6. /\ dev'[p] = NewDevice
            /\ \A s \in Bridge \ {p} : dev'[s] = dev[s]
        BY <1>0, <4>1
      <4>7. Devices' = Devices \cup {p}
        BY <4>4, <4>6 DEF Devices
      <4>8. p \notin Devices
        BY <4>2 DEF Devices
      <4> DEFINE k == KernelName(FreeNumber)
      <4>9. \A s \in Devices : dev'[s] = dev[s]
        BY <4>6, <4>8 DEF Devices
      <4>10. dev'[p].name = k /\ k \notin Names
        BY <4>3, <4>5, <4>6
      <4> HIDE DEF k
      <4>11. Names' = Names \cup {k}
        BY <4>7, <4>9, <4>10 DEF Names
      <4>12. Listed' \ {k} = Listed
        BY <4>10, <4>11 DEF Listed
      <4>13. dev'[p].name = KernelName(dev'[p].number)
        BY <4>3, <4>6
      <4> QED
        BY <3>3, <4>1, <4>10, <4>12, <4>13
        DEF OwnNames, Claiming, Claimed, Request, Sending
    <3>6. CASE Claim(p)
      <4>1. pc[p] = "wait" /\ dev' = dev
        BY <3>6 DEF Claim, kernelVars
      <4>2. PICK d \in Listed \ before[p] : mctp_if_name' = [mctp_if_name EXCEPT ![p] = d]
        BY <3>6 DEF Claim
      <4>3. d = dev[p].name
        BY <3>2, <4>1, <4>2 DEF OwnNames
      <4>4. mctp_if_name'[p] = dev'[p].name
        BY <1>0, <4>1, <4>2, <4>3
      <4>5. pc'[p] \in {"rename", "setup"}
        BY <1>0, <3>6 DEF Claim
      <4> QED
        BY <3>3, <4>1, <4>4, <4>5 DEF OwnNames, Claiming
    <3>7. CASE LookAgain(p) \/ Vanish(p)
      <4>1. /\ dev' = dev /\ before' = before /\ index' = index
            /\ \/ pc'[p] = pc[p] /\ mctp_if_name'[p] = mctp_if_name[p]
               \/ pc'[p] \in {"cleanup", "vanish"}
        BY <1>0, <3>7 DEF LookAgain, Vanish, kernelVars
      <4>2. Listed' = Listed
        BY <4>1 DEF Listed, Names, Devices
      <4>3. CASE pc'[p] \in {"cleanup", "vanish"}
        BY <4>3 DEF OwnNames, Claiming, Claimed, Request, Sending
      <4> QED  BY <3>2, <3>3, <4>1, <4>2, <4>3 DEF OwnNames, Claimed
    <3>8. CASE GivesUp(p) \/ Setup(p)
      <4>1. /\ Claimed(p) /\ dev' = dev /\ mctp_if_name' = mctp_if_name
            /\ pc'[p] \in {"running", "address"}
        BY <1>0, <3>8, Places DEF GivesUp, Proceeds, Setup, claimVars, kernelVars
      <4> QED  BY <3>2, <4>1 DEF OwnNames, Claiming, Sending, Request
    <3>9. ASSUME NEW r \in Request, Resolve(p, r) PROVE OwnNames(p)'
      <4>1. /\ pc[p] = r /\ pc'[p] = Sending[r] /\ dev' = dev
            /\ mctp_if_name' = mctp_if_name /\ mctp_if_name[p] \in Names
            /\ index'[p] = IndexOf(mctp_if_name[p])
        BY <1>0, <3>9 DEF Resolve, claimVars, kernelVars
      <4>2. Claimed(p) /\ pc[p] \notin Unlinked
        BY <4>1, Places DEF Request, Unlinked
      <4>3. mctp_if_name[p] = dev[p].name /\ p \in Devices
        BY <3>2, <4>2 DEF OwnNames, Interfaces, Devices
      <4>4. IndexOf(mctp_if_name[p]) = dev[p].index
        BY <4>1, <4>3, IndexOfName DEF Interfaces
      <4>5. Sending[r] \in Claiming => r \in Claiming
        BY Places DEF Claiming, Sent
      <4>6. Sending[r] \notin {"bind", "wait"}
        BY Places
      <4> QED  BY <3>3, <4>1, <4>3, <4>4, <4>5, <4>6 DEF OwnNames
    <3>10. ASSUME NEW r \in Request, NEW q \in Devices, CarriesOut(p, r, q)
           PROVE  OwnNames(p)'
      <4>1. /\ pc[p] = Sending[r] /\ q \in Bridge /\ dev[q].index = index[p]
            /\ dev' = [dev EXCEPT ![q] = Changed(p, r, dev[q])]
            /\ pc'[p] \in {Following(p, r), "running"} /\ (r = "rename" => pc'[p] = "setup")
        BY <1>0, <3>10 DEF CarriesOut, Takes, Devices
      <4>2. Claimed(p) /\ pc[p] \notin Unlinked
        BY <4>1, Places DEF Unlinked
      <4>3. mctp_if_name[p] = dev[p].name /\ p \in Devices
        BY <3>2, <4>2 DEF OwnNames, Interfaces, Devices
      <4>4. \A e \in DeviceType :
               Changed(p, r, e).name = IF r = "rename" THEN opts[p].want ELSE e.name
        BY HasPlace, ChangedFields
      <4>5. dev[q] \in DeviceType
        BY <1>0, <4>1
      <4>6. CASE r = "rename"
        <5>1. pc[p] = "sendRename"
          BY <4>1, <4>6, Places
        <5>2. q = p
          BY <3>2, <4>1, <4>3, <5>1 DEF OwnNames, Interfaces
        <5>3. dev'[p].name = opts[p].want
          BY <1>0, <4>1, <4>4, <4>5, <4>6, <5>2
        <5>4. mctp_if_name'[p] = opts[p].want
          BY <1>0, <3>10, <4>6 DEF CarriesOut
        <5>5. pc'[p] = "setup" /\ pc[p] \in Claiming
          BY <4>1, <4>6, <5>1 DEF Claiming
        <5> QED  BY <3>3, <5>3, <5>4, <5>5 DEF OwnNames
      <4>7. CASE r # "rename"
        <5>1. pc'[p] \in {"up", "route", "running"}
          BY <4>1, <4>7, Places DEF Request
        <5>2. dev'[p].name = dev[p].name
          BY <1>0, <4>1, <4>4, <4>5, <4>7
        <5>3. mctp_if_name'[p] = mctp_if_name[p]
          BY <3>10, <4>7 DEF CarriesOut
        <5> QED  BY <4>3, <5>1, <5>2, <5>3 DEF OwnNames, Claiming
      <4> QED  BY <4>6, <4>7
    <3> QED
      BY <1>2, <2>3, <3>4, <3>5, <3>6, <3>7, <3>8, <3>9, <3>10 DEF Moves, Quiet
  <2> QED  BY <2>1, <2>2, <2>3
<1> QED  BY <1>1, <1>2

\* A process that is done with taking its names works on the interface it had.
LEMMA KeepsNames ==
  ASSUME ClaimInv, NEW a \in Bridge, Moves(a),
         NEW p \in Bridge, alone'[p], Claimed(p)', pc'[p] \notin Claiming
  PROVE  /\ alone[p] /\ Claimed(p) /\ p \in Devices
         /\ dev'[p].name = dev[p].name /\ dev'[p].index = dev[p].index
<1> USE DEF ClaimInv
<1>0. /\ pc \in [Bridge -> Place] /\ dev \in [Bridge -> DeviceType]
      /\ before \in [Bridge -> SUBSET Name]
      /\ mctp_if_name \in [Bridge -> Name \cup {NoName}]
      /\ opts \in [Bridge -> Option \cup {NoOption}]
  BY DEF Types, TypeOK
<1>1. CASE p # a
  <2>1. alone[p] /\ (Claimed(p) => dev'[p] = dev[p]) /\ pc'[p] = pc[p]
    BY <1>1, NobodyElse, OthersKeep
  <2>2. Claimed(p)
    BY <2>1 DEF Claimed
  <2>3. pc[p] \notin Unlinked
    BY <2>2, Places DEF Unlinked
  <2> QED  BY <2>1, <2>2, <2>3 DEF Interfaces, Devices
<1>2. CASE p = a
  <2>1. CASE GivesUp(p) \/ Setup(p)
    <3>1. pc[p] \notin Unlinked /\ Claimed(p) /\ dev' = dev /\ alone' = alone
      BY <2>1, Places
      DEF GivesUp, Proceeds, Setup, Unlinked, kernelVars, history
    <3> QED  BY <3>1 DEF Interfaces, Devices
  <2>2. ASSUME NEW r \in Request, Resolve(p, r)
        PROVE  pc[p] \notin Unlinked /\ Claimed(p) /\ dev' = dev /\ alone' = alone
    BY <2>2, Places DEF Resolve, Request, Unlinked, kernelVars, history
  <2>3. ASSUME NEW r \in Request, NEW s \in Devices, CarriesOut(p, r, s)
        PROVE  /\ alone[p] /\ Claimed(p) /\ p \in Devices
               /\ dev'[p].name = dev[p].name /\ dev'[p].index = dev[p].index
    <3>1. /\ pc[p] = Sending[r] /\ s \in Bridge /\ alone' = alone
          /\ dev' = [dev EXCEPT ![s] = Changed(p, r, dev[s])]
          /\ (r = "rename" => pc'[p] = "setup")
      BY <1>0, <2>3 DEF CarriesOut, Devices, history
    <3>2. r # "rename"
      BY <3>1 DEF Claiming
    <3>3. \A e \in DeviceType : /\ Changed(p, r, e).name = e.name
                                /\ Changed(p, r, e).index = e.index
      <4> HIDE DEF ClaimInv
      <4>1. opts[p].want \in Name \cup {NoName}
        BY HasPlace DEF ClaimInv
      <4> QED  BY <3>2, <4>1, ChangedFields
    <3>4. dev[s] \in DeviceType
      BY <1>0, <3>1
    <3>5. Claimed(p) /\ pc[p] \notin Unlinked
      BY <3>1, Places DEF Unlinked
    <3> QED  BY <1>0, <3>1, <3>3, <3>4, <3>5 DEF Interfaces, Devices
  <2>4. ~ (Leaves(p) \/ Unlinks(p) \/ Bind(p) \/ List(p) \/ Claim(p) \/ LookAgain(p)
           \/ Vanish(p) \/ \E o \in Option : Start(p, o))
    BY <1>0
    DEF Leaves, Unlinks, Bind, List, Claim, LookAgain, Vanish, Start, Ends, CloseLink,
        Claimed, Claiming, Request, Sending
  <2> QED  BY <1>2, <2>1, <2>2, <2>3, <2>4 DEF Moves, Quiet, Interfaces, Devices
<1> QED  BY <1>1, <1>2

\* Whoever comes later takes other names.
LEMMA SparedStep ==
  ASSUME ClaimInv, Types', Interfaces', NEW a \in Bridge, Moves(a),
         NEW p \in Bridge, alone'[p], OwnNames(p)', Claimed(p)',
         NEW q \in Bridge \ {p}
  PROVE  Spared(p, q)'
<1> USE DEF ClaimInv
<1>0. /\ pc \in [Bridge -> Place] /\ dev \in [Bridge -> DeviceType]
      /\ before \in [Bridge -> SUBSET Name] /\ index \in [Bridge -> Nat]
      /\ mctp_if_name \in [Bridge -> Name \cup {NoName}]
      /\ alone \in [Bridge -> BOOLEAN] /\ opts \in [Bridge -> Option \cup {NoOption}]
  BY DEF Types, TypeOK
<1>1. CASE pc'[p] \in Claiming
  <2>1. pc'[q] \in {"off", "running"}
    BY <1>1 DEF OwnNames
  <2> QED  BY <2>1, Places DEF Spared, Claimed, Request
<1>2. CASE pc'[p] \notin Claiming
  <2>1. /\ alone[p] /\ Claimed(p) /\ p \in Devices
        /\ dev'[p].name = dev[p].name /\ dev'[p].index = dev[p].index
    BY <1>2, KeepsNames
  <2>2. Spared(p, q) /\ dev[p].name \in Names
    BY <2>1 DEF Alone, Names
  <2>3. CASE q # a
    <3>1. /\ pc'[q] = pc[q] /\ before'[q] = before[q] /\ index'[q] = index[q]
          /\ mctp_if_name'[q] = mctp_if_name[q]
      BY <2>3, OthersKeep
    <3> QED  BY <2>1, <2>2, <3>1 DEF Spared, Claimed
  <2>4. CASE q = a
    <3>1. CASE Leaves(q) \/ Unlinks(q) \/ Vanish(q) \/ \E o \in Option : Start(q, o)
      <4>1. pc'[q] \in {"off", "list", "vanish", "cleanup"}
        BY <1>0, <3>1 DEF Leaves, Unlinks, Vanish, Start, Ends, CloseLink
      <4> QED  BY <4>1, Places DEF Spared, Claimed, Request
    <3>2. CASE List(q)
      <4>1. pc'[q] = "bind" /\ before'[q] = Listed
        BY <1>0, <3>2, HasPlace DEF List
      <4>2. dev[p].name \in Listed \cup Customs
        BY <1>0, <2>1, <2>2, NamesDiffer DEF Listed, DeviceType, Interfaces
      <4> QED  BY <2>1, <4>1, <4>2, Places DEF Spared, Claimed, Request
    <3>3. CASE Bind(q) \/ LookAgain(q)
      <4>1. pc'[q] = "wait" /\ before'[q] = before[q] /\ pc[q] \in {"bind", "wait"}
        BY <1>0, <3>3 DEF Bind, LookAgain, claimVars
      <4> QED  BY <2>1, <2>2, <4>1, Places DEF Spared, Claimed, Request
    <3>4. CASE Claim(q)
      <4>1. pc[q] = "wait" /\ pc'[q] \in {"rename", "setup"}
        BY <1>0, <3>4 DEF Claim
      <4>2. PICK d \in Listed \ before[q] : mctp_if_name' = [mctp_if_name EXCEPT ![q] = d]
        BY <3>4 DEF Claim
      <4>3. d # dev[p].name
        BY <2>2, <4>1, <4>2, NamesDiffer DEF Spared, Listed
      <4>4. mctp_if_name'[q] = d
        BY <1>0, <4>2
      <4> QED  BY <2>1, <4>1, <4>3, <4>4, Places DEF Spared
    <3>5. CASE GivesUp(q) \/ Setup(q)
      <4>1. /\ mctp_if_name'[q] = mctp_if_name[q] /\ pc'[q] \in {"running", "address"}
            /\ pc'[q] = "address" => pc[q] = "setup"
        BY <1>0, <3>5 DEF GivesUp, Proceeds, Setup, claimVars
      <4> QED  BY <2>1, <2>2, <4>1, Places DEF Spared
    <3>6. ASSUME NEW r \in Request, Resolve(q, r) PROVE Spared(p, q)'
      <4>1. /\ pc[q] = r /\ pc'[q] = Sending[r] /\ mctp_if_name[q] \in Names
            /\ mctp_if_name'[q] = mctp_if_name[q]
            /\ index'[q] = IndexOf(mctp_if_name[q])
        BY <1>0, <3>6 DEF Resolve, claimVars
      <4>2. mctp_if_name[q] # dev[p].name
        BY <2>2, <4>1, Places DEF Spared, Request
      <4>3. IndexOf(mctp_if_name[q]) # dev[p].index
        BY <2>1, <4>1, <4>2, IndexOfName
      <4> QED  BY <2>1, <4>1, <4>2, <4>3, Places DEF Spared
    <3>7. ASSUME NEW r \in Request, NEW s \in Devices, CarriesOut(q, r, s)
          PROVE  Spared(p, q)'
      <4>1. /\ pc[q] = Sending[r] /\ pc'[q] \in {Following(q, r), "running"}
            /\ r = "rename" => opts[q].want \notin Names
            /\ mctp_if_name'[q] = IF r = "rename" THEN opts[q].want ELSE mctp_if_name[q]
        BY <1>0, <3>7 DEF CarriesOut, Takes, Accepts
      <4>2. pc'[q] \in {"setup", "up", "route", "running"}
        BY <4>1, Places DEF Request
      <4>3. Claimed(q) /\ pc[q] # "running"
        BY <4>1, Places
      <4>4. mctp_if_name'[q] # dev[p].name
        BY <2>2, <4>1, <4>3 DEF Spared
      <4> QED  BY <2>1, <4>2, <4>4, Places DEF Spared
    <3> QED  BY <2>4, <3>1, <3>2, <3>3, <3>4, <3>5, <3>6, <3>7 DEF Moves, Quiet
  <2> QED  BY <2>3, <2>4
<1> QED  BY <1>1, <1>2

LEMMA AloneStep ==
  ASSUME ClaimInv, Types', Interfaces', [Next]_vars
  PROVE  Alone'
<1>1. CASE UNCHANGED vars
  <2>1. Alone
    BY DEF ClaimInv
  <2>2. UNCHANGED <<dev, pc, before, mctp_if_name, index, alone>>
    BY <1>1 DEF vars, kernelVars, claimVars, history
  <2> QED
    BY <2>1, <2>2 DEF Alone, OwnNames, Spared, Claimed, Listed, Names, Devices
<1>2. ASSUME NEW a \in Bridge, Moves(a) PROVE Alone'
  <2>1. SUFFICES ASSUME NEW p \in Bridge, alone'[p]
                 PROVE  /\ OwnNames(p)'
                        /\ Claimed(p)' => \A q \in Bridge \ {p} : Spared(p, q)'
    BY DEF Alone
  <2>2. OwnNames(p)'
    BY <1>2, <2>1, OwnNamesStep
  <2>3. ASSUME Claimed(p)', NEW q \in Bridge \ {p} PROVE Spared(p, q)'
    BY <1>2, <2>1, <2>2, <2>3, SparedStep
  <2> QED  BY <2>2, <2>3
<1> QED  BY <1>1, <1>2, NextSteps DEF ClaimInv

\* As long as nobody has claimed wrongly, requests are for one's own interface.
LEMMA OwnRequests ==
  ASSUME ClaimInv, ~mixed, NEW p \in Bridge, NEW r \in Request, NEW q \in Devices,
         CarriesOut(p, r, q)
  PROVE  q = p /\ p \in Devices
<1> USE DEF ClaimInv
<1>1. pc[p] \in Sent /\ dev[q].index = index[p]
  BY Places DEF CarriesOut, Takes
<1>2. pc[p] \notin Unlinked
  BY <1>1, Places DEF Unlinked
<1>3. p \in Devices /\ index[p] = dev[p].index
  BY <1>1, <1>2 DEF Interfaces, Devices, Unmixed, KnowsItsOwn
<1> QED  BY <1>1, <1>3 DEF Interfaces

LEMMA UnmixedStep ==
  ASSUME ClaimInv, [Next]_vars
  PROVE  Unmixed'
<1> USE DEF ClaimInv
<1>0. /\ pc \in [Bridge -> Place] /\ dev \in [Bridge -> DeviceType]
      /\ index \in [Bridge -> Nat]
      /\ mctp_if_name \in [Bridge -> Name \cup {NoName}]
      /\ opts \in [Bridge -> Option \cup {NoOption}]
  BY DEF Types, TypeOK
<1>1. CASE UNCHANGED vars
  <2>1. UNCHANGED <<dev, pc, mctp_if_name, index, mixed>>
    BY <1>1 DEF vars, kernelVars, claimVars, history
  <2>2. Unmixed
    OBVIOUS
  <2> QED  BY <2>1, <2>2 DEF Unmixed, KnowsItsOwn, InOrder, Claimed
<1>2. ASSUME NEW a \in Bridge, Moves(a), ~mixed', NEW p \in Bridge
      PROVE  KnowsItsOwn(p)' /\ InOrder(p)'
  <2>1. ~mixed
    BY <1>2
    DEF Moves, Quiet, Leaves, Start, List, Claim, LookAgain, GivesUp, Proceeds, Setup,
        Vanish, Resolve, Bind, Unlinks, CarriesOut, Ends, CloseLink, history
  <2>2. KnowsItsOwn(p) /\ InOrder(p)
    BY <2>1 DEF Unmixed
  <2>3. CASE p # a
    <3>1. /\ pc'[p] = pc[p] /\ index'[p] = index[p]
          /\ mctp_if_name'[p] = mctp_if_name[p]
      BY <1>2, <2>3, OthersKeep
    <3>2. \A r \in Request, q \in Devices : CarriesOut(a, r, q) => q = a
      BY <1>2, <2>1, OwnRequests
    <3>3. dev'[p] = dev[p]
      BY <1>0, <1>2, <2>3, <3>2, DeviceSteps
    <3> QED  BY <2>2, <3>1, <3>3 DEF KnowsItsOwn, InOrder, Claimed
  <2>4. CASE p = a
    <3>1. CASE Leaves(p) \/ Unlinks(p)
      <4>1. dev'[p] = NoDevice /\ pc'[p] \in {"off", "vanish"}
        BY <1>0, <3>1 DEF Leaves, Unlinks, Ends, CloseLink
      <4> QED  BY <4>1, DeviceFields DEF KnowsItsOwn, InOrder, Claimed, Sent, Request, Sending
    <3>2. CASE List(p) \/ LookAgain(p) \/ Vanish(p) \/ \E o \in Option : Start(p, o)
      <4>1. dev' = dev /\ pc'[p] \in {"list", "bind", "wait", "vanish", "cleanup"}
        BY <1>0, <3>2 DEF List, LookAgain, Vanish, Start, kernelVars
      <4> QED
        BY <2>2, <4>1 DEF KnowsItsOwn, InOrder, Claimed, Sent, Request, Sending
    <3>3. CASE Bind(p)
      <4>1. dev[p] = NoDevice
        BY <3>3 DEF Bind, Interfaces, Unlinked
      <4>2. NewDevice.addr = {} /\ NewDevice.up = FALSE /\ NewDevice.routes = {}
        BY <4>1, NumberIsFree, NewDeviceFields DEF Types
      <4>3. dev'[p] = NewDevice /\ pc'[p] = "wait"
        BY <1>0, <3>3 DEF Bind
      <4> QED  BY <4>2, <4>3 DEF KnowsItsOwn, InOrder, Claimed, Sent, Request, Sending
    <3>4. CASE Claim(p)
      <4>1. PICK d \in Listed \ before[p] : /\ mctp_if_name' = [mctp_if_name EXCEPT ![p] = d]
                                            /\ mixed' = (mixed \/ d # dev[p].name)
        BY <3>4 DEF Claim
      <4>2. mctp_if_name'[p] = dev[p].name
        BY <1>0, <1>2, <4>1
      <4>3. dev' = dev /\ pc'[p] \in {"rename", "setup"}
        BY <1>0, <3>4 DEF Claim, kernelVars
      <4> QED  BY <2>2, <4>2, <4>3, Places DEF KnowsItsOwn, InOrder
    <3>5. CASE GivesUp(p) \/ Setup(p)
      <4>1. /\ Claimed(p) /\ dev' = dev /\ mctp_if_name' = mctp_if_name
            /\ pc'[p] \in {"running", "address"}
        BY <1>0, <3>5, Places DEF GivesUp, Proceeds, Setup, claimVars, kernelVars
      <4> QED  BY <2>2, <4>1, Places DEF KnowsItsOwn, InOrder
    <3>6. ASSUME NEW r \in Request, Resolve(p, r) PROVE KnowsItsOwn(p)' /\ InOrder(p)'
      <4>1. /\ pc[p] = r /\ pc'[p] = Sending[r] /\ dev' = dev
            /\ mctp_if_name' = mctp_if_name /\ mctp_if_name[p] \in Names
            /\ index'[p] = IndexOf(mctp_if_name[p])
        BY <1>0, <3>6 DEF Resolve, claimVars, kernelVars
      <4>2. Claimed(p) /\ pc[p] \notin Unlinked
        BY <4>1, Places DEF Request, Unlinked
      <4>3. mctp_if_name[p] = dev[p].name /\ p \in Devices
        BY <2>2, <4>2 DEF KnowsItsOwn, Interfaces, Devices
      <4>4. IndexOf(mctp_if_name[p]) = dev[p].index
        BY <4>1, <4>3, IndexOfName DEF Interfaces
      <4>5. KnowsItsOwn(p)'
        BY <4>1, <4>3, <4>4 DEF KnowsItsOwn
      <4>6. /\ pc'[p] \in {"up", "sendUp", "route", "sendRoute"} => pc[p] \in {"up", "route"}
            /\ pc'[p] \in {"route", "sendRoute"} => pc[p] = "route"
        BY <4>1, Places DEF Sent, Request
      <4> QED  BY <2>2, <4>1, <4>5, <4>6 DEF InOrder
    <3>7. ASSUME NEW r \in Request, NEW q \in Devices, CarriesOut(p, r, q)
          PROVE  KnowsItsOwn(p)' /\ InOrder(p)'
      <4>1. q = p /\ dev[p] \in DeviceType /\ opts[p].want \in Name \cup {NoName}
        BY <1>0, <2>1, <3>7, HasPlace, OwnRequests
      <4>2. /\ pc[p] = Sending[r]
            /\ dev'[p] = Changed(p, r, dev[p])
            /\ mctp_if_name'[p] = IF r = "rename" THEN opts[p].want ELSE mctp_if_name[p]
            /\ pc'[p] \in {Following(p, r), "running"} /\ (r = "rename" => pc'[p] = "setup")
        BY <1>0, <3>7, <4>1 DEF CarriesOut
      <4> DEFINE d == dev[p]
                 e == Changed(p, r, d)
      <4>3. /\ e.name = IF r = "rename" THEN opts[p].want ELSE d.name
            /\ e.addr = IF r = "address" THEN d.addr \cup {p} ELSE d.addr
            /\ e.up = IF r = "up" THEN TRUE ELSE d.up
            /\ e.routes = IF r = "route" THEN d.routes \cup {p} ELSE d.routes
        <5> HIDE DEF ClaimInv
        <5> QED  BY <4>1, ChangedFields
      <4>4. Claimed(p) /\ mctp_if_name[p] = d.name
        BY <2>2, <4>2, Places DEF KnowsItsOwn
      <4>5. dev'[p] = e
        BY <4>2
      <4> HIDE DEF d, e
      <4>6. KnowsItsOwn(p)'
        <5>1. mctp_if_name'[p] = e.name
          BY <4>2, <4>3, <4>4
        <5>2. pc'[p] \notin Sent
          BY <4>2, Places DEF Request
        <5> QED  BY <4>5, <5>1, <5>2 DEF KnowsItsOwn
      <4>7. /\ d.routes # {} => d.up
            /\ d.up => p \in d.addr
            /\ d.addr \cup d.routes \subseteq {p}
            /\ r \in {"up", "route"} => p \in d.addr
            /\ r = "route" => d.up
        <5>1. pc[p] = "sendUp" \/ pc[p] = "sendRoute" \/ r \notin {"up", "route"}
          BY <4>2, Places
        <5>2. r = "route" => pc[p] = "sendRoute"
          BY <4>2, Places
        <5> QED  BY <2>2, <5>1, <5>2 DEF InOrder, d
      <4>8. /\ pc'[p] \in {"up", "route"} => r \in {"address", "up"}
            /\ pc'[p] = "route" => r = "up"
            /\ pc'[p] \notin {"sendUp", "sendRoute"}
        BY <4>2, Places DEF Request
      <4>9. InOrder(p)'
        BY <4>3, <4>5, <4>7, <4>8 DEF InOrder
      <4> QED  BY <4>6, <4>9
    <3> QED
      BY <1>2, <2>4, <3>1, <3>2, <3>3, <3>4, <3>5, <3>6, <3>7 DEF Moves, Quiet
  <2> QED  BY <2>3, <2>4
<1> QED  BY <1>1, <1>2, NextSteps DEF Unmixed

LEMMA PathStep ==
  ASSUME ClaimInv, NEW a \in Bridge, Moves(a), NEW p \in Bridge
  PROVE  PathOf(p)'
<1> USE DEF ClaimInv
<1>0. /\ pc \in [Bridge -> Place]
      /\ mctp_if_name \in [Bridge -> Name \cup {NoName}]
      /\ socketPath \in [Bridge -> Name \cup {NoName}]
      /\ PathOf(p)
  BY DEF Types, TypeOK, Sockets
<1>1. CASE p # a
  BY <1>0, <1>1, OthersKeep DEF PathOf, Claimed
<1>2. CASE p = a
  <2>1. CASE Leaves(p) \/ Unlinks(p)
    <3>1. (pc'[p] = "off" /\ socketPath'[p] = NoName) \/ pc'[p] = "vanish"
      BY <1>0, <2>1 DEF Leaves, Unlinks, Ends, CloseLink
    <3> QED  BY <3>1 DEF PathOf, Claimed, Claiming, Request, Sending
  <2>2. CASE \/ List(p) \/ Bind(p) \/ Claim(p) \/ LookAgain(p)
             \/ \E o \in Option : Start(p, o)
    <3>1. /\ socketPath'[p] = socketPath[p]
          /\ pc[p] \in Claiming \cup {"off"} /\ pc'[p] \in Claiming
      BY <1>0, <2>2
      DEF List, Bind, Claim, LookAgain, Start, socketVars, Claiming
    <3> QED  BY <1>0, <3>1 DEF PathOf
  <2>3. CASE Vanish(p)
    <3>1. pc'[p] \in {"vanish", "cleanup"}
      BY <1>0, <2>3 DEF Vanish
    <3> QED  BY <3>1 DEF PathOf, Claimed, Claiming, Request, Sending
  <2>4. CASE Setup(p)
    <3>1. /\ socketPath'[p] = mctp_if_name[p] /\ mctp_if_name'[p] = mctp_if_name[p]
          /\ pc'[p] \in {"address", "running"}
      BY <1>0, <2>4 DEF Setup, claimVars
    <3> QED  BY <3>1 DEF PathOf, Claiming
  <2>5. CASE GivesUp(p)
    <3>1. /\ Claimed(p) /\ pc[p] \notin Claiming /\ pc'[p] = "running"
          /\ mctp_if_name'[p] = mctp_if_name[p] /\ socketPath'[p] = socketPath[p]
      BY <1>0, <2>5, Places DEF GivesUp, Proceeds, socketVars, claimVars, Claiming
    <3> QED  BY <1>0, <3>1 DEF PathOf, Claiming
  <2>6. ASSUME NEW r \in Request, Resolve(p, r) PROVE PathOf(p)'
    <3>1. /\ pc[p] = r /\ pc'[p] = Sending[r] /\ Claimed(p)
          /\ mctp_if_name'[p] = mctp_if_name[p] /\ socketPath'[p] = socketPath[p]
      BY <1>0, <2>6, Places DEF Resolve, socketVars, claimVars, Request
    <3>2. pc'[p] \in Claiming <=> pc[p] \in Claiming
      BY <3>1, Places DEF Request, Claiming
    <3>3. pc'[p] # "off"
      BY <3>1, Places
    <3> QED  BY <1>0, <3>1, <3>2, <3>3 DEF PathOf
  <2>7. ASSUME NEW r \in Request, NEW q \in Devices, CarriesOut(p, r, q)
        PROVE  PathOf(p)'
    <3>1. /\ pc[p] = Sending[r] /\ Claimed(p) /\ socketPath'[p] = socketPath[p]
          /\ pc'[p] \in {Following(p, r), "running"} /\ (r = "rename" => pc'[p] = "setup")
          /\ r # "rename" => mctp_if_name'[p] = mctp_if_name[p]
      BY <1>0, <2>7, Places DEF CarriesOut, socketVars
    <3>2. CASE r = "rename"
      <4>1. pc[p] \in Claiming /\ pc'[p] \in Claiming /\ pc'[p] # "off"
        BY <3>1, <3>2, Places DEF Claiming
      <4> QED  BY <1>0, <3>1, <4>1 DEF PathOf
    <3>3. CASE r # "rename"
      <4>1. pc[p] \notin Claiming /\ pc'[p] \notin Claiming \cup {"off"}
        BY <3>1, <3>3, Places DEF Claiming, Request
      <4> QED  BY <1>0, <3>1, <3>3, <4>1 DEF PathOf
    <3> QED  BY <3>2, <3>3
  <2> QED
    BY <1>2, <2>1, <2>2, <2>3, <2>4, <2>5, <2>6, <2>7 DEF Moves, Quiet
<1> QED  BY <1>1, <1>2

\* Sockets and files, when a step of a leaves p with its names.
LEMMA FileStep ==
  ASSUME ClaimInv, Types', Interfaces', Alone', Unmixed',
         NEW a \in Bridge, Moves(a), \A q \in Bridge : PathOf(q)',
         ~mixed, ~mixed', NEW p \in Bridge, alone'[p], Claimed(p)'
  PROVE  HasItsFile(p)'
<1> USE DEF ClaimInv
<1>0. /\ pc \in [Bridge -> Place] /\ dev \in [Bridge -> DeviceType]
      /\ file \in [Name -> SUBSET Bridge]
      /\ mctp_if_name \in [Bridge -> Name \cup {NoName}]
      /\ socketPath \in [Bridge -> Name \cup {NoName}]
  BY DEF Types, TypeOK
<1>1. CASE pc'[p] \in Claiming
  <2>1. ASSUME NEW q \in Bridge \ {p} PROVE socketPath'[q] # dev'[p].name
    <3>1. pc'[q] \in {"off", "running"}
      BY <1>1 DEF Alone, OwnNames
    <3>2. pc'[p] \notin Unlinked
      BY DEF Claimed, Unlinked, Request, Sending
    <3>3. p \in Devices' /\ dev'[p].name # NoName
      BY <3>2, NamesDiffer DEF Interfaces, Devices
    <3>4. CASE pc'[q] = "off"
      BY <3>3, <3>4 DEF PathOf
    <3>5. CASE pc'[q] = "running"
      <4>1. socketPath'[q] = mctp_if_name'[q] /\ mctp_if_name'[q] = dev'[q].name
        BY <3>5 DEF PathOf, Claimed, Claiming, Unmixed, KnowsItsOwn
      <4>2. q \in Devices'
        BY <3>5 DEF Interfaces, Devices, Unlinked
      <4> QED  BY <3>3, <4>1, <4>2 DEF Interfaces
    <3> QED  BY <3>1, <3>4, <3>5
  <2> QED  BY <1>1, <2>1 DEF HasItsFile
<1>2. CASE pc'[p] \notin Claiming
  <2> DEFINE n == dev[p].name
  <2>1. /\ alone[p] /\ Claimed(p) /\ p \in Devices /\ dev'[p].name = n
    BY <1>2, KeepsNames
  <2>2. HasItsFile(p) /\ mctp_if_name[p] = n /\ n \in Name
    BY <1>0, <2>1, NamesDiffer
    DEF Sockets, Unmixed, KnowsItsOwn, DeviceType, Interfaces
  <2>3. ASSUME NEW q \in Bridge \ {p}, Claimed(q) PROVE mctp_if_name[q] # n
    <3>1. pc[q] \notin Unlinked
      BY <2>3, Places DEF Unlinked
    <3>2. q \in Devices /\ mctp_if_name[q] = dev[q].name
      BY <2>3, <3>1 DEF Interfaces, Devices, Unmixed, KnowsItsOwn
    <3> QED  BY <2>1, <3>2 DEF Interfaces
  <2> HIDE DEF n
  <2>4. ASSUME NEW q \in Bridge \ {p} PROVE socketPath'[q] # n
    <3>1. socketPath[q] # n /\ n # NoName
      BY <2>2, NamesDiffer DEF HasItsFile, n
    <3>2. CASE q # a
      BY <3>1, <3>2, OthersKeep
    <3>3. CASE q = a /\ Setup(q)
      <4>1. socketPath'[q] = mctp_if_name[q] /\ Claimed(q)
        BY <1>0, <3>3, Places DEF Setup
      <4> QED  BY <2>3, <4>1
    <3>4. CASE q = a /\ ~ Setup(q)
      <4>1. socketPath'[q] \in {NoName, socketPath[q]}
        BY <1>0, <3>4
        DEF Moves, Quiet, Leaves, Start, List, Claim, LookAgain, GivesUp, Proceeds,
            Vanish, Resolve, Bind, Unlinks, CarriesOut, Ends, CloseLink, socketVars
      <4> QED  BY <3>1, <4>1
    <3> QED  BY <3>2, <3>3, <3>4
  <2>5. file'[n] = {p}
    <3>1. CASE Setup(a)
      <4>1. file' = [file EXCEPT ![mctp_if_name[a]] = {a}] /\ Claimed(a)
        BY <3>1, Places DEF Setup
      <4>2. CASE a = p
        BY <1>0, <2>2, <4>1, <4>2
      <4>3. CASE a # p
        <5>1. mctp_if_name[a] # n
          BY <2>3, <4>1, <4>3
        <5>2. pc[p] \notin Claiming
          BY <4>3, NobodyElse
        <5>3. file[n] = {p}
          BY <2>2, <5>2 DEF HasItsFile, n
        <5> QED  BY <1>0, <2>2, <4>1, <5>1, <5>3
      <4> QED  BY <4>2, <4>3
    <3>2. CASE ~ Setup(a)
      <4>1. pc[p] \notin Claiming
        <5>1. CASE a # p
          BY <5>1, NobodyElse
        <5>2. CASE a = p
          <6>1. CASE GivesUp(p)
            BY <6>1, Places DEF GivesUp, Claiming
          <6>2. ASSUME NEW r \in Request, Resolve(p, r) PROVE pc[p] \notin Claiming
            <7>1. pc[p] = r /\ pc'[p] = Sending[r]
              BY <1>0, <6>2 DEF Resolve
            <7> QED  BY <1>2, <7>1, Places DEF Claiming, Request
          <6>3. ASSUME NEW r \in Request, NEW q \in Devices, CarriesOut(p, r, q)
                PROVE  pc[p] \notin Claiming
            <7>1. pc[p] = Sending[r] /\ (r = "rename" => pc'[p] = "setup")
              BY <1>0, <6>3 DEF CarriesOut
            <7> QED  BY <1>2, <7>1, Places DEF Claiming
          <6>4. ~ (Leaves(p) \/ Unlinks(p) \/ Bind(p) \/ List(p) \/ Claim(p)
                   \/ LookAgain(p) \/ Vanish(p) \/ \E o \in Option : Start(p, o))
            BY <1>0, <1>2
            DEF Leaves, Unlinks, Bind, List, Claim, LookAgain, Vanish, Start, Ends,
                CloseLink, Claimed, Claiming, Request, Sending
          <6> QED
            BY <3>2, <5>2, <6>1, <6>2, <6>3, <6>4 DEF Moves, Quiet
        <5> QED  BY <5>1, <5>2
      <4>2. file[n] = {p}
        BY <2>2, <4>1 DEF HasItsFile, n
      <4>3. CASE Leaves(a)
        <5>1. a # p
          BY <1>0, <4>3 DEF Leaves, Ends, Claimed, Request, Sending
        <5>2. PICK f \in {file, [m \in Name |-> IF m = socketPath[a] THEN {} ELSE file[m]]} :
                 Ends(a, f)
          BY <4>3 DEF Leaves
        <5>3. socketPath[a] # n
          BY <2>2, <5>1 DEF HasItsFile, n
        <5>4. f[n] = {p}
          BY <2>2, <4>2, <5>2, <5>3
        <5>5. file'[n] = f[n] \ {a}
          BY <2>2, <5>2 DEF Ends
        <5> QED  BY <5>1, <5>4, <5>5
      <4>4. CASE Unlinks(a)
        <5>1. a # p
          BY <1>0, <4>4 DEF Unlinks, CloseLink, Claimed, Request, Sending
        <5>2. mctp_if_name[a] # n
          BY <2>3, <4>4, <5>1, Places DEF Unlinks
        <5> QED  BY <1>0, <2>2, <4>2, <4>4, <5>2 DEF Unlinks
      <4>5. CASE ~ (Leaves(a) \/ Unlinks(a))
        <5>1. file' = file
          BY <3>2, <4>5
          DEF Moves, Quiet, Start, List, Claim, LookAgain, GivesUp, Proceeds, Vanish,
              Resolve, Bind, CarriesOut, socketVars
        <5> QED  BY <4>2, <5>1
      <4> QED  BY <4>3, <4>4, <4>5
    <3> QED  BY <3>1, <3>2
  <2> QED  BY <2>1, <2>4, <2>5 DEF HasItsFile
<1> QED  BY <1>1, <1>2

LEMMA SocketsStep ==
  ASSUME ClaimInv, Types', Interfaces', Alone', Unmixed', [Next]_vars
  PROVE  Sockets'
<1>1. CASE UNCHANGED vars
  <2>1. Sockets
    BY DEF ClaimInv
  <2>2. UNCHANGED <<dev, file, pc, mctp_if_name, socketPath, alone, mixed>>
    BY <1>1 DEF vars, kernelVars, socketVars, claimVars, history
  <2> QED  BY <2>1, <2>2 DEF Sockets, PathOf, HasItsFile, Claimed
<1>2. ASSUME NEW a \in Bridge, Moves(a) PROVE Sockets'
  <2>1. \A p \in Bridge : PathOf(p)'
    BY <1>2, PathStep
  <2>2. ~mixed' => ~mixed
    BY <1>2
    DEF Moves, Quiet, Leaves, Start, List, Claim, LookAgain, GivesUp, Proceeds, Setup,
        Vanish, Resolve, Bind, Unlinks, CarriesOut, Ends, CloseLink, history, ClaimInv,
        Types, TypeOK
  <2>3. ASSUME ~mixed', NEW p \in Bridge, alone'[p], Claimed(p)' PROVE HasItsFile(p)'
    BY <1>2, <2>1, <2>2, <2>3, FileStep
  <2> QED  BY <2>1, <2>3 DEF Sockets
<1> QED  BY <1>1, <1>2, NextSteps DEF ClaimInv

-----------------------------------------------------------------------------
(***************************************************************************)
(* The theorems.                                                           *)
(***************************************************************************)

\* No process has started: nobody has an interface, a name or a socket.
LEMMA InitialClaims ==
  ASSUME Init
  PROVE  ClaimInv
<1> USE DEF Init
<1>0. /\ Retries \in Nat \ {0} /\ 0 \in 0 .. Retries - 1
      /\ \A p \in Bridge : pc[p] = "off" /\ dev[p] = NoDevice /\ ~ alone[p]
      /\ \A p \in Bridge : ~ Claimed(p)
      /\ ~ mixed
  <2>1. Retries \in Nat \ {0}
    BY ClaimAssumption
  <2> QED  BY <2>1 DEF Claimed, Request, Sending
<1>1. Types
  <2>1. "off" \in Place
    BY DEF Place
  <2>2. NoName \in Name \cup {NoName} /\ 0 <= 0 /\ {} \cup {} \subseteq Bridge
    OBVIOUS
  <2>3. \A p \in Bridge : /\ dev[p].name \in Name \cup {NoName}
                          /\ dev[p].index <= created
                          /\ dev[p].addr \cup dev[p].routes \subseteq Bridge
    BY <1>0, <2>2, DeviceFields
  <2>4. dev \in [Bridge -> DeviceType] /\ created \in Nat
    BY DeviceFields
  <2> QED  BY <1>0, <2>1, <2>3, <2>4 DEF Types, TypeOK
<1>2. Interfaces
  BY <1>0 DEF Interfaces, Devices, Unlinked
<1>3. Alone
  BY <1>0 DEF Alone
<1>4. Unmixed
  BY <1>0, DeviceFields, Places DEF Unmixed, KnowsItsOwn, InOrder
<1>5. Sockets
  BY <1>0 DEF Sockets, PathOf
<1> QED  BY <1>1, <1>2, <1>3, <1>4, <1>5 DEF ClaimInv

\* In every state interfaces differ in index, number and name, a process has
\* one exactly between setting the line discipline and close(), one that was
\* alone knows its own and those that came later take others, and as long as
\* nobody claimed wrongly everybody configures, and is reached by, its own.
THEOREM ClaimInvariant == Spec => []ClaimInv
<1>1. ClaimInv /\ [Next]_vars => ClaimInv'
  <2> SUFFICES ASSUME ClaimInv, [Next]_vars PROVE ClaimInv'
    OBVIOUS
  <2>1. Types'
    BY TypesStep
  <2>2. Interfaces'
    BY InterfacesStep
  <2>3. Alone'
    BY <2>1, <2>2, AloneStep
  <2>4. Unmixed'
    BY UnmixedStep
  <2>5. Sockets'
    BY <2>1, <2>2, <2>3, <2>4, SocketsStep
  <2> QED  BY <2>1, <2>2, <2>3, <2>4, <2>5 DEF ClaimInv
<1> QED  BY <1>1, InitialClaims, PTL DEF Spec

\* Every variable holds a value of its type; in particular nobody looks for an
\* interface more than Retries times, in initialize() as in close().
THEOREM ClaimTypeCorrect == Spec => []TypeOK
<1>1. ClaimInv => TypeOK
  BY DEF ClaimInv, Types
<1> QED  BY <1>1, ClaimInvariant, PTL

\* A bridge that had the machine to itself while it took its names works on the
\* interface it created, under its present name, whatever others do later, for
\* any number of bridges.
THEOREM AloneClaims == Spec => []AloneClaimsItsOwn
<1>1. ClaimInv => AloneClaimsItsOwn
  BY DEF ClaimInv, Alone, OwnNames, AloneClaimsItsOwn
<1> QED  BY <1>1, ClaimInvariant, PTL

\* As long as nobody has claimed the wrong interface, configure_mctp leaves no
\* interface with a route that is not up, nor up without its bridge's address,
\* whichever request failed, and none with what is another bridge's.
THEOREM ConfigurationInOrder == Spec => []ConfiguredInOrder
<1>1. ClaimInv => ConfiguredInOrder
  BY DEF ClaimInv, Unmixed, InOrder, ConfiguredInOrder, Devices
<1> QED  BY <1>1, ClaimInvariant, PTL

\* A bridge that had the machine to itself while it took its names stays
\* reachable under them, whoever starts, stops or dies later, unless one of
\* them claims wrongly.
THEOREM AloneReachable == Spec => []AloneStaysReachable
<1>1. ASSUME ClaimInv, ~mixed, NEW p \in Bridge, pc[p] = "running", alone[p]
      PROVE  Reachable(p)
  <2>1. Claimed(p) /\ pc[p] \notin Claiming
    BY <1>1, Places DEF Claiming
  <2>2. mctp_if_name[p] = dev[p].name
    BY <1>1, <2>1 DEF ClaimInv, Unmixed, KnowsItsOwn
  <2>3. file[dev[p].name] = {p}
    BY <1>1, <2>1 DEF ClaimInv, Sockets, HasItsFile
  <2> QED  BY <2>2, <2>3 DEF Reachable
<1>2. ClaimInv => AloneStaysReachable
  BY <1>1 DEF AloneStaysReachable
<1> QED  BY <1>2, ClaimInvariant, PTL

=============================================================================
