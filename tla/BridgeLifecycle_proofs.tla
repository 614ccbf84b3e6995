----------------------- MODULE BridgeLifecycle_proofs -----------------------
(***************************************************************************)
(* Theorems about BridgeLifecycle: whatever fails in however many calls of *)
(* open(), a closed bridge is down, no joinable thread is assigned to and  *)
(* only sockets are lost.  These hold for every value that                 *)
(* SerialInspector's real_fd may start with: closing a number that belongs *)
(* to somebody else can break a link, and it leaves nothing open.          *)
(*                                                                         *)
(* Where the table is large enough, every number an object gets is a       *)
(* descriptor.  There, whatever real_fd starts with, every number that an  *)
(* object holds is that of what it opened, until the device is given the   *)
(* number of linuxSerial's pipe or the first setTty() has closed the       *)
(* descriptor of another object: so each rx thread has its link, and       *)
(* setTty() closes its device, or what its first call finds in the unset   *)
(* real_fd, and nothing else.                                              *)
(***************************************************************************)
EXTENDS BridgeLifecycle, FiniteSetTheorems, TLAPS

-----------------------------------------------------------------------------
(***************************************************************************)
(* The invariant.                                                          *)
(***************************************************************************)

Tables == [Fd -> Role \cup {"free"}]

\* An MctpSerial object whose thread is joinable exactly while running is set,
\* which is why close() joins every thread there is.
IsSerial(s) ==
    /\ s = [serial_fd |-> s.serial_fd, pipeRead |-> s.pipeRead,
            pipeWrite |-> s.pipeWrite, running |-> s.running,
            joinable |-> s.joinable]
    /\ s.running \in BOOLEAN
    /\ s.joinable = s.running

ObjectsOK ==
    /\ table \in Tables
    /\ serial = [x \in Link |-> serial[x]]
    /\ \A x \in Link : IsSerial(serial[x])
    /\ dispatch \in BOOLEAN

\* Where the owner can be while a serial link or the kernel's link is open.
\* After an exception mctpSerial is closed: it is the last to be opened.
MayBeUp == [
    linux     |-> {"linuxMctp", "bcast", "setTty", "mctpSerial", "start", "open",
                   "close", "threw"},
    linuxMctp |-> {"bcast", "setTty", "mctpSerial", "start", "open", "close",
                   "threw"},
    tty       |-> {"start", "open", "close"}]

\* Whatever is open is known to its object, and was opened by the steps of
\* open() that are done.
LinksKnown ==
    /\ \A x \in Link : serial[x].joinable => at \in MayBeUp[x]
    /\ \A x \in Link, n \in Fd :
           table[n] = SerialOf[x] => serial[x].serial_fd = n /\ at \in MayBeUp[x]
    /\ \A n \in Fd :
           table[n] = "linuxMctp" => fd_ = n /\ at \in MayBeUp["linuxMctp"]

OwnerOK ==
    /\ at \in {"closed", "threw", "close", "linuxSerial", "linuxMctp", "bcast",
               "setTty", "mctpSerial", "start", "open"}
    /\ then \in {"closed", "linuxSerial", "start"}
    /\ dispatch => at \in {"open", "close"}

LifecycleInv == ObjectsOK /\ LinksKnown /\ OwnerOK

-----------------------------------------------------------------------------
(***************************************************************************)
(* The descriptor table.                                                   *)
(***************************************************************************)

\* The roles of the three links are different from each other and from those
\* of everything else that is opened.
LEMMA RolesDiffer ==
  /\ SerialOf["linux"] = "linuxSerial" /\ SerialOf["tty"] = "mctpSerial"
  /\ {"inherited", "linuxMctp", "listen", "conn", "device"} \subseteq Role
  /\ \A x \in Link : /\ {SerialOf[x], PipeReadOf[x], PipeWriteOf[x]} \subseteq Role
                     /\ PipeReadOf[x] \notin {"linuxMctp", "linuxSerial", "mctpSerial"}
                     /\ PipeWriteOf[x] \notin {"linuxMctp", "linuxSerial", "mctpSerial"}
BY DEF Role, Link, SerialOf, PipeReadOf, PipeWriteOf

\* Opening adds one role, at the number that is returned.
LEMMA TakeAdds ==
  ASSUME NEW t \in Tables, NEW r \in Role
  PROVE  /\ Take(t, r) \in Tables
         /\ \A n \in Fd : \/ Take(t, r)[n] = t[n]
                          \/ n = Lowest(t) /\ Take(t, r)[n] = r
BY DEF Take, Tables

\* Closing adds none, and what was at the number is gone.
LEMMA ReleaseRemoves ==
  ASSUME NEW t \in Tables, NEW m
  PROVE  /\ Release(t, m) \in Tables
         /\ \A n \in Fd : Release(t, m)[n] \in {t[n], "free"}
         /\ m \in Fd => Release(t, m)[m] = "free"
BY DEF Release, Tables

\* What close() and the invariant are about.
LinkRoles == {"linuxMctp", "linuxSerial", "mctpSerial"}

\* An object that gets the ends of its pipe.
WithPipe(s, a, b) == [s EXCEPT !.pipeRead = a, !.pipeWrite = b]

\* The ends of a pipe are written into the object, and nothing else.
LEMMA PipeFieldsSet ==
  ASSUME NEW s, IsSerial(s), NEW a, NEW b
  PROVE  /\ IsSerial(WithPipe(s, a, b))
         /\ WithPipe(s, a, b).joinable = s.joinable
         /\ WithPipe(s, a, b).serial_fd = s.serial_fd
         /\ WithPipe(s, a, b).pipeRead = a /\ WithPipe(s, a, b).pipeWrite = b
<1> DEFINE o == [s EXCEPT !.pipeRead = a, !.pipeWrite = b]
<1>1. o = [serial_fd |-> s.serial_fd, pipeRead |-> a, pipeWrite |-> b,
           running |-> s.running, joinable |-> s.joinable]
  <2> DEFINE F == s.serial_fd
             P == s.pipeRead
             W == s.pipeWrite
             R == s.running
             J == s.joinable
  <2>1. s = [serial_fd |-> F, pipeRead |-> P, pipeWrite |-> W, running |-> R,
             joinable |-> J]
    BY DEF IsSerial
  <2> HIDE DEF F, P, W, R, J
  <2> DEFINE half == [s EXCEPT !.pipeRead = a]
  <2>2. half = [serial_fd |-> F, pipeRead |-> a, pipeWrite |-> W,
                running |-> R, joinable |-> J]
    BY <2>1
  <2>3. o = [half EXCEPT !.pipeWrite = b]
    OBVIOUS
  <2> HIDE DEF half, o
  <2>4. o = [serial_fd |-> F, pipeRead |-> a, pipeWrite |-> b, running |-> R,
             joinable |-> J]
    BY <2>2, <2>3
  <2> QED
    BY <2>4 DEF F, R, J
<1>2. s.running \in BOOLEAN /\ s.joinable = s.running
  BY DEF IsSerial
<1> HIDE DEF o
<1>3. /\ o.serial_fd = s.serial_fd /\ o.pipeRead = a /\ o.pipeWrite = b
      /\ o.running = s.running /\ o.joinable = s.joinable
  BY <1>1
<1>4. IsSerial(o) /\ o.joinable = s.joinable
  BY <1>1, <1>2, <1>3 DEF IsSerial
<1> QED
  BY <1>3, <1>4 DEF o, WithPipe

\* Making the pipe changes no link.
LEMMA PipeShape ==
  ASSUME ObjectsOK, NEW x \in Link
  PROVE  LET p == Piped(table, x)
         IN  /\ p.table \in Tables
             /\ \A n \in Fd : p.table[n] \in LinkRoles => p.table[n] = table[n]
             /\ IsSerial(p.object)
             /\ p.object.joinable = serial[x].joinable
<1> DEFINE p == Piped(table, x)
           r == Take(table, PipeReadOf[x])
<1>1. IsSerial(serial[x]) /\ table \in Tables
  BY DEF ObjectsOK
<1>2. CASE serial[x].pipeRead >= 0
  BY <1>1, <1>2 DEF Piped
<1>3. CASE ~(serial[x].pipeRead >= 0)
  <2>1. /\ p.table = Take(r, PipeWriteOf[x])
        /\ p.object = WithPipe(serial[x], Lowest(table), Lowest(r))
    BY <1>3 DEF Piped, WithPipe
  <2>2. /\ r \in Tables
        /\ \A n \in Fd : r[n] \in LinkRoles => r[n] = table[n]
    BY <1>1, RolesDiffer, TakeAdds DEF LinkRoles
  <2>3. /\ p.table \in Tables
        /\ \A n \in Fd : p.table[n] \in LinkRoles => p.table[n] = r[n]
    <3> HIDE DEF p, r
    <3>1. /\ PipeWriteOf[x] \in Role
          /\ PipeWriteOf[x] \notin LinkRoles
      BY RolesDiffer DEF LinkRoles
    <3> QED
      BY <2>1, <2>2, <3>1, TakeAdds
  <2>4. IsSerial(p.object) /\ p.object.joinable = serial[x].joinable
    <3> HIDE DEF p, r
    <3> QED
      BY <1>1, <2>1, PipeFieldsSet
  <2> QED
    BY <2>2, <2>3, <2>4
<1> QED
  BY <1>2, <1>3

-----------------------------------------------------------------------------
(***************************************************************************)
(* The steps.                                                              *)
(***************************************************************************)

Later == \A y \in {"linux", "tty", "linuxMctp"} :
             at \in MayBeUp[y] => at' \in MayBeUp[y]

\* A step that opens or closes something other than a link.
LEMMA OtherDescriptor ==
  ASSUME ObjectsOK, LinksKnown, UNCHANGED <<serial, fd_>>, Later,
         table' \in Tables,
         \A n \in Fd : table'[n] \in LinkRoles => table'[n] = table[n],
         dispatch' \in BOOLEAN
  PROVE  ObjectsOK' /\ LinksKnown'
<1>1. ObjectsOK'
  BY DEF ObjectsOK
<1>2. \A x \in Link : SerialOf[x] \in LinkRoles /\ x \in {"linux", "tty", "linuxMctp"}
  BY RolesDiffer DEF LinkRoles, Link
<1>3. LinksKnown'
  BY <1>2 DEF LinksKnown, Later, LinkRoles
<1> QED
  BY <1>1, <1>3

\* A step that changes no descriptor.
LEMMA NoDescriptor ==
  ASSUME ObjectsOK, LinksKnown, UNCHANGED <<table, serial, fd_>>, Later,
         dispatch' \in BOOLEAN
  PROVE  ObjectsOK' /\ LinksKnown'
BY OtherDescriptor DEF ObjectsOK

\* MctpSerial::open of a link that is down, whatever comes of it.
LEMMA SerialOpens ==
  ASSUME ObjectsOK, LinksKnown, NEW x \in Link, NEW result,
         OpenSerialDone(x, result) \/ OpenSerialFails(x, result),
         at \notin MayBeUp[x], at' \in MayBeUp[x], Later,
         UNCHANGED <<fd_, dispatch>>
  PROVE  ObjectsOK' /\ LinksKnown'
<1> DEFINE p == Piped(table, x)
<1>1. /\ p.table \in Tables
      /\ \A n \in Fd : p.table[n] \in LinkRoles => p.table[n] = table[n]
      /\ IsSerial(p.object)
      /\ p.object.joinable = serial[x].joinable
  BY PipeShape
<1>2. ~serial[x].joinable /\ \A n \in Fd : table[n] # SerialOf[x]
  BY DEF LinksKnown
<1>3. SerialOf[x] \in LinkRoles /\ SerialOf[x] \in Role /\ SerialOf[x] # "linuxMctp"
  BY RolesDiffer DEF LinkRoles, Link
<1>4. \A y \in Link \ {x} : SerialOf[y] # SerialOf[x] /\ SerialOf[y] \in LinkRoles
  BY RolesDiffer DEF LinkRoles, Link
<1>5. CASE OpenSerialDone(x, result)
  <2>1. /\ table' = Take(p.table, SerialOf[x])
        /\ serial' = [serial EXCEPT ![x] =
                         [p.object EXCEPT !.serial_fd = Lowest(p.table),
                                          !.running = TRUE,
                                          !.joinable = TRUE]]
    BY <1>5 DEF OpenSerialDone
  <2>2. /\ table' \in Tables
        /\ \A n \in Fd : \/ table'[n] = p.table[n]
                         \/ n = Lowest(p.table) /\ table'[n] = SerialOf[x]
    BY <2>1, <1>1, <1>3, TakeAdds
  <2>3. \A y \in Link \ {x} : serial'[y] = serial[y]
    BY <2>1 DEF ObjectsOK
  <2>4. /\ serial'[x] = [p.object EXCEPT !.serial_fd = Lowest(p.table),
                                         !.running = TRUE, !.joinable = TRUE]
        /\ serial' = [y \in Link |-> serial'[y]]
    BY <2>1 DEF ObjectsOK
  <2>5. IsSerial(serial'[x]) /\ serial'[x].serial_fd = Lowest(p.table)
    BY <2>4, <1>1 DEF IsSerial
  <2>6. ObjectsOK'
    BY <2>2, <2>3, <2>4, <2>5 DEF ObjectsOK
  <2>7. \A n \in Fd : table'[n] = SerialOf[x] => serial'[x].serial_fd = n
    BY <2>2, <2>5, <1>1, <1>2, <1>3
  <2>8. \A n \in Fd : table'[n] \in LinkRoles /\ table'[n] # SerialOf[x]
                         => table'[n] = table[n]
    BY <2>2, <1>1
  <2>9. LinksKnown'
    <3>1. \A y \in Link : serial'[y].joinable => at' \in MayBeUp[y]
      BY <2>3 DEF LinksKnown, Later, Link
    <3>2. \A y \in Link, n \in Fd :
             table'[n] = SerialOf[y] => serial'[y].serial_fd = n /\ at' \in MayBeUp[y]
      BY <2>3, <2>7, <2>8, <1>4 DEF LinksKnown, Later, Link
    <3>3. \A n \in Fd :
             table'[n] = "linuxMctp" => fd_' = n /\ at' \in MayBeUp["linuxMctp"]
      BY <2>8, <1>3 DEF LinksKnown, Later, LinkRoles
    <3> QED
      BY <3>1, <3>2, <3>3 DEF LinksKnown
  <2> QED
    BY <2>6, <2>9
<1>6. CASE OpenSerialFails(x, result) /\ UNCHANGED <<table, serial>>
  BY <1>6, NoDescriptor DEF ObjectsOK
<1>7. CASE OpenSerialFails(x, result) /\ ~UNCHANGED <<table, serial>>
  <2>1. /\ table' = p.table
        /\ serial' = [serial EXCEPT ![x] = [p.object EXCEPT !.serial_fd = -1]]
    BY <1>7 DEF OpenSerialFails
  <2>2. \A y \in Link \ {x} : serial'[y] = serial[y]
    BY <2>1 DEF ObjectsOK
  <2>3. /\ serial'[x] = [p.object EXCEPT !.serial_fd = -1]
        /\ serial' = [y \in Link |-> serial'[y]]
    BY <2>1 DEF ObjectsOK
  <2>4. IsSerial(serial'[x]) /\ serial'[x].joinable = serial[x].joinable
    BY <2>3, <1>1 DEF IsSerial
  <2>5. ObjectsOK'
    BY <2>1, <2>2, <2>3, <2>4, <1>1 DEF ObjectsOK
  <2>6. LinksKnown'
    <3>1. \A y \in Link : serial'[y].joinable => at' \in MayBeUp[y]
      BY <2>2, <2>4 DEF LinksKnown, Later, Link
    <3>2. \A y \in Link, n \in Fd :
             table'[n] = SerialOf[y] => serial'[y].serial_fd = n /\ at' \in MayBeUp[y]
      BY <2>1, <2>2, <1>1, <1>2, <1>3, <1>4 DEF LinksKnown, Later, Link
    <3>3. \A n \in Fd :
             table'[n] = "linuxMctp" => fd_' = n /\ at' \in MayBeUp["linuxMctp"]
      BY <2>1, <1>1 DEF LinksKnown, Later, LinkRoles
    <3> QED
      BY <3>1, <3>2, <3>3 DEF LinksKnown
  <2> QED
    BY <2>5, <2>6
<1> QED
  BY <1>5, <1>6, <1>7

-----------------------------------------------------------------------------
(***************************************************************************)
(* close().                                                                *)
(***************************************************************************)

\* A closed link has no thread: where one was joinable, running was set.
LEMMA ClosedHasNoThread ==
  ASSUME NEW s, IsSerial(s)
  PROVE  LET o == ClosedSerial(s)
         IN  /\ IsSerial(o) /\ ~o.joinable /\ o.serial_fd = -1
             /\ o.pipeRead = s.pipeRead /\ o.pipeWrite = s.pipeWrite
<1> DEFINE F == s.serial_fd
           P == s.pipeRead
           W == s.pipeWrite
           R == s.running
           J == s.joinable
           No == FALSE
           o == ClosedSerial(s)
           stopped == [s EXCEPT !.running = No]
           joined == [stopped EXCEPT !.joinable = No]
<1>1. s = [serial_fd |-> F, pipeRead |-> P, pipeWrite |-> W, running |-> R,
           joinable |-> J]
  BY DEF IsSerial
<1>2. (s.joinable /\ ~s.running) = No
  BY DEF IsSerial
<1>3. o = [joined EXCEPT !.serial_fd = -1]
  BY <1>2 DEF ClosedSerial
<1>4. No \in BOOLEAN /\ ~No
  OBVIOUS
<1> HIDE DEF F, P, W, R, J, No, o
<1>5. stopped = [serial_fd |-> F, pipeRead |-> P, pipeWrite |-> W,
                 running |-> No, joinable |-> J]
  BY <1>1
<1> HIDE DEF stopped
<1>6. joined = [serial_fd |-> F, pipeRead |-> P, pipeWrite |-> W,
                running |-> No, joinable |-> No]
  BY <1>5
<1> HIDE DEF joined
<1>7. o = [serial_fd |-> -1, pipeRead |-> P, pipeWrite |-> W,
           running |-> No, joinable |-> No]
  BY <1>3, <1>6
<1>8. /\ IsSerial(o) /\ ~o.joinable /\ o.serial_fd = -1
      /\ o.pipeRead = P /\ o.pipeWrite = W
  BY <1>4, <1>7 DEF IsSerial
<1> QED
  BY <1>8 DEF o, P, W

\* close() opens nothing.
LEMMA ClosedTableShrinks ==
  ASSUME ObjectsOK
  PROVE  ClosedTable \in Tables /\ \A n \in Fd : ClosedTable[n] \in {table[n], "free"}
<1> DEFINE a == Release(table, fd_)
           b == Release(a, serial["tty"].serial_fd)
           c == Release(b, serial["linux"].serial_fd)
           d == Release(c, linux_fd)
<1>1. a \in Tables /\ \A n \in Fd : a[n] \in {table[n], "free"}
  BY ReleaseRemoves DEF ObjectsOK
<1>2. b \in Tables /\ \A n \in Fd : b[n] \in {a[n], "free"}
  BY <1>1, ReleaseRemoves
<1>3. c \in Tables /\ \A n \in Fd : c[n] \in {b[n], "free"}
  BY <1>2, ReleaseRemoves
<1>4. d \in Tables /\ \A n \in Fd : d[n] \in {c[n], "free"}
  BY <1>3, ReleaseRemoves
<1>5. ClosedTable = d
  BY DEF ClosedTable
<1> HIDE DEF a, b, c, d
<1> QED  BY <1>1, <1>2, <1>3, <1>4, <1>5

\* Closing what the objects know of closes all links.
LEMMA ClosedTableHasNoLink ==
  ASSUME ObjectsOK, LinksKnown
  PROVE  ClosedTable \in Tables /\ \A n \in Fd : ClosedTable[n] \notin LinkRoles
<1> DEFINE a == Release(table, fd_)
           b == Release(a, serial["tty"].serial_fd)
           c == Release(b, serial["linux"].serial_fd)
           d == Release(c, linux_fd)
<1>1. table \in Tables
  BY DEF ObjectsOK
<1>2. /\ a \in Tables
      /\ \A n \in Fd : a[n] \in {table[n], "free"}
      /\ fd_ \in Fd => a[fd_] = "free"
  BY <1>1, ReleaseRemoves
<1>3. /\ b \in Tables
      /\ \A n \in Fd : b[n] \in {a[n], "free"}
      /\ serial["tty"].serial_fd \in Fd => b[serial["tty"].serial_fd] = "free"
  BY <1>2, ReleaseRemoves
<1>4. /\ c \in Tables
      /\ \A n \in Fd : c[n] \in {b[n], "free"}
      /\ serial["linux"].serial_fd \in Fd => c[serial["linux"].serial_fd] = "free"
  BY <1>3, ReleaseRemoves
<1>5. /\ d \in Tables
      /\ \A n \in Fd : d[n] \in {c[n], "free"}
  BY <1>4, ReleaseRemoves
<1>6. ClosedTable = d
  BY DEF ClosedTable
<1> HIDE DEF a, b, c, d
<1>7. \A n \in Fd : /\ table[n] = "linuxMctp" => n = fd_
                    /\ table[n] = "mctpSerial" => n = serial["tty"].serial_fd
                    /\ table[n] = "linuxSerial" => n = serial["linux"].serial_fd
  BY RolesDiffer DEF LinksKnown, Link
<1>8. ASSUME NEW n \in Fd PROVE d[n] \notin LinkRoles
  BY <1>2, <1>3, <1>4, <1>5, <1>7 DEF LinkRoles
<1> QED
  BY <1>5, <1>6, <1>8

\* close() leaves nothing up, whatever was up.
LEMMA CloseKeepsInv ==
  ASSUME LifecycleInv, Close
  PROVE  LifecycleInv'
<1> USE DEF LifecycleInv
<1>1. /\ table' = ClosedTable
      /\ serial' = [x \in Link |-> ClosedSerial(serial[x])]
      /\ dispatch' = FALSE
      /\ at' = then /\ then' = "closed"
  BY DEF Close, CloseAll
<1>2. table' \in Tables /\ \A n \in Fd : table'[n] \notin LinkRoles
  BY <1>1, ClosedTableHasNoLink
<1>3. \A x \in Link : IsSerial(serial'[x]) /\ ~serial'[x].joinable
  <2> TAKE x \in Link
  <2>1. IsSerial(serial[x])
    BY DEF ObjectsOK
  <2>2. serial'[x] = ClosedSerial(serial[x])
    BY <1>1
  <2> QED
    BY <2>1, <2>2, ClosedHasNoThread
<1>4. ObjectsOK'
  BY <1>1, <1>2, <1>3 DEF ObjectsOK
<1>5. LinksKnown'
  BY <1>2, <1>3, RolesDiffer DEF LinksKnown, LinkRoles, Link
<1>6. OwnerOK'
  BY <1>1 DEF OwnerOK
<1> QED
  BY <1>4, <1>5, <1>6

-----------------------------------------------------------------------------
(***************************************************************************)
(* The kernel's interface.                                                 *)
(***************************************************************************)

\* LinuxMctpSerial opens the kernel's pty: the one there is.
LEMMA PtyOpens ==
  ASSUME ObjectsOK, LinksKnown,
         fd_' = Lowest(table), table' = Take(table, "linuxMctp"),
         at \notin MayBeUp["linuxMctp"], at' \in MayBeUp["linuxMctp"], Later,
         UNCHANGED <<serial, dispatch>>
  PROVE  ObjectsOK' /\ LinksKnown'
<1>1. table \in Tables /\ "linuxMctp" \in Role
  BY RolesDiffer DEF ObjectsOK
<1>2. /\ table' \in Tables
      /\ \A n \in Fd : \/ table'[n] = table[n]
                       \/ n = fd_' /\ table'[n] = "linuxMctp"
  BY <1>1, TakeAdds
<1>3. ObjectsOK'
  BY <1>2 DEF ObjectsOK
<1>4. \A n \in Fd : table[n] # "linuxMctp"
  BY DEF LinksKnown
<1>5. \A x \in Link : SerialOf[x] # "linuxMctp" /\ x \in {"linux", "tty", "linuxMctp"}
  BY RolesDiffer DEF Link
<1>6. LinksKnown'
  BY <1>2, <1>4, <1>5 DEF LinksKnown, Later
<1> QED
  BY <1>3, <1>6

-----------------------------------------------------------------------------
(***************************************************************************)
(* The invariant is inductive.                                             *)
(***************************************************************************)

\* Nothing is up before the first open(), whatever real_fd holds.
LEMMA LifecycleInit == Init => LifecycleInv
<1> SUFFICES ASSUME Init PROVE LifecycleInv
  OBVIOUS
<1>1. \A n \in Fd : table[n] \in {"inherited", "free"}
  BY DEF Init
<1>2. table \in Tables
  BY RolesDiffer DEF Init, Tables
<1>3. ObjectsOK
  BY <1>2 DEF Init, ObjectsOK, IsSerial
<1>4. LinksKnown
  BY <1>1, RolesDiffer DEF Init, LinksKnown, Link
<1>5. OwnerOK
  BY DEF Init, OwnerOK
<1> QED
  BY <1>3, <1>4, <1>5 DEF LifecycleInv

\* Every step keeps the invariant.
LEMMA LifecycleStep == LifecycleInv /\ [Next]_vars => LifecycleInv'
<1> SUFFICES ASSUME LifecycleInv, [Next]_vars PROVE LifecycleInv'
  OBVIOUS
<1>0. ObjectsOK /\ LinksKnown /\ OwnerOK
  BY DEF LifecycleInv
<1>1. table \in Tables /\ dispatch \in BOOLEAN
  BY <1>0 DEF ObjectsOK
<1>2. /\ {"listen", "device", "conn"} \subseteq Role
      /\ {"listen", "device", "conn", "free"} \cap LinkRoles = {}
  BY RolesDiffer DEF LinkRoles
<1>3. CASE Open
  <2>1. Later
    BY <1>3, <1>0 DEF Open, Later, MayBeUp
  <2>2. OwnerOK'
    BY <1>3, <1>0 DEF Open, OwnerOK
  <2> QED
    BY <1>3, <1>0, <1>1, <2>1, <2>2, NoDescriptor DEF Open, LifecycleInv
<1>4. CASE CallClose
  <2>1. Later
    BY <1>4 DEF CallClose, Later, MayBeUp
  <2>2. OwnerOK'
    BY <1>4, <1>0 DEF CallClose, OwnerOK
  <2> QED
    BY <1>4, <1>0, <1>1, <2>1, <2>2, NoDescriptor DEF CallClose, LifecycleInv
<1>5. CASE Close
  BY <1>5, CloseKeepsInv
<1>6. CASE OpenLinuxSerial
  <2>1. Later /\ at \notin MayBeUp["linux"] /\ at' \in MayBeUp["linux"]
    BY <1>6 DEF OpenLinuxSerial, Later, MayBeUp
  <2>2. OwnerOK'
    BY <1>6, <1>0 DEF OpenLinuxSerial, OwnerOK
  <2>3. PICK result : OpenSerialDone("linux", result) \/ OpenSerialFails("linux", result)
    BY <1>6 DEF OpenLinuxSerial
  <2>4. UNCHANGED <<fd_, dispatch>> /\ "linux" \in Link
    BY <1>6 DEF OpenLinuxSerial, Link
  <2> QED
    BY <1>0, <2>1, <2>2, <2>3, <2>4, SerialOpens DEF LifecycleInv
<1>7. CASE Initialize
  <2>1. Later /\ at \notin MayBeUp["linuxMctp"] /\ at' \in MayBeUp["linuxMctp"]
    BY <1>7 DEF Initialize, Later, MayBeUp
  <2>2. OwnerOK'
    BY <1>7, <1>0 DEF Initialize, OwnerOK
  <2> QED
    BY <1>7, <1>0, <2>1, <2>2, PtyOpens DEF Initialize, LifecycleInv
<1>8. CASE InitializeThrows
  <2>1. Later /\ at \notin MayBeUp["linuxMctp"] /\ at' \in MayBeUp["linuxMctp"]
    BY <1>8 DEF InitializeThrows, Later, MayBeUp
  <2>2. OwnerOK'
    BY <1>8, <1>0 DEF InitializeThrows, OwnerOK
  <2>3. CASE UNCHANGED <<table, fd_>>
    BY <1>8, <1>0, <1>1, <2>1, <2>2, <2>3, NoDescriptor
       DEF InitializeThrows, LifecycleInv
  <2>4. CASE fd_' = Lowest(table) /\ table' = Take(table, "linuxMctp")
    BY <1>8, <1>0, <2>1, <2>2, <2>4, PtyOpens DEF InitializeThrows, LifecycleInv
  <2> QED
    BY <1>8, <2>3, <2>4 DEF InitializeThrows
<1>9. CASE SetupBcast
  <2>1. Later
    BY <1>9 DEF SetupBcast, Later, MayBeUp
  <2>2. OwnerOK'
    BY <1>9, <1>0 DEF SetupBcast, OwnerOK
  <2>3. /\ table' \in Tables
        /\ \A n \in Fd : table'[n] \in LinkRoles => table'[n] = table[n]
    BY <1>9, <1>1, <1>2, TakeAdds DEF SetupBcast
  <2> QED
    BY <1>9, <1>0, <1>1, <2>1, <2>2, <2>3, OtherDescriptor
       DEF SetupBcast, LifecycleInv
<1>10. CASE SetupBcastFails
  <2>1. Later
    BY <1>10 DEF SetupBcastFails, Later, MayBeUp
  <2>2. OwnerOK'
    BY <1>10, <1>0 DEF SetupBcastFails, OwnerOK
  <2> QED
    BY <1>10, <1>0, <1>1, <2>1, <2>2, NoDescriptor
       DEF SetupBcastFails, LifecycleInv
<1>11. CASE SetTty
  <2>1. Later
    BY <1>11 DEF SetTty, Later, MayBeUp
  <2>2. OwnerOK'
    BY <1>11, <1>0 DEF SetTty, OwnerOK
  <2>3. /\ table' \in Tables
        /\ \A n \in Fd : table'[n] \in LinkRoles => table'[n] = table[n]
    <3> DEFINE t == Release(table, real_fd)
    <3>1. t \in Tables /\ \A n \in Fd : t[n] \in {table[n], "free"}
      BY <1>1, ReleaseRemoves
    <3>2. table' = Take(t, "device")
      BY <1>11 DEF SetTty
    <3> HIDE DEF t
    <3>3. /\ table' \in Tables
          /\ \A n \in Fd : table'[n] = t[n] \/ table'[n] = "device"
      BY <3>1, <3>2, <1>2, TakeAdds
    <3> QED
      BY <3>1, <3>3, <1>2
  <2> QED
    BY <1>11, <1>0, <1>1, <2>1, <2>2, <2>3, OtherDescriptor
       DEF SetTty, LifecycleInv
<1>12. CASE SetTtyThrows
  <2>1. Later
    BY <1>12 DEF SetTtyThrows, Later, MayBeUp
  <2>2. OwnerOK'
    BY <1>12, <1>0 DEF SetTtyThrows, OwnerOK
  <2>3. /\ table' \in Tables
        /\ \A n \in Fd : table'[n] \in LinkRoles => table'[n] = table[n]
    BY <1>12, <1>1, <1>2, ReleaseRemoves DEF SetTtyThrows
  <2> QED
    BY <1>12, <1>0, <1>1, <2>1, <2>2, <2>3, OtherDescriptor
       DEF SetTtyThrows, LifecycleInv
<1>13. CASE OpenMctpSerial
  <2>1. at' \in {"close", "start"} /\ then' \in {"start", then} /\ at = "mctpSerial"
    BY <1>13 DEF OpenMctpSerial
  <2>2. Later /\ at \notin MayBeUp["tty"] /\ at' \in MayBeUp["tty"]
    BY <2>1 DEF Later, MayBeUp
  <2>3. UNCHANGED <<fd_, dispatch>> /\ "tty" \in Link
    BY <1>13 DEF OpenMctpSerial, Link
  <2>4. OwnerOK'
    BY <2>1, <2>3, <1>0 DEF OwnerOK
  <2>5. PICK result : OpenSerialDone("tty", result) \/ OpenSerialFails("tty", result)
    BY <1>13 DEF OpenMctpSerial
  <2> QED
    BY <1>0, <2>2, <2>3, <2>4, <2>5, SerialOpens DEF LifecycleInv
<1>14. CASE Start
  <2>1. Later
    BY <1>14 DEF Start, Later, MayBeUp
  <2>2. OwnerOK'
    BY <1>14, <1>0 DEF Start, OwnerOK
  <2> QED
    BY <1>14, <1>0, <2>1, <2>2, NoDescriptor DEF Start, LifecycleInv
<1>15. CASE AcceptConnection
  <2>1. Later
    BY <1>15 DEF AcceptConnection, Later
  <2>2. OwnerOK'
    BY <1>15, <1>0 DEF AcceptConnection, OwnerOK
  <2>3. /\ table' \in Tables
        /\ \A n \in Fd : table'[n] \in LinkRoles => table'[n] = table[n]
    BY <1>15, <1>1, <1>2, TakeAdds DEF AcceptConnection
  <2> QED
    BY <1>15, <1>0, <1>1, <2>1, <2>2, <2>3, OtherDescriptor
       DEF AcceptConnection, LifecycleInv
<1>16. CASE Disconnect
  <2>1. Later
    BY <1>16 DEF Disconnect, Later
  <2>2. OwnerOK'
    BY <1>16, <1>0 DEF Disconnect, OwnerOK
  <2>3. /\ table' \in Tables
        /\ \A n \in Fd : table'[n] \in LinkRoles => table'[n] = table[n]
    BY <1>16, <1>1, <1>2, ReleaseRemoves DEF Disconnect
  <2> QED
    BY <1>16, <1>0, <1>1, <2>1, <2>2, <2>3, OtherDescriptor
       DEF Disconnect, LifecycleInv
<1>17. CASE UNCHANGED vars
  <2>1. Later
    BY <1>17 DEF vars, Later
  <2>2. OwnerOK'
    BY <1>17, <1>0 DEF vars, OwnerOK
  <2> QED
    BY <1>17, <1>0, <1>1, <2>1, <2>2, NoDescriptor DEF vars, LifecycleInv
<1> QED
  BY <1>3, <1>4, <1>5, <1>6, <1>7, <1>8, <1>9, <1>10, <1>11, <1>12, <1>13,
     <1>14, <1>15, <1>16, <1>17 DEF Next

\* The invariant holds always.
THEOREM LifecycleCorrect == Spec => []LifecycleInv
BY LifecycleInit, LifecycleStep, PTL DEF Spec

-----------------------------------------------------------------------------
(***************************************************************************)
(* The theorems.                                                           *)
(***************************************************************************)

\* No std::thread is assigned to while it is joinable (MctpSerial::open and
\* MctpBridge::open): the process is never ended by a reopening, whatever
\* failed in the opens before.
THEOREM ThreadsNeverOverwritten == Spec => []NoThreadIsOverwritten
<1>1. LifecycleInv => NoThreadIsOverwritten
  BY DEF LifecycleInv, LinksKnown, OwnerOK, NoThreadIsOverwritten, MayBeUp, Link
<1> QED
  BY <1>1, LifecycleCorrect, PTL

\* MctpBridge::close leaves no thread, no interface and no serial link, after
\* any part of open() and any history of opens.
THEOREM ClosedIsDown == Spec => []ClosedMeansDown
<1>1. LifecycleInv => ClosedMeansDown
  BY RolesDiffer
     DEF LifecycleInv, LinksKnown, OwnerOK, ClosedMeansDown, MayBeUp, Link
<1> QED
  BY <1>1, LifecycleCorrect, PTL

-----------------------------------------------------------------------------
(***************************************************************************)
(* The lowest free number.                                                 *)
(***************************************************************************)

\* A set of natural numbers has a least element: of the intervals from 0 to a
\* member, the least by inclusion.
LEMMA LeastNatural ==
  ASSUME NEW S \in SUBSET Nat, S # {}
  PROVE  \E m \in S : \A k \in S : m <= k
<1> DEFINE Upto == {0 .. n : n \in S}
<1>1. Upto \subseteq FiniteSubsetsOf(Nat)
  <2>1. \A n \in S : IsFiniteSet(0 .. n)
    BY FS_Interval
  <2>2. \A n \in S : 0 .. n \subseteq Nat
    OBVIOUS
  <2> QED  BY <2>1, <2>2 DEF FiniteSubsetsOf
<1>2. Upto # {}
  OBVIOUS
<1>3. \E x \in Upto : \A y \in Upto : <<y, x>> \notin StrictSubsetOrdering(Nat)
  <2> HIDE DEF Upto
  <2> QED  BY <1>1, <1>2, FS_StrictSubsetOrderingWellFounded, WFMin
<1>4. PICK m \in S : \A k \in S : <<0 .. k, 0 .. m>> \notin StrictSubsetOrdering(Nat)
  BY <1>3
<1>5. ASSUME NEW k \in S, ~ (m <= k)
      PROVE  FALSE
  <2>1. 0 .. k \subseteq 0 .. m /\ m \in 0 .. m /\ m \notin 0 .. k
    BY <1>5
  <2>2. 0 .. k \in SUBSET Nat /\ 0 .. m \in SUBSET Nat
    OBVIOUS
  <2> QED  BY <1>4, <2>1, <2>2 DEF StrictSubsetOrdering
<1> QED  BY <1>5

\* The number that is taken was free, and none below it was.
LEMMA LowestIsFree ==
  ASSUME NEW t \in Tables
  PROVE  /\ Lowest(t) \in 0 .. MaxFd + 1
         /\ Lowest(t) \in Fd => t[Lowest(t)] = "free"
         /\ \A k \in Fd : t[k] = "free" => Lowest(t) \in Fd /\ Lowest(t) <= k
<1> DEFINE Free == {n \in Fd : t[n] = "free"} \cup {MaxFd + 1}
<1>1. MaxFd \in Nat
  BY LifecycleAssumption
<1>2. Free \in SUBSET Nat /\ Free # {}
  BY <1>1 DEF Fd
<1>3. PICK m \in Free : \A k \in Free : m <= k
  BY <1>2, LeastNatural
<1>4. m \in 0 .. MaxFd + 1 /\ (m \in Fd => t[m] = "free")
  BY <1>1, <1>3 DEF Fd
<1>5. \A k \in 0 .. m - 1 : k \in Fd /\ k \notin Free
  BY <1>1, <1>2, <1>3, <1>4 DEF Fd
<1>6. \E n \in 0 .. MaxFd + 1 : /\ n \in Fd => t[n] = "free"
                                /\ \A k \in 0 .. n - 1 : t[k] # "free"
  BY <1>4, <1>5
<1> DEFINE l == Lowest(t)
<1>7. /\ l \in 0 .. MaxFd + 1 /\ (l \in Fd => t[l] = "free")
      /\ \A k \in 0 .. l - 1 : t[k] # "free"
  BY <1>6 DEF Lowest
<1> HIDE DEF l
<1>8. ASSUME NEW k \in Fd, t[k] = "free" PROVE l \in Fd /\ l <= k
  BY <1>1, <1>7, <1>8 DEF Fd
<1> QED  BY <1>7, <1>8 DEF l

\* What is open stays open while something else is opened.
LEMMA TakeKeeps ==
  ASSUME NEW t \in Tables, NEW r \in Role
  PROVE  /\ \A n \in Fd : t[n] # "free" => Take(t, r)[n] = t[n]
         /\ Lowest(t) \in Fd => Take(t, r)[Lowest(t)] = r
BY LowestIsFree DEF Take, Tables

\* No number is both a role's and free.
LEMMA RolesAreNotFree == "free" \notin Role
BY DEF Role, Link, SerialOf, PipeReadOf, PipeWriteOf

-----------------------------------------------------------------------------
(***************************************************************************)
(* The device and the pipes are known.                                     *)
(***************************************************************************)

KnownRoles == {"device"} \cup {f[x] : f \in {PipeReadOf, PipeWriteOf}, x \in Link}

\* The device is where real_fd, by then set, says, a pipe where its object says, and it is
\* made once.
DeviceKnown == \A n \in Fd : table[n] = "device" => ~unset /\ real_fd = n

PipesKnown ==
    \A x \in Link :
        /\ \/ serial[x].pipeRead = -1 /\ serial[x].pipeWrite = -1
           \/ serial[x].pipeRead \in Nat /\ serial[x].pipeWrite \in Nat
        /\ \A n \in Fd : /\ table[n] = PipeReadOf[x] => serial[x].pipeRead = n
                         /\ table[n] = PipeWriteOf[x] => serial[x].pipeWrite = n

KnownInv == LifecycleInv /\ DeviceKnown /\ PipesKnown

\* No two of the roles that are known are the same.
LEMMA KnownRolesDiffer ==
  /\ KnownRoles = {"device", "linuxPipeRead", "ttyPipeRead", "linuxPipeWrite",
                   "ttyPipeWrite"}
  /\ PipeReadOf["linux"] = "linuxPipeRead" /\ PipeReadOf["tty"] = "ttyPipeRead"
  /\ PipeWriteOf["linux"] = "linuxPipeWrite" /\ PipeWriteOf["tty"] = "ttyPipeWrite"
  /\ KnownRoles \subseteq Role /\ KnownRoles \cap LinkRoles = {}
<1>1. KnownRoles = {"device", "linuxPipeRead", "ttyPipeRead", "linuxPipeWrite",
                    "ttyPipeWrite"}
  BY DEF KnownRoles, Link, PipeReadOf, PipeWriteOf
<1>2. /\ PipeReadOf["linux"] = "linuxPipeRead" /\ PipeReadOf["tty"] = "ttyPipeRead"
      /\ PipeWriteOf["linux"] = "linuxPipeWrite" /\ PipeWriteOf["tty"] = "ttyPipeWrite"
  BY DEF PipeReadOf, PipeWriteOf
<1>3. KnownRoles \subseteq Role
  BY DEF KnownRoles, Role
<1> QED  BY <1>1, <1>2, <1>3 DEF LinkRoles

\* A step that opens neither a device nor a pipe.
LEMMA KnownKept ==
  ASSUME DeviceKnown, PipesKnown, UNCHANGED <<real_fd, unset>>,
         \A x \in Link : /\ serial'[x].pipeRead = serial[x].pipeRead
                         /\ serial'[x].pipeWrite = serial[x].pipeWrite,
         \A n \in Fd : table'[n] \in KnownRoles => table'[n] = table[n]
  PROVE  DeviceKnown' /\ PipesKnown'
<1>1. \A x \in Link : PipeReadOf[x] \in KnownRoles /\ PipeWriteOf[x] \in KnownRoles
  BY DEF KnownRoles
<1>2. "device" \in KnownRoles
  BY DEF KnownRoles
<1> QED  BY <1>1, <1>2 DEF DeviceKnown, PipesKnown

\* The pipe as open() leaves it: at the numbers its object has, above all else
\* that was open.
LEMMA PipeIsKnown ==
  ASSUME ObjectsOK, PipesKnown, NEW x \in Link
  PROVE  LET p == Piped(table, x)
         IN  /\ p.object.pipeRead \in Nat /\ p.object.pipeWrite \in Nat
             /\ p.object.serial_fd = serial[x].serial_fd
             /\ \A n \in Fd : /\ p.table[n] = PipeReadOf[x] => p.object.pipeRead = n
                              /\ p.table[n] = PipeWriteOf[x] => p.object.pipeWrite = n
             /\ \A n \in Fd : p.table[n] \notin {PipeReadOf[x], PipeWriteOf[x]}
                                 => p.table[n] = table[n]
             /\ \A n \in Fd : table[n] # "free" => p.table[n] = table[n]
             /\ \/ p.object.pipeRead = serial[x].pipeRead
                \/ p.object.pipeRead = Lowest(table)
<1> DEFINE p == Piped(table, x)
           r == Take(table, PipeReadOf[x])
<1>1. IsSerial(serial[x]) /\ table \in Tables
  BY DEF ObjectsOK
<1>2. CASE serial[x].pipeRead >= 0
  <2>1. p.table = table /\ p.object = serial[x]
    BY <1>2 DEF Piped
  <2>2. serial[x].pipeRead # -1
    BY <1>2
  <2> QED  BY <2>1, <2>2 DEF PipesKnown
<1>3. CASE ~(serial[x].pipeRead >= 0)
  <2>1. /\ p.table = Take(r, PipeWriteOf[x])
        /\ p.object = WithPipe(serial[x], Lowest(table), Lowest(r))
    BY <1>3 DEF Piped, WithPipe
  <2>2. \A n \in Fd : table[n] \notin {PipeReadOf[x], PipeWriteOf[x]}
    BY <1>3 DEF PipesKnown, Fd
  <2>3. PipeReadOf[x] \in Role /\ PipeWriteOf[x] \in Role
    BY RolesDiffer
  <2>4. /\ r \in Tables
        /\ \A n \in Fd : \/ r[n] = table[n]
                         \/ n = Lowest(table) /\ r[n] = PipeReadOf[x]
        /\ \A n \in Fd : table[n] # "free" => r[n] = table[n]
    <3> DEFINE role == PipeReadOf[x]
    <3>1. role \in Role
      BY <2>3
    <3> HIDE DEF role
    <3>2. /\ Take(table, role) \in Tables
          /\ \A n \in Fd : \/ Take(table, role)[n] = table[n]
                           \/ n = Lowest(table) /\ Take(table, role)[n] = role
      BY <1>1, <3>1, TakeAdds
    <3>3. \A n \in Fd : table[n] # "free" => Take(table, role)[n] = table[n]
      BY <1>1, <3>1, TakeKeeps
    <3> QED  BY <3>2, <3>3 DEF role
  <2> HIDE DEF r
  <2>5. /\ \A n \in Fd : \/ p.table[n] = r[n]
                         \/ n = Lowest(r) /\ p.table[n] = PipeWriteOf[x]
        /\ \A n \in Fd : r[n] # "free" => p.table[n] = r[n]
    BY <2>1, <2>3, <2>4, TakeAdds, TakeKeeps
  <2>6. Lowest(table) \in Nat /\ Lowest(r) \in Nat
    BY <1>1, <2>4, LowestIsFree, LifecycleAssumption
  <2>7. /\ p.object.pipeRead = Lowest(table) /\ p.object.pipeWrite = Lowest(r)
        /\ p.object.serial_fd = serial[x].serial_fd
    <3> HIDE DEF p, r
    <3> QED
      BY <1>1, <2>1, PipeFieldsSet
  <2>8. PipeReadOf[x] # PipeWriteOf[x]
    BY KnownRolesDiffer DEF Link
  <2> HIDE DEF p
  <2>9. \A n \in Fd : /\ p.table[n] = PipeReadOf[x] => n = Lowest(table)
                      /\ p.table[n] = PipeWriteOf[x] => n = Lowest(r)
    BY <2>2, <2>4, <2>5, <2>8
  <2>10. \A n \in Fd : /\ p.table[n] \notin {PipeReadOf[x], PipeWriteOf[x]}
                             => p.table[n] = table[n]
                       /\ table[n] # "free" => p.table[n] = table[n]
    BY <2>4, <2>5
  <2> QED  BY <2>6, <2>7, <2>9, <2>10 DEF p
<1> QED  BY <1>2, <1>3

\* An object whose thread runs on a link, and one that has none.
WithLink(o, n) == [o EXCEPT !.serial_fd = n, !.running = TRUE, !.joinable = TRUE]
WithoutLink(o) == [o EXCEPT !.serial_fd = -1]

LEMMA LinkFieldsSet ==
  ASSUME NEW o, IsSerial(o), NEW n
  PROVE  /\ WithLink(o, n).serial_fd = n /\ WithLink(o, n).joinable
         /\ WithLink(o, n).pipeRead = o.pipeRead
         /\ WithLink(o, n).pipeWrite = o.pipeWrite
         /\ WithoutLink(o).serial_fd = -1
         /\ WithoutLink(o).joinable = o.joinable
         /\ WithoutLink(o).pipeRead = o.pipeRead
         /\ WithoutLink(o).pipeWrite = o.pipeWrite
<1> DEFINE F == o.serial_fd
           P == o.pipeRead
           W == o.pipeWrite
           R == o.running
           J == o.joinable
           Yes == TRUE
           open == [o EXCEPT !.serial_fd = n]
           runs == [open EXCEPT !.running = Yes]
           linked == [runs EXCEPT !.joinable = Yes]
           none == [o EXCEPT !.serial_fd = -1]
<1>1. o = [serial_fd |-> F, pipeRead |-> P, pipeWrite |-> W, running |-> R,
           joinable |-> J]
  BY DEF IsSerial
<1>2. WithLink(o, n) = linked /\ WithoutLink(o) = none
  BY DEF WithLink, WithoutLink
<1>3. Yes
  OBVIOUS
<1> HIDE DEF F, P, W, R, J, Yes
<1>4. none = [serial_fd |-> -1, pipeRead |-> P, pipeWrite |-> W, running |-> R,
              joinable |-> J]
  BY <1>1
<1>5. open = [serial_fd |-> n, pipeRead |-> P, pipeWrite |-> W, running |-> R,
              joinable |-> J]
  BY <1>1
<1> HIDE DEF open, none
<1>6. runs = [serial_fd |-> n, pipeRead |-> P, pipeWrite |-> W,
              running |-> Yes, joinable |-> J]
  BY <1>5
<1> HIDE DEF runs
<1>7. linked = [serial_fd |-> n, pipeRead |-> P, pipeWrite |-> W,
                running |-> Yes, joinable |-> Yes]
  BY <1>6
<1> HIDE DEF linked
<1>8. /\ linked.serial_fd = n /\ linked.joinable
      /\ linked.pipeRead = P /\ linked.pipeWrite = W
  BY <1>3, <1>7
<1>9. /\ none.serial_fd = -1 /\ none.joinable = J
      /\ none.pipeRead = P /\ none.pipeWrite = W
  BY <1>4
<1> QED  BY <1>2, <1>8, <1>9 DEF P, W, J

\* What MctpSerial::open comes to: nothing, a pipe without a link, or both.
LEMMA SerialOpenEffect ==
  ASSUME ObjectsOK, NEW x \in Link, NEW result,
         OpenSerialDone(x, result) \/ OpenSerialFails(x, result)
  PROVE  LET p == Piped(table, x)
         IN  /\ \A y \in Link \ {x} : serial'[y] = serial[y]
             /\ \/ UNCHANGED <<table, serial>>
                \/ /\ serial'[x].pipeRead = p.object.pipeRead
                   /\ serial'[x].pipeWrite = p.object.pipeWrite
                   /\ \/ /\ table' = p.table
                         /\ serial'[x].serial_fd = -1
                         /\ serial'[x].joinable = serial[x].joinable
                      \/ /\ table' = Take(p.table, SerialOf[x])
                         /\ serial'[x].serial_fd = Lowest(p.table)
                         /\ serial'[x].joinable
<1> DEFINE p == Piped(table, x)
<1>1. IsSerial(p.object) /\ p.object.joinable = serial[x].joinable
  BY PipeShape
<1>2. CASE OpenSerialDone(x, result)
  <2>1. /\ table' = Take(p.table, SerialOf[x])
        /\ serial' = [serial EXCEPT ![x] = WithLink(p.object, Lowest(p.table))]
    BY <1>2 DEF OpenSerialDone, WithLink
  <2>2. /\ \A y \in Link \ {x} : serial'[y] = serial[y]
        /\ serial'[x] = WithLink(p.object, Lowest(p.table))
    BY <2>1 DEF ObjectsOK
  <2> HIDE DEF p
  <2>3. /\ serial'[x].serial_fd = Lowest(p.table) /\ serial'[x].joinable
        /\ serial'[x].pipeRead = p.object.pipeRead
        /\ serial'[x].pipeWrite = p.object.pipeWrite
    BY <1>1, <2>2, LinkFieldsSet
  <2> QED  BY <2>1, <2>2, <2>3 DEF p
<1>3. CASE OpenSerialFails(x, result) /\ ~UNCHANGED <<table, serial>>
  <2>1. /\ table' = p.table
        /\ serial' = [serial EXCEPT ![x] = WithoutLink(p.object)]
    BY <1>3 DEF OpenSerialFails, WithoutLink
  <2>2. /\ \A y \in Link \ {x} : serial'[y] = serial[y]
        /\ serial'[x] = WithoutLink(p.object)
    BY <2>1 DEF ObjectsOK
  <2> HIDE DEF p
  <2>3. /\ serial'[x].serial_fd = -1 /\ serial'[x].joinable = serial[x].joinable
        /\ serial'[x].pipeRead = p.object.pipeRead
        /\ serial'[x].pipeWrite = p.object.pipeWrite
    BY <1>1, <2>2, LinkFieldsSet
  <2> QED  BY <2>1, <2>2, <2>3 DEF p
<1> QED  BY <1>2, <1>3

\* MctpSerial::open: its object knows the pipe, and the device is where it was.
LEMMA SerialOpenKnown ==
  ASSUME ObjectsOK, DeviceKnown, PipesKnown, NEW x \in Link, NEW result,
         OpenSerialDone(x, result) \/ OpenSerialFails(x, result),
         UNCHANGED <<real_fd, unset>>
  PROVE  DeviceKnown' /\ PipesKnown'
<1> DEFINE p == Piped(table, x)
<1>1. CASE UNCHANGED <<table, serial>>
  BY <1>1 DEF DeviceKnown, PipesKnown
<1>2. CASE ~UNCHANGED <<table, serial>>
  <2>1. /\ \A y \in Link \ {x} : serial'[y] = serial[y]
        /\ serial'[x].pipeRead = p.object.pipeRead
        /\ serial'[x].pipeWrite = p.object.pipeWrite
        /\ table' = p.table \/ table' = Take(p.table, SerialOf[x])
    BY <1>2, SerialOpenEffect
  <2>2. p.table \in Tables
    BY PipeShape
  <2>3. /\ p.object.pipeRead \in Nat /\ p.object.pipeWrite \in Nat
        /\ \A n \in Fd : /\ p.table[n] = PipeReadOf[x] => p.object.pipeRead = n
                         /\ p.table[n] = PipeWriteOf[x] => p.object.pipeWrite = n
        /\ \A n \in Fd : p.table[n] \notin {PipeReadOf[x], PipeWriteOf[x]}
                            => p.table[n] = table[n]
    BY PipeIsKnown
  <2>4. SerialOf[x] \in Role /\ SerialOf[x] \notin KnownRoles
    BY RolesDiffer, KnownRolesDiffer DEF Link
  <2> HIDE DEF p
  <2>5. \A n \in Fd : table'[n] \in KnownRoles => table'[n] = p.table[n]
    BY <2>1, <2>2, <2>4, TakeAdds
  <2>6. /\ "device" \in KnownRoles /\ "device" \notin {PipeReadOf[x], PipeWriteOf[x]}
        /\ \A y \in Link : PipeReadOf[y] \in KnownRoles /\ PipeWriteOf[y] \in KnownRoles
        /\ \A y \in Link \ {x} :
              {PipeReadOf[x], PipeWriteOf[x]} \cap {PipeReadOf[y], PipeWriteOf[y]} = {}
    BY KnownRolesDiffer DEF Link
  <2>7. DeviceKnown'
    BY <2>3, <2>5, <2>6 DEF DeviceKnown
  <2>8. PipesKnown'
    <3> SUFFICES ASSUME NEW y \in Link
                 PROVE /\ \/ serial'[y].pipeRead = -1 /\ serial'[y].pipeWrite = -1
                          \/ serial'[y].pipeRead \in Nat /\ serial'[y].pipeWrite \in Nat
                       /\ \A n \in Fd :
                            /\ table'[n] = PipeReadOf[y] => serial'[y].pipeRead = n
                            /\ table'[n] = PipeWriteOf[y] => serial'[y].pipeWrite = n
      BY DEF PipesKnown
    <3>1. CASE y = x
      BY <3>1, <2>1, <2>3, <2>5, <2>6
    <3>2. CASE y # x
      <4>1. serial'[y] = serial[y]
        BY <3>2, <2>1
      <4>2. \A n \in Fd : table'[n] \in {PipeReadOf[y], PipeWriteOf[y]}
                              => table'[n] = table[n]
        BY <3>2, <2>3, <2>5, <2>6
      <4> QED  BY <4>1, <4>2 DEF PipesKnown
    <3> QED  BY <3>1, <3>2
  <2> QED  BY <2>7, <2>8
<1> QED  BY <1>1, <1>2

\* setTty(): what real_fd names is closed, a device among it.
LEMMA SetTtyKnown ==
  ASSUME ObjectsOK, DeviceKnown, PipesKnown, SetTty \/ SetTtyThrows
  PROVE  DeviceKnown' /\ PipesKnown'
<1> DEFINE t == Release(table, real_fd)
<1>1. /\ t \in Tables
      /\ \A n \in Fd : t[n] \in {table[n], "free"}
      /\ real_fd \in Fd => t[real_fd] = "free"
  BY ReleaseRemoves DEF ObjectsOK
<1>2. serial' = serial
  BY DEF SetTty, SetTtyThrows
<1>3. /\ "device" \in Role /\ "device" # "free"
      /\ \A x \in Link : /\ PipeReadOf[x] \notin {"free", "device"}
                         /\ PipeWriteOf[x] \notin {"free", "device"}
  BY RolesDiffer, KnownRolesDiffer DEF Link
<1>4. \/ table' = t
      \/ table' = Take(t, "device") /\ real_fd' = Lowest(t) /\ unset' = FALSE
  BY DEF SetTty, SetTtyThrows, SetsRealFd
<1> HIDE DEF t
<1>5. \A n \in Fd : t[n] # "device"
  BY <1>1, <1>3 DEF DeviceKnown
<1>6. \A n \in Fd : \/ table'[n] = t[n]
                    \/ table'[n] = "device" /\ n = real_fd' /\ ~unset'
  BY <1>1, <1>3, <1>4, TakeAdds
<1>7. DeviceKnown'
  BY <1>5, <1>6 DEF DeviceKnown
<1>8. PipesKnown'
  BY <1>1, <1>2, <1>3, <1>6 DEF PipesKnown
<1> QED  BY <1>7, <1>8

\* close() opens nothing, and the objects keep their pipes.
LEMMA CloseKnown ==
  ASSUME ObjectsOK, LinksKnown, DeviceKnown, PipesKnown, Close
  PROVE  DeviceKnown' /\ PipesKnown'
<1>1. /\ table' = ClosedTable
      /\ serial' = [x \in Link |-> ClosedSerial(serial[x])]
      /\ UNCHANGED <<real_fd, unset>>
  BY DEF Close, CloseAll, ttyVars
<1>2. \A n \in Fd : ClosedTable[n] \in {table[n], "free"}
  BY ClosedTableShrinks
<1>3. \A x \in Link : /\ serial'[x].pipeRead = serial[x].pipeRead
                      /\ serial'[x].pipeWrite = serial[x].pipeWrite
  BY <1>1, ClosedHasNoThread DEF ObjectsOK
<1>4. "free" \notin KnownRoles
  BY KnownRolesDiffer
<1> QED  BY <1>1, <1>2, <1>3, <1>4, KnownKept

\* Every step keeps what is known of the device and the pipes.
LEMMA KnownStep == KnownInv /\ [Next]_vars => KnownInv'
<1> SUFFICES ASSUME KnownInv, [Next]_vars PROVE KnownInv'
  OBVIOUS
<1>0. ObjectsOK /\ LinksKnown /\ DeviceKnown /\ PipesKnown /\ table \in Tables
  BY DEF KnownInv, LifecycleInv, ObjectsOK
<1>1. LifecycleInv'
  BY LifecycleStep DEF KnownInv
<1>2. /\ {"linuxMctp", "listen", "conn"} \subseteq Role
      /\ {"linuxMctp", "listen", "conn", "free"} \cap KnownRoles = {}
  BY RolesDiffer, KnownRolesDiffer
<1>3. CASE /\ UNCHANGED <<serial, real_fd, unset>>
           /\ \/ UNCHANGED table
              \/ \E r \in {"linuxMctp", "listen", "conn"} : table' = Take(table, r)
              \/ \E n : table' = Release(table, n)
  <2>1. \A n \in Fd : table'[n] \in KnownRoles => table'[n] = table[n]
    BY <1>0, <1>2, <1>3, TakeAdds, ReleaseRemoves
  <2> QED  BY <1>0, <1>1, <1>3, <2>1, KnownKept DEF KnownInv
<1>4. CASE Open \/ CallClose \/ Initialize \/ InitializeThrows \/ SetupBcast
              \/ SetupBcastFails \/ Start \/ AcceptConnection \/ Disconnect
              \/ UNCHANGED vars
  BY <1>3, <1>4
     DEF Open, CallClose, Initialize, InitializeThrows, SetupBcast,
         SetupBcastFails, Start, AcceptConnection, Disconnect, vars, ttyVars
<1>5. CASE Close
  BY <1>0, <1>1, <1>5, CloseKnown DEF KnownInv
<1>6. CASE OpenLinuxSerial
  <2>1. PICK result : OpenSerialDone("linux", result) \/ OpenSerialFails("linux", result)
    BY <1>6 DEF OpenLinuxSerial
  <2>2. UNCHANGED <<real_fd, unset>> /\ "linux" \in Link
    BY <1>6 DEF OpenLinuxSerial, ttyVars, Link
  <2> QED  BY <1>0, <1>1, <2>1, <2>2, SerialOpenKnown DEF KnownInv
<1>7. CASE OpenMctpSerial
  <2>1. PICK result : OpenSerialDone("tty", result) \/ OpenSerialFails("tty", result)
    BY <1>7 DEF OpenMctpSerial
  <2>2. UNCHANGED <<real_fd, unset>> /\ "tty" \in Link
    BY <1>7 DEF OpenMctpSerial, ttyVars, Link
  <2> QED  BY <1>0, <1>1, <2>1, <2>2, SerialOpenKnown DEF KnownInv
<1>8. CASE SetTty \/ SetTtyThrows
  BY <1>0, <1>1, <1>8, SetTtyKnown DEF KnownInv
<1> QED  BY <1>4, <1>5, <1>6, <1>7, <1>8 DEF Next

\* There is no device and no pipe before the first open().
LEMMA KnownInit == Init => KnownInv
<1> SUFFICES ASSUME Init PROVE KnownInv
  OBVIOUS
<1>1. \A n \in Fd : table[n] \notin KnownRoles
  BY KnownRolesDiffer DEF Init
<1>2. DeviceKnown
  BY <1>1, KnownRolesDiffer DEF DeviceKnown
<1>3. \A x \in Link : serial[x].pipeRead = -1 /\ serial[x].pipeWrite = -1
  BY DEF Init
<1>4. PipesKnown
  BY <1>1, <1>3, KnownRolesDiffer DEF PipesKnown, Link
<1> QED  BY <1>2, <1>4, LifecycleInit DEF KnownInv

\* The device and the pipes are where their objects look for them, in every state
\* and for every value real_fd may start with.
THEOREM KnownCorrect == Spec => []KnownInv
BY KnownInit, KnownStep, PTL DEF Spec

\* The only descriptors that no object knows of are sockets: every failing step
\* of MctpBridge::open gives back what it took or leaves it where the next
\* open() or close() finds it, and the bound on descriptors plays no part.
THEOREM OnlySocketsLost == Spec => []OnlySocketsAreLost
<1>1. KnownInv => OnlySocketsAreLost
  <2> SUFFICES ASSUME KnownInv, NEW n \in Fd,
                      table[n] \notin {"free", "inherited"}, n \notin Held
               PROVE  table[n] \in {"listen", "conn"}
    BY DEF OnlySocketsAreLost
  <2>1. table[n] \in Role
    BY DEF KnownInv, LifecycleInv, ObjectsOK, Tables
  <2>2. table[n] # "linuxMctp" /\ \A x \in Link : table[n] # SerialOf[x]
    BY DEF KnownInv, LifecycleInv, LinksKnown, Held
  <2>3. /\ table[n] # "device"
        /\ \A x \in Link : table[n] # PipeReadOf[x] /\ table[n] # PipeWriteOf[x]
    BY DEF KnownInv, DeviceKnown, PipesKnown, Held
  <2> QED  BY <2>1, <2>2, <2>3 DEF Role
<1> QED  BY <1>1, KnownCorrect, PTL

-----------------------------------------------------------------------------
(***************************************************************************)
(* How many descriptors are open.  Fourteen numbers are inherited or have  *)
(* a place in an object; an open() adds one listening socket and a client  *)
(* one connection, and these are what may be lost.                         *)
(***************************************************************************)

EnoughDescriptors == MaxFd >= 16 + MaxOpens + MaxClients

Used(t)       == {n \in Fd : t[n] # "free"}
Numbers(role) == {n \in Fd : table[n] = role}

\* The open() in progress has yet to make its listening socket.
Pending == \/ at \in {"linuxSerial", "linuxMctp", "bcast"}
           \/ at = "close" /\ then = "linuxSerial"

Counts ==
    /\ opens \in 0 .. MaxOpens /\ faults \in Nat /\ clients \in 0 .. MaxClients
    /\ Numbers("inherited") \subseteq Inherited
    /\ Cardinality(Numbers("listen")) <= opens
    /\ Pending => Cardinality(Numbers("listen")) < opens
    /\ Cardinality(Numbers("conn")) <= clients

LEMMA UnionAtMost ==
  ASSUME NEW S, NEW T, IsFiniteSet(S), IsFiniteSet(T), NEW i \in Nat, NEW j \in Nat,
         Cardinality(S) <= i, Cardinality(T) <= j
  PROVE  IsFiniteSet(S \cup T) /\ Cardinality(S \cup T) <= i + j
<1>1. /\ IsFiniteSet(S \cup T)
      /\ Cardinality(S \cup T) = Cardinality(S) + Cardinality(T)
                                     - Cardinality(S \cap T)
  BY FS_Union
<1>2. IsFiniteSet(S \cap T)
  BY FS_Intersection
<1>3. /\ Cardinality(S) \in Nat /\ Cardinality(T) \in Nat
      /\ Cardinality(S \cap T) \in Nat
  BY <1>2, FS_CardinalityType
<1> QED  BY <1>1, <1>3

LEMMA FewerNumbers ==
  ASSUME NEW S, NEW T, IsFiniteSet(T), S \subseteq T
  PROVE  /\ IsFiniteSet(S) /\ Cardinality(S) \in Nat /\ Cardinality(T) \in Nat
         /\ Cardinality(S) <= Cardinality(T)
BY FS_Subset, FS_CardinalityType

LEMMA OneMore ==
  ASSUME NEW S, NEW T, NEW x, IsFiniteSet(T), S \subseteq T \cup {x}
  PROVE  /\ IsFiniteSet(S) /\ Cardinality(S) \in Nat /\ Cardinality(T) \in Nat
         /\ Cardinality(S) <= Cardinality(T) + 1
<1>1. Cardinality(T) \in Nat
  BY FS_CardinalityType
<1>2. IsFiniteSet(T \cup {x}) /\ Cardinality(T \cup {x}) <= Cardinality(T) + 1
  BY <1>1, FS_AddElement
<1>3. /\ IsFiniteSet(S) /\ Cardinality(S) \in Nat
      /\ Cardinality(T \cup {x}) \in Nat
      /\ Cardinality(S) <= Cardinality(T \cup {x})
  BY <1>2, FewerNumbers
<1> QED  BY <1>1, <1>2, <1>3

LEMMA FourAtMost ==
  ASSUME NEW a, NEW b, NEW c, NEW d
  PROVE  IsFiniteSet({a, b, c, d}) /\ Cardinality({a, b, c, d}) <= 4
<1>1. IsFiniteSet({a}) /\ Cardinality({a}) = 1
  BY FS_Singleton
<1> DEFINE ab == {a, b}
           abc == {a, b, c}
           abcd == {a, b, c, d}
<1>2. ab \subseteq {a} \cup {b} /\ abc \subseteq ab \cup {c} /\ abcd \subseteq abc \cup {d}
  OBVIOUS
<1> HIDE DEF ab, abc, abcd
<1>3. IsFiniteSet(ab) /\ Cardinality(ab) \in Nat /\ Cardinality(ab) <= 2
  BY <1>1, <1>2, OneMore
<1>4. /\ IsFiniteSet(abc) /\ Cardinality(abc) \in Nat
      /\ Cardinality(abc) <= Cardinality(ab) + 1
  BY <1>2, <1>3, OneMore
<1>5. /\ IsFiniteSet(abcd) /\ Cardinality(abcd) \in Nat
      /\ Cardinality(abcd) <= Cardinality(abc) + 1
  BY <1>2, <1>4, OneMore
<1>6. Cardinality(abcd) <= 4
  BY <1>3, <1>4, <1>5
<1> QED  BY <1>5, <1>6 DEF abcd

LEMMA FdIsFinite ==
  /\ IsFiniteSet(Fd) /\ Cardinality(Fd) = MaxFd + 1
  /\ \A S \in SUBSET Fd : IsFiniteSet(S) /\ Cardinality(S) \in Nat
<1>1. MaxFd \in Nat
  BY LifecycleAssumption
<1>2. IsFiniteSet(Fd) /\ Cardinality(Fd) = MaxFd + 1
  BY <1>1, FS_Interval DEF Fd
<1> QED  BY <1>2, FewerNumbers

\* While no more than MaxFd of the MaxFd + 1 numbers are used, one is free.
LEMMA RoomForOne ==
  ASSUME NEW t \in Tables, Cardinality(Used(t)) <= MaxFd
  PROVE  Lowest(t) \in Fd
<1>1. MaxFd \in Nat
  BY LifecycleAssumption
<1>2. Used(t) # Fd
  BY <1>1, FdIsFinite
<1>3. \E n \in Fd : t[n] = "free"
  BY <1>2 DEF Used
<1> QED  BY <1>3, LowestIsFree

\* Taking a number uses one more, giving one back uses none.
LEMMA UsedChanges ==
  ASSUME NEW t \in Tables
  PROVE  /\ Cardinality(Used(t)) \in Nat
         /\ \A r \in Role : Cardinality(Used(Take(t, r))) <= Cardinality(Used(t)) + 1
         /\ \A n : Cardinality(Used(Release(t, n))) <= Cardinality(Used(t))
<1>1. IsFiniteSet(Used(t)) /\ Cardinality(Used(t)) \in Nat
  BY FdIsFinite DEF Used
<1>2. ASSUME NEW r \in Role
      PROVE  Cardinality(Used(Take(t, r))) <= Cardinality(Used(t)) + 1
  <2>1. Used(Take(t, r)) \subseteq Used(t) \cup {Lowest(t)}
    BY TakeAdds DEF Used
  <2> QED  BY <1>1, <2>1, OneMore
<1>3. ASSUME NEW n
      PROVE  Cardinality(Used(Release(t, n))) <= Cardinality(Used(t))
  <2>1. Used(Release(t, n)) \subseteq Used(t)
    BY ReleaseRemoves DEF Used
  <2> QED  BY <1>1, <2>1, FewerNumbers
<1> QED  BY <1>1, <1>2, <1>3

\* What is open is inherited, known to an object, or a socket.
LEMMA UsedIsBounded ==
  ASSUME KnownInv, Counts
  PROVE  /\ table \in Tables
         /\ Cardinality(Used(table)) <= 14 + MaxOpens + MaxClients
<1> DEFINE L == serial["linux"]
           T == serial["tty"]
           A == {fd_, real_fd, L.serial_fd, T.serial_fd}
           P == {L.pipeRead, T.pipeRead, L.pipeWrite, T.pipeWrite}
           S == Numbers("listen")
           C == Numbers("conn")
<1>1. table \in Tables
  BY DEF KnownInv, LifecycleInv, ObjectsOK
<1>2. Used(table) \subseteq (((Inherited \cup A) \cup P) \cup S) \cup C
  <2> SUFFICES ASSUME NEW n \in Fd, table[n] # "free", table[n] # "listen",
                      table[n] # "conn", table[n] # "inherited"
               PROVE  n \in A \cup P
    BY DEF Used, Numbers, Counts
  <2>1. table[n] \in Role
    BY <1>1 DEF Tables
  <2>2. /\ table[n] = "linuxMctp" => fd_ = n
        /\ table[n] = SerialOf["linux"] => L.serial_fd = n
        /\ table[n] = SerialOf["tty"] => T.serial_fd = n
    BY DEF KnownInv, LifecycleInv, LinksKnown, Link
  <2>3. /\ table[n] = "device" => real_fd = n
        /\ table[n] = PipeReadOf["linux"] => L.pipeRead = n
        /\ table[n] = PipeReadOf["tty"] => T.pipeRead = n
        /\ table[n] = PipeWriteOf["linux"] => L.pipeWrite = n
        /\ table[n] = PipeWriteOf["tty"] => T.pipeWrite = n
    BY DEF KnownInv, DeviceKnown, PipesKnown, Link
  <2> QED  BY <2>1, <2>2, <2>3 DEF Role, Link
<1>3. IsFiniteSet(Inherited) /\ Cardinality(Inherited) <= 6
  <2>1. \A b \in Int : 0 <= b /\ b <= 5 => IsFiniteSet(0 .. b) /\ Cardinality(0 .. b) <= 6
    BY FS_Interval
  <2>2. 5 \in Int /\ 0 <= 5 /\ 5 <= 5
    OBVIOUS
  <2> QED  BY <2>1, <2>2, Zenon DEF Inherited
<1>4. /\ IsFiniteSet(A) /\ Cardinality(A) <= 4
      /\ IsFiniteSet(P) /\ Cardinality(P) <= 4
  BY FourAtMost
<1>5. MaxOpens \in Nat /\ MaxClients \in Nat
  BY LifecycleAssumption
<1>6. /\ IsFiniteSet(S) /\ Cardinality(S) <= MaxOpens
      /\ IsFiniteSet(C) /\ Cardinality(C) <= MaxClients
  <2>1. /\ IsFiniteSet(S) /\ Cardinality(S) \in Nat
        /\ IsFiniteSet(C) /\ Cardinality(C) \in Nat
    BY FdIsFinite DEF Numbers
  <2> HIDE DEF S, C
  <2>2. /\ Cardinality(S) <= opens /\ opens \in 0 .. MaxOpens
        /\ Cardinality(C) <= clients /\ clients \in 0 .. MaxClients
    BY DEF Counts, S, C
  <2> QED  BY <1>5, <2>1, <2>2
<1> HIDE DEF A, P, S, C
<1> DEFINE U == Inherited \cup A
           V == U \cup P
           W == V \cup S
           X == W \cup C
           u == 6 + 4
           v == u + 4
           w == v + MaxOpens
<1>7. u \in Nat /\ v \in Nat /\ w \in Nat
  BY <1>5
<1> HIDE DEF u, v, w
<1>8. IsFiniteSet(U) /\ Cardinality(U) <= u
  BY <1>3, <1>4, UnionAtMost DEF u
<1> HIDE DEF U
<1>9. IsFiniteSet(V) /\ Cardinality(V) <= v
  BY <1>4, <1>7, <1>8, UnionAtMost DEF v
<1> HIDE DEF V
<1>10. IsFiniteSet(W) /\ Cardinality(W) <= w
  BY <1>5, <1>6, <1>7, <1>9, UnionAtMost DEF w
<1> HIDE DEF W
<1>11. IsFiniteSet(X) /\ Cardinality(X) <= w + MaxClients
  BY <1>5, <1>6, <1>7, <1>10, UnionAtMost
<1> HIDE DEF X
<1>12. /\ Cardinality(Used(table)) \in Nat /\ Cardinality(X) \in Nat
       /\ Cardinality(Used(table)) <= Cardinality(X)
  BY <1>2, <1>11, FewerNumbers DEF U, V, W, X
<1> QED  BY <1>1, <1>5, <1>11, <1>12 DEF u, v, w

\* No step but SetupBcast and AcceptConnection opens a socket, and none opens
\* what was inherited.
LEMMA NoSocketOpened ==
  ASSUME KnownInv, [Next]_vars, ~SetupBcast, ~AcceptConnection
  PROVE  \A n \in Fd : table'[n] \in {"inherited", "listen", "conn"}
                          => table'[n] = table[n]
<1> DEFINE Sockets == {"inherited", "listen", "conn"}
<1>1. table \in Tables /\ ObjectsOK /\ PipesKnown
  BY DEF KnownInv, LifecycleInv, ObjectsOK
<1>2. /\ {"linuxMctp", "device"} \subseteq Role
      /\ {"linuxMctp", "device", "free"} \cap Sockets = {}
  BY RolesDiffer
<1>3. CASE \/ UNCHANGED table
           \/ table' = Take(table, "linuxMctp")
           \/ \E n : table' = Release(table, n)
           \/ \E n : table' = Take(Release(table, n), "device")
  <2>1. \A n : /\ Release(table, n) \in Tables
              /\ \A m \in Fd : Release(table, n)[m] \in {table[m], "free"}
    BY <1>1, ReleaseRemoves
  <2>2. \A t \in Tables, r \in {"linuxMctp", "device"}, m \in Fd :
           Take(t, r)[m] \in {t[m], r}
    BY <1>2, TakeAdds
  <2> QED  BY <1>1, <1>2, <1>3, <2>1, <2>2
<1>4. CASE Open \/ CallClose \/ Initialize \/ InitializeThrows
              \/ SetupBcastFails \/ SetTty \/ SetTtyThrows \/ Start \/ Disconnect
              \/ UNCHANGED vars
  BY <1>3, <1>4
     DEF Open, CallClose, Initialize, InitializeThrows, SetupBcastFails, SetTty,
         SetTtyThrows, Start, Disconnect, vars
<1>5. CASE Close
  <2>1. table' = ClosedTable
    BY <1>5 DEF Close, CloseAll
  <2> QED  BY <1>1, <1>2, <2>1, ClosedTableShrinks
<1>6. ASSUME NEW x \in Link, NEW result,
             OpenSerialDone(x, result) \/ OpenSerialFails(x, result)
      PROVE  \A n \in Fd : table'[n] \in Sockets => table'[n] = table[n]
  <2> DEFINE p == Piped(table, x)
  <2>1. table' \in {table, p.table, Take(p.table, SerialOf[x])}
    BY <1>1, <1>6, SerialOpenEffect
  <2>2. /\ p.table \in Tables
        /\ \A n \in Fd : p.table[n] \notin {PipeReadOf[x], PipeWriteOf[x]}
                            => p.table[n] = table[n]
    BY <1>1, PipeShape, PipeIsKnown
  <2>3. /\ {PipeReadOf[x], PipeWriteOf[x], SerialOf[x]} \cap Sockets = {}
        /\ SerialOf[x] \in Role
    BY RolesDiffer, KnownRolesDiffer DEF Link
  <2> HIDE DEF p
  <2>4. \A n \in Fd : Take(p.table, SerialOf[x])[n] \in {p.table[n], SerialOf[x]}
    BY <2>2, <2>3, TakeAdds
  <2>5. \A n \in Fd : table'[n] \in {table[n], p.table[n], SerialOf[x]}
    BY <2>1, <2>4
  <2> QED  BY <2>2, <2>3, <2>5
<1>7. CASE OpenLinuxSerial
  <2>1. PICK result : OpenSerialDone("linux", result) \/ OpenSerialFails("linux", result)
    BY <1>7 DEF OpenLinuxSerial
  <2> QED  BY <1>6, <2>1 DEF Link
<1>8. CASE OpenMctpSerial
  <2>1. PICK result : OpenSerialDone("tty", result) \/ OpenSerialFails("tty", result)
    BY <1>8 DEF OpenMctpSerial
  <2> QED  BY <1>6, <2>1 DEF Link
<1> QED  BY <1>4, <1>5, <1>7, <1>8 DEF Next

\* The counters count: an open() has at most one listening socket to make.
LEMMA CountsStep ==
  ASSUME KnownInv, Counts, [Next]_vars
  PROVE  Counts'
<1> DEFINE N(t, role) == {n \in Fd : t[n] = role}
<1>1. \A role : Numbers(role) = N(table, role) /\ Numbers(role)' = N(table', role)
  BY DEF Numbers
<1>2. \A t, role : IsFiniteSet(N(t, role)) /\ Cardinality(N(t, role)) \in Nat
  BY FdIsFinite
<1>3. MaxOpens \in Nat /\ MaxClients \in Nat /\ table \in Tables
  BY LifecycleAssumption DEF KnownInv, LifecycleInv, ObjectsOK
<1> USE DEF Counts
<1>4. CASE Open
  <2>1. table' = table /\ opens < MaxOpens /\ opens' = opens + 1
        /\ UNCHANGED <<faults, clients>>
    BY <1>4 DEF Open
  <2> HIDE DEF N
  <2> QED  BY <1>1, <1>2, <1>3, <2>1
<1>5. CASE SetupBcast
  <2>1. /\ table' = Take(table, "listen") /\ Pending /\ ~Pending'
        /\ UNCHANGED <<opens, faults, clients>>
    BY <1>5 DEF SetupBcast, Pending, counters
  <2>2. /\ N(table', "inherited") \subseteq N(table, "inherited")
        /\ N(table', "conn") \subseteq N(table, "conn")
        /\ N(table', "listen") \subseteq N(table, "listen") \cup {Lowest(table)}
    <3>1. \A n \in Fd : \/ table'[n] = table[n]
                        \/ n = Lowest(table) /\ table'[n] = "listen"
      <4>1. "listen" \in Role
        BY RolesDiffer
      <4> QED  BY <1>3, <2>1, <4>1, TakeAdds
    <3> QED  BY <3>1
  <2> HIDE DEF N
  <2>3. /\ Cardinality(N(table', "conn")) <= Cardinality(N(table, "conn"))
        /\ Cardinality(N(table', "listen")) <= Cardinality(N(table, "listen")) + 1
    BY <1>2, <2>2, FewerNumbers, OneMore
  <2> QED  BY <1>1, <1>2, <1>3, <2>1, <2>2, <2>3
<1>6. CASE AcceptConnection
  <2>1. UNCHANGED <<opens, faults, at, then>>
    BY <1>6 DEF AcceptConnection
  <2>2. \/ table' = table /\ clients' = clients
        \/ /\ table' = Take(table, "conn")
           /\ clients < MaxClients /\ clients' = clients + 1
    BY <1>6 DEF AcceptConnection
  <2>3. /\ N(table', "inherited") \subseteq N(table, "inherited")
        /\ N(table', "listen") \subseteq N(table, "listen")
        /\ \/ table' = table
           \/ N(table', "conn") \subseteq N(table, "conn") \cup {Lowest(table)}
    <3>1. CASE table' = Take(table, "conn")
      <4>1. "conn" \in Role
        BY RolesDiffer
      <4>2. \A n \in Fd : \/ table'[n] = table[n]
                          \/ n = Lowest(table) /\ table'[n] = "conn"
        BY <1>3, <3>1, <4>1, TakeAdds
      <4> QED  BY <4>2
    <3>2. CASE table' = table
      BY <3>2
    <3> QED  BY <2>2, <3>1, <3>2
  <2> HIDE DEF N
  <2>4. /\ Cardinality(N(table', "listen")) <= Cardinality(N(table, "listen"))
        /\ \/ table' = table
           \/ Cardinality(N(table', "conn")) <= Cardinality(N(table, "conn")) + 1
    BY <1>2, <2>3, FewerNumbers, OneMore
  <2>5. Pending' = Pending
    BY <2>1 DEF Pending
  <2>6. /\ Cardinality(N(table', "conn")) <= clients'
        /\ clients' \in 0 .. MaxClients
    BY <1>1, <1>2, <1>3, <2>2, <2>4
  <2> QED  BY <1>1, <1>2, <1>3, <2>1, <2>3, <2>4, <2>5, <2>6
<1>7. CASE ~Open /\ ~SetupBcast /\ ~AcceptConnection
  <2>1. /\ opens' = opens /\ clients' = clients
        /\ faults' = faults \/ faults' = faults + 1
    BY <1>7
       DEF Next, CallClose, Close, OpenLinuxSerial, OpenSerialDone,
           OpenSerialFails, Initialize, InitializeThrows, SetupBcastFails,
           SetTty, SetTtyThrows, OpenMctpSerial, Start, Disconnect, Fault, vars,
           counters
  <2>2. Pending' => Pending
    BY <1>7
       DEF KnownInv, LifecycleInv, OwnerOK, Next, CallClose, Close, OpenLinuxSerial, Initialize, InitializeThrows,
           SetupBcastFails, SetTty, SetTtyThrows, OpenMctpSerial, Start,
           Disconnect, vars, Pending
  <2>3. /\ N(table', "inherited") \subseteq N(table, "inherited")
        /\ N(table', "listen") \subseteq N(table, "listen")
        /\ N(table', "conn") \subseteq N(table, "conn")
    BY <1>7, NoSocketOpened
  <2> HIDE DEF N
  <2>4. /\ Cardinality(N(table', "listen")) <= Cardinality(N(table, "listen"))
        /\ Cardinality(N(table', "conn")) <= Cardinality(N(table, "conn"))
    BY <1>2, <2>3, FewerNumbers
  <2> QED  BY <1>1, <1>2, <1>3, <2>1, <2>2, <2>3, <2>4
<1> QED  BY <1>4, <1>5, <1>6, <1>7

LEMMA CountsInit == Init => Counts
<1> SUFFICES ASSUME Init PROVE Counts
  OBVIOUS
<1>1. /\ Numbers("inherited") \subseteq Inherited
      /\ Numbers("listen") = {} /\ Numbers("conn") = {}
  BY DEF Init, Numbers
<1>2. opens = 0 /\ faults = 0 /\ clients = 0 /\ ~Pending
  BY DEF Init, Pending
<1> QED  BY <1>1, <1>2, FS_EmptySet, LifecycleAssumption DEF Counts

-----------------------------------------------------------------------------
(***************************************************************************)
(* Every number that an object gets is a descriptor.                       *)
(***************************************************************************)

NumbersOK ==
    /\ {fd_, listenFd, connFd, linux_fd, tty_fd} \subseteq Fd \cup {-1}
    /\ real_fd \in Fd \cup {-1} \cup Uninit
    /\ \A x \in Link : {serial[x].serial_fd, serial[x].pipeRead,
                        serial[x].pipeWrite} \subseteq Fd \cup {-1}
    /\ state \in {"Idle", "Bound", "Listening", "Connected"}
    /\ {crossed, unset, strayed} \subseteq BOOLEAN

TypedInv == KnownInv /\ Counts /\ NumbersOK

\* There is room for each descriptor a step takes.
LEMMA Rooms ==
  ASSUME EnoughDescriptors, KnownInv, Counts
  PROVE  /\ Lowest(table) \in Fd
         /\ \A n : Lowest(Release(table, n)) \in Fd
         /\ \A x \in Link :
               LET p == Piped(table, x)
               IN  /\ {p.object.pipeRead, p.object.pipeWrite}
                         \subseteq Fd \cup {serial[x].pipeRead, serial[x].pipeWrite}
                   /\ Lowest(p.table) \in Fd
<1>1. /\ table \in Tables /\ Cardinality(Used(table)) \in Nat
      /\ Cardinality(Used(table)) + 2 <= MaxFd
  <2>1. table \in Tables /\ Cardinality(Used(table)) <= 14 + MaxOpens + MaxClients
    BY UsedIsBounded
  <2>2. MaxFd \in Nat /\ MaxOpens \in Nat /\ MaxClients \in Nat
    BY LifecycleAssumption
  <2>3. Cardinality(Used(table)) \in Nat
    BY <2>1, UsedChanges
  <2> QED  BY <2>1, <2>2, <2>3 DEF EnoughDescriptors
<1>2. MaxFd \in Nat
  BY LifecycleAssumption
<1>3. ASSUME NEW t \in Tables, Cardinality(Used(t)) + 2 <= MaxFd
      PROVE  Lowest(t) \in Fd
  <2>1. Cardinality(Used(t)) \in Nat
    BY UsedChanges
  <2>2. Cardinality(Used(t)) <= MaxFd
    BY <1>2, <1>3, <2>1
  <2> QED  BY <2>2, RoomForOne
<1>4. ASSUME NEW n PROVE Lowest(Release(table, n)) \in Fd
  <2> DEFINE t == Release(table, n)
  <2>1. t \in Tables
    BY <1>1, ReleaseRemoves
  <2>2. Cardinality(Used(t)) <= Cardinality(Used(table)) /\ Cardinality(Used(t)) \in Nat
    BY <1>1, <2>1, UsedChanges
  <2> HIDE DEF t
  <2>3. Cardinality(Used(t)) + 2 <= MaxFd
    BY <1>1, <1>2, <2>2
  <2>4. Lowest(t) \in Fd
    BY <1>3, <2>1, <2>3
  <2> QED  BY <2>4 DEF t
<1>5. ASSUME NEW x \in Link
      PROVE  LET p == Piped(table, x)
             IN  /\ {p.object.pipeRead, p.object.pipeWrite}
                       \subseteq Fd \cup {serial[x].pipeRead, serial[x].pipeWrite}
                 /\ Lowest(p.table) \in Fd
  <2> DEFINE p == Piped(table, x)
             r == Take(table, PipeReadOf[x])
  <2>1. CASE serial[x].pipeRead >= 0
    <3>1. p.table = table /\ p.object = serial[x]
      BY <2>1 DEF Piped
    <3> QED  BY <1>1, <1>3, <3>1
  <2>2. CASE ~(serial[x].pipeRead >= 0)
    <3>1. /\ p.table = Take(r, PipeWriteOf[x])
          /\ p.object = WithPipe(serial[x], Lowest(table), Lowest(r))
      BY <2>2 DEF Piped, WithPipe
    <3>2. PipeReadOf[x] \in Role /\ PipeWriteOf[x] \in Role
      BY RolesDiffer
    <3>3. /\ r \in Tables /\ Cardinality(Used(r)) \in Nat
          /\ Cardinality(Used(r)) <= Cardinality(Used(table)) + 1
      BY <1>1, <3>2, TakeAdds, UsedChanges
    <3> HIDE DEF r
    <3>4. /\ p.table \in Tables /\ Cardinality(Used(p.table)) \in Nat
          /\ Cardinality(Used(p.table)) <= Cardinality(Used(r)) + 1
      BY <3>1, <3>2, <3>3, TakeAdds, UsedChanges
    <3>5. IsSerial(serial[x])
      BY DEF KnownInv, LifecycleInv, ObjectsOK
    <3> HIDE DEF p
    <3>6. p.object.pipeRead = Lowest(table) /\ p.object.pipeWrite = Lowest(r)
      BY <3>1, <3>5, PipeFieldsSet
    <3>7. /\ Cardinality(Used(table)) <= MaxFd /\ Cardinality(Used(r)) <= MaxFd
          /\ Cardinality(Used(p.table)) <= MaxFd
      BY <1>1, <1>2, <3>3, <3>4
    <3>8. Lowest(table) \in Fd /\ Lowest(r) \in Fd /\ Lowest(p.table) \in Fd
      BY <1>1, <3>3, <3>4, <3>7, RoomForOne
    <3> QED  BY <3>6, <3>8 DEF p
  <2> QED  BY <2>1, <2>2
<1> QED  BY <1>1, <1>3, <1>4, <1>5

\* MctpSerial::open gives its object descriptors, or -1.
LEMMA SerialOpenNumbers ==
  ASSUME EnoughDescriptors, KnownInv, Counts, NumbersOK, NEW x \in Link, NEW result,
         OpenSerialDone(x, result) \/ OpenSerialFails(x, result)
  PROVE  \A y \in Link : {serial'[y].serial_fd, serial'[y].pipeRead,
                          serial'[y].pipeWrite} \subseteq Fd \cup {-1}
<1> DEFINE p == Piped(table, x)
           ok(o) == {o.serial_fd, o.pipeRead, o.pipeWrite} \subseteq Fd \cup {-1}
<1>1. \A y \in Link : ok(serial[y])
  BY DEF NumbersOK
<1>2. CASE UNCHANGED <<table, serial>>
  BY <1>1, <1>2
<1>3. CASE ~UNCHANGED <<table, serial>>
  <2>1. /\ \A y \in Link \ {x} : serial'[y] = serial[y]
        /\ serial'[x].pipeRead = p.object.pipeRead
        /\ serial'[x].pipeWrite = p.object.pipeWrite
        /\ serial'[x].serial_fd \in {-1, Lowest(p.table)}
    BY <1>3, SerialOpenEffect DEF KnownInv, LifecycleInv
  <2>2. /\ {p.object.pipeRead, p.object.pipeWrite}
              \subseteq Fd \cup {serial[x].pipeRead, serial[x].pipeWrite}
        /\ Lowest(p.table) \in Fd
    BY Rooms
  <2> HIDE DEF p
  <2>3. ok(serial'[x])
    BY <1>1, <2>1, <2>2
  <2> QED  BY <1>1, <2>1, <2>3
<1> QED  BY <1>2, <1>3

LEMMA NumbersStep ==
  ASSUME EnoughDescriptors, KnownInv, Counts, NumbersOK, [Next]_vars
  PROVE  NumbersOK'
<1>1. Lowest(table) \in Fd /\ \A n : Lowest(Release(table, n)) \in Fd
  BY Rooms
<1> USE DEF NumbersOK
<1>2. CASE Open \/ CallClose \/ Start \/ UNCHANGED vars
  BY <1>2 DEF Open, CallClose, Start, vars, bcastVars, ttyVars, bridgeVars
<1>3. CASE Close
  <2>1. \A x \in Link : /\ serial'[x].pipeRead = serial[x].pipeRead
                        /\ serial'[x].pipeWrite = serial[x].pipeWrite
                        /\ serial'[x].serial_fd = -1
    BY <1>3, ClosedHasNoThread
       DEF Close, CloseAll, KnownInv, LifecycleInv, ObjectsOK
  <2> QED  BY <1>3, <2>1 DEF Close, CloseAll, bcastVars, ttyVars
<1>4. CASE Initialize \/ InitializeThrows
  BY <1>1, <1>4 DEF Initialize, InitializeThrows, bcastVars, ttyVars, bridgeVars
<1>5. CASE SetupBcast \/ SetupBcastFails
  BY <1>1, <1>5 DEF SetupBcast, SetupBcastFails, ttyVars, bridgeVars
<1>6. CASE SetTty
  BY <1>1, <1>6 DEF SetTty, SetsRealFd, bcastVars, bridgeVars
<1>7. CASE SetTtyThrows
  BY <1>7 DEF SetTtyThrows, SetsRealFd, bcastVars, bridgeVars
<1>8. CASE AcceptConnection \/ Disconnect
  BY <1>1, <1>8 DEF AcceptConnection, Disconnect, ttyVars, bridgeVars
<1>9. CASE OpenLinuxSerial
  <2>1. PICK result \in Fd \cup {-1} :
             /\ OpenSerialDone("linux", result) \/ OpenSerialFails("linux", result)
             /\ linux_fd' = result
    BY <1>9 DEF OpenLinuxSerial
  <2>2. \A y \in Link : {serial'[y].serial_fd, serial'[y].pipeRead,
                         serial'[y].pipeWrite} \subseteq Fd \cup {-1}
    BY <2>1, SerialOpenNumbers DEF Link
  <2> QED  BY <1>9, <2>1, <2>2 DEF OpenLinuxSerial, bcastVars, ttyVars
<1>10. CASE OpenMctpSerial
  <2>1. PICK result \in Fd \cup {-1} :
             /\ OpenSerialDone("tty", result) \/ OpenSerialFails("tty", result)
             /\ tty_fd' = result
    BY <1>10 DEF OpenMctpSerial
  <2>2. \A y \in Link : {serial'[y].serial_fd, serial'[y].pipeRead,
                         serial'[y].pipeWrite} \subseteq Fd \cup {-1}
    BY <2>1, SerialOpenNumbers DEF Link
  <2> QED  BY <1>10, <2>1, <2>2 DEF OpenMctpSerial, bcastVars, ttyVars
<1> QED  BY <1>2, <1>3, <1>4, <1>5, <1>6, <1>7, <1>8, <1>9, <1>10 DEF Next

\* While there are enough descriptors, the invariant is inductive.
LEMMA TypedStep ==
  ASSUME EnoughDescriptors
  PROVE  TypedInv /\ [Next]_vars => TypedInv'
<1> SUFFICES ASSUME TypedInv, [Next]_vars PROVE TypedInv'
  OBVIOUS
<1>1. KnownInv /\ Counts /\ NumbersOK
  BY DEF TypedInv
<1>2. KnownInv'
  BY <1>1, KnownStep
<1>3. Counts'
  BY <1>1, CountsStep
<1>4. NumbersOK'
  BY <1>1, NumbersStep
<1> QED  BY <1>2, <1>3, <1>4 DEF TypedInv

LEMMA TypedInit == Init => TypedInv
<1> SUFFICES ASSUME Init PROVE TypedInv
  OBVIOUS
<1>1. KnownInv /\ Counts
  BY KnownInit, CountsInit
<1>2. NumbersOK
  BY DEF Init, NumbersOK
<1> QED  BY <1>1, <1>2 DEF TypedInv

\* With enough descriptors none of the numbers that objects hold is beyond the
\* table, in every state.
THEOREM TypedCorrect == ASSUME EnoughDescriptors PROVE Spec => []TypedInv
BY TypedInit, TypedStep, PTL DEF Spec

\* Sixteen descriptors, one for each open() and one for each client are enough:
\* every number that open(2), pipe(2), socket(2) and accept(2) give to an
\* object of the bridge is one, and every variable is of its type.
THEOREM DescriptorsSuffice == ASSUME EnoughDescriptors PROVE Spec => []TypeOK
<1>1. TypedInv => TypeOK
  <2> SUFFICES ASSUME TypedInv PROVE TypeOK
    OBVIOUS
  <2>1. ObjectsOK /\ OwnerOK /\ Counts /\ NumbersOK
    BY DEF TypedInv, KnownInv, LifecycleInv
  <2>2. serial \in [Link -> SerialType]
    <3>1. ASSUME NEW x \in Link PROVE serial[x] \in SerialType
      <4>1. IsSerial(serial[x])
        BY <2>1 DEF ObjectsOK
      <4>2. /\ serial[x].serial_fd \in Fd \cup {-1}
            /\ serial[x].pipeRead \in Fd \cup {-1}
            /\ serial[x].pipeWrite \in Fd \cup {-1}
        BY <2>1 DEF NumbersOK
      <4> QED  BY <4>1, <4>2 DEF IsSerial, SerialType
    <3> QED  BY <2>1, <3>1 DEF ObjectsOK
  <2>3. table \in [Fd -> Role \cup {"free"}] /\ dispatch \in BOOLEAN
    BY <2>1 DEF ObjectsOK, Tables
  <2>4. {opens, faults, clients} \subseteq Nat
    BY <2>1, LifecycleAssumption DEF Counts
  <2> QED  BY <2>1, <2>2, <2>3, <2>4 DEF NumbersOK, OwnerOK, TypeOK
<1> QED  BY <1>1, TypedCorrect, PTL

-----------------------------------------------------------------------------
(***************************************************************************)
(* The numbers that objects hold are those of what they opened, as long as *)
(* the device was never given the number of linuxSerial's pipe and the     *)
(* first setTty() closed nobody else's descriptor.  Before that call       *)
(* real_fd, being unset, may be any number at all.                         *)
(***************************************************************************)

\* A number that an object holds names what the object opened.
Names(n, role) == n \in Fd /\ table[n] = role

\* What real_fd names, once it is set.  close() of the bridge also closes
\* linux_fd: standard input after a device that was not there, or the pipe.
\* The device must be neither.
DeviceValid ==
    ~unset /\ real_fd \in Fd =>
        /\ table[real_fd] = "device"
        /\ real_fd \notin {0, serial["linux"].pipeRead}

NumbersValid ==
    /\ fd_ = -1 \/ Names(fd_, "linuxMctp")
    /\ \A x \in Link : IF serial[x].joinable
                         THEN Names(serial[x].serial_fd, SerialOf[x])
                         ELSE serial[x].serial_fd = -1
    /\ DeviceValid
    /\ linux_fd \in {-1, 0, serial["linux"].pipeRead}

\* Once the kernel's pty is open number 0 is taken, be it again or still.
StandardInputTaken == at \in {"bcast", "setTty"} => table[0] # "free"

\* open() is past bcast.setup() and has not started the dispatch thread.
Opening == \/ at \in {"setTty", "mctpSerial", "start"}
           \/ at = "close" /\ then = "start"

ClientsValid ==
    /\ Opening => ~dispatch /\ state = "Listening"
    /\ dispatch /\ Connected => Names(connFd, "conn")

ValidInv ==
    ~crossed /\ ~strayed => NumbersValid /\ StandardInputTaken /\ ClientsValid

\* What a link, the kernel's pty or the device is open at.
ObjectRoles == LinkRoles \cup {"device"}

LEMMA ObjectRolesDiffer ==
  /\ ObjectRoles \subseteq Role /\ ObjectRoles \cap {"free", "conn", "listen"} = {}
  /\ \A x \in Link : SerialOf[x] \in LinkRoles /\ SerialOf[x] # "linuxMctp"
  /\ "linuxMctp" \in LinkRoles /\ "device" \notin LinkRoles
BY RolesDiffer DEF ObjectRoles, LinkRoles, Link

\* A step that closes none of them and gives no object a number.
LEMMA NumbersKept ==
  ASSUME NumbersValid, UNCHANGED <<serial, fd_, real_fd, unset, linux_fd>>,
         \A n \in Fd : table[n] \in ObjectRoles => table'[n] = table[n]
  PROVE  NumbersValid'
BY ObjectRolesDiffer DEF NumbersValid, DeviceValid, Names, ObjectRoles

\* Opening something closes nothing.
LEMMA TakeClosesNothing ==
  ASSUME NEW t \in Tables, NEW r \in Role
  PROVE  /\ \A n \in Fd : t[n] # "free" => Take(t, r)[n] = t[n]
         /\ \A n \in Fd : t[n] \in ObjectRoles => Take(t, r)[n] = t[n]
BY TakeKeeps, ObjectRolesDiffer

\* MctpSerial::open of a link that is down: its object holds the new link or
\* none, and the numbers the others hold are still theirs.
LEMMA SerialOpenValid ==
  ASSUME EnoughDescriptors, TypedInv, NumbersValid, NEW x \in Link, NEW result,
         OpenSerialDone(x, result) \/ OpenSerialFails(x, result),
         ~serial[x].joinable, UNCHANGED <<fd_, real_fd, unset>>
  PROVE  /\ fd_' = -1 \/ Names(fd_, "linuxMctp")'
         /\ \A y \in Link : IF serial'[y].joinable
                              THEN Names(serial[y].serial_fd, SerialOf[y])'
                              ELSE serial'[y].serial_fd = -1
         /\ DeviceValid'
<1> DEFINE p == Piped(table, x)
<1>1. KnownInv /\ Counts /\ ObjectsOK /\ PipesKnown /\ table \in Tables
  BY DEF TypedInv, KnownInv, LifecycleInv, ObjectsOK
<1> USE DEF Names
<1>2. CASE UNCHANGED <<table, serial>>
  BY <1>2 DEF NumbersValid, DeviceValid
<1>3. CASE ~UNCHANGED <<table, serial>>
  <2>1. /\ \A y \in Link \ {x} : serial'[y] = serial[y]
        /\ serial'[x].pipeRead = p.object.pipeRead
        /\ \/ /\ table' = p.table
              /\ serial'[x].serial_fd = -1
              /\ serial'[x].joinable = serial[x].joinable
           \/ /\ table' = Take(p.table, SerialOf[x])
              /\ serial'[x].serial_fd = Lowest(p.table)
              /\ serial'[x].joinable
    BY <1>1, <1>3, SerialOpenEffect
  <2>2. /\ \A n \in Fd : table[n] # "free" => p.table[n] = table[n]
        /\ \/ p.object.pipeRead = serial[x].pipeRead
           \/ p.object.pipeRead = Lowest(table)
    BY <1>1, PipeIsKnown
  <2>3. p.table \in Tables /\ Lowest(p.table) \in Fd /\ SerialOf[x] \in Role
    BY <1>1, PipeShape, Rooms, RolesDiffer
  <2> HIDE DEF p
  <2>4. /\ \A n \in Fd : p.table[n] # "free" => Take(p.table, SerialOf[x])[n] = p.table[n]
        /\ Take(p.table, SerialOf[x])[Lowest(p.table)] = SerialOf[x]
    BY <2>3, TakeKeeps
  <2>5. \A n \in Fd : table[n] # "free" => table'[n] = table[n]
    BY <2>1, <2>2, <2>4
  <2>6. fd_' = -1 \/ Names(fd_, "linuxMctp")'
    BY <2>5 DEF NumbersValid
  <2>7. ASSUME NEW y \in Link
        PROVE  IF serial'[y].joinable
                 THEN Names(serial[y].serial_fd, SerialOf[y])'
                 ELSE serial'[y].serial_fd = -1
    <3>1. CASE y = x
      BY <3>1, <2>1, <2>3, <2>4
    <3>2. CASE y # x
      <4>1. serial'[y] = serial[y] /\ SerialOf[y] # "free"
        BY <3>2, <2>1, ObjectRolesDiffer DEF ObjectRoles
      <4> QED  BY <4>1, <2>5 DEF NumbersValid
    <3> QED  BY <3>1, <3>2
  <2>8. ASSUME ~unset, real_fd \in Fd
        PROVE  /\ table'[real_fd] = "device"
               /\ real_fd \notin {0, serial'["linux"].pipeRead}
    <3>1. table[real_fd] = "device" /\ real_fd \notin {0, serial["linux"].pipeRead}
      BY <2>8 DEF NumbersValid, DeviceValid
    <3>2. real_fd # Lowest(table)
      BY <1>1, <2>8, <3>1, LowestIsFree
    <3>3. serial'["linux"].pipeRead \in {serial["linux"].pipeRead, Lowest(table)}
      BY <2>1, <2>2 DEF Link
    <3> QED  BY <2>5, <2>8, <3>1, <3>2, <3>3
  <2> QED  BY <2>6, <2>7, <2>8 DEF DeviceValid
<1> QED  BY <1>2, <1>3

\* close() closes what no other object holds.
LEMMA CloseValid ==
  ASSUME ObjectsOK, NumbersValid, Close
  PROVE  NumbersValid'
<1>1. /\ table' = ClosedTable /\ fd_' = -1 /\ linux_fd' = -1
      /\ serial' = [x \in Link |-> ClosedSerial(serial[x])]
      /\ UNCHANGED <<real_fd, unset>>
  BY DEF Close, CloseAll, ttyVars
<1>2. \A x \in Link : /\ ~serial'[x].joinable /\ serial'[x].serial_fd = -1
                      /\ serial'[x].pipeRead = serial[x].pipeRead
  BY <1>1, ClosedHasNoThread DEF ObjectsOK
<1>3. ASSUME ~unset, real_fd \in Fd PROVE table'[real_fd] = "device"
  <2>1. table[real_fd] = "device" /\ real_fd \notin {0, serial["linux"].pipeRead}
    BY <1>3 DEF NumbersValid, DeviceValid
  <2>2. real_fd \notin {fd_, serial["tty"].serial_fd, serial["linux"].serial_fd,
                        linux_fd}
    <3>1. real_fd # fd_
      BY <1>3, <2>1, LifecycleAssumption DEF NumbersValid, Names, Fd
    <3>2. \A x \in Link : real_fd # serial[x].serial_fd
      BY <1>3, <2>1, ObjectRolesDiffer DEF NumbersValid, Names, Fd
    <3>3. real_fd # linux_fd
      BY <1>3, <2>1 DEF NumbersValid, Fd
    <3> QED  BY <3>1, <3>2, <3>3 DEF Link
  <2>3. \A t, n : t \in Tables /\ n # real_fd
                    => /\ Release(t, n) \in Tables
                       /\ Release(t, n)[real_fd] = t[real_fd]
    BY <1>3 DEF Release, Tables
  <2>4. table \in Tables
    BY DEF ObjectsOK
  <2>5. ClosedTable[real_fd] = table[real_fd]
    BY <2>2, <2>3, <2>4 DEF ClosedTable
  <2> QED  BY <1>1, <2>1, <2>5
<1> QED  BY <1>1, <1>2, <1>3 DEF NumbersValid, DeviceValid, Names, Link

\* setTty() closes the device, or, at its first call and unless that is noted,
\* nothing; and the device it opens gets neither standard input nor, unless that
\* is noted as well, the pipe.
LEMMA SetTtyValid ==
  ASSUME EnoughDescriptors, TypedInv, NumbersValid, StandardInputTaken,
         SetTty \/ SetTtyThrows, ~crossed', ~strayed'
  PROVE  NumbersValid'
<1> DEFINE t == Release(table, real_fd)
<1>1. table \in Tables /\ KnownInv /\ Counts /\ 0 \in Fd
  BY LifecycleAssumption DEF TypedInv, KnownInv, LifecycleInv, ObjectsOK, Fd
<1>2. t \in Tables /\ Lowest(t) \in Fd
  BY <1>1, ReleaseRemoves, Rooms
<1>3. \A n \in Fd : n # real_fd => t[n] = table[n]
  BY <1>1 DEF Release, Tables
<1>4. real_fd \in Fd => \/ table[real_fd] = "device" /\ real_fd # 0
                        \/ table[real_fd] = "free"
  <2>1. CASE unset
    BY <2>1 DEF SetTty, SetTtyThrows, SetsRealFd, IsDevice, TypedInv, KnownInv,
                DeviceKnown
  <2>2. CASE ~unset
    BY <2>2 DEF NumbersValid, DeviceValid
  <2> QED  BY <2>1, <2>2
<1>5. UNCHANGED <<serial, fd_, linux_fd>>
  BY DEF SetTty, SetTtyThrows, bridgeVars
<1>6. table' = t \/ table' = Take(t, "device")
  BY DEF SetTty, SetTtyThrows
<1>7. \/ real_fd' = -1
      \/ /\ real_fd' = Lowest(t) /\ table' = Take(t, "device")
         /\ real_fd' # serial["linux"].pipeRead
  BY DEF SetTty, SetTtyThrows
<1>8. t[0] # "free"
  <2>1. table[0] # "free"
    BY DEF SetTty, SetTtyThrows, StandardInputTaken
  <2> QED  BY <1>1, <1>3, <1>4, <2>1
<1> HIDE DEF t
<1>9. /\ \A n \in Fd : t[n] # "free" => Take(t, "device")[n] = t[n]
      /\ Take(t, "device")[Lowest(t)] = "device" /\ Lowest(t) # 0
  BY <1>2, <1>8, TakeKeeps, RolesDiffer, LowestIsFree
<1>10. \A n \in Fd : table[n] \in LinkRoles => table'[n] = table[n]
  BY <1>3, <1>4, <1>6, <1>9, ObjectRolesDiffer DEF ObjectRoles
<1>11. real_fd' \in Fd => /\ table'[real_fd'] = "device"
                          /\ real_fd' \notin {0, serial["linux"].pipeRead}
  BY <1>2, <1>7, <1>9 DEF Fd
<1>12. fd_ = -1 \/ Names(fd_, "linuxMctp")'
  BY <1>5, <1>10, ObjectRolesDiffer DEF NumbersValid, Names
<1>13. \A x \in Link : IF serial[x].joinable
                         THEN Names(serial[x].serial_fd, SerialOf[x])'
                         ELSE serial[x].serial_fd = -1
  BY <1>5, <1>10, ObjectRolesDiffer DEF NumbersValid, Names
<1> QED  BY <1>5, <1>11, <1>12, <1>13 DEF NumbersValid, DeviceValid

LEMMA ValidStep ==
  ASSUME EnoughDescriptors, TypedInv, ValidInv, [Next]_vars
  PROVE  ValidInv'
<1> SUFFICES ASSUME ~crossed', ~strayed'
             PROVE  NumbersValid' /\ StandardInputTaken' /\ ClientsValid'
  BY DEF ValidInv
<1>1. ~crossed /\ ~strayed
  <2>1. CASE SetTty
    BY <2>1 DEF SetTty, SetsRealFd
  <2>2. CASE SetTtyThrows
    BY <2>2 DEF SetTtyThrows, SetsRealFd
  <2>3. CASE ~SetTty /\ ~SetTtyThrows
    <3>1. crossed' = crossed /\ strayed' = strayed
      BY <2>3
         DEF Next, Open, CallClose, Close, CloseAll, OpenLinuxSerial, Initialize,
             InitializeThrows, SetupBcast, SetupBcastFails, OpenMctpSerial, Start,
             AcceptConnection, Disconnect, vars, ttyVars
    <3> QED  BY <3>1
  <2> QED  BY <2>1, <2>2, <2>3
<1>2. NumbersValid /\ StandardInputTaken /\ ClientsValid
  BY <1>1 DEF ValidInv
<1>3. /\ KnownInv /\ Counts /\ ObjectsOK /\ LinksKnown /\ OwnerOK
      /\ table \in Tables /\ Lowest(table) \in Fd
  BY Rooms DEF TypedInv, KnownInv, LifecycleInv, ObjectsOK
<1>4. 0 \in Fd /\ {"linuxMctp", "listen", "conn", "device"} \subseteq Role
  BY LifecycleAssumption, RolesDiffer DEF Fd
<1> HIDE DEF ValidInv
<1>5. CASE Open \/ CallClose \/ Start \/ SetupBcastFails \/ UNCHANGED vars
  <2>1. UNCHANGED <<table, serial, fd_, real_fd, unset, linux_fd>>
    BY <1>5 DEF Open, CallClose, Start, SetupBcastFails, vars, ttyVars, bridgeVars
  <2>2. NumbersValid'
    BY <1>2, <2>1, NumbersKept
  <2>3. StandardInputTaken'
    BY <1>2, <1>5 DEF Open, CallClose, Start, SetupBcastFails, vars, StandardInputTaken
  <2>4. ClientsValid'
    BY <1>2, <1>3, <1>5
       DEF Open, CallClose, Start, SetupBcastFails, vars, bcastVars, OwnerOK,
           ClientsValid, Opening, Connected, Names
  <2> QED  BY <2>2, <2>3, <2>4
<1>6. CASE Close
  <2>1. NumbersValid'
    BY <1>2, <1>3, <1>6, CloseValid
  <2>2. /\ at = "close" /\ at' = then /\ then' = "closed" /\ dispatch' = FALSE
        /\ state' = state
    BY <1>6 DEF Close, CloseAll, bcastVars
  <2> QED
    BY <1>2, <1>3, <2>1, <2>2
       DEF StandardInputTaken, ClientsValid, Opening, OwnerOK
<1>7. CASE OpenLinuxSerial
  <2>1. PICK result : /\ OpenSerialDone("linux", result) \/ OpenSerialFails("linux", result)
                      /\ linux_fd' = result
    BY <1>7 DEF OpenLinuxSerial
  <2>2. /\ at = "linuxSerial" /\ at' = "linuxMctp" /\ "linux" \in Link
        /\ UNCHANGED <<fd_, real_fd, unset, dispatch>>
    BY <1>7 DEF OpenLinuxSerial, ttyVars, Link
  <2>3. ~serial["linux"].joinable /\ ~dispatch
    BY <1>3, <2>2 DEF LinksKnown, OwnerOK, MayBeUp
  <2>4. /\ fd_' = -1 \/ Names(fd_, "linuxMctp")'
        /\ \A y \in Link : IF serial'[y].joinable
                             THEN Names(serial[y].serial_fd, SerialOf[y])'
                             ELSE serial'[y].serial_fd = -1
        /\ DeviceValid'
    BY <1>2, <2>1, <2>2, <2>3, SerialOpenValid
  <2>5. linux_fd' \in {-1, 0, serial'["linux"].pipeRead}
    <3>1. CASE OpenSerialFails("linux", result)
      BY <2>1, <3>1 DEF OpenSerialFails
    <3>2. CASE OpenSerialDone("linux", result)
      <4> DEFINE p == Piped(table, "linux")
      <4>1. result = p.object.pipeRead
        BY <3>2 DEF OpenSerialDone
      <4>2. /\ serial' = [serial EXCEPT !["linux"] =
                            WithLink(p.object, Lowest(p.table))]
            /\ IsSerial(p.object)
        BY <1>3, <2>2, <3>2, PipeShape DEF OpenSerialDone, WithLink
      <4> HIDE DEF p
      <4>3. serial'["linux"] = WithLink(p.object, Lowest(p.table))
        BY <1>3, <2>2, <4>2 DEF ObjectsOK
      <4>4. serial'["linux"].pipeRead = p.object.pipeRead
        BY <4>2, <4>3, LinkFieldsSet
      <4> QED  BY <2>1, <4>1, <4>4
    <3> QED  BY <2>1, <3>1, <3>2
  <2>6. NumbersValid'
    BY <2>2, <2>4, <2>5 DEF NumbersValid
  <2> QED
    BY <2>2, <2>3, <2>6 DEF StandardInputTaken, ClientsValid, Opening
<1>8. CASE Initialize \/ InitializeThrows
  <2>1. /\ at = "linuxMctp" /\ at' \in {"bcast", "threw"}
        /\ UNCHANGED <<serial, real_fd, unset, linux_fd, dispatch>>
        /\ \/ at' = "threw" /\ UNCHANGED <<table, fd_>>
           \/ fd_' = Lowest(table) /\ table' = Take(table, "linuxMctp")
    BY <1>8 DEF Initialize, InitializeThrows, ttyVars, bridgeVars
  <2>2. ~dispatch
    BY <1>3, <2>1 DEF OwnerOK
  <2>3. CASE at' = "threw" /\ UNCHANGED <<table, fd_>>
    <3>1. NumbersValid'
      BY <1>2, <2>1, <2>3, NumbersKept
    <3> QED
      BY <2>1, <2>2, <2>3, <3>1 DEF StandardInputTaken, ClientsValid, Opening
  <2>4. CASE fd_' = Lowest(table) /\ table' = Take(table, "linuxMctp")
    <3>1. /\ \A n \in Fd : table[n] # "free" => table'[n] = table[n]
          /\ table'[Lowest(table)] = "linuxMctp"
      BY <1>3, <1>4, <2>4, TakeKeeps
    <3>2. NumbersValid'
      BY <1>2, <1>3, <2>1, <2>4, <3>1, ObjectRolesDiffer
         DEF NumbersValid, DeviceValid, Names, ObjectRoles
    <3>3. table'[0] # "free"
      BY <1>3, <1>4, <3>1, LowestIsFree DEF Fd
    <3> QED
      BY <2>1, <2>2, <3>2, <3>3 DEF StandardInputTaken, ClientsValid, Opening
  <2> QED  BY <2>1, <2>3, <2>4
<1>9. CASE SetupBcast
  <2>1. /\ at = "bcast" /\ at' = "setTty" /\ state' = "Listening"
        /\ table' = Take(table, "listen")
        /\ UNCHANGED <<serial, fd_, real_fd, unset, linux_fd, dispatch>>
    BY <1>9 DEF SetupBcast, ttyVars, bridgeVars
  <2>2. ~dispatch
    BY <1>3, <2>1 DEF OwnerOK
  <2>3. /\ \A n \in Fd : table[n] # "free" => table'[n] = table[n]
        /\ \A n \in Fd : table[n] \in ObjectRoles => table'[n] = table[n]
    BY <1>3, <1>4, <2>1, TakeClosesNothing
  <2>4. NumbersValid'
    BY <1>2, <2>1, <2>3, NumbersKept
  <2> QED
    BY <1>2, <1>4, <2>1, <2>2, <2>3, <2>4 DEF StandardInputTaken, ClientsValid
<1>10. CASE SetTty \/ SetTtyThrows
  <2>1. /\ at = "setTty" /\ at' \in {"mctpSerial", "threw"}
        /\ UNCHANGED <<state, dispatch>>
    BY <1>10 DEF SetTty, SetTtyThrows, bcastVars
  <2>2. NumbersValid'
    BY <1>2, <1>10, SetTtyValid
  <2> QED
    BY <1>2, <2>1, <2>2 DEF StandardInputTaken, ClientsValid, Opening
<1>11. CASE OpenMctpSerial
  <2>1. PICK result : OpenSerialDone("tty", result) \/ OpenSerialFails("tty", result)
    BY <1>11 DEF OpenMctpSerial
  <2>2. /\ at = "mctpSerial" /\ at' \in {"close", "start"} /\ "tty" \in Link
        /\ UNCHANGED <<fd_, real_fd, unset, linux_fd, state, dispatch>>
    BY <1>11 DEF OpenMctpSerial, ttyVars, bcastVars, Link
  <2>3. ~serial["tty"].joinable /\ ~dispatch
    BY <1>3, <2>2 DEF LinksKnown, OwnerOK, MayBeUp
  <2>4. /\ fd_' = -1 \/ Names(fd_, "linuxMctp")'
        /\ \A y \in Link : IF serial'[y].joinable
                             THEN Names(serial[y].serial_fd, SerialOf[y])'
                             ELSE serial'[y].serial_fd = -1
        /\ DeviceValid'
    BY <1>2, <2>1, <2>2, <2>3, SerialOpenValid
  <2>5. serial'["linux"] = serial["linux"]
    <3>1. "linux" \in Link \ {"tty"}
      BY DEF Link
    <3> QED  BY <1>3, <2>1, <2>2, <3>1, SerialOpenEffect
  <2>6. NumbersValid'
    BY <1>2, <2>2, <2>4, <2>5 DEF NumbersValid
  <2> QED
    BY <1>2, <2>2, <2>3, <2>6 DEF StandardInputTaken, ClientsValid, Opening
<1>12. CASE AcceptConnection
  <2>1. /\ dispatch /\ dispatch' = dispatch
        /\ UNCHANGED <<serial, fd_, real_fd, unset, linux_fd, at, then>>
        /\ \/ /\ connFd' = Lowest(table) /\ table' = Take(table, "conn")
           \/ connFd' = -1 /\ table' = table
    BY <1>12 DEF AcceptConnection, ttyVars, bridgeVars
  <2>2. at \in {"open", "close"} /\ ~Opening
    BY <1>2, <1>3, <2>1 DEF OwnerOK, ClientsValid
  <2>3. /\ \A n \in Fd : table[n] \in ObjectRoles => Take(table, "conn")[n] = table[n]
        /\ Take(table, "conn")[Lowest(table)] = "conn"
    BY <1>3, <1>4, TakeClosesNothing, TakeKeeps
  <2>4. NumbersValid'
    BY <1>2, <2>1, <2>3, NumbersKept
  <2>5. Connected' => Names(connFd, "conn")'
    BY <1>3, <2>1, <2>3 DEF Connected, Names
  <2>6. ~Opening'
    BY <2>1, <2>2 DEF Opening
  <2> QED
    BY <2>1, <2>2, <2>4, <2>5, <2>6 DEF StandardInputTaken, ClientsValid
<1>13. CASE Disconnect
  <2>1. /\ dispatch /\ Connected /\ table' = Release(table, connFd)
        /\ connFd' = -1
        /\ UNCHANGED <<serial, fd_, real_fd, unset, linux_fd, at, then>>
    BY <1>13 DEF Disconnect, ttyVars, bridgeVars
  <2>2. at \in {"open", "close"} /\ ~Opening /\ Names(connFd, "conn")
    BY <1>2, <1>3, <2>1 DEF OwnerOK, ClientsValid
  <2>3. \A n \in Fd : table[n] \in ObjectRoles => table'[n] = table[n]
    BY <1>3, <2>1, <2>2, ObjectRolesDiffer DEF Release, Tables, Names
  <2>4. NumbersValid'
    BY <1>2, <2>1, <2>3, NumbersKept
  <2>5. ~Connected' /\ ~Opening'
    BY <2>1, <2>2 DEF Connected, Opening
  <2> QED
    BY <2>1, <2>2, <2>4, <2>5 DEF StandardInputTaken, ClientsValid
<1> QED  BY <1>5, <1>6, <1>7, <1>8, <1>9, <1>10, <1>11, <1>12, <1>13 DEF Next

LEMMA ValidInit == Init => ValidInv
<1> SUFFICES ASSUME Init PROVE ValidInv
  OBVIOUS
<1>1. NumbersValid
  BY DEF Init, NumbersValid, DeviceValid, Link
<1> QED
  BY <1>1 DEF Init, ValidInv, StandardInputTaken, ClientsValid, Opening

\* With enough descriptors, and whatever the unset real_fd holds, the numbers
\* that objects hold name what the objects take them for, in every state, until
\* the first setTty() closes a stranger's descriptor or the device crosses.
THEOREM ValidCorrect ==
  ASSUME EnoughDescriptors
  PROVE  Spec => []ValidInv
<1>1. Init => TypedInv /\ ValidInv
  BY TypedInit, ValidInit
<1>2. (TypedInv /\ ValidInv) /\ [Next]_vars => (TypedInv /\ ValidInv)'
  BY TypedStep, ValidStep
<1> QED  BY <1>1, <1>2, PTL DEF Spec

\* An rx thread reads from its own link, whatever was opened, failed and closed
\* before and whatever real_fd started with, unless the device was once given
\* the number of linuxSerial's pipe or the first setTty() closed a descriptor
\* of another object.
THEOREM RxThreadReadsItsLink ==
  ASSUME EnoughDescriptors
  PROVE  Spec => []RxThreadHasItsLink
<1>1. ValidInv => RxThreadHasItsLink
  BY DEF ValidInv, NumbersValid, Names, RxThreadHasItsLink
<1> QED  BY <1>1, ValidCorrect, PTL

\* SerialInspector's setTty() closes a previous device, or, at its first call,
\* the number real_fd was left with by the constructor, and nothing else, with
\* the same exceptions.
THEOREM InspectorClosesNothingElse ==
  ASSUME EnoughDescriptors
  PROVE  Spec => InspectorClosesItsDevice
<1>1. TypedInv /\ ValidInv /\ [Next]_vars
        => [\A n \in Fd :
               at = "setTty" /\ table'[n] # table[n] /\ ~crossed /\ ~strayed
                  => table[n] \in {"free", "device"} \/ (unset /\ n = real_fd)]_vars
  <2> SUFFICES ASSUME TypedInv, ValidInv, [Next]_vars, NEW n \in Fd,
                      at = "setTty", table'[n] # table[n], ~crossed, ~strayed
               PROVE  table[n] \in {"free", "device"} \/ (unset /\ n = real_fd)
    OBVIOUS
  <2>1. NumbersValid /\ OwnerOK /\ table \in Tables
    BY DEF ValidInv, TypedInv, KnownInv, LifecycleInv, ObjectsOK
  <2>2. SetTty \/ SetTtyThrows
    BY <2>1
       DEF Next, Open, CallClose, Close, OpenLinuxSerial, Initialize,
           InitializeThrows, SetupBcast, SetupBcastFails, OpenMctpSerial, Start,
           AcceptConnection, Disconnect, vars, OwnerOK
  <2> DEFINE t == Release(table, real_fd)
  <2>3. t \in Tables /\ t[n] \in {table[n], "free"} /\ (n # real_fd => t[n] = table[n])
    BY <2>1, ReleaseRemoves DEF Release, Tables
  <2>4. table' = t \/ table' = Take(t, "device")
    BY <2>2 DEF SetTty, SetTtyThrows
  <2> HIDE DEF t
  <2>5. CASE n = real_fd
    BY <2>1, <2>5 DEF NumbersValid, DeviceValid
  <2>6. CASE n # real_fd
    <3>1. t[n] = table[n]
      BY <2>3, <2>6
    <3>2. t[n] # "free" => Take(t, "device")[n] = t[n]
      BY <2>3, TakeKeeps, RolesDiffer
    <3> QED  BY <2>4, <3>1, <3>2
  <2> QED  BY <2>5, <2>6
<1> QED  BY <1>1, TypedCorrect, ValidCorrect, PTL DEF Spec, InspectorClosesItsDevice

=============================================================================
