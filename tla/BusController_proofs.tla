----------------------- MODULE BusController_proofs -----------------------
(***************************************************************************)
(* What controllers and links promise each other, for any devices, ranges  *)
(* of EIDs, number of controllers and accidents: an EID belongs to one     *)
(* link, there is one controller at a time, nothing is left behind, and a  *)
(* link that was made alone keeps its interface.                           *)
(***************************************************************************)
EXTENDS BusController, FiniteSetTheorems, TLAPS

-----------------------------------------------------------------------------
(***************************************************************************)
(* The invariant.                                                          *)
(***************************************************************************)

\* The thread is in a constructor of MctpSerialLink, which has got an EID,
\* has started its process.
AtLink  == pc \in {"link", "popen", "wait", "up", "address"}
HasEid  == pc \in {"popen", "wait", "up", "address"}
Started == pc \in {"wait", "up", "address"}

\* The thread is in the constructor of MctpBusController, before close().
Making == AtLink \/ pc \in {"loop", "discover"}

\* Where the thread is, and with what in its hands.
Thread ==
    /\ pc # "idle" => me \in Controller
    /\ Making => outcome[me] = "making"
    /\ IF AtLink THEN cur \in Link /\ cur[1] = me /\ cur[2] \notin files
                 ELSE cur = noLink
    /\ Started => cur \in link_pid

\* A device still to come has no link of this controller, nor has the one the
\* thread is at.
LinksToCome ==
    /\ Making => \A d \in files : <<me, d>> \notin assigned_links
    /\ AtLink => cur \notin assigned_links

\* A link without an entry in _assigned_links has no EID, and what the thread
\* took of the range is still free.
Eids ==
    /\ EidsAreUnique
    /\ \A l \in Link \ assigned_links : eid[l] = none
    /\ HasEid => next_eid \in EID \ allocated_eids

\* Each list holds the links of its own controller, and close() gets to all of
\* them.
Lists ==
    /\ \A l \in assigned_links : outcome[l[1]] \notin {"new", "closed", "undone"}
    /\ \A c \in Controller : \A i \in 1 .. Len(serial_links[c]) :
          serial_links[c][i][1] = c
    /\ \A l \in assigned_links :
          \E i \in 1 .. Len(serial_links[l[1]]) : serial_links[l[1]][i] = l
    /\ pc = "close" =>
          /\ \A i \in 1 .. Len(closing) : closing[i][1] = me
          /\ \A l \in assigned_links :
                l[1] = me => \E i \in 1 .. Len(closing) : closing[i] = l

\* Who has a process can kill it.
Processes ==
    /\ assigned_links \subseteq link_pid
    /\ \A l \in Link :
          proc[l] = "running" => l \in link_pid /\ (l = cur \/ l \in assigned_links)

\* close() was left by a link whose process was reaped.
Stuck ==
    \A c \in Controller :
        outcome[c] = "stuck" => \E l \in link_pid : l[1] = c /\ proc[l] = "gone"

\* Who may be the singleton while the thread is in a method.
Singleton ==
    /\ OneController
    /\ pc = "close" =>
          outcome[me] \in {"making", "live", "stuck"} \/ stale
    /\ ~stale /\ (Making \/ (pc = "close" /\ outcome[me] = "making")) => instance = 0

BusInv ==
    /\ TypeOK
    /\ Thread
    /\ LinksToCome
    /\ Eids
    /\ Lists
    /\ Processes
    /\ Stuck
    /\ Singleton

-----------------------------------------------------------------------------
(***************************************************************************)
(* Steps that look alike.                                                  *)
(***************************************************************************)

\* The constructor of the controller is left by an exception.
Fails ==
    /\ Making
    /\ \E p \in {proc, Reaped} : Raises(p)
    /\ UNCHANGED <<assigned_links, allocated_eids, eid, ctlVars, kernelVars,
                   service, alone, stale>>

\* The system moves, or nothing does.
Elsewhere ==
    /\ UNCHANGED <<linkVars, ctlVars, pc, me, localVars, outcome, service, stale>>
    /\ proc' \in [Link -> {none, "running", "term", "zombie", "gone"}]
    /\ \A l \in Link :
          proc'[l] = proc[l] \/ (proc[l] # "gone" /\ proc'[l] = "zombie")

LEMMA NextSteps ==
  ASSUME TypeOK, [Next]_vars
  PROVE  \/ NextLink \/ Fails \/ List \/ Popen \/ Claim \/ Up \/ Finish
         \/ StartService \/ Discover \/ CloseLink \/ CloseRaises \/ CloseEnds
         \/ (\E c \in Controller : New(c) \/ Close(c))
         \/ Elsewhere
<1>1. CASE Unlinkable \/ Timeout \/ CommandFails \/ DiscoverRaises
  BY <1>1
  DEF Unlinkable, Timeout, CommandFails, DiscoverRaises, Fails, Making, AtLink
<1>2. proc \in [Link -> {none, "running", "term", "zombie", "gone"}]
  BY DEF TypeOK
<1>3. ASSUME NEW l \in Link, Binds(l) PROVE Elsewhere
  BY <1>2, <1>3 DEF Binds, Elsewhere
<1>4. ASSUME NEW l \in Link, Dies(l) PROVE Elsewhere
  BY <1>2, <1>4 DEF Dies, Elsewhere, Holds
<1>5. ASSUME NEW d \in Device, Unplug(d) PROVE Elsewhere
  BY <1>2, <1>5 DEF Unplug, Elsewhere
<1>6. ASSUME NEW n \in Name, Foreign(n) PROVE Elsewhere
  BY <1>2, <1>6 DEF Foreign, Elsewhere
<1>7. CASE UNCHANGED vars
  BY <1>2, <1>7 DEF vars, Elsewhere
<1> QED
  BY <1>1, <1>3, <1>4, <1>5, <1>6, <1>7 DEF Next, Python, User, System

\* What is reaped had ended.
LEMMA ReapedProc ==
  ASSUME TypeOK
  PROVE  /\ Reaped \in [Link -> {none, "running", "term", "zombie", "gone"}]
         /\ \A l \in Link :
               Reaped[l] = proc[l] \/ (proc[l] = "zombie" /\ Reaped[l] = "gone")
BY DEF TypeOK, Reaped

\* What an exception does to processes: that of the link at hand is told to
\* end, and the others are left alone.
LEMMA FailsProc ==
  ASSUME TypeOK, Fails
  PROVE  /\ proc' \in [Link -> {none, "running", "term", "zombie", "gone"}]
         /\ \A l \in Link : l # cur \/ cur \notin link_pid =>
               proc'[l] = proc[l] \/ (proc[l] = "zombie" /\ proc'[l] = "gone")
         /\ cur \in link_pid => proc'[cur] # "running"
<1> PICK p \in {proc, Reaped} : Raises(p)
  BY DEF Fails
<1>1. /\ p \in [Link -> {none, "running", "term", "zombie", "gone"}]
      /\ \A l \in Link : p[l] = proc[l] \/ (proc[l] = "zombie" /\ p[l] = "gone")
  BY ReapedProc DEF TypeOK
<1>2. CASE cur \in link_pid
  <2>1. cur \in Link
    BY <1>2 DEF TypeOK
  <2> QED  BY <1>1, <1>2, <2>1 DEF Raises, Killed
<1>3. CASE cur \notin link_pid
  BY <1>1, <1>3 DEF Raises
<1> QED  BY <1>2, <1>3

-----------------------------------------------------------------------------
(***************************************************************************)
(* Each part of the invariant is kept.                                     *)
(***************************************************************************)

LEMMA ThreadStep ==
  ASSUME BusInv, [Next]_vars
  PROVE  Thread'
<1> USE DEF Thread, Making, AtLink, Started, BusInv
<1>0. noLink \notin Link
  BY DEF noLink, Link, Controller
<1>1. CASE NextLink
  <2>1. \A d \in Device : <<me, d>> \in Link /\ <<me, d>>[1] = me /\ <<me, d>>[2] = d
    BY <1>1 DEF NextLink, Link
  <2> QED  BY <1>1, <2>1 DEF NextLink, TypeOK
<1>2. CASE Fails
  BY <1>2 DEF Fails, Raises, Returns
<1>3. CASE List \/ Claim \/ Up
  BY <1>3 DEF List, Claim, Up, linkVars, localVars
<1>4. CASE Popen
  BY <1>4 DEF Popen, localVars
<1>5. CASE Finish
  BY <1>5 DEF Finish
<1>6. CASE StartService \/ Discover
  BY <1>6 DEF StartService, Discover, Returns, linkVars, localVars
<1>7. CASE CloseLink \/ CloseRaises \/ CloseEnds
  BY <1>7 DEF CloseLink, CloseRaises, CloseEnds, Returns
<1>8. ASSUME NEW c \in Controller, New(c) \/ Close(c) PROVE Thread'
  BY <1>8 DEF New, Close, TypeOK
<1>9. CASE Elsewhere
  BY <1>9 DEF Elsewhere, linkVars, localVars
<1> QED
  BY <1>1, <1>2, <1>3, <1>4, <1>5, <1>6, <1>7, <1>8, <1>9, NextSteps

LEMMA LinksToComeStep ==
  ASSUME BusInv, [Next]_vars
  PROVE  LinksToCome'
<1> USE DEF LinksToCome, Making, AtLink, BusInv
<1>1. CASE NextLink
  <2>1. \A d, e : <<me, d>> = <<me, e>> => d = e
    OBVIOUS
  <2> QED  BY <1>1, <2>1 DEF NextLink, linkVars
<1>2. CASE Fails
  BY <1>2 DEF Fails, Raises, Returns
<1>3. CASE List \/ Popen \/ Claim \/ Up
  BY <1>3 DEF List, Popen, Claim, Up, linkVars, localVars
<1>4. CASE Finish
  BY <1>4 DEF Finish, Thread
<1>5. CASE StartService \/ Discover
  BY <1>5 DEF StartService, Discover, Returns, linkVars, localVars
<1>6. CASE CloseLink \/ CloseRaises \/ CloseEnds
  BY <1>6 DEF CloseLink, CloseRaises, CloseEnds, Returns
<1>7. ASSUME NEW c \in Controller, New(c) \/ Close(c) PROVE LinksToCome'
  BY <1>7 DEF New, Close, linkVars, Lists
<1>8. CASE Elsewhere
  BY <1>8 DEF Elsewhere, linkVars, localVars
<1> QED
  BY <1>1, <1>2, <1>3, <1>4, <1>5, <1>6, <1>7, <1>8, NextSteps

\* With the lists in step, close() of a link gives up its own EID and no other.
LEMMA EidsStep ==
  ASSUME BusInv, [Next]_vars
  PROVE  Eids'
<1> USE DEF Eids, EidsAreUnique, HasEid, BusInv
<1>0. /\ eid \in [Link -> EID \cup {none}] /\ allocated_eids \subseteq EID
      /\ assigned_links \subseteq Link /\ none \notin EID
  BY ControllerAssumption DEF TypeOK, none
<1>1. CASE NextLink \/ Fails \/ Discover \/ CloseRaises \/ CloseEnds
  BY <1>1
  DEF NextLink, Fails, Raises, Returns, Discover, CloseRaises, CloseEnds, linkVars
<1>2. CASE List
  BY <1>2, <1>0 DEF List, FreeEids, linkVars, TypeOK
<1>3. CASE Popen \/ Claim \/ Up \/ StartService
  BY <1>3 DEF Popen, Claim, Up, StartService, linkVars, localVars
<1>4. CASE Finish
  <2>1. /\ cur \in Link /\ cur \notin assigned_links
        /\ next_eid \in EID \ allocated_eids
    BY <1>4 DEF Finish, Thread, LinksToCome, AtLink
  <2>2. /\ assigned_links' = assigned_links \cup {cur}
        /\ allocated_eids' = allocated_eids \cup {next_eid}
        /\ eid' = [eid EXCEPT ![cur] = next_eid] /\ pc' = "loop"
    BY <1>4 DEF Finish
  <2>3. eid'[cur] = next_eid /\ \A l \in Link \ {cur} : eid'[l] = eid[l]
    BY <1>0, <2>1, <2>2
  <2>4. \A l \in assigned_links : l \in Link \ {cur} /\ eid[l] \in allocated_eids
    BY <1>0, <2>1
  <2>5. allocated_eids' = {eid'[l] : l \in assigned_links'}
    BY <2>2, <2>3, <2>4
  <2>6. ASSUME NEW k \in assigned_links', NEW l \in assigned_links', eid'[k] = eid'[l]
        PROVE  k = l
    BY <2>1, <2>2, <2>3, <2>4, <2>6
  <2>7. \A l \in Link \ assigned_links' : eid'[l] = none
    BY <2>2, <2>3
  <2> QED  BY <2>2, <2>5, <2>6, <2>7
<1>5. CASE CloseLink
  <2> DEFINE h == Head(closing)
  <2>1. h \in Link
    BY <1>5 DEF CloseLink, TypeOK
  <2>2. /\ assigned_links' = assigned_links \ {h}
        /\ allocated_eids' = allocated_eids \ {eid[h]}
        /\ eid' = [eid EXCEPT ![h] = none] /\ pc' = "close"
    BY <1>5 DEF CloseLink
  <2> HIDE DEF h
  <2>3. eid'[h] = none /\ \A l \in Link \ {h} : eid'[l] = eid[l]
    BY <1>0, <2>1, <2>2
  <2>4. h \notin assigned_links => eid[h] \notin allocated_eids
    BY <1>0, <2>1
  <2>5. \A l \in assigned_links' : l \in Link \ {h} /\ eid'[l] = eid[l]
    BY <1>0, <2>2, <2>3
  <2>6. {eid'[l] : l \in assigned_links'} = {eid[l] : l \in assigned_links \ {h}}
    BY <2>2, <2>5
  <2>7. CASE h \in assigned_links
    <3>1. allocated_eids \ {eid[h]} = {eid[l] : l \in assigned_links \ {h}}
      BY <2>7
    <3> QED  BY <2>2, <2>3, <2>5, <2>6, <3>1
  <2>8. CASE h \notin assigned_links
    <3>1. allocated_eids \ {eid[h]} = {eid[l] : l \in assigned_links \ {h}}
      BY <2>4, <2>8
    <3> QED  BY <2>2, <2>3, <2>5, <2>6, <3>1
  <2> QED  BY <2>7, <2>8
<1>6. ASSUME NEW c \in Controller, New(c) \/ Close(c) PROVE Eids'
  BY <1>6 DEF New, Close, linkVars
<1>7. CASE Elsewhere
  BY <1>7 DEF Elsewhere, linkVars, localVars
<1> QED
  BY <1>1, <1>2, <1>3, <1>4, <1>5, <1>6, <1>7, NextSteps

LEMMA ProcessesStep ==
  ASSUME BusInv, [Next]_vars
  PROVE  Processes'
<1> USE DEF Processes, BusInv
<1>0. /\ proc \in [Link -> {none, "running", "term", "zombie", "gone"}]
      /\ assigned_links \subseteq Link /\ link_pid \subseteq Link
  BY DEF TypeOK
<1>1. CASE NextLink
  <2>1. cur = noLink /\ noLink \notin Link
    BY <1>1 DEF NextLink, Thread, AtLink, noLink, Link, Controller
  <2> QED  BY <1>0, <1>1, <2>1 DEF NextLink, linkVars
<1>2. CASE Fails
  <2>1. cur \notin assigned_links
    <3>1. noLink \notin Link
      BY DEF noLink, Link, Controller
    <3> QED  BY <1>0, <3>1 DEF LinksToCome, Thread
  <2>2. /\ assigned_links' = assigned_links /\ link_pid' = link_pid \ {cur}
        /\ cur' = noLink
    BY <1>2 DEF Fails, Raises, Returns
  <2>3. \A l \in Link : proc'[l] = "running" => proc[l] = "running" /\ l # cur
    BY <1>0, <1>2, <2>1, FailsProc
  <2> QED  BY <1>0, <2>1, <2>2, <2>3
<1>3. CASE List \/ Claim \/ Up
  BY <1>0, <1>3, ReapedProc DEF List, Claim, Up, linkVars, localVars
<1>4. CASE Popen
  BY <1>0, <1>4, ReapedProc DEF Popen, localVars
<1>5. CASE Finish
  <2>1. cur \in link_pid
    BY <1>5 DEF Finish, Thread, Started
  <2>2. \A l \in Link : proc'[l] = "running" => proc[l] = "running"
    BY <1>0, <1>5, <2>1, ReapedProc DEF Finish
  <2> QED  BY <1>0, <1>5, <2>1, <2>2 DEF Finish
<1>6. CASE StartService
  BY <1>0, <1>6, ReapedProc DEF StartService, linkVars, localVars
<1>7. CASE Discover
  <2>1. cur = noLink
    BY <1>7 DEF Discover, Thread, AtLink
  <2> QED  BY <1>7, <2>1 DEF Discover, Returns, linkVars
<1>8. CASE CloseLink
  <2> DEFINE h == Head(closing)
  <2>1. h \in Link /\ cur = noLink
    BY <1>8 DEF CloseLink, TypeOK, Thread, AtLink
  <2>2. /\ proc' = IF h \in link_pid THEN Killed(proc, h) ELSE proc
        /\ assigned_links' = assigned_links \ {h} /\ link_pid' = link_pid \ {h}
        /\ cur' = cur
    BY <1>8 DEF CloseLink
  <2> HIDE DEF h
  <2>3. \A l \in Link : proc'[l] = "running" => proc[l] = "running" /\ l # h
    BY <1>0, <2>1, <2>2 DEF Killed
  <2> QED  BY <1>0, <2>2, <2>3
<1>9. CASE CloseRaises
  <2>1. cur = noLink
    BY <1>9 DEF CloseRaises, Thread, AtLink
  <2> QED  BY <1>9, <2>1 DEF CloseRaises, Returns, linkVars
<1>10. CASE CloseEnds
  <2>1. cur = noLink
    BY <1>10 DEF CloseEnds, Thread, AtLink
  <2> QED  BY <1>0, <1>10, <2>1, ReapedProc DEF CloseEnds, Returns, linkVars
<1>11. ASSUME NEW c \in Controller, New(c) \/ Close(c) PROVE Processes'
  BY <1>11 DEF New, Close, linkVars
<1>12. CASE Elsewhere
  BY <1>0, <1>12 DEF Elsewhere, linkVars, localVars
<1> QED
  BY <1>1, <1>2, <1>3, <1>4, <1>5, <1>6, <1>7, <1>8, <1>9, <1>10, <1>11, <1>12,
     NextSteps

\* Lists of links.
LEMMA ListTypes ==
  ASSUME TypeOK
  PROVE  /\ assigned_links \subseteq Link
         /\ \A l \in Link : l[1] \in Controller
         /\ \A c \in Controller : serial_links[c] \in Seq(Link)
         /\ serial_links \in [Controller -> Seq(Link)] /\ closing \in Seq(Link)
         /\ DOMAIN outcome = Controller
BY DEF TypeOK, Link

LEMMA ListsStep ==
  ASSUME BusInv, [Next]_vars
  PROVE  Lists'
<1> USE DEF Lists, BusInv
<1>1. CASE NextLink \/ List \/ Popen \/ Claim \/ Up \/ StartService
  BY <1>1
  DEF NextLink, List, Popen, Claim, Up, StartService, linkVars, ctlVars, localVars
<1>2. CASE Fails
  BY <1>2, ListTypes DEF Fails, Raises, Returns, ctlVars
<1>3. CASE Finish
  <2> DEFINE q == serial_links[me]
             r == Append(serial_links[me], cur)
  <2>1. me \in Controller /\ cur \in Link /\ cur[1] = me /\ outcome[me] = "making"
    BY <1>3 DEF Finish, Thread, Making, AtLink
  <2>2. /\ q \in Seq(Link) /\ Len(q) \in Nat /\ Len(r) = Len(q) + 1
        /\ r[Len(q) + 1] = cur /\ \A i \in 1 .. Len(q) : r[i] = q[i]
    BY <2>1, ListTypes
  <2>3. /\ serial_links'[me] = r
        /\ \A c \in Controller : c # me => serial_links'[c] = serial_links[c]
        /\ assigned_links' = assigned_links \cup {cur}
        /\ outcome' = outcome /\ pc' = "loop" /\ serial_links[me] = q
    BY <1>3, <2>1, ListTypes DEF Finish
  <2> HIDE DEF q, r
  <2>4. ASSUME NEW c \in Controller, NEW i \in 1 .. Len(serial_links'[c])
        PROVE  serial_links'[c][i][1] = c
    <3>1. CASE c = me
      BY <2>1, <2>2, <2>3, <3>1
    <3>2. CASE c # me
      BY <2>3, <3>2
    <3> QED  BY <3>1, <3>2
  <2>5. ASSUME NEW l \in assigned_links'
        PROVE  /\ outcome'[l[1]] \notin {"new", "closed", "undone"}
               /\ \E i \in 1 .. Len(serial_links'[l[1]]) : serial_links'[l[1]][i] = l
    <3>1. CASE l = cur
      <4>1. Len(q) + 1 \in 1 .. Len(r)
        BY <2>2
      <4> QED  BY <2>1, <2>2, <2>3, <3>1, <4>1
    <3>2. CASE l \in assigned_links /\ l[1] = me
      <4>1. PICK i \in 1 .. Len(q) : q[i] = l
        BY <2>3, <3>2
      <4>2. i \in 1 .. Len(r) /\ r[i] = l
        BY <2>2, <4>1
      <4> QED  BY <2>1, <2>3, <3>2, <4>2
    <3>3. CASE l \in assigned_links /\ l[1] # me
      BY <2>3, <3>3, ListTypes
    <3> QED  BY <2>3, <3>1, <3>2, <3>3
  <2> QED  BY <2>3, <2>4, <2>5
<1>4. CASE Discover
  <2>1. me \in Controller
    BY <1>4 DEF Discover, Thread
  <2>2. /\ assigned_links' = assigned_links /\ serial_links' = serial_links
        /\ \A c \in Controller : outcome'[c] # outcome[c] => outcome'[c] = "live"
        /\ pc' = "close" => me' = me /\ closing' = serial_links[me]
    BY <1>4, ListTypes DEF Discover, Returns, linkVars
  <2> QED  BY <2>1, <2>2, ListTypes
<1>5. CASE CloseLink
  <2> DEFINE h == Head(closing)
             t == Tail(closing)
  <2>1. /\ assigned_links' = assigned_links \ {h} /\ closing' = t
        /\ outcome' = outcome /\ serial_links' = serial_links /\ me' = me
        /\ pc = "close"
    BY <1>5 DEF CloseLink, ctlVars
  <2>2. /\ Len(closing) \in Nat \ {0} /\ Len(t) = Len(closing) - 1
        /\ h = closing[1] /\ \A i \in 1 .. Len(t) : t[i] = closing[i + 1]
    BY <1>5, ListTypes DEF CloseLink
  <2> HIDE DEF h, t
  <2>3. \A i \in 1 .. Len(t) : t[i][1] = me
    <3>1. \A i \in 1 .. Len(t) : i + 1 \in 1 .. Len(closing)
      BY <2>2
    <3> QED  BY <2>1, <2>2, <3>1
  <2>4. ASSUME NEW l \in assigned_links \ {h}, l[1] = me
        PROVE  \E i \in 1 .. Len(t) : t[i] = l
    <3>1. PICK j \in 1 .. Len(closing) : closing[j] = l
      BY <2>1, <2>4
    <3>2. j # 1
      BY <2>2, <2>4, <3>1
    <3>3. j - 1 \in 1 .. Len(t) /\ (j - 1) + 1 = j
      BY <2>2, <3>2
    <3>4. t[j - 1] = closing[(j - 1) + 1]
      BY <2>2, <3>3
    <3> QED  BY <3>1, <3>3, <3>4
  <2> QED  BY <2>1, <2>3, <2>4
<1>6. CASE CloseRaises
  BY <1>6, ListTypes DEF CloseRaises, Returns, linkVars, ctlVars
<1>7. CASE CloseEnds
  <2>1. /\ me \in Controller /\ pc = "close" /\ closing = <<>> /\ Len(<<>>) = 0
    BY <1>7 DEF CloseEnds, Thread
  <2>2. \A l \in assigned_links : l[1] # me
    BY <2>1
  <2>3. /\ assigned_links' = assigned_links /\ pc' = "idle"
        /\ serial_links'[me] = <<>>
        /\ \A c \in Controller : c # me =>
              serial_links'[c] = serial_links[c] /\ outcome'[c] = outcome[c]
    BY <1>7, <2>1, ListTypes DEF CloseEnds, Returns, linkVars
  <2>4. \A c \in Controller : \A i \in 1 .. Len(serial_links'[c]) :
           serial_links'[c][i][1] = c
    BY <2>1, <2>3
  <2>5. \A l \in assigned_links :
           /\ l[1] \in Controller /\ serial_links'[l[1]] = serial_links[l[1]]
           /\ outcome'[l[1]] = outcome[l[1]]
    BY <2>2, <2>3, ListTypes
  <2> QED  BY <2>3, <2>4, <2>5
<1>8. ASSUME NEW c \in Controller, New(c) PROVE Lists'
  <2>1. /\ assigned_links' = assigned_links /\ serial_links' = serial_links
        /\ pc' # "close"
        /\ \A b \in Controller : b # c => outcome'[b] = outcome[b]
        /\ outcome[c] = "new"
    BY <1>8, ListTypes DEF New, linkVars, ctlVars
  <2> QED  BY <2>1, ListTypes
<1>9. ASSUME NEW c \in Controller, Close(c) PROVE Lists'
  BY <1>9, ListTypes DEF Close, linkVars, ctlVars
<1>10. CASE Elsewhere
  BY <1>10 DEF Elsewhere, linkVars, ctlVars, localVars
<1> QED
  BY <1>1, <1>2, <1>3, <1>4, <1>5, <1>6, <1>7, <1>8, <1>9, <1>10, NextSteps

LEMMA StuckStep ==
  ASSUME BusInv, [Next]_vars
  PROVE  Stuck'
<1> USE DEF Stuck, BusInv
<1>0. /\ proc \in [Link -> {none, "running", "term", "zombie", "gone"}]
      /\ link_pid \subseteq Link /\ DOMAIN outcome = Controller
  BY DEF TypeOK
\* It is enough that nobody else gets stuck and that who is gone stays so.
<1>1. ASSUME \A c \in Controller : outcome'[c] = "stuck" => outcome[c] = "stuck",
             \A l \in link_pid :
                 outcome[l[1]] = "stuck" /\ proc[l] = "gone" =>
                     l \in link_pid' /\ proc'[l] = "gone"
      PROVE  Stuck'
  BY <1>1
<1>2. CASE NextLink
  BY <1>2 DEF NextLink, linkVars
<1>3. CASE Fails
  <2>1. /\ outcome[me] = "making" /\ (cur \in Link => cur[1] = me)
        /\ noLink \notin Link
    BY <1>3 DEF Fails, Thread, noLink, Link, Controller
  <2>2. /\ link_pid' = link_pid \ {cur}
        /\ \A c \in Controller : outcome'[c] = "stuck" => outcome[c] = "stuck"
    BY <1>0, <1>3 DEF Fails, Raises
  <2>3. \A l \in link_pid : outcome[l[1]] = "stuck" => l # cur
    BY <1>0, <2>1
  <2>4. \A l \in link_pid :
           outcome[l[1]] = "stuck" /\ proc[l] = "gone" => proc'[l] = "gone"
    BY <1>0, <1>3, <2>3, FailsProc
  <2> QED  BY <1>1, <2>2, <2>3, <2>4
<1>4. CASE List \/ Claim \/ Up \/ StartService
  <2>1. outcome' = outcome /\ link_pid' = link_pid /\ proc' = Reaped
    BY <1>4 DEF List, Claim, Up, StartService, linkVars
  <2> QED  BY <1>0, <1>1, <2>1, ReapedProc
<1>5. CASE Popen
  <2>1. cur \in Link /\ cur[1] = me /\ outcome[me] = "making"
    BY <1>5 DEF Popen, Thread, Making, AtLink
  <2>2. \A l \in link_pid : outcome[l[1]] = "stuck" => l # cur
    BY <2>1
  <2>3. \A l \in Link \ {cur} : proc'[l] = Reaped[l]
    BY <1>5, ReapedProc DEF Popen
  <2> QED  BY <1>0, <1>1, <1>5, <2>2, <2>3, ReapedProc DEF Popen
<1>6. CASE Finish
  <2>1. \A l \in Link : proc[l] = "gone" => proc'[l] = "gone"
    <3>1. \A l \in Link : proc[l] = "gone" => Reaped[l] = "gone"
      BY <1>0, ReapedProc
    <3> QED  BY <1>6, <3>1, ReapedProc DEF Finish
  <2> QED  BY <1>0, <1>1, <1>6, <2>1 DEF Finish
<1>7. CASE Discover
  <2>1. \A c \in Controller : outcome'[c] = "stuck" => outcome[c] = "stuck"
    BY <1>0, <1>7 DEF Discover
  <2> QED  BY <1>1, <1>7, <2>1 DEF Discover, linkVars
<1>8. CASE CloseLink
  <2> DEFINE h == Head(closing)
  <2>1. /\ ~(h \in link_pid /\ proc[h] = "gone") /\ link_pid' = link_pid \ {h}
        /\ proc' = IF h \in link_pid THEN Killed(proc, h) ELSE proc
        /\ outcome' = outcome
    BY <1>8 DEF CloseLink
  <2> HIDE DEF h
  <2>2. \A l \in link_pid : proc[l] = "gone" => l # h /\ proc'[l] = "gone"
    BY <1>0, <2>1 DEF Killed
  <2> QED  BY <1>1, <2>1, <2>2
<1>9. CASE CloseRaises
  <2> DEFINE h == Head(closing)
  <2>1. /\ h \in link_pid /\ proc[h] = "gone" /\ pc = "close" /\ closing # <<>>
        /\ link_pid' = link_pid /\ proc' = proc
        /\ \A c \in Controller : c # me => outcome'[c] = outcome[c]
    BY <1>0, <1>9 DEF CloseRaises, linkVars
  <2>2. h = closing[1] /\ 1 \in 1 .. Len(closing)
    BY <2>1, ListTypes
  <2>3. h[1] = me
    BY <2>1, <2>2 DEF Lists
  <2> QED  BY <2>1, <2>3
<1>10. CASE CloseEnds
  <2>1. \A c \in Controller : outcome'[c] = "stuck" => outcome[c] = "stuck"
    BY <1>0, <1>10 DEF CloseEnds
  <2> QED  BY <1>0, <1>1, <1>10, <2>1, ReapedProc DEF CloseEnds, linkVars
<1>11. ASSUME NEW c \in Controller, New(c) \/ Close(c) PROVE Stuck'
  <2>1. \A b \in Controller : outcome'[b] = "stuck" => outcome[b] = "stuck"
    BY <1>0, <1>11 DEF New, Close
  <2> QED  BY <1>1, <1>11, <2>1 DEF New, Close, linkVars
<1>12. CASE Elsewhere
  BY <1>0, <1>1, <1>12 DEF Elsewhere, linkVars
<1> QED
  BY <1>2, <1>3, <1>4, <1>5, <1>6, <1>7, <1>8, <1>9, <1>10, <1>11, <1>12, NextSteps

\* While a controller is being made nobody is live, so that it may do with the
\* service as it likes.
LEMMA SingletonStep ==
  ASSUME BusInv, [Next]_vars
  PROVE  Singleton'
<1> USE DEF Singleton, OneController, Live, Making, AtLink, BusInv
<1>0. DOMAIN outcome = Controller /\ instance \in Controller \cup {0}
      /\ 0 \notin Controller
  BY DEF TypeOK, Controller
<1>1. CASE NextLink \/ List \/ Popen \/ Claim \/ Up \/ Finish
  BY <1>1
  DEF NextLink, List, Popen, Claim, Up, Finish, ctlVars, localVars
<1>2. CASE Fails \/ CloseRaises
  <2>1. /\ UNCHANGED <<instance, service, stale>> /\ pc' = "idle"
        /\ \A c \in Controller : c # me => outcome'[c] = outcome[c]
        /\ me \in Controller
    BY <1>0, <1>2
    DEF Fails, CloseRaises, Raises, Returns, ctlVars, Thread
  <2>2. CASE Fails
    <3>1. outcome[me] = "making" /\ outcome'[me] = "failed"
      BY <1>0, <2>1, <2>2 DEF Fails, Raises, Thread
    <3> QED  BY <1>0, <2>1, <3>1
  <2>3. CASE CloseRaises
    <3>1. /\ pc = "close"
          /\ outcome'[me] = IF outcome[me] = "making" THEN "failed" ELSE "stuck"
      BY <1>0, <2>1, <2>3 DEF CloseRaises
    <3> QED  BY <1>0, <2>1, <3>1
  <2> QED  BY <1>2, <2>2, <2>3
<1>3. CASE StartService
  <2>1. ~stale => \A c \in Controller : ~Live(c)
    BY <1>0, <1>3 DEF StartService
  <2> QED  BY <1>0, <1>3, <2>1 DEF StartService, ctlVars, localVars
<1>4. CASE Discover
  <2>1. me \in Controller /\ outcome[me] = "making" /\ service /\ pc = "discover"
    BY <1>4 DEF Discover, Thread
  <2>2. ~stale => instance = 0 /\ \A c \in Controller : ~Live(c)
    BY <1>0, <2>1
  <2>3. service' = service /\ stale' = stale
    BY <1>4 DEF Discover
  <2>4. CASE /\ instance' = me /\ pc' = "idle"
             /\ outcome' = [outcome EXCEPT ![me] = "live"]
    BY <1>0, <2>1, <2>2, <2>3, <2>4
  <2>5. CASE UNCHANGED <<instance, outcome, me>>
    BY <2>1, <2>2, <2>3, <2>5
  <2> QED  BY <1>4, <2>4, <2>5 DEF Discover, Returns
<1>5. CASE CloseLink
  BY <1>5 DEF CloseLink, ctlVars
<1>6. CASE CloseEnds
  <2>1. /\ me \in Controller /\ pc = "close" /\ pc' = "idle" /\ instance' = 0
        /\ stale' = stale /\ outcome'[me] \in {"undone", "closed"}
        /\ \A c \in Controller : c # me => outcome'[c] = outcome[c]
    BY <1>0, <1>6 DEF CloseEnds, Returns, Thread
  <2>2. ~stale => \A c \in Controller : c # me => ~Live(c)
    BY <1>0, <2>1
  <2> QED  BY <1>0, <2>1, <2>2
<1>7. ASSUME NEW c \in Controller, New(c) PROVE Singleton'
  <2>1. /\ outcome[c] = "new" /\ UNCHANGED <<instance, service, stale>>
        /\ \A b \in Controller : b # c => outcome'[b] = outcome[b]
        /\ outcome'[c] \in {"failed", "making"} /\ pc' \in {"idle", "loop"}
        /\ pc' = "loop" => instance = 0
    BY <1>0, <1>7 DEF New, Refused, ctlVars
  <2> QED  BY <1>0, <2>1
<1>8. ASSUME NEW c \in Controller, Close(c) PROVE Singleton'
  BY <1>8 DEF Close, ctlVars
<1>9. CASE Elsewhere
  BY <1>9 DEF Elsewhere, ctlVars
<1> QED
  BY <1>1, <1>2, <1>3, <1>4, <1>5, <1>6, <1>7, <1>8, <1>9, NextSteps

LEMMA TypeStep ==
  ASSUME BusInv, [Next]_vars
  PROVE  TypeOK'
<1> USE DEF TypeOK, BusInv
<1>0. /\ EidRange \subseteq SUBSET EID /\ noLink \in Link \cup {noLink}
      /\ \A l \in Link : l[2] \in Device
      /\ \A c \in Controller, d \in Device : <<c, d>> \in Link
      /\ 0 \in Controller \cup {0} /\ -1 \in Int /\ <<>> \in Seq(Link)
  BY ControllerAssumption DEF Link
<1>1. CASE NextLink
  BY <1>0, <1>1 DEF NextLink, Thread, linkVars, ctlVars, kernelVars
<1>2. CASE Fails
  <2>1. proc' \in [Link -> {none, "running", "term", "zombie", "gone"}]
    BY <1>2, FailsProc
  <2> QED
    BY <1>0, <1>2, <2>1
    DEF Fails, Raises, Returns, linkVars, ctlVars, kernelVars
<1>3. CASE List
  <2>1. proc' \in [Link -> {none, "running", "term", "zombie", "gone"}]
    BY <1>3, ReapedProc DEF List
  <2>2. cur \in Link
    BY <1>3 DEF List, Thread, AtLink
  <2> QED
    BY <1>3, <2>1, <2>2
    DEF List, FreeEids, Interfaces, linkVars, ctlVars, kernelVars
<1>4. CASE Popen
  <2>1. proc' \in [Link -> {none, "running", "term", "zombie", "gone"}]
    BY <1>4, ReapedProc DEF Popen
  <2>2. cur \in Link
    BY <1>4 DEF Popen, Thread, AtLink
  <2> QED  BY <1>4, <2>1, <2>2 DEF Popen, ctlVars, localVars, kernelVars
<1>5. CASE Claim
  <2>1. proc' \in [Link -> {none, "running", "term", "zombie", "gone"}]
    BY <1>5, ReapedProc DEF Claim
  <2>2. link_name' \in [Link -> Name \cup {noName}]
    BY <1>5 DEF Claim, NewInterfaces, Interfaces
  <2> QED  BY <1>5, <2>1, <2>2 DEF Claim, ctlVars, localVars, kernelVars
<1>6. CASE Up \/ StartService
  <2>1. proc' \in [Link -> {none, "running", "term", "zombie", "gone"}]
    BY <1>6, ReapedProc DEF Up, StartService
  <2> QED
    BY <1>6, <2>1 DEF Up, StartService, linkVars, ctlVars, localVars, kernelVars
<1>7. CASE Finish
  <2>1. cur \in Link /\ me \in Controller /\ next_eid \in EID
    BY <1>7 DEF Finish, Thread, AtLink, Eids, HasEid
  <2>2. proc' \in [Link -> {none, "running", "term", "zombie", "gone"}]
    <3>1. /\ proc' = [Reaped EXCEPT ![cur] = IF @ = "zombie" THEN "gone" ELSE @]
          /\ Reaped \in [Link -> {none, "running", "term", "zombie", "gone"}]
      BY <1>7, ReapedProc DEF Finish
    <3> HIDE DEF TypeOK, BusInv
    <3> QED  BY <2>1, <3>1
  <2>3. serial_links' \in [Controller -> Seq(Link)]
    BY <1>7, <2>1 DEF Finish
  <2>4. address' \in [Name -> SUBSET EID]
    BY <1>7, <2>1 DEF Finish, Interfaces
  <2>5. eid' \in [Link -> EID \cup {none}]
    BY <1>7, <2>1 DEF Finish
  <2> QED  BY <1>0, <1>7, <2>1, <2>2, <2>3, <2>4, <2>5 DEF Finish
<1>8. CASE Discover
  <2>1. me \in Controller /\ serial_links[me] \in Seq(Link)
    BY <1>8 DEF Discover, Thread
  <2>2. /\ UNCHANGED <<linkVars, serial_links, proc, kernelVars, service, alone,
                       stale>>
        /\ \/ /\ instance' = me /\ outcome' = [outcome EXCEPT ![me] = "live"]
              /\ Returns
           \/ /\ previous_count' \in Int /\ pc' \in {"discover", "close"}
              /\ closing' \in {closing, serial_links[me]}
              /\ UNCHANGED <<instance, outcome, me, eid_range, files, cur,
                             next_eid, initial>>
    BY <1>8, <2>1 DEF Discover
  <2> QED
    BY <1>0, <2>1, <2>2 DEF Returns, linkVars, kernelVars
<1>9. CASE CloseLink
  <2> DEFINE h == Head(closing)
  <2>1. h \in Link /\ Tail(closing) \in Seq(Link) /\ closing' = Tail(closing)
    BY <1>9 DEF CloseLink
  <2>2. /\ proc' = IF h \in link_pid THEN Killed(proc, h) ELSE proc
        /\ assigned_links' = assigned_links \ {h}
        /\ allocated_eids' = allocated_eids \ {eid[h]}
        /\ link_pid' = link_pid \ {h}
        /\ eid' = [eid EXCEPT ![h] = none]
        /\ link_name' = [link_name EXCEPT ![h] = noName]
        /\ UNCHANGED <<ctlVars, pc, me, eid_range, files, cur, next_eid, initial,
                       previous_count, outcome, kernelVars, service, alone, stale>>
    BY <1>9 DEF CloseLink
  <2> HIDE DEF h
  <2>3. proc' \in [Link -> {none, "running", "term", "zombie", "gone"}]
    BY <2>1, <2>2 DEF Killed
  <2> QED  BY <2>1, <2>2, <2>3 DEF ctlVars, kernelVars
<1>10. CASE CloseRaises
  BY <1>0, <1>10 DEF CloseRaises, Returns, linkVars, ctlVars, kernelVars
<1>11. CASE CloseEnds
  <2>1. proc' \in [Link -> {none, "running", "term", "zombie", "gone"}]
    BY <1>11, ReapedProc DEF CloseEnds
  <2> QED
    BY <1>0, <1>11, <2>1 DEF CloseEnds, Returns, linkVars, kernelVars
<1>12. ASSUME NEW c \in Controller, New(c) \/ Close(c) PROVE TypeOK'
  <2>1. CASE New(c)
    BY <1>0, <2>1 DEF New, linkVars, ctlVars, kernelVars
  <2>2. CASE Close(c)
    BY <2>2 DEF Close, linkVars, ctlVars, kernelVars
  <2> QED  BY <1>12, <2>1, <2>2
<1>13. ASSUME Elsewhere,
              /\ iface' \in [Name -> Device \cup {none, "foreign"}]
              /\ address' \in [Name -> SUBSET EID]
              /\ plugged' \subseteq Device /\ events' \in Nat
              /\ alone' \subseteq Link
       PROVE  TypeOK'
  BY <1>13 DEF Elsewhere, linkVars, ctlVars, localVars
<1>14. CASE UNCHANGED vars
  BY <1>14 DEF vars, linkVars, ctlVars, localVars, kernelVars
<1>15. ASSUME NEW l \in Link, Binds(l) PROVE TypeOK'
  <2>1. Elsewhere
    BY <1>15 DEF Binds, Elsewhere
  <2>2. iface' \in [Name -> Device \cup {none, "foreign"}]
    BY <1>0, <1>15 DEF Binds
  <2> QED  BY <1>13, <1>15, <2>1, <2>2 DEF Binds
<1>16. ASSUME NEW d \in Device, Gone(d)
       PROVE  /\ iface' \in [Name -> Device \cup {none, "foreign"}]
              /\ address' \in [Name -> SUBSET EID]
  BY <1>16 DEF Gone
<1>17. ASSUME NEW l \in Link, Dies(l) PROVE TypeOK'
  <2>1. Elsewhere
    BY <1>17 DEF Dies, Elsewhere, Holds
  <2>2. Gone(l[2]) \/ UNCHANGED <<iface, address>>
    BY <1>17 DEF Dies
  <2> QED  BY <1>0, <1>13, <1>16, <1>17, <2>1, <2>2 DEF Dies
<1>18. ASSUME NEW d \in Device, Unplug(d) PROVE TypeOK'
  <2>1. Elsewhere
    BY <1>18 DEF Unplug, Elsewhere
  <2> QED  BY <1>13, <1>16, <1>18, <2>1 DEF Unplug
<1>19. ASSUME NEW n \in Name, Foreign(n) PROVE TypeOK'
  <2>1. Elsewhere
    BY <1>19 DEF Foreign, Elsewhere
  <2> QED  BY <1>13, <1>19, <2>1 DEF Foreign
<1>20. CASE System
  BY <1>15, <1>17, <1>18, <1>19, <1>20 DEF System
<1>21. CASE Unlinkable \/ Timeout \/ CommandFails \/ DiscoverRaises
  BY <1>2, <1>21
  DEF Unlinkable, Timeout, CommandFails, DiscoverRaises, Fails, Making, AtLink
<1> QED
  BY <1>1, <1>3, <1>4, <1>5, <1>6, <1>7, <1>8, <1>9, <1>10, <1>11, <1>12, <1>14,
     <1>20, <1>21 DEF Next, Python, User

LEMMA InitialInv ==
  ASSUME Init
  PROVE  BusInv
<1> USE DEF Init
<1>1. TypeOK
  <2>1. <<>> \in Seq(Link) /\ -1 \in Int /\ 0 \in Nat
    OBVIOUS
  <2> QED  BY <2>1 DEF TypeOK
<1>2. Thread /\ LinksToCome
  BY DEF Thread, LinksToCome, Making, AtLink, Started
<1>3. Eids /\ Processes
  BY DEF Eids, EidsAreUnique, HasEid, Processes, none
<1>4. Lists
  <2>1. Len(<<>>) = 0 /\ \A c \in Controller : serial_links[c] = <<>>
    OBVIOUS
  <2> QED  BY <2>1 DEF Lists
<1>5. Stuck /\ Singleton
  BY DEF Stuck, Singleton, OneController, Live, Making, AtLink
<1> QED  BY <1>1, <1>2, <1>3, <1>4, <1>5 DEF BusInv

-----------------------------------------------------------------------------
(***************************************************************************)
(* A link made while nothing else was under way.                           *)
(***************************************************************************)

\* The link's process runs on a device that is there.
Attached(l) == proc[l] = "running" /\ l[2] \in plugged

\* An interface that goes takes its addresses along.
Addresses == \A n \in Name : iface[n] = none => address[n] = {}

\* No link is made twice: one that is still to be made is not in alone.
AloneToCome ==
    /\ \A l \in alone : outcome[l[1]] # "new"
    /\ Making => \A d \in files : <<me, d>> \notin alone
    /\ pc = "link" => cur \notin alone

\* While the link at hand is alone, the only interface to come, and the only
\* one that has come since the list was taken, is that of its device; it has no
\* address yet.
Quiet ==
    cur \in alone =>
        /\ pc = "popen" =>
              /\ \A l \in Link : ~MayBind(l)
              /\ Interfaces \subseteq initial
        /\ pc = "wait" =>
              /\ \A l \in Link : MayBind(l) => l[2] = cur[2]
              /\ \A n \in Interfaces \ initial : iface[n] = cur[2] /\ address[n] = {}
        /\ pc \in {"up", "address"} /\ Attached(cur) =>
              /\ link_name[cur] \in Name
              /\ iface[link_name[cur]] = cur[2] /\ address[link_name[cur]] = {}

\* What a link made alone has, and that the link at hand does not take it.
Owned ==
    \A l \in assigned_links \cap alone :
        Attached(l) =>
            /\ link_name[l] \in Name
            /\ iface[link_name[l]] = l[2] /\ address[link_name[l]] = {eid[l]}
            /\ pc \in {"popen", "wait"} => link_name[l] \in initial
            /\ pc \in {"up", "address"} => link_name[cur] # link_name[l]

AloneInv == Addresses /\ AloneToCome /\ Quiet /\ Owned

\* A set of natural numbers has a least element: of the intervals from 0 to a
\* member, the least by inclusion.
LEMMA LeastNatural ==
  ASSUME NEW S \in SUBSET Nat, S # {}
  PROVE  \E m \in S : \A k \in S : m <= k
<1> DEFINE Upto == {0 .. n : n \in S}
<1>1. Upto \subseteq FiniteSubsetsOf(Nat)
  <2>1. \A n \in S : IsFiniteSet(0 .. n)
    BY FS_Interval
  <2>2. \A n \in S : 0 .. n \subseteq Nat
    OBVIOUS
  <2> QED  BY <2>1, <2>2 DEF FiniteSubsetsOf
<1>2. Upto # {}
  OBVIOUS
<1>3. \E x \in Upto : \A y \in Upto : <<y, x>> \notin StrictSubsetOrdering(Nat)
  <2> HIDE DEF Upto
  <2> QED  BY <1>1, <1>2, FS_StrictSubsetOrderingWellFounded, WFMin
<1>4. PICK m \in S : \A k \in S : <<0 .. k, 0 .. m>> \notin StrictSubsetOrdering(Nat)
  BY <1>3
<1>5. ASSUME NEW k \in S, ~ (m <= k)
      PROVE  FALSE
  <2>1. 0 .. k \subseteq 0 .. m /\ m \in 0 .. m /\ m \notin 0 .. k
    BY <1>5
  <2>2. 0 .. k \in SUBSET Nat /\ 0 .. m \in SUBSET Nat
    OBVIOUS
  <2> QED  BY <1>4, <2>1, <2>2 DEF StrictSubsetOrdering
<1> QED  BY <1>5

\* The number an interface gets was free.
LEMMA FreeName ==
  ASSUME NEW l \in Link, Binds(l)
  PROVE  \E n \in Name :
            iface[n] = none /\ iface' = [iface EXCEPT ![n] = l[2]]
<1> DEFINE F == Name \ Interfaces
           n == CHOOSE m \in F : \A k \in F : m <= k
<1>1. F \in SUBSET Nat /\ F # {}
  BY ControllerAssumption DEF Binds, Name
<1>2. \E m \in F : \A k \in F : m <= k
  <2> HIDE DEF F
  <2> QED  BY <1>1, LeastNatural
<1>3. n \in F
  <2> HIDE DEF F
  <2> QED  BY <1>2
<1>4. iface' = [iface EXCEPT ![n] = l[2]]
  BY DEF Binds
<1>5. n \in Name /\ iface[n] = none
  BY <1>3 DEF Interfaces
<1> HIDE DEF n
<1> QED  BY <1>4, <1>5

\* Names of devices are no marks of the model.
LEMMA DeviceOf ==
  ASSUME NEW l \in Link
  PROVE  l[2] \in Device /\ l[2] # none
BY ControllerAssumption DEF Link, none

\* No process is started, and the interfaces stay as they are.
Calm ==
    /\ UNCHANGED <<iface, plugged>>
    /\ \A l \in Link : /\ proc'[l] = "running" => proc[l] = "running"
                       /\ Holds(l)' => Holds(l)

LEMMA CalmMeans ==
  ASSUME Calm
  PROVE  /\ \A l \in Link : /\ Attached(l)' => Attached(l)
                            /\ MayBind(l)' => MayBind(l)
         /\ Interfaces' = Interfaces
<1>1. ASSUME NEW l \in Link PROVE Attached(l)' => Attached(l)
  BY DEF Calm, Attached
<1>2. ASSUME NEW l \in Link PROVE MayBind(l)' => MayBind(l)
  <2>1. Holds(l)' => Holds(l)
    BY DEF Calm
  <2> QED  BY <2>1 DEF Calm, MayBind
<1> QED  BY <1>1, <1>2 DEF Calm, Interfaces

\* All that Python does is like that, but for the start of a link's process.
LEMMA CalmSteps ==
  ASSUME BusInv,
         \/ NextLink \/ Fails \/ List \/ Claim \/ Up \/ Finish
         \/ StartService \/ Discover \/ CloseLink \/ CloseRaises \/ CloseEnds
         \/ \E c \in Controller : New(c) \/ Close(c)
  PROVE  Calm
<1> USE DEF Calm, Holds, kernelVars
<1>0. TypeOK
  BY DEF BusInv
<1>1. proc \in [Link -> {none, "running", "term", "zombie", "gone"}]
  BY <1>0 DEF TypeOK
<1>2. CASE NextLink \/ Discover \/ CloseRaises
  BY <1>2 DEF NextLink, Discover, CloseRaises
<1>3. CASE Fails
  <2>1. PICK p \in {proc, Reaped} : Raises(p)
    BY <1>3 DEF Fails
  <2>2. /\ p \in [Link -> {none, "running", "term", "zombie", "gone"}]
        /\ \A l \in Link : p[l] = proc[l] \/ (proc[l] = "zombie" /\ p[l] = "gone")
    BY <1>0, <1>1, ReapedProc
  <2>3. CASE cur \in link_pid
    <3>1. cur \in Link
      BY <1>0, <2>3 DEF TypeOK
    <3>2. \A l \in Link :
             /\ proc'[l] = "running" => p[l] = "running"
             /\ proc'[l] = "term" => p[l] \in {"running", "term"}
      BY <2>1, <2>2, <2>3, <3>1 DEF Raises, Killed
    <3> QED  BY <1>3, <2>2, <3>2 DEF Fails
  <2>4. CASE cur \notin link_pid
    BY <1>3, <2>1, <2>2, <2>4 DEF Raises, Fails
  <2> QED  BY <2>3, <2>4
<1>4. CASE List \/ Claim \/ Up \/ StartService \/ CloseEnds
  <2>1. proc' = Reaped /\ UNCHANGED <<iface, plugged>>
    BY <1>4 DEF List, Claim, Up, StartService, CloseEnds
  <2> QED  BY <1>0, <1>1, <2>1, ReapedProc
<1>5. CASE Finish
  <2>1. /\ proc' = [Reaped EXCEPT ![cur] = IF @ = "zombie" THEN "gone" ELSE @]
        /\ UNCHANGED <<iface, plugged>>
    BY <1>5 DEF Finish
  <2> QED  BY <1>0, <1>1, <2>1, ReapedProc
<1>6. CASE CloseLink
  <2> DEFINE h == Head(closing)
  <2>1. /\ proc' = IF h \in link_pid THEN Killed(proc, h) ELSE proc
        /\ UNCHANGED <<iface, plugged>>
    BY <1>6 DEF CloseLink
  <2> HIDE DEF h
  <2> QED  BY <1>1, <2>1 DEF Killed
<1>7. ASSUME NEW c \in Controller, New(c) \/ Close(c) PROVE Calm
  BY <1>7 DEF New, Close
<1> QED  BY <1>2, <1>3, <1>4, <1>5, <1>6, <1>7

\* The steps of the system, or none.
Moves ==
    \/ \E l \in Link : Binds(l) \/ Dies(l)
    \/ \E d \in Device : Unplug(d)
    \/ \E n \in Name : Foreign(n)
    \/ UNCHANGED vars

LEMMA StepsOrMoves ==
  ASSUME TypeOK, [Next]_vars
  PROVE  \/ NextLink \/ Fails \/ List \/ Popen \/ Claim \/ Up \/ Finish
         \/ StartService \/ Discover \/ CloseLink \/ CloseRaises \/ CloseEnds
         \/ (\E c \in Controller : New(c) \/ Close(c))
         \/ Moves
<1>1. CASE Unlinkable \/ Timeout \/ CommandFails \/ DiscoverRaises
  BY <1>1
  DEF Unlinkable, Timeout, CommandFails, DiscoverRaises, Fails, Making, AtLink
<1> QED  BY <1>1 DEF Next, Python, User, System, Moves

\* What moves of the system leave to Python.
LEMMA MovesKeep ==
  ASSUME Moves
  PROVE  /\ UNCHANGED <<assigned_links, eid, link_name, pc, me, files, cur,
                         initial, outcome>>
         /\ alone' \subseteq alone
BY DEF Moves, Binds, Dies, Unplug, Foreign, vars, linkVars, localVars

\* What a move does to one interface: it stays, it goes, or it is made for a
\* device whose link may bind one.
OneInterface(n) ==
    \/ iface'[n] = iface[n] /\ address'[n] = address[n]
    \/ iface'[n] = none /\ address'[n] = {}
    \/ address'[n] = {} /\ \E l \in Link : MayBind(l) /\ iface'[n] = l[2]

\* A link that runs keeps what belongs to its device; and unless another
\* program makes an interface, only that of a link that may bind one comes.
KernelMoves ==
    /\ Addresses'
    /\ \A l \in Link : Attached(l)' =>
          /\ Attached(l)
          /\ \A n \in Name :
                iface[n] = l[2] => iface'[n] = l[2] /\ address'[n] = address[n]
    /\ \/ cur \notin alone'
       \/ /\ \A l \in Link : MayBind(l)' => MayBind(l)
          /\ \A n \in Name : OneInterface(n)

LEMMA GoneMeans ==
  ASSUME NEW d \in Device, Gone(d), NEW n \in Name
  PROVE  /\ iface[n] # d => iface'[n] = iface[n] /\ address'[n] = address[n]
         /\ iface[n] = d => iface'[n] = none /\ address'[n] = {}
BY DEF Gone

LEMMA MovesOfKernel ==
  ASSUME TypeOK, Addresses, Moves
  PROVE  KernelMoves
<1> USE DEF KernelMoves
<1>0. /\ iface \in [Name -> Device \cup {none, "foreign"}]
      /\ address \in [Name -> SUBSET EID]
      /\ proc \in [Link -> {none, "running", "term", "zombie", "gone"}]
  BY DEF TypeOK
<1>1. ASSUME NEW k \in Link, Binds(k) PROVE KernelMoves
  <2>1. PICK n \in Name : iface[n] = none /\ iface' = [iface EXCEPT ![n] = k[2]]
    BY <1>1, FreeName
  <2>2. UNCHANGED <<address, proc, plugged>> /\ MayBind(k)
    BY <1>1 DEF Binds
  <2>3. iface'[n] = k[2] /\ \A m \in Name \ {n} : iface'[m] = iface[m]
    BY <1>0, <2>1
  <2>4. Addresses'
    BY <2>1, <2>2, <2>3, DeviceOf DEF Addresses
  <2>5. ASSUME NEW l \in Link, Attached(l)'
        PROVE  /\ Attached(l)
               /\ \A m \in Name :
                     iface[m] = l[2] => iface'[m] = l[2] /\ address'[m] = address[m]
    BY <2>1, <2>2, <2>3, <2>5, DeviceOf DEF Attached
  <2>6. ASSUME NEW l \in Link, MayBind(l)' PROVE MayBind(l)
    <3>1. Holds(l) /\ l[2] \in plugged /\ \A m \in Name : iface'[m] # l[2]
      BY <2>2, <2>6 DEF MayBind, Holds
    <3> QED  BY <2>1, <2>3, <3>1, DeviceOf DEF MayBind
  <2>7. \A m \in Name : OneInterface(m)
    BY <2>1, <2>2, <2>3 DEF OneInterface, Addresses
  <2> QED  BY <2>4, <2>5, <2>6, <2>7
<1>2. ASSUME NEW k \in Link, Dies(k) PROVE KernelMoves
  <2>1. /\ proc'[k] = "zombie" /\ \A l \in Link \ {k} : proc'[l] = proc[l]
        /\ plugged' = plugged
    BY <1>0, <1>2 DEF Dies
  <2>2. CASE /\ UNCHANGED <<iface, address>>
             /\ \E l \in Link : l # k /\ l[2] = k[2] /\ Holds(l)
    <3>1. Addresses' /\ \A n \in Name : OneInterface(n)
      BY <2>2 DEF Addresses, OneInterface
    <3>2. ASSUME NEW l \in Link, Attached(l)' PROVE Attached(l)
      BY <2>1, <3>2 DEF Attached
    <3>3. ASSUME NEW l \in Link, MayBind(l)' PROVE MayBind(l)
      BY <2>1, <2>2, <3>3 DEF MayBind, Holds
    <3> QED  BY <2>2, <3>1, <3>2, <3>3
  <2>3. CASE /\ Gone(k[2])
             /\ ~ \E l \in Link : l # k /\ l[2] = k[2] /\ Holds(l)
    <3>1. \A n \in Name :
             /\ iface[n] # k[2] => iface'[n] = iface[n] /\ address'[n] = address[n]
             /\ iface[n] = k[2] => iface'[n] = none /\ address'[n] = {}
      BY <2>3, DeviceOf, GoneMeans
    <3>2. Addresses' /\ \A n \in Name : OneInterface(n)
      BY <3>1 DEF Addresses, OneInterface
    <3>3. ASSUME NEW l \in Link, Attached(l)' PROVE Attached(l) /\ l[2] # k[2]
      BY <2>1, <2>3, <3>3 DEF Attached, Holds
    <3>4. ASSUME NEW l \in Link, MayBind(l)' PROVE MayBind(l)
      <4>1. Holds(l)' /\ l[2] \in plugged /\ \A n \in Name : iface'[n] # l[2]
        BY <2>1, <3>4 DEF MayBind
      <4>2. l # k /\ Holds(l)
        BY <2>1, <4>1 DEF Holds
      <4>3. l[2] # k[2]
        BY <2>3, <4>2
      <4> QED  BY <3>1, <4>1, <4>2, <4>3 DEF MayBind
    <3> QED  BY <3>1, <3>2, <3>3, <3>4
  <2> QED  BY <1>2, <2>2, <2>3 DEF Dies
<1>3. ASSUME NEW d \in Device, Unplug(d) PROVE KernelMoves
  <2>1. plugged' = plugged \ {d} /\ proc' = proc /\ Gone(d)
    BY <1>3 DEF Unplug
  <2>2. \A n \in Name :
           /\ iface[n] # d => iface'[n] = iface[n] /\ address'[n] = address[n]
           /\ iface[n] = d => iface'[n] = none /\ address'[n] = {}
    BY <2>1, GoneMeans
  <2>3. Addresses' /\ \A n \in Name : OneInterface(n)
    BY <2>2 DEF Addresses, OneInterface
  <2>4. ASSUME NEW l \in Link, Attached(l)' PROVE Attached(l) /\ l[2] # d
    BY <2>1, <2>4 DEF Attached
  <2>5. ASSUME NEW l \in Link, MayBind(l)' PROVE MayBind(l)
    <3>1. Holds(l) /\ l[2] \in plugged \ {d} /\ \A n \in Name : iface'[n] # l[2]
      BY <2>1, <2>5 DEF MayBind, Holds
    <3> QED  BY <2>2, <3>1 DEF MayBind
  <2> QED  BY <2>2, <2>3, <2>4, <2>5
<1>4. ASSUME NEW n \in Name, Foreign(n) PROVE KernelMoves
  <2>1. /\ iface[n] = none /\ iface' = [iface EXCEPT ![n] = "foreign"]
        /\ UNCHANGED <<address, proc, plugged>> /\ cur \notin alone'
    BY <1>4 DEF Foreign
  <2>2. \A m \in Name \ {n} : iface'[m] = iface[m]
    BY <1>0, <2>1
  <2>3. Addresses'
    BY <1>0, <2>1, <2>2 DEF Addresses, none
  <2>4. ASSUME NEW l \in Link, Attached(l)'
        PROVE  /\ Attached(l)
               /\ \A m \in Name :
                     iface[m] = l[2] => iface'[m] = l[2] /\ address'[m] = address[m]
    BY <2>1, <2>2, <2>4, DeviceOf DEF Attached
  <2> QED  BY <2>1, <2>3, <2>4
<1>5. CASE UNCHANGED vars
  <2>1. UNCHANGED <<iface, address, proc, plugged>>
    BY <1>5 DEF vars, kernelVars
  <2>2. Addresses' /\ \A n \in Name : OneInterface(n)
    BY <2>1 DEF Addresses, OneInterface
  <2>3. ASSUME NEW l \in Link
        PROVE  (Attached(l)' => Attached(l)) /\ (MayBind(l)' => MayBind(l))
    BY <2>1 DEF Attached, MayBind, Holds
  <2> QED  BY <2>1, <2>2, <2>3
<1> QED  BY <1>1, <1>2, <1>3, <1>4, <1>5 DEF Moves

LEMMA AddressesStep ==
  ASSUME BusInv, AloneInv, [Next]_vars
  PROVE  Addresses'
<1> USE DEF Addresses, AloneInv
<1>0. TypeOK
  BY DEF BusInv
<1>1. CASE Moves
  BY <1>0, <1>1, MovesOfKernel DEF KernelMoves
<1>2. CASE Finish
  <2>1. /\ link_name[cur] \in Interfaces /\ iface' = iface
        /\ address' = [address EXCEPT ![link_name[cur]] = @ \cup {next_eid}]
    BY <1>2 DEF Finish
  <2> QED  BY <1>0, <2>1 DEF TypeOK, Interfaces
<1>3. CASE \/ NextLink \/ Fails \/ List \/ Popen \/ Claim \/ Up
           \/ StartService \/ Discover \/ CloseLink \/ CloseRaises \/ CloseEnds
           \/ \E c \in Controller : New(c) \/ Close(c)
  BY <1>3
  DEF NextLink, Fails, List, Popen, Claim, Up, StartService, Discover, CloseLink,
      CloseRaises, CloseEnds, New, Close, kernelVars
<1> QED  BY <1>0, <1>1, <1>2, <1>3, StepsOrMoves

LEMMA AloneToComeStep ==
  ASSUME BusInv, AloneInv, [Next]_vars
  PROVE  AloneToCome'
<1> USE DEF AloneToCome, AloneInv, Making, AtLink, BusInv
<1>0. /\ \A l \in Link : l[1] \in Controller
      /\ outcome \in [Controller -> {"new", "making", "live", "failed", "closed",
                                     "undone", "stuck"}]
      /\ alone \subseteq Link
  BY ListTypes DEF TypeOK
<1>1. CASE NextLink
  <2>1. \A d, e : <<me, d>> = <<me, e>> => d = e
    OBVIOUS
  <2> QED  BY <1>1, <2>1 DEF NextLink
<1>2. CASE Fails
  <2>1. /\ me \in Controller /\ outcome' = [outcome EXCEPT ![me] = "failed"]
        /\ pc' = "idle" /\ alone' = alone
    BY <1>2 DEF Fails, Raises, Returns, Thread
  <2> QED  BY <1>0, <2>1
<1>3. CASE List
  <2>1. /\ cur \in Link /\ cur[1] = me /\ cur[2] \notin files /\ outcome[me] = "making"
        /\ pc = "link"
    BY <1>3 DEF List, Thread
  <2>2. /\ alone' \subseteq alone \cup {cur} /\ pc' = "popen"
        /\ UNCHANGED <<files, me, outcome>>
    BY <1>3 DEF List
  <2>3. \A d \in files : <<me, d>> # cur
    BY <2>1
  <2> QED  BY <2>1, <2>2, <2>3
<1>4. CASE Popen \/ Claim \/ Up
  BY <1>4 DEF Popen, Claim, Up, localVars
<1>5. CASE Finish \/ StartService
  BY <1>5 DEF Finish, StartService, localVars
<1>6. CASE Discover
  <2>1. /\ me \in Controller /\ alone' = alone /\ pc' \in {"idle", "discover", "close"}
        /\ \A c \in Controller : outcome[c] # "new" => outcome'[c] # "new"
        /\ pc' = "discover" => UNCHANGED <<files, me>>
    BY <1>0, <1>6 DEF Discover, Returns, Thread
  <2> QED  BY <1>0, <1>6, <2>1 DEF Discover
<1>7. CASE CloseLink \/ CloseRaises \/ CloseEnds
  <2>1. /\ alone' = alone /\ pc' \in {"idle", "close"}
        /\ \A c \in Controller : outcome[c] # "new" => outcome'[c] # "new"
    BY <1>0, <1>7 DEF CloseLink, CloseRaises, CloseEnds, Returns
  <2> QED  BY <1>0, <2>1
<1>8. ASSUME NEW c \in Controller, New(c) PROVE AloneToCome'
  <2>1. /\ alone' = alone /\ outcome[c] = "new"
        /\ \A b \in Controller : outcome[b] # "new" => outcome'[b] # "new"
        /\ \/ pc' = "idle"
           \/ pc' = "loop" /\ me' = c
    BY <1>0, <1>8 DEF New
  <2>2. \A d \in Device : <<c, d>> \notin alone
    BY <2>1
  <2>3. \A d : <<c, d>> \in alone => d \in Device
    BY <1>0 DEF Link
  <2> QED  BY <1>0, <2>1, <2>2, <2>3
<1>9. ASSUME NEW c \in Controller, Close(c) PROVE AloneToCome'
  BY <1>9 DEF Close
<1>10. CASE Moves
  BY <1>10, MovesKeep
<1> QED
  BY <1>1, <1>2, <1>3, <1>4, <1>5, <1>6, <1>7, <1>8, <1>9, <1>10, StepsOrMoves

LEMMA QuietStep ==
  ASSUME BusInv, AloneInv, [Next]_vars
  PROVE  Quiet'
<1> USE DEF AloneInv, BusInv
<1>0. /\ link_name \in [Link -> Name \cup {noName}]
      /\ pc \in {"popen", "wait", "up", "address"} => cur \in Link
      /\ Interfaces \subseteq Name
  BY DEF TypeOK, Thread, AtLink, Interfaces
<1>1. CASE List
  <2>1. /\ cur' = cur /\ initial' = Interfaces /\ pc = "link" /\ pc' = "popen"
        /\ alone' = IF \E l \in Link : MayBind(l) THEN alone ELSE alone \cup {cur}
    BY <1>1 DEF List
  <2>2. cur \notin alone
    BY <2>1 DEF AloneToCome
  <2>3. Calm
    BY <1>1, CalmSteps
  <2> QED  BY <2>1, <2>2, <2>3, CalmMeans DEF Quiet
<1>2. CASE Popen
  <2>1. /\ pc = "popen" /\ pc' = "wait"
        /\ UNCHANGED <<cur, initial, alone, iface, plugged>>
        /\ proc' = [Reaped EXCEPT ![cur] = "running"]
    BY <1>2 DEF Popen, localVars, kernelVars
  <2>2. ASSUME cur \in alone, NEW l \in Link, MayBind(l)'
        PROVE  l = cur
    <3>1. \A k \in Link \ {cur} : Holds(k)' => Holds(k)
      BY <2>1, ReapedProc DEF Holds
    <3>2. ~ MayBind(l)
      BY <2>1, <2>2 DEF Quiet
    <3> QED  BY <2>1, <2>2, <3>1, <3>2 DEF MayBind
  <2>3. cur \in alone => Interfaces' \subseteq initial
    BY <2>1 DEF Quiet, Interfaces
  <2> QED  BY <2>1, <2>2, <2>3 DEF Quiet
<1>3. CASE Claim
  <2>1. /\ pc = "wait" /\ pc' = "up" /\ UNCHANGED <<cur, alone, iface, address>>
        /\ \E n \in Interfaces \ initial : link_name' = [link_name EXCEPT ![cur] = n]
    BY <1>3 DEF Claim, NewInterfaces, localVars, kernelVars
  <2> QED  BY <1>0, <2>1 DEF Quiet
<1>4. CASE Up
  <2>1. /\ pc = "up" /\ pc' = "address"
        /\ UNCHANGED <<cur, alone, iface, address, link_name>>
    BY <1>4 DEF Up, localVars, kernelVars, linkVars
  <2>2. Attached(cur)' => Attached(cur)
    BY <1>0, <1>4, <2>1, CalmSteps, CalmMeans DEF Attached
  <2> QED  BY <2>1, <2>2 DEF Quiet
<1>5. CASE Moves
  <2>1. /\ UNCHANGED <<pc, cur, initial, link_name>> /\ alone' \subseteq alone
    BY <1>5, MovesKeep
  <2>2. KernelMoves
    BY <1>5, MovesOfKernel
  <2>3. CASE cur \notin alone'
    BY <2>1, <2>3 DEF Quiet
  <2>4. CASE /\ cur \in alone'
             /\ \A l \in Link : MayBind(l)' => MayBind(l)
             /\ \A n \in Name : OneInterface(n)
    <3>1. CASE pc = "popen"
      <4>1. \A l \in Link : ~ MayBind(l)' /\ ~ MayBind(l)
        BY <2>1, <2>4, <3>1 DEF Quiet
      <4>2. \A n \in Name : iface'[n] \in {iface[n], none}
        BY <2>4, <4>1 DEF OneInterface
      <4>3. Interfaces' \subseteq Interfaces
        BY <4>2 DEF Interfaces
      <4> QED  BY <2>1, <2>4, <3>1, <4>1, <4>3 DEF Quiet
    <3>2. CASE pc = "wait"
      <4>1. \A l \in Link : MayBind(l) => l[2] = cur[2]
        BY <2>1, <2>4, <3>2 DEF Quiet
      <4>2. ASSUME NEW n \in Name, iface'[n] # none, n \notin initial
            PROVE  iface'[n] = cur[2] /\ address'[n] = {}
        <5>1. n \in Interfaces => iface[n] = cur[2] /\ address[n] = {}
          BY <2>1, <2>4, <3>2, <4>2 DEF Quiet
        <5> QED  BY <2>4, <4>1, <4>2, <5>1 DEF OneInterface, Interfaces
      <4> QED  BY <2>1, <2>4, <3>2, <4>1, <4>2 DEF Quiet, Interfaces
    <3>3. CASE pc \in {"up", "address"}
      <4>1. Attached(cur)' => Attached(cur)
        BY <1>0, <2>1, <2>2, <3>3 DEF KernelMoves, Attached
      <4>2. Attached(cur)' => \A n \in Name :
               iface[n] = cur[2] => iface'[n] = cur[2] /\ address'[n] = address[n]
        BY <1>0, <2>1, <2>2, <3>3 DEF KernelMoves, Attached
      <4> QED  BY <2>1, <2>4, <3>3, <4>1, <4>2 DEF Quiet, Attached
    <3> QED  BY <2>1, <3>1, <3>2, <3>3 DEF Quiet
  <2> QED  BY <2>2, <2>3, <2>4 DEF KernelMoves
<1>6. CASE NextLink \/ Fails \/ Finish \/ StartService \/ Discover
           \/ CloseLink \/ CloseRaises \/ CloseEnds
           \/ \E c \in Controller : New(c) \/ Close(c)
  <2>1. pc' \notin {"popen", "wait", "up", "address"}
    BY <1>6
    DEF NextLink, Fails, Raises, Finish, StartService, Discover, Returns, CloseLink,
        CloseRaises, CloseEnds, New, Close
  <2> QED  BY <2>1 DEF Quiet
<1> QED  BY <1>1, <1>2, <1>3, <1>4, <1>5, <1>6, StepsOrMoves

LEMMA OwnedStep ==
  ASSUME BusInv, AloneInv, [Next]_vars
  PROVE  Owned'
<1> USE DEF AloneInv, BusInv
<1>0. /\ link_name \in [Link -> Name \cup {noName}]
      /\ eid \in [Link -> EID \cup {none}]
      /\ address \in [Name -> SUBSET EID]
      /\ assigned_links \subseteq Link /\ noLink \notin Link
      /\ Interfaces = {n \in Name : iface[n] # none}
  BY DEF TypeOK, Interfaces, noLink, Link, Controller
<1>1. AtLink => cur \in Link /\ cur \notin assigned_links
  BY DEF Thread, LinksToCome
<1>2. CASE NextLink \/ StartService \/ Discover \/ CloseRaises \/ CloseEnds
           \/ \E c \in Controller : New(c) \/ Close(c)
  <2>1. /\ UNCHANGED <<assigned_links, alone, link_name, eid, address>>
        /\ pc' \notin {"popen", "wait", "up", "address"}
    BY <1>2
    DEF NextLink, StartService, Discover, Returns, CloseRaises, CloseEnds, New, Close,
        linkVars, kernelVars
  <2>2. Calm
    BY <1>2, CalmSteps
  <2> QED  BY <1>0, <2>1, <2>2, CalmMeans DEF Owned, Calm
<1>3. CASE Fails
  <2>1. /\ UNCHANGED <<assigned_links, alone, eid, address>> /\ pc' = "idle"
        /\ \A l \in Link \ {cur} : link_name'[l] = link_name[l]
    BY <1>0, <1>3 DEF Fails, Raises, Returns, kernelVars
  <2>2. cur \notin assigned_links
    BY <1>0, <1>1 DEF Thread
  <2>3. Calm
    BY <1>3, CalmSteps
  <2> QED  BY <1>0, <2>1, <2>2, <2>3, CalmMeans DEF Owned, Calm
<1>4. CASE List
  <2>1. /\ UNCHANGED <<assigned_links, link_name, eid, address>>
        /\ initial' = Interfaces /\ alone' \subseteq alone \cup {cur}
        /\ pc = "link" /\ pc' = "popen"
    BY <1>4 DEF List, linkVars, kernelVars
  <2>2. cur \notin assigned_links
    BY <1>1, <2>1 DEF AtLink
  <2>3. Calm
    BY <1>4, CalmSteps
  <2> QED  BY <1>0, <2>1, <2>2, <2>3, CalmMeans, DeviceOf DEF Owned, Calm
<1>5. CASE Popen
  <2>1. /\ UNCHANGED <<assigned_links, alone, link_name, eid, address, iface, plugged,
                       initial>>
        /\ pc = "popen" /\ pc' = "wait" /\ proc' = [Reaped EXCEPT ![cur] = "running"]
    BY <1>5 DEF Popen, localVars, kernelVars
  <2>2. \A l \in assigned_links : Attached(l)' => Attached(l)
    <3>1. \A l \in Link \ {cur} : proc'[l] = "running" => proc[l] = "running"
      BY <2>1, ReapedProc
    <3> QED  BY <1>0, <1>1, <2>1, <3>1 DEF Attached, AtLink
  <2> QED  BY <2>1, <2>2 DEF Owned
<1>6. CASE Claim
  <2>1. /\ UNCHANGED <<assigned_links, alone, eid, address, cur>>
        /\ pc = "wait" /\ pc' = "up"
        /\ \E n \in Interfaces \ initial : link_name' = [link_name EXCEPT ![cur] = n]
    BY <1>6 DEF Claim, NewInterfaces, localVars, kernelVars
  <2>2. /\ \A l \in assigned_links : link_name'[l] = link_name[l]
        /\ link_name'[cur] \notin initial
    BY <1>0, <1>1, <2>1 DEF AtLink
  <2>3. Calm
    BY <1>6, CalmSteps
  <2> QED  BY <1>0, <2>1, <2>2, <2>3, CalmMeans DEF Owned, Calm
<1>7. CASE Up
  <2>1. /\ UNCHANGED <<assigned_links, alone, eid, address, cur, link_name>>
        /\ pc = "up" /\ pc' = "address"
    BY <1>7 DEF Up, localVars, kernelVars, linkVars
  <2>2. Calm
    BY <1>7, CalmSteps
  <2> QED  BY <1>0, <2>1, <2>2, CalmMeans DEF Owned, Calm
<1>8. CASE Finish
  <2>1. /\ address' = [address EXCEPT ![link_name[cur]] = @ \cup {next_eid}]
        /\ assigned_links' = assigned_links \cup {cur}
        /\ eid' = [eid EXCEPT ![cur] = next_eid]
        /\ UNCHANGED <<alone, link_name>>
        /\ pc = "address" /\ pc' = "loop" /\ link_name[cur] \in Name
    BY <1>0, <1>8 DEF Finish
  <2>2. cur \in Link /\ cur \notin assigned_links
    BY <1>1, <2>1 DEF AtLink
  <2>3. Calm
    BY <1>8, CalmSteps
  <2>4. ASSUME NEW l \in Link, l = cur, l \in alone, Attached(l)'
        PROVE  /\ iface'[link_name[l]] = l[2]
               /\ address'[link_name[l]] = {eid'[l]}
    <3>1. Attached(l)
      BY <2>3, <2>4, CalmMeans
    <3>2. iface[link_name[l]] = l[2] /\ address[link_name[l]] = {}
      BY <2>1, <2>4, <3>1 DEF Quiet
    <3> QED  BY <1>0, <2>1, <2>3, <2>4, <3>2 DEF Calm
  <2>5. ASSUME NEW l \in assigned_links \cap alone, Attached(l)'
        PROVE  /\ link_name[l] \in Name
               /\ iface'[link_name[l]] = l[2]
               /\ address'[link_name[l]] = {eid'[l]}
    <3>1. l # cur /\ l \in Link /\ Attached(l)
      BY <1>0, <2>2, <2>3, <2>5, CalmMeans
    <3>2. /\ link_name[l] \in Name /\ link_name[cur] # link_name[l]
          /\ iface[link_name[l]] = l[2] /\ address[link_name[l]] = {eid[l]}
      BY <2>1, <3>1 DEF Owned
    <3> QED  BY <1>0, <2>1, <2>2, <2>3, <3>1, <3>2 DEF Calm
  <2> QED  BY <2>1, <2>2, <2>4, <2>5 DEF Owned
<1>9. CASE CloseLink
  <2> DEFINE h == Head(closing)
  <2>1. /\ assigned_links' = assigned_links \ {h}
        /\ eid' = [eid EXCEPT ![h] = none]
        /\ link_name' = [link_name EXCEPT ![h] = noName]
        /\ UNCHANGED <<alone, address>> /\ pc' = "close"
    BY <1>9 DEF CloseLink, kernelVars
  <2> HIDE DEF h
  <2>2. \A l \in assigned_links' : /\ l \in assigned_links
                                   /\ eid'[l] = eid[l] /\ link_name'[l] = link_name[l]
    BY <1>0, <2>1
  <2>3. Calm
    BY <1>9, CalmSteps
  <2> QED  BY <1>0, <2>1, <2>2, <2>3, CalmMeans DEF Owned, Calm
<1>10. CASE Moves
  <2>1. /\ UNCHANGED <<assigned_links, eid, link_name, pc, cur, initial>>
        /\ alone' \subseteq alone
    BY <1>10, MovesKeep
  <2>2. KernelMoves
    BY <1>10, MovesOfKernel
  <2>3. \A l \in assigned_links : Attached(l)' =>
           /\ Attached(l)
           /\ \A n \in Name :
                 iface[n] = l[2] => iface'[n] = l[2] /\ address'[n] = address[n]
    BY <1>0, <2>2 DEF KernelMoves
  <2> QED  BY <2>1, <2>3 DEF Owned
<1> QED
  BY <1>2, <1>3, <1>4, <1>5, <1>6, <1>7, <1>8, <1>9, <1>10, StepsOrMoves

-----------------------------------------------------------------------------
(***************************************************************************)
(* The theorems.                                                           *)
(***************************************************************************)

\* The invariant holds in every state, for any devices, EIDs and ranges, any
\* number of controllers, names and accidents.
THEOREM BusInvariant == Spec => []BusInv
<1>1. Init => BusInv
  BY InitialInv
<1>2. BusInv /\ [Next]_vars => BusInv'
  BY TypeStep, ThreadStep, LinksToComeStep, EidsStep, ListsStep, ProcessesStep,
     StuckStep, SingletonStep
  DEF BusInv
<1> QED  BY <1>1, <1>2, PTL DEF Spec

\* The variables of the two classes keep their types.
THEOREM BusTypeCorrect == Spec => []TypeOK
<1>1. BusInv => TypeOK
  BY DEF BusInv
<1> QED  BY <1>1, BusInvariant, PTL

\* The two static lists of MctpSerialLink agree, and no two links have one
\* EID: _assign_eid never gives out what a link still has, however often a
\* constructor raises or close() is left half-way.
THEOREM EidsBelongToOne == Spec => []EidsAreUnique
<1>1. BusInv => EidsAreUnique
  BY DEF BusInv, Eids
<1> QED  BY <1>1, BusInvariant, PTL

\* As long as close() is not called a second time for a controller,
\* _instance is the one that is live, and its mctpd runs.
THEOREM ControllerIsOne == Spec => []OneController
<1>1. BusInv => OneController
  BY DEF BusInv, Singleton
<1> QED  BY <1>1, BusInvariant, PTL

\* A process that was not told to end has an owner who knows its pid, and
\* close() gives up every link of its controller, unless it was stopped by a
\* process that had died.
THEOREM LeavesNothing == Spec => []NothingIsLeft
<1>1. BusInv => NothingIsLeft
  BY DEF BusInv, Processes, Lists, Stuck, NothingIsLeft
<1> QED  BY <1>1, BusInvariant, PTL

\* A link made while no other interface came or went has the interface of its
\* own device, with its EID and no other, as long as its process runs and its
\* device is there: whatever other links, controllers and programs do later.
THEOREM AloneKeepsItsInterface == Spec => []AloneHasItsInterface
<1>1. Init => AloneInv
  BY DEF Init, AloneInv, Addresses, AloneToCome, Quiet, Owned, Making, AtLink
<1>2. BusInv /\ AloneInv /\ [Next]_vars => AloneInv'
  BY AddressesStep, AloneToComeStep, QuietStep, OwnedStep DEF AloneInv
<1>3. BusInv /\ AloneInv => AloneHasItsInterface
  <2>1. ASSUME BusInv PROVE assigned_links \subseteq Link
    BY <2>1 DEF BusInv, TypeOK
  <2> QED
    BY <2>1, DeviceOf DEF AloneInv, Owned, AloneHasItsInterface, Attached, Interfaces
<1> QED  BY <1>1, <1>2, <1>3, BusInvariant, PTL DEF Spec

=============================================================================
