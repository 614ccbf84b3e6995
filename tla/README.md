# Verification of the IoTorch MCTP bridge

This directory holds TLA+ models of the programs under `linux-mctp/`, TLC
configurations that check them on small instances, and theorems about them that
the TLA+ proof system checks for every value of the constants.
File names without a path are in `linux-mctp/mctp-bridge/src/`.

1. [The system](#1-the-system)
2. [Components, their state and what makes them correct](#2-components)
3. [What is hard](#3-what-is-hard)
4. [Modules](#4-modules)
5. [Runs](#5-runs)
6. [Fairness](#6-fairness)
7. [Theorems and how they are proved](#7-theorems)
8. [What the checks found](#8-what-the-checks-found)
9. [Abstractions](#9-abstractions)
10. [What is not modelled, and the plan](#10-plan)

## 1. The system

`mctp-bridge` connects three ports: the MCTP stack of the Linux kernel, a
serial device, and a Unix socket for broadcasts, which the kernel's stack does
not carry.

```
 kernel MCTP <-> pty A | NullModem | pty B <-> linuxSerial \
   (LinuxMctpSerial: N_MCTP line discipline)                 \
                                                        MctpBridge::run
 clients <-> /tmp/bcast_<interface> (BcastMessenger) ------  (dispatch thread)
                                                             /
 serial device <-> SerialInspector | pty <-> mctpSerial ----
```

Threads of the process: main; the dispatch thread; an rx thread in each of the
two `MctpSerial` objects; a copying thread in `NullModem` and in
`SerialInspector`. In test mode main is a client of its own broadcast socket.
`linux-mctp/server-connection/` holds two Python classes that set up kernel
links with the `mctp` tool and drive `mctpd`.

## 2. Components

| Component | State | Operations | Correct when |
|---|---|---|---|
| `MctpSerial` | receive FSM (`rxState`, `rx_in_progress`), `rxBuffer`, notification pipe, `serial_fd`, `running`, `recv_thread` | `open`, `close`, `send`, `receive`, `run` (rx thread) | the packets that come out are packets that went in, in order, once; an error on the line costs at most one; each packet has its notification; `close` returns |
| `ReceiveBuffer` | queue, mutex, condition variable | `push`, `pop`, `empty` | `pop` waits only when the reader may wait |
| `MctpBridge` dispatch | `linux_fd`, `tty_fd`, `running` | `run` | unicast packets are not lost or reordered, kernel and clients are kept apart, all ports are served, the thread stops |
| `BcastMessenger` | `listenFd`, `connFd`, `state`, `socketPath` | `setup`, `acceptConnection`, `recvMessage`, `sendMessage`, `cleanup` | one client after another is served; the socket is where its name says |
| Bridge open and close | descriptors and threads of all objects | `MctpBridge::open`, `close` and what they call | after any failure the bridge is closed, no thread outlives its descriptor, nothing is lost |
| `LinuxMctpSerial` | `fd_`, `mctp_if_name` | `initialize`, `close`, `list_mctp_devices` | the interface it names is the one it created |
| `MctpNetlink`, `configure_mctp` | none | rename, address, up, route | an interface is configured in that order or not at all |
| `NullModem`, `SerialInspector` | pty masters, `real_fd`, a copying thread | constructor, `setTty`, `bridge`, destructor | each direction is a line that only loses bytes, and a pty that stays open loses only what a closed device had sent or what a signal in a `write` costs; `setTty` replaces the device under the running thread; the destructor returns |
| main, `testBridge` | `interrupted`, the test's sockets | option parsing, open, configure, wait or talk, destructors | main and the thread that serves its socket do not wait for each other; an interrupted program ends |
| `MctpSerialLink` (Python) | `_assigned_links`, `_allocated_eids`, process, interface | constructor, `__del__`, `close` | an EID has one link; what a failed constructor took comes back |
| `MctpBusController` (Python) | `_instance`, `_serial_links`, `mctpd` | constructor, `close`, `discover_endpoints` | one controller at a time; `close` releases everything |

How they interact:

- rx thread to dispatch thread: `rxBuffer.push`, then one byte into the pipe
  (MctpSerial.cpp:405-412). The dispatch thread selects on the pipe, reads one
  byte and calls `receive()`, which looks whether the buffer is empty and pops.
- main to threads: `running` flags that each thread polls, then `join`.
- dispatch thread to client: `accept`, `recv` and `send` on one connection at a
  time; the socket is blocking, which only `recv` gets around (`MSG_DONTWAIT`).
- `MctpBridge` to its serial links: the read ends of their pipes, which it
  closes itself.
- process to process: the interface numbers of the kernel, the list of
  interfaces in `/sys/class/net`, and the socket files in `/tmp`.
- copying thread to its owner: `real_fd`, which `setTty` writes under a mutex
  that the thread does not take.
- Python to its link processes: pids, of which `os.kill` and the reaping by
  `subprocess` take different views.

## 3. What is hard

`PROJECT.json` lists the hazards, each at its line with the properties that
cover it. They are of these sorts:

- the byte stream: lost, garbled and added bytes, marks that end one frame and
  start the next, counts that wrap, FCS bytes that look like marks;
- two threads that share a queue and a pipe with room for a number of bytes,
  writes to that pipe that fail, and an owner that stops both threads;
- one thread that serves three ports and may wait in `send()` for a client;
- `open()` that fails half way, on objects that keep what an earlier `open()`
  left in them, with descriptors whose numbers are used again;
- several bridge processes that guess which interface they created, and share
  names in the kernel and in `/tmp`;
- a thread that copies between descriptors of which one is closed, replaced or
  not yet there, and of which one end blocks and the other does not;
- two threads of one process at both ends of one connection;
- in Python, links and processes that outlive a constructor that failed or a
  `close` that was left half-way.

## 4. Modules

| Module | Models | State and actions in the code |
|---|---|---|
| `FrameChannel` | what a serial link promises: a channel that may lose packets and does nothing else to them | abstract; no code of its own |
| `PacketPort` | what the receiving end of a link is to the thread that reads it: packets arrive with their notification, `select` reports one, the oldest is taken | abstract; no code of its own |
| `MctpSerial` | one direction of a link, byte by byte, with sender, line, rx thread, reader and owner | `send` is `Send` and one `WriteByte` for each `::write`; `run` is `Poll`, `SelectTimeout`, `SelectError` and the cases of `updateRxFSM` (`WaitForSync`, `BodyEscape`, `BodyAccept`, `BodyResync`, `BodyByte`, `EscapeByte`, `EscapeResync`); the write to the pipe is a step of its own (`Notify`, `NotifyFails`), because the reader may run between push and write; `receive` is `TakeNotification`, `Receive`, `Pop` |
| `MctpBridge` | the dispatch thread with its three ports, clients and owner | `run` is `LoopTop` (with `acceptConnection`), `Select`, then per port `DropClient` or `FromBcast`, `FromLinux`, `TtyToLinux` or `TtyToBcast`, `SendMessage`; the two links are taken at the level of `FrameChannel` and `PacketPort` |
| `BridgeLifecycle` | `open` and `close` with a table of file descriptors | one action per call of `open()` (`OpenLinuxSerial`, `Initialize`, `SetupBcast`, `SetTty`, `OpenMctpSerial`, `Start`), each with its failure; `Close` is `MctpBridge::close`; the dispatch thread accepts and drops clients meanwhile |
| `InterfaceClaim` | bridge processes on one machine: interface, name, socket file, configuration | `initialize` is `List`, `Bind`, `Claim`, `LookAgain`, `TimesOut`; a netlink request is `Resolve` (or `NotFound`) and `Apply`, `Refused`, `RequestFails` or `Unacknowledged`, because other processes run between the two; `setup` and `cleanup` are `Setup` and `Cleanup`; `Dies` is an exception nobody catches, or a kill |
| `PtyPump` | the copying threads of `NullModem` and `SerialInspector` in one module, told apart by `class` | `bridge` is `Top`, `Select` (or `SelectFails`), then `Read` and `Write` of one direction and of the other; a `Write` that waits for room is a step for each piece, and a signal may end it after any of them (`WriteInterrupted`); `setTty` is `SetTty`, `ClearFd`, `OpenTty`, `Configure`, between any two of which the thread may run; `Destroy` and `Join` are the destructors |
| `TestMode` | `testBridge` as the client of its own dispatch thread | `Loop`, `Send`, `SelectMain`, `Recv`, `RecvBcast`, `CloseSockets`, `Return` are the lines of its loop; of `MctpBridge` what this one connection sees is left |
| `BusController` | `MctpSerialLink` and `MctpBusController`, with the processes they start and the kernel's interfaces | the constructor of a link is `List`, `Popen`, `Claim`, `Up`, `Finish`, with `Unlinkable`, `Timeout` and `CommandFails`; that of the controller `New`, `NextLink`, `StartService`, `Discover`; `close` is `Close`, `CloseLink`, `CloseEnds`, with `CloseRaises` |
| `Fcs` | `calcFcs` and `fcstab`, against the checksum taken bit by bit | a round of the loop is `CheckByte`; the line may change bits (`GarbledByte`, `GarbledFcs`) |
| `MctpSerial_proofs`, `MctpSerialChannel_proofs`, `MctpBridge_proofs`, `BridgeLifecycle_proofs`, `InterfaceClaim_proofs`, `PtyPump_proofs`, `TestMode_proofs`, `BusController_proofs` | theorems (section 7) | |
| `MCMctpSerial`, `MCLine`, `MCMctpBridge`, `MCBridgeLifecycle`, `MCInterfaceClaim`, `MCPtyPump`, `MCBusController` | instances for TLC | |

`MctpBridge` rests on `MctpSerial` through two abstract modules that meet between
them. `FrameChannel` is what the far end of a link sees: packets come in order,
each at most once. `PacketPort` is what the dispatch thread sees: where `MctpSerial`
has a buffer, a pipe, and an rx thread that fills the one before the other,
`MctpBridge` has a queue. From below, `MctpSerial` implements the port
(`ImplementsPort`): a packet has arrived once its notification is written, and is
taken in two steps of which only the second shows. From above, the dispatch
thread uses each link as a port and in no other way (`UsesPorts`).
`BridgeLifecycle` sees what `MctpBridge` takes for granted at its start, that
`open()` has set everything up. `PtyPump` shows that what stands between a
`MctpSerial` and the device is the line `MctpSerial` is modelled with: it
implements `FrameChannel`, with bytes for packets, in both directions. `MCLine`
puts `Fcs` beside `MctpSerial`: the two share no variable, and each stays where
it begins while the other moves. The `map` of `PROJECT.json` gives the lines of
the code each definition stands for. Definitions that follow a comment
"Mutant of ..." are used by no specification: they are the faulty variants each
property is tested against.

## 5. Runs

| Run | Instance | Question |
|---|---|---|
| `serial_line` | three packets, two line errors, no failing calls, one `open`; and for the checksum every byte, each bit of the register, one or two changed bits in up to 257 bytes | what do line errors cost, is the link a `FrameChannel`, is the table of the FCS right, and which errors does it show? |
| `serial_threads` | two packets, a pipe with room for one byte, one line error, one failing call, two `open`s | do notifications and packets stay in step, is the link a `PacketPort`, is what was accepted delivered, does `close` return? |
| `bridge_ports` | two clients, backlog and socket queues of one, one packet of the kernel, two of the device, one of each client, one failing call | what does each port carry, in which order, who sees it, is what run() reads there, and does the thread use each link as a `PacketPort`? |
| `bridge_live` | two packets of the kernel; two clients and the device that send without end, with one packet at most waiting at each (`MaxWaiting`), and read what they get | is everybody served, does `close` return? |
| `bridge_stalled` | one packet of the kernel, two of the device, clients that need not read, no traffic without end | finding 1 |
| `lifecycle` | four `open`s, three failing steps, two clients, 23 descriptors, seven values `real_fd` may be left with | threads and descriptors after any sequence of opens, failures and closes |
| `lifecycle_reopen` | no failing step | finding 2 |
| `interface_claim` | two processes, three starts, one failing call or death, with and without a name and addresses | who gets which interface and socket, and how is it configured? |
| `pty_pump` | both classes, a tty with room for one byte, a buffer of two, two bytes each way, three openings of slaves and devices, two descriptor numbers, signals in `select` and in `write` | what does copying do to bytes, is a thread or the destructor stuck? |
| `pump_uninit` | `SerialInspector` only, no signals | finding 3 |
| `bus_links` | two controllers, two devices, two EIDs, three interface names, two accidents | who has which EID and interface, what is left behind? |
| `test_mode` | queues of three datagrams, nothing else bounded | do the two ends wait for each other, does an interrupted test end? |

The properties, and the step in the code that each would catch going wrong:

- `BoundedLoss` (in `serial_line`): once the line is quiet, at most as many packets
  are missing as bytes were lost, garbled or added. It rests on `BodyResync`: a frame that is
  not valid ends with a mark that may be the start of the next frame.
- `ImplementsChannel`: `MctpSerial` implements `FrameChannel`.
- `FcsIsCrc`, `TwoBitsAreSeen`: the table of the FCS is that of the CRC it stands
  for, and with it one or two changed bits in a frame never pass `validateRx`.
- `NotificationsMatchPackets`: bytes in the pipe, the one the rx thread is about
  to write and the one in the reader's hands are as many as the packets in
  `rxBuffer`, except for failed writes. It is why `receive()` is never empty and
  `pop()` never waits.
- `ImplementsPort`: `MctpSerial` implements `PacketPort`. What the reader can know
  of are as many packets from the front of `rxBuffer` as there are notifications
  written and not used up (`Visible`); that is a queue in which packets appear
  one by one and from which one is taken for each notification read, also after
  a notification was lost: the next one then stands for the packet left behind.
- `AcceptedIsDelivered`, `CloseReturns` (serial): liveness; the second names the
  one case where `close` does not return, a full pipe that nobody reads.
- `PortsKeepOrder`, `UnicastIsLossless`, `Separation`: what the dispatch thread
  may do with packets, whatever clients do and whichever call fails.
- `UsesPorts`: in one iteration the thread takes one packet, the oldest, of each
  link that `select()` has reported, and nothing otherwise, although clients send,
  close and reset in between and `linux_fd` and `tty_fd` are served after the
  client.
- `ReadyIsThere`: what the thread is about to read is there, and a broadcast is sent
  only while a client is connected, whatever happened since `select()`. A `read` on
  a pipe with nothing in it would stop all three ports. It is also why the branch
  of `recvMessage` for EAGAIN is no action.
- `KernelPacketsFlow`, `NextClientIsServed`, `CloseReturns` (bridge): liveness of
  one thread that serves three ports, while a client and the device have always
  something more to send (`WithoutEnd`). A loop that serves the kernel when the
  others are idle would pass with any bounded traffic, and fails here.
- `RxThreadHasItsLink`, `NoThreadIsOverwritten`, `ClosedMeansDown`,
  `OnlySocketsAreLost`: an rx thread never reads a number that was used again
  (with the exceptions named in findings 2 and 3);
  no joinable `std::thread` is assigned to; `close` closes whatever was open;
  the descriptors that leak are exactly the sockets of earlier opens.
- `InspectorClosesItsDevice`: no `setTty` closes anything but the device, also after
  one that failed and threw, and the first one nothing but the number `real_fd`
  was left with; the claim ends where one of the faults of findings 2 and 3
  has given the device a number that another object takes for its own.
- `AloneClaimsItsOwn`, `AloneStaysReachable`, `StartSucceeds`: a bridge that took
  its names while no other bridge was starting or stopping has its own interface
  and its own socket file, keeps both whatever the others do later, and does
  come to run.
- `ConfiguredInOrder`: whichever request fails or goes unacknowledged, there is
  no route on an interface that is down and none is up without an address, and
  no bridge configures another's interface unless it has claimed it.
- `PtyIsLossless`: on the way to a pty whose slave stays open no byte is lost but
  those a closed device had sent and the thread had not read (`unread`), and less
  than one buffer for each `write` that a signal cut short (`cut`). It rests on
  the masters being blocking: a `write` that does not fit waits, and nobody looks
  at what `write` returns, which is also why the rest of an interrupted one is
  gone. The way to a pty is judged although the device at the other side is
  replaced.
- `ImplementsLine`: in both directions bytes may be lost and are never repeated,
  invented or reordered, through any number of `setTty` calls under the thread,
  also when the new device gets the old number.
- `BytesFlow`: what a far end has written is read, even if the device does not
  read what is sent to it. A blocking device would stop both directions.
- `DestructorReturns`: the thread that the destructor joins may be waiting for
  room in a pty; that the bridge has been closed by then frees it.
- `EidsAreUnique`, `NothingIsLeft`, `OneController`, `AloneHasItsInterface`: the
  two static lists agree and no EID has two links; every process that was not told
  to end belongs to a link that is known; a closed controller has no links; a
  live controller is the singleton and has its service, until the user closes a
  controller twice; a link made undisturbed has its own interface and address.
- `NoMutualWait`, `InterruptedReturns`: main and its dispatch thread never both
  wait in `send()`, because main reads as often as it sends and the dispatch
  thread empties its end in each round before it may wait; an interrupted test
  ends unless another client holds the connection.

Bounds, and why they are enough:

- Packets: the shortest one, one that is special bytes only, one whose bytes
  look escaped, and one whose length wraps the count byte; every case of the
  sender and of the FSM happens with them. `CountMod` 3 (256 in the code) makes
  the wrap happen with four bytes, `MinFrame` 7 (11) lets a packet of one byte
  through, `MaxRx` 10 (550) is the length of the longest frame, so that two
  frames run together without a mark exceed it.
- The checksum's part of `serial_line` is exhaustive: both checksums are linear,
  so that single bits of the register stand for all its values, and an error at
  the beginning followed by zeros for that error anywhere in any frame.
- Two line errors can strike the two marks of one frame, a mark and the byte
  after it, or two frames; the theorem covers any number of them.
- A pipe of one byte makes the rx thread wait in `write`; a socket queue of one
  makes `send()` wait and a backlog of one makes `connect` wait.
- Traffic without end (`Chatter`) has no history, as there would be no end to it:
  it carries the number 0, and all that matters to the liveness properties is
  that it waits. One packet of it at each port (`MaxWaiting`, `SockCap`) keeps a
  port always ready; more would only wait behind it.
- Two clients are one that is connected and one that waits; a third would only
  wait behind the second. `Symmetry` is used in `bridge_ports` only, which has
  no liveness property, and the clients are not told apart by any definition.
- Four opens are one after a clean close, one after each of two failed ones, and
  one more; 22 as the highest descriptor is enough by `TypeOK`, which fails if the
  table overflows, and is what `DescriptorsSuffice` asks for.
- The values of `real_fd` in `lifecycle` are -1, a descriptor nobody uses, the
  standard input, and the numbers that `linuxSerial`'s pipe and link, the kernel's
  pty and the socket get in a first `open`: each kind of stranger, and none.
- Two processes make every interference of a starting with a starting, running
  or stopping one; three starts let one of them come back. `Retries` 2 (50)
  makes both outcomes of each wait happen.
- A tty of one byte and a buffer of two make both a partial and a waiting write
  happen; two descriptor numbers let a device come back under the old and under
  another one; three openings are one of each pty and a device, or a device that
  is replaced and one that fails. The theorems cover all sizes.
- Two controllers are one and its successor, two devices a link and the one that
  fails after it, and three interface names leave one for a stranger. One range
  is smaller than the number of devices. The symmetries of `bus_links` exchange
  devices and EIDs, which no definition tells apart.
- `test_mode` has counters only where the sockets' queues bound them.

Deadlock is not checked: all bounds on what users and devices do are used up at
some time, and every model may then stop. `MctpSerial` also stops when `close`
waits for an rx thread that waits for room in the pipe, which `CloseReturns`
names.

## 6. Fairness

- `MctpSerial`: weak fairness on the rx thread's steps, on the reader, on `Join`
  and on `WriteByte` (`transmitFrame` is a loop that ends). Nothing obliges
  anybody to send, open or close, or the line to lose bytes. Failing calls are
  not fair, so that `faults > 0` is an excuse a property names.
- `MctpBridge`: `BridgeSpec` has weak fairness on the dispatch thread and on
  `Join`, which the scheduler of the system gives. `FairSpec` lets clients and the
  device send without end (`WithoutEnd`), and adds that a client
  reads what it is sent; this is no property of the code, and `bridge_stalled`
  shows what happens without it.
- `InterfaceClaim`: weak fairness on every process's own steps; users start and
  stop bridges as they like.
- `PtyPump`: weak fairness on the thread, on the rest of a `setTty` that was
  begun and on `Join`; and on reading from a pty while the bridge is open, since
  at the other end is an rx thread or the kernel. Nothing is asked of the device.
- `TestMode`: weak fairness on main and on the dispatch thread, none on the
  device, on signals or on other clients.

## 7. Theorems

Of the serial link, checked by `tlapm MctpSerial_proofs.tla` and
`tlapm MctpSerialChannel_proofs.tla`, for any sets of messages, noise and
special FCS values, any number of errors, failing calls and opens, and any sizes
of buffers. Assumptions (`MessageAssumption`, `BoundAssumption`): messages are
sequences of payload bytes, noise is payload bytes, a valid frame has at least
seven bytes; for `LossIsBounded` also that the receiver's buffer holds the longest
frame whose length the count byte can tell (`SizeAssumption`, 550 bytes against
260 in the code).

- `TypeCorrect`: `Spec => []TypeOK`. The step that matters is `BodyAccept`: what
  is pushed is in `Message`. `ValidFrame` shows it from the FCS: its second byte
  is on the wire only as part of the frame of some message.
- `NotificationsCorrect`: `Spec => []NotificationsMatchPackets`. Not inductive by
  itself, since `open()` starts a thread and `Join` ends one: it needs
  `ThreadMatchesOwner`, that there is no rx thread exactly when the link is
  closed. Otherwise a second thread could start while the first had a packet in
  hand, or one that was about to notify could be forgotten.
- `PopNeverWaits`: when the reader is in `pop()`, there is a packet.
- `LinkImplementsPort`: `Spec => ImplementsPort`, from the same invariant. It says
  that there are never more notifications than packets, so that what the reader
  can know of is a prefix of `rxBuffer` (`VisibleIsPrefix`). A push leaves the prefix
  as it is, because the notification comes after it; `Notify` makes it longer by
  one (`PrefixGrows`); `Pop` takes its first (`PrefixShrinks`); and `Receive` is no step
  of the port, because it never finds the buffer empty.
- `LinkImplementsChannel`: `Spec => ImplementsChannel`. The second FCS byte of a
  frame is its mark. The invariant (`ChannelInv`) says that each mark on the wire
  or in the frame under construction is that of a packet sent, that marks stand
  in the order of the packets, those under construction before those on the
  wire, and that every packet accepted is earlier than every mark still to come.
  A line error removes marks and adds none; the sender adds the mark of the
  packet it is at, which is later than all others; accepting a frame turns its
  mark into the last packet accepted, after which the frame under construction
  is one `FRAME_CHAR`. The mark is gone, and so no packet comes out twice. `Live`
  leaves out what the FSM keeps in `rx_in_progress` while it waits for a frame,
  because it is cleared before it is used.
- `LossIsBounded`: `Spec => []BoundedLoss`. The property speaks of a quiet line;
  the invariant (`LossInv`) has to say what is owed while bytes are under way.
  It plays the bytes on the wire to the FSM, one after the other (`Reads`), and
  keeps an account at every one of them, as each may still be the last the
  receiver gets before the descriptor is closed: the packets accepted by then,
  the errors so far and the bytes left on the wire are as many as the packets
  owed, but for the one being sent if the receiver is on track with it
  (`Accounted`, `OnTrack`). A byte written keeps a receiver on track, or takes
  the opening mark for the closing mark of an earlier frame, which is then one
  packet more (`TrackStep`); a frame that arrives whole is valid
  (`FrameIsValid`). A byte lost, garbled or added puts the receiver off the
  track, and pays for it (`ErrorPays`).

Of the dispatch thread, checked by `tlapm MctpBridge_proofs.tla`, for any number
of clients, any traffic, any failing calls and any sizes of queues; the
assumption (`BridgeAssumption`) is that queues have room for something and that
clients are not kernel or device:

- `BridgeTypeCorrect`: `Spec => []TypeOK`, which no run checks besides.
- `BridgeKeepsOrder`: `Spec => []PortsKeepOrder`.
- `BridgeIsLossless`: `Spec => []UnicastIsLossless`.
- `BridgeSeparates`: `Spec => []Separation`.
- `ReadsFindSomething`: `Spec => []ReadyIsThere`.
- `BridgeUsesPorts`: `Spec => UsesPorts`.

All follow from `BridgeInv` (`BridgeInvariant`). That a port keeps the order of a
source is not inductive: what will still come must be later than what went. So
the invariant says that a receive buffer holds the last packets its source sent
(`RxHoldTheLast`) and all before them have arrived (`AllArrived`), that
datagrams wait in ascending order (`DatagramsAscend`), and that what a port
carries is earlier than what still waits, or is in the thread's hands, from the
same source (`TtyOutIsPast`, `LinuxOutIsPast`, `GotIsPast`). `ReadyIsThere` says
that what `select()` reported is still there when it is served: only the
dispatch thread takes from the ports, and a client that closes leaves something
to read.

`BridgeUsesPorts` adds that nothing is left of what `select()` reported once an
iteration is over (`NothingLeft`). An arrival leaves what was taken as it is
(`TakenStays`), and the packet taken is the next of its source (`TakenGrows`), which
is where `RxHoldTheLast` is needed: a thread that took any other packet, or two for
one report, would make a step no port has. Together with `LinkImplementsPort` and
`LinkImplementsChannel` it makes the chain from the sender of one link to the
thread complete: all three hold for any number of packets, errors and failures,
and the models of the two sides share no more than the two abstract modules.

Of the lifecycle, checked by `tlapm BridgeLifecycle_proofs.tla`, for descriptor
tables of any size, any number of opens, failing calls and clients, and every
value `real_fd` may start with:

- `ThreadsNeverOverwritten`: `Spec => []NoThreadIsOverwritten`.
- `ClosedIsDown`: `Spec => []ClosedMeansDown`.
- `OnlySocketsLost`: `Spec => []OnlySocketsAreLost`.
- `DescriptorsSuffice`: `Spec => []TypeOK`, if `MaxFd >= 16 + MaxOpens +
  MaxClients` (`EnoughDescriptors`).
- `RxThreadReadsItsLink`, `InspectorClosesNothingElse`: `Spec =>
  []RxThreadHasItsLink` and `Spec => InspectorClosesItsDevice`, with the same
  number of descriptors.

The first two follow from `LifecycleInv` (`LifecycleCorrect`). `close()` can only close
what the objects know of, so it says that each open link is the one its object
knows (`LinksKnown`), that an object's thread is joinable exactly while
`running` is set (`IsSerial`), which is what `close()` goes by, and at which
steps of `open()` a link can be up at all (`MayBeUp`): a link is opened at steps
where it is down, and a failing step leads to `close()`, or to an exception after
which the next `open()` begins with `close()`. The proof needs no fact about
which number `open(2)` returns, and none about `real_fd`: closing a number that
belongs to somebody else breaks a link (section 8, finding 3), but leaves
nothing open.

`OnlySocketsLost` adds where the descriptors are that outlive `close()`: the device
is the one in `real_fd` (`DeviceKnown`), and the ends of the pipes are those in
`pipe_fds` (`PipesKnown`). `DescriptorsSuffice` counts (`Counts`): at most fourteen
numbers were there from the beginning or are known to an object, one listening
socket may be left of each `open()` and one connection of each client, so that
the lowest free number is always in the table; that there is a lowest one at all
is `LeastNatural`, from the order of finite sets by inclusion.
`RxThreadReadsItsLink` is about numbers that name what their owner thinks they
name (`NumbersValid`). The step that decides it is `MctpBridge::close`, which
closes `linux_fd`: that number is -1, the 0 that `MctpSerial::open` returns when it
fails, or the one in `pipe_fds[0]`, free or used again. It is never an open link
or the device: 0 is the standard input, or once that is closed the kernel's pty,
which takes it next (`StandardInputTaken`); the links are closed before `linux_fd`
is; and only `setTty` can get the number of the closed pipe and keep it over a
`close()`, which `crossed` records (finding 2). Of an unset `real_fd` the
invariant asks nothing (`DeviceValid`): until the first `setTty` it is only a
number, and no device is open (`DeviceKnown`). If that call finds a descriptor of
another object there, `strayed` records it (finding 3), and if not it closes
nothing.

Of the interface claim, checked by `tlapm InterfaceClaim_proofs.tla`, for any
number of processes, starts, failing calls, tries and names that are asked for;
the assumption (`ClaimAssumption`) is that the processes are finitely many, that
`initialize()` looks at least once and that a name asked for is not of the form
the kernel gives:

- `ClaimTypeCorrect`: `Spec => []TypeOK`.
- `AloneClaims`: `Spec => []AloneClaimsItsOwn`.
- `ConfigurationInOrder`: `Spec => []ConfiguredInOrder`.
- `AloneReachable`: `Spec => []AloneStaysReachable`.

All follow from `ClaimInv` (`ClaimInvariant`), in five parts. `Types` has the types.
`Interfaces`: interfaces differ in index, number and name, and a process has one
exactly between setting its line discipline and closing it. `Alone`: a process that
has had the machine to itself since it listed the interfaces has listed all but
its own, so that what it claims is its own, under its present name (`OwnNames`);
and those that come later find it listed, so that they claim, rename and
configure others (`Spared`). `Unmixed`: while nobody has claimed wrongly, the index
a netlink request has resolved is that of the process's own interface
(`KnowsItsOwn`), and addresses, state and routes follow the step the process is
at (`InOrder`). `Sockets`: the path a process holds is that of the name it has
claimed (`PathOf`), and no other holds it, so that the file there is its own
(`HasItsFile`).

Of the copying threads, checked by `tlapm PtyPump_proofs.tla`, for buffers and
ttys of any size, any traffic, any descriptor numbers and any number of openings:

- `PumpTypeCorrect`: `Spec => []TypeOK`.
- `PtyCorrect`: `Spec => []PtyIsLossless`.
- `PumpImplementsLine`: `Spec => ImplementsLine`.

All follow from `PumpInv` (`PumpInvariant`), which is about the way of a byte:
what was got, what is in the tty, what is in `buf` and what waits to be read, one
after the other (`Way`). A way is ascending (`WayAscends`) and ends before the
next byte to be sent (`SentInOrder`), and each step keeps it, cuts a piece out of
it or adds the next byte at its end (the lemmas `ReadKeeps`, `WriteSteps`,
`FarSteps`, `OwnerSteps`). What is cut out
is accounted for: with a steady far end a byte is cut only where a device goes,
which `unread` counts, or where a signal ends a `write` that has moved something,
so that less than a buffer is in hand (`HandIsShort`); this is what `PtyIsLossless`
needs. What is got is the first part of an ascending way, which is what
`FrameChannel` needs.

Of test mode, checked by `tlapm TestMode_proofs.tla`, for queues of any size:

- `TestTypeCorrect`: `Spec => []TypeOK`, which no run checks besides.
- `NeverWaitForEachOther`: `Spec => []NoMutualWait`. The invariant (`TestInv`) has a
  balance: the datagrams in both queues, and the one the dispatch thread may
  still send before it looks at its end again, are at most one queue and one
  more, and one more than that while main owes a read. Two full queues would
  exceed it.

Of the Python side, checked by `tlapm BusController_proofs.tla`, for any number
of controllers, devices, EIDs, ranges, interface names and accidents; the
assumption (`ControllerAssumption`) is that a range is of EIDs and that the
model's marks `none` and `foreign` are no EID and no device:

- `BusTypeCorrect`: `Spec => []TypeOK`.
- `EidsBelongToOne`: `Spec => []EidsAreUnique`.
- `ControllerIsOne`: `Spec => []OneController`.
- `LeavesNothing`: `Spec => []NothingIsLeft`.
- `AloneKeepsItsInterface`: `Spec => []AloneHasItsInterface`.

The first four follow from `BusInv` (`BusInvariant`). That the two static lists agree rests
on more than the steps that change them: a link that is not in
`_assigned_links` has no EID, or closing it would give back another's (`Eids`);
the link being made is not in the list, although earlier ones of the same
controller are (`LinksToCome`), and the EID it was given is still free when it
takes it. `Lists` says that `close()` gets to every link of its controller, as each
list holds all links of its own controller and no others; `Processes` that who
has a process knows its pid. `Singleton` adds that nobody is live while a
controller is being made, so that starting and stopping the service harms no one.

The last needs `AloneInv` beside it. While a link is made that is alone so far, no
other may get an interface, and whatever has appeared since the list was taken
is its device's and has no address yet (`Quiet`); a stranger's interface ends
that. What a link has taken is in the list of every link made after it, so that
`_wait_for_new_interface` never returns it a second time (`Owned`); a device is
not linked twice by one controller (`AloneToCome`); and an interface that goes
takes its addresses along (`Addresses`). `MovesOfKernel` sums up what may happen
outside Python, `CalmSteps` that no step of Python but the start of a process
brings anybody nearer to an interface.

Only model-checked: all liveness properties (fairness and `ENABLED` are
out of the prover's reach), `FcsIsCrc` and `TwoBitsAreSeen` (they rest on
`Bitwise`, which the provers do not know, and are checked exhaustively).

## 8. What the checks found

1. `close()` hangs while a client does not read (`bridge_stalled`): `sendMessage`
   calls `send()` on a blocking socket. BcastMessenger.hpp:9 says non-blocking.
2. After a second `open()`, `run()` selects on a stale descriptor
   (`lifecycle_reopen`): `MctpBridge::close` closes the read end of a pipe whose
   number `MctpSerial` keeps. The second block of `MctpBridge::close` closes
   `linux_fd` again where `tty_fd` is meant. After more opens the stale number may
   be that of the device, which a `close()` then closes behind the inspector's
   back: `real_fd` keeps a number that is somebody else's at the next `setTty()`,
   and an rx thread may lose its link to it. This is the exception, `crossed`, of
   `RxThreadHasItsLink` and `InspectorClosesItsDevice`; without it TLC finds the
   latter violated with six opens and five failing steps. `main` opens a bridge
   once only, so that it does not meet this.
3. `SerialInspector::real_fd` is never initialised (`pump_uninit`): the copying
   thread, which starts before the first `setTty()`, puts it into an `fd_set`.
   With -1 this is undefined, with a number that is not open `select()` fails and
   the thread ends; either way nothing is copied any more. The first `setTty()`
   may also close a descriptor of another object: `lifecycle` starts with such
   numbers, and this is the exception, `strayed`, of `RxThreadHasItsLink` and
   `InspectorClosesItsDevice`.

Seen on the way, without a run of their own: two bridges that start at the same
time may claim the same interface, as each takes any that was not there before
(`AloneClaimsItsOwn` names the condition); a bridge that stops unlinks the socket
of the bridge that got its interface name meanwhile, because the interface goes
away before the rx threads are joined and the file afterwards
(`AloneStaysReachable`); the answer to a broadcast goes to whoever is connected
when it arrives, which mctp-bridge/README.md:42 calls the sender; when a
notification cannot be
written, its packet is never delivered, although the comment at
MctpSerial.cpp:410 calls this non-fatal for delivery (`AcceptedIsDelivered`
names the exception); an error of `accept()` throws in the dispatch thread and
ends the process; `run()` reads `msg[1]` of datagrams of one byte; a datagram
without bytes ends the connection; the README of the bridge speaks of
`SOCK_DGRAM` where the code has `SOCK_SEQPACKET`; with three bridges, one that
has claimed wrongly may later address and route the interface of a
third that did nothing wrong, once a name is used again; when the link to the
kernel cannot be opened, `MctpSerial::open` returns `false`, which is 0, and
`close()` closes the standard input; `open_bcast_socket` returns 1 when it has no socket, where its comment
says -1, and `testBridge` goes on with descriptor 1; a signal ends the copying
threads, as their `select()` is not repeated after EINTR, and one that comes while
a `write()` waits for room in a pty costs the rest of the buffer, as nobody repeats
a short `write()` (NullModem.cpp:183, 203, SerialInspector..cpp:244).

In Python: the links of a controller whose constructor failed stay in
`_assigned_links` with their EIDs and processes, and no `close` ever gets to
them; a link whose process was reaped makes `close` raise each time, so that its
controller stays the singleton for ever (`NothingIsLeft` names both); closing a
controller a second time resets `_instance` and stops the service under its
successor (`OneController`).

## 9. Abstractions

- Bytes have a kind and a value. The second FCS byte is the checked text itself,
  so that two texts have the same FCS only if they are equal; CRC collisions are
  out of the model; `Fcs` shows that no one or two changed bits make one. The
  first FCS byte may be a byte that needs escaping
  (`FlagFcs`).
- Packets are distinct. MCTP packets of one conversation differ in sequence and
  tag; equal ones could not be told apart by the properties anyway.
- A line error puts one of `Noise`, loses a byte or adds one. Noise never looks
  like an FCS byte: it would have to be the checksum of a text of the sender's.
- `write()` of a byte to the tty that fails because the tty is full is a lost
  byte, as the code ignores the result.
- Mutex-protected operations of `ReceiveBuffer` are single steps.
- In `MctpBridge` a packet of the kernel or the device is in a link's `rxBuffer` as
  soon as it arrives, with its notification; `ImplementsPort` and `UsesPorts`
  justify it. `select()` and the reading of the notification are one step in
  `MctpSerial` and two in `MctpBridge`; the port is told of the packet at the first
  in each. A packet whose notification could not be written arrives with the next
  one, or never.
- Sockets follow what the code can observe of them: a full queue makes `send()`
  wait, a closed peer is found after its datagrams, one that left datagrams
  unread resets the connection. Datagrams longer than the 256 bytes of
  `recvMessage` are cut by `recv()` and are not distinguished.
- `lifecycle_reopen` leaves `real_fd` with values that name no descriptor, so that
  what it shows is due to the pipe alone.
- The kernel's ttys: a blocking `write` waits for room while the far end is open
  and fails with EIO when it is not; a far end that closed makes a descriptor
  readable for ever. A signal that comes while a `write` waits ends it if it has
  moved something, and restarts it if not, as handlers are installed with
  `signal()`. Bytes of the new device that are copied before its
  attributes are set, and a stranger's descriptor at the number in `real_fd`, are
  left out.
- In `BusController` a pid that was reaped is not given to another process before
  it is used (it would be a stranger that is killed), `systemctl stop` succeeds,
  and the program may signal the processes of `sudo`. The order of a set is any
  order.
- In `TestMode` other clients are one that may come before main and leave; the
  rest of the bridge is always ready to say something or not.
- An interface exists as soon as its line discipline is set and goes away with
  it. Names given with `--ifname` are not of the form `mctpserial<N>`, and the
  bridges' EIDs differ. What the kernel does with a netlink request is external.
- Wording of messages, logging, `printHex`, termios flags and baud rates are
  left out.

## 10. Plan

All components that keep state of their own are modelled, and all their safety
properties but those of the checksum are proved.

Not modelled: option parsing and usage texts (pure conversions),
`send_raw_mctp_message` and `send_mctp_datagram` (marked as needing debugging,
one system call each), what `discover_endpoints` reads from D-Bus,
`removeMctpRoute`, `tryPop` and `MctpSerial::open(int)` (no caller), and the
committed build tree under `build/`.
