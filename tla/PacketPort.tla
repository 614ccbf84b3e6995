----------------------------- MODULE PacketPort -----------------------------
(***************************************************************************)
(* What the receiving end of a serial link is to the thread that reads it, *)
(* without pipes, bytes or a second thread: packets arrive with their      *)
(* notification; the reader is told that there is one, and then takes the  *)
(* oldest.  It is never told of a packet that is not there, takes exactly  *)
(* one for each time it is told, and nobody else takes any.                *)
(*                                                                         *)
(* MctpSerial implements this specification (MctpSerial!Port), and the     *)
(* dispatch thread of MctpBridge uses its two links in no other way        *)
(* (MctpBridge!KernelPort, MctpBridge!DevicePort).  Together they are why  *)
(* MctpBridge may take a link to be a queue of packets.                    *)
(***************************************************************************)
EXTENDS Sequences

CONSTANT Message        \* the packets that may arrive

VARIABLES
    rx,                 \* packets that have arrived and wait, in order
    got,                \* history: packets the reader has taken, in order
    serving             \* TRUE from select() until the packet is taken

vars == <<rx, got, serving>>

Init == rx = <<>> /\ got = <<>> /\ serving = FALSE

Arrive(m) ==
    /\ rx' = Append(rx, m)
    /\ UNCHANGED <<got, serving>>

\* select() reports the notification pipe.
Select ==
    /\ rx # <<>>
    /\ ~serving
    /\ serving' = TRUE
    /\ UNCHANGED <<rx, got>>

\* The reader reads the notification and receive() returns a packet.
Take ==
    /\ serving
    /\ rx # <<>>
    /\ got' = Append(got, Head(rx))
    /\ rx' = Tail(rx)
    /\ serving' = FALSE

Next == (\E m \in Message : Arrive(m)) \/ Select \/ Take

Spec == Init /\ [][Next]_vars
=============================================================================
