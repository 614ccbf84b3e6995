---------------------------- MODULE FrameChannel ----------------------------
(***************************************************************************)
(* What a serial MCTP link promises to the code above it, without bytes,   *)
(* framing or threads: a one-way channel of packets that may lose packets  *)
(* but never invents, garbles, repeats or reorders one.                    *)
(*                                                                         *)
(* MctpSerial implements this specification (see MctpSerial!Channel).      *)
(* Packets are taken to be distinct, as the MCTP packets of one            *)
(* conversation are (their sequence and tag fields differ).                *)
(***************************************************************************)
EXTENDS Naturals, Sequences

CONSTANT Message            \* the packets that may be sent

VARIABLES
    sent,                   \* every packet handed to the channel, in order
    accepted,               \* every packet the far end has taken from it
    cursor                  \* index in sent of the last accepted packet, or 0

vars == <<sent, accepted, cursor>>

Init ==
    /\ sent = <<>>
    /\ accepted = <<>>
    /\ cursor = 0

Send(m) ==
    /\ \A i \in DOMAIN sent : sent[i] # m
    /\ sent' = Append(sent, m)
    /\ UNCHANGED <<accepted, cursor>>

\* The channel hands over a later packet than the last one; those it skips
\* are lost for good.
Deliver(i) ==
    /\ i > cursor
    /\ accepted' = Append(accepted, sent[i])
    /\ cursor' = i
    /\ UNCHANGED sent

Next ==
    \/ \E m \in Message : Send(m)
    \/ \E i \in DOMAIN sent : Deliver(i)

Spec == Init /\ [][Next]_vars
=============================================================================
