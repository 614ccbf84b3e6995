---------------------------- MODULE MCMctpSerial ----------------------------
(***************************************************************************)
(* Small instances of MctpSerial for TLC.                                  *)
(***************************************************************************)
EXTENDS MctpSerial

CONSTANTS d1, d2

MCData == {d1, d2}

\* A plain packet, whose FCS holds a framing mark; one that is all special
\* bytes; one that holds a byte that looks escaped; and one whose length wraps
\* the count byte (CountMod is 3) to that of a valid packet.
Plain   == <<DataByte(d1)>>
Special == <<FRAME_CHAR, ESCAPE_CHAR>>
Escapes == <<ESCAPE_CHAR, FRAME_SUB>>
TooLong == <<DataByte(d2), DataByte(d2), DataByte(d1), DataByte(d1)>>

LineMessages   == {Plain, Special, TooLong}
ThreadMessages == {Plain, Escapes}
MCFlagFcs     == {Plain}
MCNoise       == {FRAME_CHAR, ESCAPE_CHAR, FRAME_SUB, DataByte(d1)}
FlagNoise     == {FRAME_CHAR}
=============================================================================
