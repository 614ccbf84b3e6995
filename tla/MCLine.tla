------------------------------- MODULE MCLine -------------------------------
(***************************************************************************)
(* An instance of MctpSerial for TLC with errors on the line, and beside   *)
(* it the checksum that tells the link of them.  The two share no          *)
(* variable, so that each may stay where it begins while the other moves.  *)
(***************************************************************************)
EXTENDS MCMctpSerial, Fcs

LineSpec ==
    /\ Init /\ FcsInit
    /\ [][\/ fcs = INITFCS /\ bytes = 0 /\ Next /\ UNCHANGED fcsVars
          \/ Init /\ FcsNext /\ UNCHANGED vars]_<<vars, fcsVars>>
=============================================================================
