---------------------------- MODULE MCMctpBridge ----------------------------
(***************************************************************************)
(* Small instances of MctpBridge for TLC.                                  *)
(***************************************************************************)
EXTENDS MctpBridge, TLC

CONSTANTS c1, c2

TwoClients == {c1, c2}
Symmetry == Permutations(TwoClients)
=============================================================================
