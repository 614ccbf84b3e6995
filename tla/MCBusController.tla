-------------------------- MODULE MCBusController --------------------------
(***************************************************************************)
(* Small instances of BusController for TLC.                               *)
(***************************************************************************)
EXTENDS BusController, TLC

CONSTANTS d1, d2, e1, e2

TwoDevices == {d1, d2}
TwoEids    == {e1, e2}
Symmetry   == Permutations(TwoDevices) \cup Permutations(TwoEids)
Ranges     == {{}, {e1}, {e2}, {e1, e2}}
=============================================================================
