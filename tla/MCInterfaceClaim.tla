-------------------------- MODULE MCInterfaceClaim --------------------------
(***************************************************************************)
(* Small instances of InterfaceClaim for TLC.                              *)
(***************************************************************************)
EXTENDS InterfaceClaim

CONSTANTS b1, b2

TwoBridges == {b1, b2}
OneName    == {"mctp0"}

\* No options; an address and a route; a name and an address.
ThreeOptions ==
    {NoOption, [NoOption EXCEPT !.local = TRUE, !.dest = TRUE],
     [NoOption EXCEPT !.want = Custom("mctp0"), !.local = TRUE]}
=============================================================================
