----------------------------- MODULE MCPtyPump -----------------------------
(***************************************************************************)
(* Small instances of PtyPump for TLC.                                     *)
(***************************************************************************)
EXTENDS PtyPump

BothClasses == {"NullModem", "SerialInspector"}
Inspector   == {"SerialInspector"}
TwoFds      == {1, 2}
AnyFd       == {none, 1}
=============================================================================
