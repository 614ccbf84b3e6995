------------------------- MODULE MCBridgeLifecycle -------------------------
(***************************************************************************)
(* Small instances of BridgeLifecycle for TLC.                             *)
(***************************************************************************)
EXTENDS BridgeLifecycle

\* Values of the uninitialised real_fd: no descriptor, one that is still free
\* when setTty() is called, and, as numbers are given out from 6, the standard
\* input, linuxSerial's pipe and serial link, the kernel's pty and the socket.
StartValues == {-1, MaxFd, 0, 6, 8, 9, 10}

\* Values that name no descriptor, so that the first setTty() closes nothing.
Harmless == {-1, MaxFd + 1}
=============================================================================
