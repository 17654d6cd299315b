--------------------------- MODULE MCBtmpMonitor ---------------------------
(***************************************************************************)
(* A finite instance of BtmpMonitor: an address that fails to log in, and  *)
(* one that is a node's own.                                               *)
(***************************************************************************)
EXTENDS BtmpMonitor

CONSTANTS a, n, s1
=============================================================================
