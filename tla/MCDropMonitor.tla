--------------------------- MODULE MCDropMonitor ---------------------------
(***************************************************************************)
(* Finite instances of DropMonitor: two viewers.                           *)
(***************************************************************************)
EXTENDS DropMonitor

CONSTANTS v1, v2

MCViewers == {v1, v2}
=============================================================================
