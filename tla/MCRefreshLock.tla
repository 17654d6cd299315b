--------------------------- MODULE MCRefreshLock ---------------------------
(***************************************************************************)
(* Finite instances of RefreshLock.                                        *)
(***************************************************************************)
EXTENDS RefreshLock

CONSTANTS r1, r2
=============================================================================
