--------------------------- MODULE MCXdpLifecycle ---------------------------
(***************************************************************************)
(* A finite instance of XdpLifecycle.                                      *)
(***************************************************************************)
EXTENDS XdpLifecycle
=============================================================================
