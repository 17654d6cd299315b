--------------------------- MODULE MCThreatFeeds ---------------------------
(***************************************************************************)
(* Finite instances of ThreatFeeds.                                        *)
(***************************************************************************)
EXTENDS ThreatFeeds

CONSTANTS l1, m1, j1, c1, c2, n1, n2, u1, u2
=============================================================================
