----------------------------- MODULE MCGeoLists -----------------------------
(***************************************************************************)
(* A finite instance of GeoLists.                                          *)
(***************************************************************************)
EXTENDS GeoLists

CONSTANTS p1, c1

\* One control plane, whose loop and API refresh.
MCRuns1 == {<<p1, "loop">>, <<p1, "api">>}

MCCodes1 == <<c1>>
=============================================================================
