--------------------------- MODULE MCPolicyTables ---------------------------
(***************************************************************************)
(* A finite instance of PolicyTables: one key, two sets of fields.         *)
(***************************************************************************)
EXTENDS PolicyTables, TLC

CONSTANTS k, d1, d2, c1, c2

MCExampleRules == <<[key |-> k, enabled |-> TRUE, data |-> d1]>>
MCExampleCountries == <<[key |-> k, enabled |-> TRUE, data |-> d2]>>

Symmetry == Permutations({c1, c2})
=============================================================================
