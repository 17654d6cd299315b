--------------------------- MODULE MCPolicyStore ---------------------------
(***************************************************************************)
(* Finite instances of PolicyStore: a policy of two parts, changed one at  *)
(* a time.                                                                 *)
(***************************************************************************)
EXTENDS PolicyStore

CONSTANTS rules, bans

MCParts == {rules, bans}
MCChangeSets == {{rules}, {bans}}
=============================================================================
