---------------------------- MODULE MCPolicySync ----------------------------
(***************************************************************************)
(* Finite instances of PolicySync: a policy of two tables loaded by the    *)
(* stream task and one page fetched by the agent.                          *)
(***************************************************************************)
EXTENDS PolicySyncInv

CONSTANTS rules, bans, geo1

\* Two tables and one page, each changed on its own.
MCLoadOrder2 == <<rules, bans>>
MCPageOrder1 == <<geo1>>
MCParts21 == {rules, bans, geo1}
MCChangeSets21 == {{rules}, {bans}, {geo1}}

\* One table, one page.
MCLoadOrder1 == <<rules>>
MCParts11 == {rules, geo1}
MCChangeSets11 == {{rules}, {geo1}}
=============================================================================
