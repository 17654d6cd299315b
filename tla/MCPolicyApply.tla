--------------------------- MODULE MCPolicyApply ---------------------------
(***************************************************************************)
(* Finite instances of PolicyApply: a wide prefix around a narrow one, two *)
(* countries, and policies chosen so that each one changes maps that an    *)
(* other one relies on.                                                    *)
(***************************************************************************)
EXTENDS PolicyApply

MCKeys == [m \in Maps |->
    CASE m = "rates"   -> {"tcp"}
      [] m = "geo"     -> {"wide"}
      [] m = "country" -> {"A", "B"}
      [] OTHER         -> {"wide", "narrow"}]

\* The content with the given entries.
With(entries) == [m \in Maps |-> [k \in MCKeys[m] |->
    IF \E v \in Values : <<m, k, v>> \in entries
    THEN CHOOSE v \in Values : <<m, k, v>> \in entries
    ELSE Absent]]

MCEmpty == With({})

MCPolicies ==
    {MCEmpty,
     \* The wide prefix is trusted, an exception to a ban around it.
     With({<<"trusted", "wide", "set">>, <<"bans", "wide", "set">>}),
     \* Only the narrow prefix is trusted; the rest is denied by a rule.
     With({<<"trusted", "narrow", "set">>, <<"rules", "wide", "deny">>,
           <<"rates", "tcp", "set">>}),
     \* The narrow prefix is banned, and the wide one denied.
     With({<<"bans", "narrow", "set">>, <<"rules", "wide", "deny">>,
           <<"rules", "narrow", "deny">>}),
     \* A rule for the wide prefix with an exception, and a denied country.
     With({<<"rules", "wide", "deny">>, <<"rules", "narrow", "allow">>,
           <<"geo", "wide", "A">>, <<"country", "A", "deny">>}),
     \* The prefix moved to another country, and the wide one is banned.
     With({<<"bans", "wide", "set">>, <<"geo", "wide", "B">>,
           <<"country", "B", "deny">>, <<"country", "A", "allow">>})}

\* "far" is in the wide prefix only; "near" is in both.
MCSources == {"near", "far"}

MCMatching == [s \in MCSources |-> [m \in Maps |->
    CASE m \in {"rates", "country"} -> <<>>
      [] m = "geo" \/ s = "far"     -> <<"wide">>
      [] OTHER                      -> <<"narrow", "wide">>]]

\* Room for each policy on its own.
MCTight == [m \in Maps |-> IF m \in {"geo", "rates", "bans", "trusted"} THEN 1 ELSE 2]
=============================================================================
