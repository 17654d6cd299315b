---------------------------- MODULE PolicyApply ----------------------------
(***************************************************************************)
(* How the agent writes a compiled policy into the pinned BPF maps while   *)
(* packets are looked up in them: apply_to_current_maps first writes every *)
(* key of the new policy, map after map, and then removes, map after map,  *)
(* the keys the new policy does not have.  Any write may fail, the agent   *)
(* may die between two writes, and the maps keep what they hold.           *)
(*                                                                         *)
(* A policy is given by the content it leaves in the maps: its pending     *)
(* keys, after compaction and the local-interface filter.  A policy is     *)
(* only applied here when its entries fit the maps (validate_map_capacity);*)
(* recreating the maps is not part of this module.                         *)
(***************************************************************************)
EXTENDS Integers, FiniteSets, Sequences

CONSTANTS
    Keys,       \* [Maps -> keys of the map]
    Policies,   \* the contents that policies may have
    Empty,      \* the content of fresh maps, and of the offline policy
    Capacity,   \* [Maps -> entries the map holds]
    Sources,    \* packets, told apart by source, protocol and port
    Matching,   \* [Sources -> [Maps -> the keys a lookup matches, in the order
                \* in which lookup_rule and the LPM trie would find them]]
    MaxChanges, \* bound on changes of the policy the control plane wants
    MaxFaults   \* bound on failed writes and agent deaths

Absent == "absent"

\* The order of the writes, and the order of the removals.
PutOrder   == <<"bans", "rates", "trusted", "rules", "geo", "country">>
CleanOrder == <<"rules", "geo", "trusted", "country", "rates", "bans">>

Maps == {"bans", "rates", "trusted", "rules", "geo", "country"}

Values == {Absent, "set", "allow", "deny", "A", "B"}

\* A content assigns a value of its own to every key of every map.
IsContent(c) ==
    /\ DOMAIN c = Maps
    /\ \A m \in Maps : c[m] \in [Keys[m] -> Values]

Entries(c, m) == {k \in Keys[m] : c[m][k] # Absent}

Fits(c) == \A m \in Maps : Cardinality(Entries(c, m)) <= Capacity[m]

ASSUME ApplyAssumption ==
    /\ DOMAIN Keys = Maps
    /\ \A m \in Maps : IsFiniteSet(Keys[m])
    /\ \A p \in Policies : IsContent(p) /\ Fits(p)
    /\ Empty \in Policies
    /\ \A m \in Maps : Entries(Empty, m) = {}
    /\ \A m \in Maps : Capacity[m] \in Nat
    /\ \A s \in Sources, m \in Maps : Matching[s][m] \in Seq(Keys[m])
    /\ {MaxChanges, MaxFaults} \subseteq Nat

VARIABLES
    held,     \* what the BPF maps hold
    wanted,   \* the policy the control plane pushes
    applied,  \* the agent recorded wanted as applied
    phase,    \* "idle", "put" or "clean"
    target,   \* the policy being applied, or applied last
    todo,     \* writes that are left: pairs of a map and a key
    since,    \* the policies applied or tried since the last complete apply,
              \* and the policy of that apply
    changes, faults  \* spent out of the bounds

writeVars == <<phase, target, todo>>
applyVars == <<held, wanted, applied, writeVars, since, changes, faults>>

-----------------------------------------------------------------------------
ApplyInit ==
    /\ held = Empty
    /\ wanted \in Policies
    /\ applied = FALSE
    /\ phase = "idle"
    /\ target = Empty
    /\ todo = {}
    /\ since = {Empty}
    /\ changes = 0
    /\ faults = 0

Position(order, m) == CHOOSE i \in DOMAIN order : order[i] = m

\* The writes of one map come before those of a later one.  Within a map the
\* order is that of the compiled lists and of the map's iterator: left open.
IsNext(order, m) == \A w \in todo : Position(order, m) <= Position(order, w[1])

\* The database has another policy.
PolicyChanges(p) ==
    /\ changes < MaxChanges
    /\ changes' = changes + 1
    /\ p # wanted
    /\ wanted' = p
    /\ applied' = FALSE
    /\ UNCHANGED <<held, writeVars, since, faults>>

Pairs(c) == UNION {{m} \X Entries(c, m) : m \in Maps}

\* Mutant: the apply starts with the removals.
StartApplyCleaning ==
    /\ phase = "idle"
    /\ ~applied
    /\ phase' = "put"
    /\ target' = wanted
    /\ todo' = Pairs(wanted)
    /\ since' = since \cup {wanted}
    /\ held' = [m \in Maps |-> [k \in Keys[m] |->
                   IF wanted[m][k] = Absent THEN Absent ELSE held[m][k]]]
    /\ UNCHANGED <<wanted, applied, changes, faults>>

StartApply ==
    /\ phase = "idle"
    /\ ~applied
    /\ phase' = "put"
    /\ target' = wanted
    /\ todo' = Pairs(wanted)
    /\ since' = since \cup {wanted}
    /\ UNCHANGED <<held, wanted, applied, changes, faults>>

\* Mutant: the new value is written only where there was no entry.
PutMissing(m, k) ==
    /\ phase = "put"
    /\ <<m, k>> \in todo
    /\ IsNext(PutOrder, m)
    /\ held[m][k] = Absent => Cardinality(Entries(held, m)) < Capacity[m]
    /\ held' = [held EXCEPT ![m][k] = IF @ = Absent THEN target[m][k] ELSE @]
    /\ todo' = todo \ {<<m, k>>}
    /\ UNCHANGED <<wanted, applied, phase, target, since, changes, faults>>

\* put_*: an entry that exists is overwritten; a new one needs room.
Put(m, k) ==
    /\ phase = "put"
    /\ <<m, k>> \in todo
    /\ IsNext(PutOrder, m)
    /\ held[m][k] = Absent => Cardinality(Entries(held, m)) < Capacity[m]
    /\ held' = [held EXCEPT ![m][k] = target[m][k]]
    /\ todo' = todo \ {<<m, k>>}
    /\ UNCHANGED <<wanted, applied, phase, target, since, changes, faults>>

\* The kernel refuses a new entry in a full map: the apply fails, and the agent
\* will try again.
PutRefused(m, k) ==
    /\ phase = "put"
    /\ <<m, k>> \in todo
    /\ IsNext(PutOrder, m)
    /\ held[m][k] = Absent
    /\ Cardinality(Entries(held, m)) >= Capacity[m]
    /\ phase' = "idle"
    /\ todo' = {}
    /\ UNCHANGED <<held, wanted, applied, target, since, changes, faults>>

Stale(c) == UNION {{m} \X {k \in Entries(held, m) : c[m][k] = Absent} : m \in Maps}

\* Mutant: the stale country rules are forgotten.
StartCleanPartly ==
    /\ phase = "put"
    /\ todo = {}
    /\ phase' = "clean"
    /\ todo' = {w \in Stale(target) : w[1] # "country"}
    /\ UNCHANGED <<held, wanted, applied, target, since, changes, faults>>

\* Every key is written.  Nobody else writes the maps, so the keys that each
\* removal loop will list are known here.
StartClean ==
    /\ phase = "put"
    /\ todo = {}
    /\ phase' = "clean"
    /\ todo' = Stale(target)
    /\ UNCHANGED <<held, wanted, applied, target, since, changes, faults>>

Remove(m, k) ==
    /\ phase = "clean"
    /\ <<m, k>> \in todo
    /\ IsNext(CleanOrder, m)
    /\ held' = [held EXCEPT ![m][k] = Absent]
    /\ todo' = todo \ {<<m, k>>}
    /\ UNCHANGED <<wanted, applied, phase, target, since, changes, faults>>

\* The agent records the version; it is the one wanted unless that changed.
Finish ==
    /\ phase = "clean"
    /\ todo = {}
    /\ phase' = "idle"
    /\ applied' = (target = wanted)
    /\ since' = {target}
    /\ UNCHANGED <<held, wanted, target, todo, changes, faults>>

\* A write fails or the agent dies.  Nothing is rolled back.
Interrupt ==
    /\ phase # "idle"
    /\ faults < MaxFaults
    /\ faults' = faults + 1
    /\ phase' = "idle"
    /\ todo' = {}
    /\ UNCHANGED <<held, wanted, applied, target, since, changes>>

Write == \E m \in Maps : \E k \in Keys[m] : Put(m, k) \/ PutRefused(m, k) \/ Remove(m, k)

Agent ==
    \/ StartApply
    \/ Write
    \/ StartClean
    \/ Finish

ApplyNext ==
    \/ \E p \in Policies : PolicyChanges(p)
    \/ Agent
    \/ Interrupt

ApplySpec == ApplyInit /\ [][ApplyNext]_applyVars

\* A policy that is not applied is pushed again at every reconnect, and an
\* apply that was started runs on.
FairApplySpec == ApplySpec /\ WF_applyVars(Agent)

-----------------------------------------------------------------------------
(***************************************************************************)
(* The verdict of handle_packet up to the rate limits, for the maps as     *)
(* they are at one moment.                                                 *)
(***************************************************************************)
Hits(c, s, m) == {i \in DOMAIN Matching[s][m] : c[m][Matching[s][m][i]] # Absent}

\* The value the lookups find: that of the first key with an entry.
Found(c, s, m) ==
    IF Hits(c, s, m) = {} THEN Absent
    ELSE LET first == CHOOSE i \in Hits(c, s, m) : \A j \in Hits(c, s, m) : i <= j
         IN  c[m][Matching[s][m][first]]

TrustedBy(c, s) == Hits(c, s, "trusted") # {}
Banned(c, s)  == Hits(c, s, "bans") # {}

CountryDenied(c, s) ==
    LET country == Found(c, s, "geo")
    IN  country # Absent /\ country \in Entries(c, "country") /\ c["country"][country] = "deny"

Drops(c, s) ==
    /\ ~TrustedBy(c, s)
    /\ \/ Banned(c, s)
       \/ Found(c, s, "rules") = "deny"
       \/ Found(c, s, "rules") = Absent /\ CountryDenied(c, s)

\* Dropped by a ban or a rule, with no exception for the source anywhere.
DropsFirmly(c, s) ==
    /\ ~TrustedBy(c, s)
    /\ Banned(c, s) \/ Found(c, s, "rules") = "deny"
    /\ \A i \in Hits(c, s, "rules") : c["rules"][Matching[s]["rules"][i]] = "deny"

-----------------------------------------------------------------------------
ApplyTypeOK ==
    /\ IsContent(held)
    /\ Fits(held)
    /\ {wanted, target} \cup since \subseteq Policies
    /\ applied \in BOOLEAN
    /\ phase \in {"idle", "put", "clean"}
    /\ \A w \in todo : w[1] \in Maps /\ w[2] \in Keys[w[1]]
    /\ {changes, faults} \subseteq Nat

(***************************************************************************)
(* A source that every policy involved trusts is trusted at every moment   *)
(* of an apply, however many applies failed half-way before: trusted       *)
(* prefixes may be replaced by others, or compacted into one, and neither  *)
(* order of writes may leave a gap (put_trusted_key before                 *)
(* remove_stale_trusted_keys).                                             *)
(***************************************************************************)
TrustedThroughout ==
    \A s \in Sources : (\A p \in since : TrustedBy(p, s)) => TrustedBy(held, s)

(***************************************************************************)
(* A source that every policy involved drops, by a ban or by a rule and    *)
(* without exceptions, is dropped at every moment, also when one policy    *)
(* has a ban where the other has a rule: all keys of all maps are written  *)
(* before any is removed (apply_to_current_maps).                          *)
(***************************************************************************)
DroppedThroughout ==
    \A s \in Sources : (\A p \in since : DropsFirmly(p, s)) => Drops(held, s)

(***************************************************************************)
(* Together: on whatever all policies involved agree, the maps agree too,  *)
(* after any write of any apply and after any failure of one.              *)
(***************************************************************************)
AgreedThroughout == TrustedThroughout /\ DroppedThroughout

(***************************************************************************)
(* What the maps hold was put there by a policy involved: an entry that no *)
(* policy has any more does not outlive the next complete apply            *)
(* (remove_stale_policy_keys), and a value is never one of an older        *)
(* policy's.                                                               *)
(***************************************************************************)
OnlyRecentEntries ==
    \A m \in Maps : \A k \in Entries(held, m) : \E p \in since : p[m][k] = held[m][k]

(***************************************************************************)
(* The inductive invariant behind the three: the maps always hold every    *)
(* key of some policy involved, first of the old one and, from the last    *)
(* write on, of the new one.                                               *)
(***************************************************************************)
Holds(c, d) == \A m \in Maps : Entries(d, m) \subseteq Entries(c, m)

SomeoneIsHeld == \E p \in since : Holds(held, p)

\* What is not to be written any more has been.
Written ==
    /\ phase = "put" => todo \subseteq Pairs(target)
    /\ phase # "idle" =>
          /\ target \in since
          /\ \A m \in Maps : \A k \in Entries(target, m) :
                <<m, k>> \in todo \/ held[m][k] = target[m][k]

\* What is not to be removed any more has been.
Removed ==
    phase = "clean" =>
        /\ \A w \in todo : target[w[1]][w[2]] = Absent
        /\ \A m \in Maps : \A k \in Entries(held, m) :
              <<m, k>> \in todo \/ k \in Entries(target, m)

IInv ==
    /\ SomeoneIsHeld
    /\ Written
    /\ Removed
    /\ OnlyRecentEntries

(***************************************************************************)
(* What the agent has recorded as applied is what the maps hold, exactly:  *)
(* no key is missing, none is left over and none has an older value,       *)
(* whatever applies of this and of other policies were refused for lack    *)
(* of room or interrupted before.  "When the capacity suffices, new keys   *)
(* are written first and the keys that do not belong to the new policy are *)
(* cleaned up then" (docs/DESIGN.md:328).                                  *)
(***************************************************************************)
AppliedIsHeld ==
    applied => phase = "idle" /\ \A m \in Maps : held[m] = wanted[m]

(***************************************************************************)
(* A policy that fits into the maps next to what they hold is recorded in  *)
(* the end.  One that only fits alone is refused at the same insert at     *)
(* every retry.                                                            *)
(***************************************************************************)
FitsBeside ==
    \A m \in Maps : Cardinality(Entries(held, m) \cup Entries(wanted, m)) <= Capacity[m]

FittingPolicySettles == <>[]FitsBeside => <>[]applied
=============================================================================
