--------------------------- MODULE PolicyDelivery ---------------------------
(***************************************************************************)
(* What policy distribution promises, without streams, queues, retries or  *)
(* failures: the database moves from version to version, and an agent's    *)
(* maps are, from time to time, made to hold some version of the policy.   *)
(*                                                                         *)
(* A delivery need not be a consistent snapshot: the parts of a policy are *)
(* read one after the other.  The promise is that a part is never older    *)
(* than the version the agent says it applied.                             *)
(***************************************************************************)
EXTENDS Integers

CONSTANTS Parts, ChangeSets

VARIABLES
    dbVersion,       \* current policy version
    dbContent,       \* [Parts -> version that last changed the part]
    appliedVersion,  \* version the agent applied, -1 for none
    enforced,        \* [Parts -> what the maps hold of the part, -1 for nothing]
    clean            \* FALSE while the maps are a mixture of two policies

deliveryVars == <<dbVersion, dbContent, appliedVersion, enforced, clean>>

\* Content c of part p is what the database holds, or has been replaced since
\* version v: whoever asks for changes after v is told of it.
FreshPart(v, p, c) == c = dbContent[p] \/ v < dbContent[p]

Nothing == [p \in Parts |-> -1]

DeliveryInit ==
    /\ dbVersion = 1
    /\ dbContent = [p \in Parts |-> 1]
    /\ appliedVersion = -1
    /\ enforced = Nothing
    /\ clean = TRUE

\* A transaction changes some parts (none: a bare version bump) and moves the
\* version by one.
Change(parts) ==
    /\ dbVersion' = dbVersion + 1
    /\ dbContent' = [p \in Parts |-> IF p \in parts THEN dbVersion + 1
                                                    ELSE dbContent[p]]
    /\ UNCHANGED <<appliedVersion, enforced, clean>>

\* The maps now hold version v, or something newer, of every part.
Deliver ==
    /\ clean' = TRUE
    /\ appliedVersion <= appliedVersion'
    /\ appliedVersion' <= dbVersion
    /\ \A p \in Parts : FreshPart(appliedVersion', p, enforced'[p])
    /\ UNCHANGED <<dbVersion, dbContent>>

\* Writing the maps stopped half-way.
Spoil ==
    /\ clean' = FALSE
    /\ UNCHANGED <<dbVersion, dbContent, appliedVersion>>

\* The agent cleared its maps, on purpose, and no longer claims a version.
Clear ==
    /\ appliedVersion' = -1
    /\ enforced' = Nothing
    /\ clean' = TRUE
    /\ UNCHANGED <<dbVersion, dbContent>>

\* The agent restarted: the maps keep what they hold.
Forget ==
    /\ appliedVersion' = -1
    /\ UNCHANGED <<dbVersion, dbContent, enforced, clean>>

DeliveryNext ==
    \/ \E parts \in ChangeSets \cup {{}} : Change(parts)
    \/ Deliver
    \/ Spoil
    \/ Clear
    \/ Forget

DeliverySpec == DeliveryInit /\ [][DeliveryNext]_deliveryVars

(***************************************************************************)
(* What an operator reads from "applied_version = current_policy_version"  *)
(* in the node list: the maps hold the policy the database holds.          *)
(***************************************************************************)
InSync == clean /\ appliedVersion = dbVersion => enforced = dbContent
=============================================================================
