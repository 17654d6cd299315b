--------------------------- MODULE PolicySyncInv ---------------------------
(***************************************************************************)
(* The inductive invariant behind the safety of PolicySync, for a database *)
(* whose writers are serialised (~TxnOverlap, ~BumpOverlap).               *)
(***************************************************************************)
EXTENDS PolicySync

\* The database runs its writing transactions one at a time.
Serialised == ~TxnOverlap /\ ~BumpOverlap

Connected == agentPhase \in {"streaming", "fetching", "page", "reporting"}

\* Content read since version v was current, and content it may be older than.
Fresh(v, p, c) == c = dbContent[p] \/ v < dbContent[p]

FreshParts(u, S) == \A p \in S : Fresh(u.snapshotVersion, p, u.content[p])

LoadedParts == {LoadOrder[i] : i \in 1..loaded}
FetchedParts == {PageOrder[i] : i \in 1..fetched}

\* An update of version b may follow one of version a on a stream.  A change of
\* the runtime CIDRs alone is pushed under the version there is.
Before(a, b) == a < b \/ (RuntimeCidrs /\ a = b)

\* Versions count the commits, and whoever read one still holds the current one.
StoreInv ==
    /\ dbVersion = revision
    /\ dbVersion >= 1
    /\ \A p \in Parts : dbContent[p] <= dbVersion
    /\ \A u, w \in Writers : Busy(u) /\ Busy(w) => u = w
    /\ \A w \in Writers : txn[w].phase \in {"read", "bump"} => txn[w].seen = dbVersion
    /\ \A w \in Writers : InTxn(w) => txn[w].parts \in ChangeSets

\* The update under construction, when there is one.
BuildingInv ==
    /\ streamPhase \in {"polled", "snapshot", "tables"} =>
          /\ building.version \in 1..dbVersion
          /\ cursorVersion <= building.version
    /\ streamPhase \in {"snapshot", "tables"} => Before(cursorVersion, building.version)
    /\ streamPhase = "tables" =>
          /\ building.snapshotVersion \in building.version..dbVersion
          /\ FreshParts(building, LoadedParts)

\* A pushed update: its tables are at least as new as its snapshot version.
Sound(u) ==
    /\ u.version \in 1..cursorVersion
    /\ u.snapshotVersion \in u.version..dbVersion
    /\ FreshParts(u, {LoadOrder[i] : i \in 1..Len(LoadOrder)})
    /\ Before(appliedVersion, u.version)

QueueInv ==
    /\ \A i \in 1..Len(queue) : Sound(queue[i])
    /\ \A i, j \in 1..Len(queue) : i < j => Before(queue[i].version, queue[j].version)

\* The update in the agent's hands.  A page is served only while the version of
\* the update is current, so the snapshot behind it has that version too.
UpdateInv ==
    agentPhase \in {"fetching", "page"} =>
        /\ Sound(update)
        /\ FreshParts(update, FetchedParts)
        /\ fetched > 0 \/ agentPhase = "page" => update.snapshotVersion = update.version
        /\ \A i \in 1..Len(queue) : Before(update.version, queue[i].version)

ConnectionInv ==
    /\ ~Connected => queue = <<>> /\ streamPhase = "none"
    /\ Connected => appliedVersion <= cursorVersion /\ cursorVersion <= dbVersion

AppliedInv ==
    /\ appliedVersion <= dbVersion
    /\ clean => \A p \in Parts : Fresh(appliedVersion, p, enforced[p])
    /\ ~clean /\ ~RuntimeCidrs /\ agentPhase # "exited" => appliedVersion < dbVersion

(***************************************************************************)
(* From the read of the version to the maps: every update on its way to    *)
(* the agent is at least as new as what it claims to be, and newer than    *)
(* what the agent applied.  It holds while load_policy reads its version   *)
(* before its tables and each page is checked before it is loaded.         *)
(***************************************************************************)
IInv ==
    /\ StoreInv
    /\ BuildingInv
    /\ QueueInv
    /\ UpdateInv
    /\ ConnectionInv
    /\ AppliedInv
=============================================================================
