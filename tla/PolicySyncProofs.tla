-------------------------- MODULE PolicySyncProofs --------------------------
(***************************************************************************)
(* Proofs about PolicySync, for every policy, queue capacity, failure      *)
(* limit and bound: types first, then its safety, from the inductive       *)
(* invariant of PolicySyncInv.                                             *)
(***************************************************************************)
EXTENDS PolicySyncInv, SequenceTheorems, TLAPS

-----------------------------------------------------------------------------
(* Type correctness.                                                        *)

LEMMA Orders ==
  /\ Len(LoadOrder) \in Nat
  /\ Len(PageOrder) \in Nat \ {0}
  /\ \A i \in 1..Len(LoadOrder) : LoadOrder[i] \in Parts
  /\ \A i \in 1..Len(PageOrder) : PageOrder[i] \in Parts
  /\ \A p \in Parts : \/ \E i \in 1..Len(LoadOrder) : p = LoadOrder[i]
                      \/ \E i \in 1..Len(PageOrder) : p = PageOrder[i]
  <1>1. /\ LoadOrder \in Seq(Parts)
        /\ PageOrder \in Seq(Parts)
        /\ Len(PageOrder) >= 1
    BY SyncAssumption
  <1>2. Parts = Elements(LoadOrder) \cup Elements(PageOrder)
    BY SyncAssumption
  <1>3. /\ DOMAIN LoadOrder = 1..Len(LoadOrder)
        /\ DOMAIN PageOrder = 1..Len(PageOrder)
    BY <1>1
  <1>4. \A p \in Parts : \/ \E i \in 1..Len(LoadOrder) : p = LoadOrder[i]
                         \/ \E i \in 1..Len(PageOrder) : p = PageOrder[i]
    BY <1>2, <1>3 DEF Elements
  <1>5. QED
    BY <1>1, <1>4

LEMMA Bounds ==
  /\ Len(LoadOrder) \in Nat
  /\ Len(PageOrder) \in Nat \ {0}
  /\ QueueCap \in Nat \ {0}
  /\ RuntimeCidrs \in BOOLEAN
  /\ FailureLimit \in Nat
  BY SyncAssumption, Orders

LEMMA NoUpdateType == NoUpdate \in Update
  BY DEF NoUpdate, Update, Nothing

(***************************************************************************)
(* Updates are built field by field, and contents part by part.            *)
(***************************************************************************)
LEMMA UpdateFields ==
  ASSUME NEW u \in Update, NEW n \in Nat
  PROVE  /\ [u EXCEPT !.version = n] \in Update
         /\ [u EXCEPT !.snapshotVersion = n] \in Update
         /\ [u EXCEPT !.runtime = n] \in Update
         /\ \A p \in Parts : [u EXCEPT !.content[p] = n] \in Update
  BY DEF Update

(***************************************************************************)
(* A transaction of the store keeps the types of the store.                *)
(***************************************************************************)
LEMMA StoreTypeStep == StoreTypeOK /\ StoreNext => StoreTypeOK'
  <1> SUFFICES ASSUME StoreTypeOK, NEW w \in Writers,
                      \/ \E parts \in ChangeSets : WriterBegin(w, parts)
                      \/ WriterReadVersion(w)
                      \/ WriterCommit(w)
                      \/ WriterAbort(w)
                      \/ BumpRead(w)
                      \/ BumpWrite(w)
               PROVE  StoreTypeOK'
    BY DEF StoreNext
  <1> USE StoreAssumption DEF StoreTypeOK, TxnType
  <1>1. ASSUME NEW parts \in ChangeSets, WriterBegin(w, parts)
        PROVE  StoreTypeOK'
    BY <1>1 DEF WriterBegin
  <1>2. CASE WriterReadVersion(w)
    BY <1>2 DEF WriterReadVersion
  <1>3. CASE WriterCommit(w)
    BY <1>3 DEF WriterCommit, Idle
  <1>4. CASE WriterAbort(w)
    BY <1>4 DEF WriterAbort, Idle
  <1>5. CASE BumpRead(w)
    BY <1>5 DEF BumpRead
  <1>6. CASE BumpWrite(w)
    BY <1>6 DEF BumpWrite, Idle
  <1>7. QED
    BY <1>1, <1>2, <1>3, <1>4, <1>5, <1>6

LEMMA InitType == Init => TypeOK
  <1> SUFFICES ASSUME Init PROVE TypeOK
    OBVIOUS
  <1>1. StoreTypeOK
    BY DEF Init, StoreInit, StoreTypeOK, TxnType, Idle
  <1>2. StreamTypeOK
    BY Bounds, NoUpdateType DEF Init, StreamTypeOK
  <1>3. LoopTypeOK
    BY Bounds, NoUpdateType DEF Init, LoopTypeOK
  <1>4. AppliedTypeOK
    BY DEF Init, AppliedTypeOK, Nothing
  <1>5. QED
    BY <1>1, <1>2, <1>3, <1>4 DEF Init, TypeOK

(***************************************************************************)
(* What a step does not touch keeps its type.                              *)
(***************************************************************************)
LEMMA TypeFrame ==
  /\ StoreTypeOK /\ UNCHANGED storeVars => StoreTypeOK'
  /\ StreamTypeOK /\ UNCHANGED <<streamVars, queue>> => StreamTypeOK'
  /\ LoopTypeOK /\ UNCHANGED <<agentPhase, update, fetched>> => LoopTypeOK'
  /\ AppliedTypeOK /\ UNCHANGED <<appliedVersion, mapVars, offlineVars>> => AppliedTypeOK'
  <1>1. StoreTypeOK /\ UNCHANGED storeVars => StoreTypeOK'
    BY DEF StoreTypeOK, storeVars
  <1>2. StreamTypeOK /\ UNCHANGED <<streamVars, queue>> => StreamTypeOK'
    BY DEF StreamTypeOK, streamVars
  <1>3. LoopTypeOK /\ UNCHANGED <<agentPhase, update, fetched>> => LoopTypeOK'
    BY DEF LoopTypeOK
  <1>4. AppliedTypeOK /\ UNCHANGED <<appliedVersion, mapVars, offlineVars>> => AppliedTypeOK'
    BY DEF AppliedTypeOK, mapVars, offlineVars
  <1>5. QED
    BY <1>1, <1>2, <1>3, <1>4

(***************************************************************************)
(* The steps of the stream task keep the types.                            *)
(***************************************************************************)
LEMMA StreamType ==
  ASSUME StreamTypeOK, StoreTypeOK, runtime \in Nat, StreamStep \/ StreamFails
  PROVE  StreamTypeOK'
  <1> USE Bounds DEF StreamTypeOK
  <1>1. CASE StreamReadVersion
    <2>1. building' \in Update
      BY <1>1, NoUpdateType, UpdateFields DEF StreamReadVersion, StoreTypeOK
    <2> QED
      BY <1>1, <2>1 DEF StreamReadVersion
  <1>2. CASE StreamNothingNew
    BY <1>2, NoUpdateType DEF StreamNothingNew
  <1>3. CASE StreamReadRuntime
    <2>1. building' \in Update
      BY <1>3, UpdateFields DEF StreamReadRuntime
    <2> QED
      BY <1>3, <2>1 DEF StreamReadRuntime
  <1>4. CASE StreamReadSnapshotVersion
    <2>1. building' \in Update
      BY <1>4, UpdateFields DEF StreamReadSnapshotVersion, StoreTypeOK
    <2> QED
      BY <1>4, <2>1 DEF StreamReadSnapshotVersion
  <1>5. CASE StreamLoadTable
    <2> DEFINE part == LoadOrder[loaded + 1]
    <2>1. loaded + 1 \in 1..Len(LoadOrder)
      BY <1>5 DEF StreamLoadTable
    <2>2. part \in Parts /\ dbContent[part] \in Nat
      BY <2>1, Orders DEF StoreTypeOK
    <2>3. building' = [building EXCEPT !.content[part] = dbContent[part]]
      BY <1>5 DEF StreamLoadTable
    <2> HIDE DEF part
    <2>4. building' \in Update
      BY <2>2, <2>3, UpdateFields
    <2>5. loaded' \in 0..Len(LoadOrder)
      BY <1>5, <2>1 DEF StreamLoadTable
    <2> QED
      BY <1>5, <2>4, <2>5 DEF StreamLoadTable
  <1>6. CASE StreamPush
    <2>1. building.version \in Nat /\ building.runtime \in Nat
      BY DEF Update
    <2>2. Append(queue, building) \in Seq(Update)
      BY AppendProperties
    <2>3. Len(Append(queue, building)) = Len(queue) + 1
      BY AppendProperties
    <2>4. Len(queue) \in Nat
      BY LenProperties
    <2>5. queue' \in Seq(Update) /\ Len(queue') <= QueueCap
      BY <1>6, <2>2, <2>3, <2>4 DEF StreamPush
    <2> QED
      BY <1>6, <2>1, <2>5, NoUpdateType DEF StreamPush
  <1>7. CASE StreamFails
    BY <1>7, NoUpdateType DEF StreamFails
  <1>8. QED
    BY <1>1, <1>2, <1>3, <1>4, <1>5, <1>6, <1>7 DEF StreamStep

(***************************************************************************)
(* Dropping the subscription, and a handled failure, keep the types.       *)
(***************************************************************************)
LEMMA DropStreamType == StreamTypeOK /\ DropStream => StreamTypeOK'
  <1> SUFFICES ASSUME StreamTypeOK, DropStream PROVE StreamTypeOK'
    OBVIOUS
  <1>1. queue' \in Seq(Update) /\ Len(queue') <= QueueCap
    BY Bounds DEF DropStream
  <1>2. QED
    BY <1>1, Bounds, NoUpdateType DEF DropStream, StreamTypeOK

LEMMA ReconnectType ==
  StreamTypeOK /\ Reconnect => StreamTypeOK' /\ LoopTypeOK'
  BY DropStreamType, Bounds, NoUpdateType DEF Reconnect, LoopTypeOK

LEMMA FailureType ==
  ASSUME TypeOK, Failure
  PROVE  /\ StreamTypeOK'
         /\ LoopTypeOK'
         /\ AppliedTypeOK'
         /\ applyFaults' \in Nat
  <1>1. StreamTypeOK' /\ LoopTypeOK'
    <2>1. \/ Reconnect
          \/ DropStream /\ agentPhase' = "exited" /\ update' = NoUpdate /\ fetched' = 0
      BY DEF Failure
    <2>2. QED
      BY <2>1, ReconnectType, DropStreamType, Bounds, NoUpdateType
      DEF TypeOK, LoopTypeOK
  <1>2. applyFaults' \in Nat
    BY DEF Failure, TypeOK
  <1>3. Nothing \in [Parts -> Nat \cup {-1}]
    BY DEF Nothing
  <1>4. AppliedTypeOK'
    <2>1. consecutiveFailures' \in Nat
      BY DEF Failure, TypeOK, AppliedTypeOK
    <2>2. \/ UNCHANGED <<appliedVersion, enforced, enforcedRuntime, clean, rulesUnloaded>>
          \/ /\ appliedVersion' = -1 /\ enforced' = Nothing /\ enforcedRuntime' = -1
             /\ clean' = TRUE /\ rulesUnloaded' = TRUE
          \/ /\ clean' = FALSE
             /\ \E cleared \in SUBSET Parts :
                   enforced' = [p \in Parts |-> IF p \in cleared THEN -1 ELSE enforced[p]]
             /\ UNCHANGED <<appliedVersion, enforcedRuntime, rulesUnloaded>>
      BY DEF Failure, mapVars
    <2>3. QED
      BY <1>3, <2>1, <2>2 DEF TypeOK, AppliedTypeOK
  <1>5. QED
    BY <1>1, <1>2, <1>4

(***************************************************************************)
(* The steps of the agent keep the types.                                  *)
(***************************************************************************)
LEMMA AgentType ==
  ASSUME TypeOK, AgentStep \/ Fault \/ AgentRestart
  PROVE  TypeOK'
  <1> USE Bounds DEF TypeOK
  <1> DEFINE AgentFailure == Failure /\ UNCHANGED <<storeVars, runtime, restarts>> /\ faults' \in Nat
  <1>1. CASE AgentFailure
    BY <1>1, FailureType, TypeFrame DEF storeVars
  <1>2. CASE AgentSubscribe
    <2>1. StreamTypeOK'
      BY <1>2 DEF AgentSubscribe, StreamTypeOK, AppliedTypeOK
    <2>2. LoopTypeOK'
      BY <1>2 DEF AgentSubscribe, LoopTypeOK
    <2>3. QED
      BY <1>2, <2>1, <2>2, TypeFrame DEF AgentSubscribe, boundVars
  <1>3. CASE AgentHeartbeat
    <2>1. AppliedTypeOK'
      BY <1>3 DEF AgentHeartbeat, AppliedTypeOK, mapVars
    <2>2. QED
      BY <1>3, <2>1, TypeFrame DEF AgentHeartbeat, boundVars
  <1>4. CASE AgentReceive
    <2>1. Head(queue) \in Update /\ Tail(queue) \in Seq(Update)
          /\ Len(Tail(queue)) = Len(queue) - 1 /\ Len(queue) \in Nat
      BY <1>4, HeadTailProperties, LenProperties DEF AgentReceive, StreamTypeOK
    <2>2. StreamTypeOK'
      BY <1>4, <2>1 DEF AgentReceive, StreamTypeOK, streamVars
    <2>3. LoopTypeOK'
      BY <1>4, <2>1 DEF AgentReceive, LoopTypeOK
    <2>4. QED
      BY <1>4, <2>2, <2>3, TypeFrame DEF AgentReceive, boundVars
  <1>5. CASE FetchPageCheck
    <2>1. LoopTypeOK'
      BY <1>5 DEF FetchPageCheck, LoopTypeOK
    <2>2. QED
      BY <1>5, <2>1, TypeFrame DEF FetchPageCheck, boundVars
  <1>6. CASE FetchPageLoad
    <2> DEFINE part == PageOrder[fetched + 1]
    <2>1. fetched + 1 \in 1..Len(PageOrder)
      BY <1>6 DEF FetchPageLoad, LoopTypeOK
    <2>2. part \in Parts /\ dbContent[part] \in Nat
      BY <2>1, Orders DEF StoreTypeOK
    <2>3. update' = [update EXCEPT !.content[part] = dbContent[part]]
      BY <1>6 DEF FetchPageLoad
    <2> HIDE DEF part
    <2>4. update' \in Update
      BY <2>2, <2>3, UpdateFields DEF LoopTypeOK
    <2>5. LoopTypeOK'
      BY <1>6, <2>1, <2>4 DEF FetchPageLoad, LoopTypeOK
    <2>6. QED
      BY <1>6, <2>5, TypeFrame DEF FetchPageLoad, boundVars
  <1>7. CASE AgentApply
    <2>1. /\ update.snapshotVersion \in Nat
          /\ update.content \in [Parts -> Nat \cup {-1}]
          /\ update.runtime \in Nat
      BY DEF LoopTypeOK, Update
    <2>2. AppliedTypeOK'
      BY <1>7, <2>1 DEF AgentApply, AppliedTypeOK
    <2>3. LoopTypeOK'
      BY <1>7, NoUpdateType DEF AgentApply, LoopTypeOK
    <2>4. QED
      BY <1>7, <2>2, <2>3, TypeFrame DEF AgentApply, boundVars
  <1>8. CASE AgentReport
    <2>1. LoopTypeOK'
      BY <1>8 DEF AgentReport, LoopTypeOK
    <2>2. QED
      BY <1>8, <2>1, TypeFrame DEF AgentReport, boundVars
  <1>9. CASE AgentApplyFails
    <2>1. update.content \in [Parts -> Nat \cup {-1}]
      BY DEF LoopTypeOK, Update
    <2>2. AppliedTypeOK'
      BY <1>9, <2>1 DEF AgentApplyFails, AppliedTypeOK, offlineVars
    <2>3. StreamTypeOK' /\ LoopTypeOK'
      BY <1>9, ReconnectType DEF AgentApplyFails
    <2>4. {runtime, faults, applyFaults, restarts}' \subseteq Nat
      BY <1>9 DEF AgentApplyFails
    <2>5. QED
      BY <1>9, <2>2, <2>3, <2>4, TypeFrame DEF AgentApplyFails
  <1>10. CASE AgentRestart
    <2>1. AppliedTypeOK'
      BY <1>10 DEF AgentRestart, AppliedTypeOK, mapVars
    <2>2. StreamTypeOK' /\ LoopTypeOK'
      BY <1>10, ReconnectType DEF AgentRestart
    <2>3. {runtime, faults, applyFaults, restarts}' \subseteq Nat
      BY <1>10 DEF AgentRestart
    <2>4. QED
      BY <1>10, <2>1, <2>2, <2>3, TypeFrame DEF AgentRestart
  <1>11. CASE StreamFails
    <2>1. StreamTypeOK'
      BY <1>11, StreamType
    <2>2. {runtime, faults, applyFaults, restarts}' \subseteq Nat
      BY <1>11 DEF StreamFails
    <2>3. QED
      BY <1>11, <2>1, <2>2, TypeFrame DEF StreamFails, agentVars
  <1>12. ConnectionFault => AgentFailure
    BY DEF ConnectionFault
  <1>13. AgentStreamEnds \/ FetchPageRefused => AgentFailure
    BY DEF AgentStreamEnds, FetchPageRefused
  <1>14. QED
    BY <1>1, <1>2, <1>3, <1>4, <1>5, <1>6, <1>7, <1>8, <1>9, <1>10, <1>11, <1>12, <1>13
    DEF AgentStep, Fault, AgentConnectFails, AgentStreamFails, FetchPageFails,
        AgentReportFails

(***************************************************************************)
(* Every state of the protocol has the types its variables are meant to    *)
(* have: indices stay within the loading orders, the channel within its    *)
(* capacity, and no version falls below -1.                                *)
(***************************************************************************)
THEOREM TypeCorrect == Spec => []TypeOK
  <1>1. Init => TypeOK
    BY InitType
  <1>2. TypeOK /\ [Next]_vars => TypeOK'
    <2> SUFFICES ASSUME TypeOK, [Next]_vars PROVE TypeOK'
      OBVIOUS
    <2> USE DEF TypeOK
    <2>1. CASE Write
      BY <2>1, StoreTypeStep, TypeFrame DEF Write, agentVars, boundVars
    <2>2. CASE RuntimeChange
      <3>1. runtime' \in Nat
        BY <2>2 DEF RuntimeChange
      <3>2. QED
        BY <2>2, <3>1, TypeFrame DEF RuntimeChange, agentVars, boundVars
    <2>3. CASE StreamStep
      <3>1. StreamTypeOK'
        BY <2>3, StreamType
      <3>2. UNCHANGED streamRest
        BY <2>3 DEF StreamStep, StreamReadVersion, StreamNothingNew, StreamReadRuntime,
                    StreamReadSnapshotVersion, StreamLoadTable, StreamPush
      <3>3. QED
        BY <3>1, <3>2, TypeFrame DEF streamRest, agentVars, boundVars
    <2>4. CASE AgentStep \/ Fault \/ AgentRestart
      BY <2>4, AgentType
    <2>5. CASE UNCHANGED vars
      BY <2>5, TypeFrame DEF vars, agentVars, boundVars
    <2>6. QED
      BY <2>1, <2>2, <2>3, <2>4, <2>5 DEF Next
  <1>3. QED
    BY <1>1, <1>2, PTL DEF Spec

-----------------------------------------------------------------------------
(* The database.                                                            *)

\* What a step of the database may do to what was read before it: versions do
\* not go back, and a part that changes is newer than any version read so far.
Moves ==
    /\ dbVersion' >= dbVersion
    /\ \A p \in Parts : dbContent'[p] = dbContent[p] \/ dbContent'[p] > dbVersion

(***************************************************************************)
(* With at most one writer at work, what it read is still the version when *)
(* it writes, so a commit numbers itself with the version it installs.     *)
(***************************************************************************)
LEMMA StoreStep ==
  ASSUME Serialised, StoreTypeOK, StoreInv, StoreNext
  PROVE  StoreInv' /\ Moves
  <1>1. PICK w \in Writers :
           \/ \E parts \in ChangeSets : WriterBegin(w, parts)
           \/ WriterReadVersion(w)
           \/ WriterCommit(w)
           \/ WriterAbort(w)
           \/ BumpRead(w)
           \/ BumpWrite(w)
    BY DEF StoreNext
  <1> USE DEF Serialised, StoreTypeOK, StoreInv, Moves, Busy, InTxn, InBump
  <1>2. CASE \E parts \in ChangeSets : WriterBegin(w, parts)
    <2>1. PICK parts \in ChangeSets : WriterBegin(w, parts)
      BY <1>2
    <2>2. QED
      BY <2>1 DEF WriterBegin
  <1>3. CASE WriterReadVersion(w)
    BY <1>3 DEF WriterReadVersion
  <1>4. CASE WriterCommit(w)
    BY <1>4 DEF WriterCommit, Idle
  <1>5. CASE WriterAbort(w)
    BY <1>5 DEF WriterAbort, Idle
  <1>6. CASE BumpRead(w)
    BY <1>6 DEF BumpRead
  <1>7. CASE BumpWrite(w)
    BY <1>7 DEF BumpWrite, Idle
  <1>8. QED
    BY <1>1, <1>2, <1>3, <1>4, <1>5, <1>6, <1>7

LEMMA StoreFrame ==
  ASSUME StoreTypeOK, StoreInv, UNCHANGED storeVars
  PROVE  StoreInv' /\ Moves
  BY DEF StoreTypeOK, StoreInv, Moves, Busy, InTxn, InBump, storeVars

-----------------------------------------------------------------------------
(* What was read from the database stays good while the database moves on.  *)

LEMMA FreshLater ==
  ASSUME StoreTypeOK, StoreTypeOK', Moves,
         NEW v \in Int, v <= dbVersion, NEW p \in Parts, NEW c, Fresh(v, p, c)
  PROVE  c = dbContent'[p] \/ v < dbContent'[p]
  BY DEF StoreTypeOK, Moves, Fresh

LEMMA PartsOfOrders ==
  /\ {LoadOrder[i] : i \in 1..Len(LoadOrder)} \subseteq Parts
  /\ \A n \in 0..Len(LoadOrder) : {LoadOrder[i] : i \in 1..n} \subseteq Parts
  /\ \A n \in 0..Len(PageOrder) : {PageOrder[i] : i \in 1..n} \subseteq Parts
  /\ Parts = {LoadOrder[i] : i \in 1..Len(LoadOrder)} \cup {PageOrder[i] : i \in 1..Len(PageOrder)}
  BY Orders

LEMMA PrefixGrows ==
  ASSUME NEW s, NEW n \in Nat
  PROVE  {s[i] : i \in 1..(n + 1)} = {s[i] : i \in 1..n} \cup {s[n + 1]}
  <1>1. \A x : x \in 1..(n + 1) <=> x \in 1..n \/ x = n + 1
    OBVIOUS
  <1>2. QED
    BY <1>1

LEMMA FreshPartsLater ==
  ASSUME StoreTypeOK, StoreTypeOK', Moves, NEW u \in Update, NEW S \in SUBSET Parts,
         u.snapshotVersion <= dbVersion, FreshParts(u, S)
  PROVE  FreshParts(u, S)'
  <1>1. u.snapshotVersion \in Int
    BY DEF Update
  <1>2. SUFFICES ASSUME NEW p \in S
                 PROVE  \/ u.content[p] = dbContent'[p]
                        \/ u.snapshotVersion < dbContent'[p]
    BY DEF FreshParts, Fresh
  <1>3. p \in Parts /\ Fresh(u.snapshotVersion, p, u.content[p])
    BY DEF FreshParts
  <1>4. QED
    BY <1>1, <1>3, FreshLater

\* Sound of an update u that was there before the step, in the state after it.
SoundAfter(u) ==
    /\ u.version \in 1..cursorVersion'
    /\ u.snapshotVersion \in u.version..dbVersion'
    /\ \A p \in {LoadOrder[i] : i \in 1..Len(LoadOrder)} :
          u.content[p] = dbContent'[p] \/ u.snapshotVersion < dbContent'[p]
    /\ Before(appliedVersion', u.version)

LEMMA SoundLater ==
  ASSUME StoreTypeOK, StoreTypeOK', Moves, NEW u \in Update, Sound(u),
         cursorVersion \in Int, cursorVersion' \in Int,
         cursorVersion <= cursorVersion',
         Before(appliedVersion', u.version)
  PROVE  SoundAfter(u)
  <1>1. u.version \in Nat /\ u.snapshotVersion \in Nat
    BY DEF Update
  <1>2. FreshParts(u, {LoadOrder[i] : i \in 1..Len(LoadOrder)})'
    <2> DEFINE S == {LoadOrder[i] : i \in 1..Len(LoadOrder)}
    <2>1. FreshParts(u, S) /\ u.snapshotVersion \in u.version..dbVersion
      BY DEF Sound
    <2>2. u.snapshotVersion <= dbVersion
      BY <1>1, <2>1 DEF StoreTypeOK
    <2>3. S \in SUBSET Parts
      BY PartsOfOrders
    <2> HIDE DEF S
    <2>4. FreshParts(u, S)'
      BY <2>1, <2>2, <2>3, FreshPartsLater
    <2>5. QED
      BY <2>4 DEF S
  <1>3. u.version \in 1..cursorVersion' /\ u.snapshotVersion \in u.version..dbVersion'
    BY <1>1 DEF Sound, Moves, StoreTypeOK
  <1>4. QED
    BY <1>2, <1>3 DEF SoundAfter, FreshParts, Fresh

\* The updates in the channel, in the state after a step.
LEMMA QueueAfter ==
  ASSUME \A i \in 1..Len(queue') : SoundAfter(queue'[i]),
         \A i, j \in 1..Len(queue') : i < j => Before(queue'[i].version, queue'[j].version)
  PROVE  QueueInv'
  BY DEF QueueInv, SoundAfter, Sound, FreshParts, Fresh, Before

LEMMA UpdateAfter ==
  ASSUME SoundAfter(update'),
         \A p \in FetchedParts' : \/ update'.content[p] = dbContent'[p]
                                  \/ update'.snapshotVersion < dbContent'[p],
         fetched' > 0 \/ agentPhase' = "page"
            => update'.snapshotVersion = update'.version,
         \A i \in 1..Len(queue') : Before(update'.version, queue'[i].version)
  PROVE  UpdateInv'
  BY DEF UpdateInv, SoundAfter, Sound, FreshParts, Fresh, Before

(***************************************************************************)
(* Each part of the invariant outlives a step that only moves the database *)
(* on.                                                                     *)
(***************************************************************************)
LEMMA BuildingFrame ==
  ASSUME TypeOK, StoreTypeOK', Moves, BuildingInv,
         UNCHANGED <<streamPhase, cursorVersion, building, loaded>>
  PROVE  BuildingInv'
  <1> USE DEF TypeOK, StreamTypeOK, StoreTypeOK
  <1>1. building.version \in Nat /\ building.snapshotVersion \in Nat
    BY DEF Update
  <1>2. LoadedParts \subseteq Parts /\ LoadedParts' = LoadedParts
    BY PartsOfOrders DEF LoadedParts
  <1>3. streamPhase = "tables" => FreshParts(building, LoadedParts)'
    <2>1. SUFFICES ASSUME streamPhase = "tables" PROVE FreshParts(building, LoadedParts)'
      OBVIOUS
    <2>2. building.snapshotVersion <= dbVersion /\ FreshParts(building, LoadedParts)
      BY <2>1, <1>1 DEF BuildingInv
    <2>3. \A p \in LoadedParts : \/ building.content[p] = dbContent'[p]
                                 \/ building.snapshotVersion < dbContent'[p]
      BY <1>1, <1>2, <2>2, FreshLater, SMTT(30) DEF FreshParts
    <2>4. QED
      BY <1>2, <2>3 DEF FreshParts, Fresh
  <1>4. QED
    BY <1>1, <1>3 DEF BuildingInv, Moves, Before

LEMMA QueueSoundLater ==
  ASSUME TypeOK, TypeOK', Moves, QueueInv,
         cursorVersion <= cursorVersion', appliedVersion' = appliedVersion
  PROVE  \A i \in 1..Len(queue) : SoundAfter(queue[i])
  <1>1. SUFFICES ASSUME NEW i \in 1..Len(queue) PROVE SoundAfter(queue[i])
    OBVIOUS
  <1>2. PICK u \in Update : u = queue[i]
    BY SMTT(30) DEF TypeOK, StreamTypeOK
  <1>3. Sound(u)
    BY <1>2 DEF QueueInv
  <1>4. Before(appliedVersion', u.version)
    BY <1>3 DEF Sound
  <1>5. SoundAfter(u)
    BY <1>3, <1>4, SoundLater, SMTT(30) DEF TypeOK, StreamTypeOK
  <1>6. QED
    BY <1>2, <1>5

LEMMA QueueFrame ==
  ASSUME TypeOK, TypeOK', Moves, QueueInv, queue' = queue,
         cursorVersion <= cursorVersion', appliedVersion' = appliedVersion
  PROVE  QueueInv'
  <1>1. \A i \in 1..Len(queue') : SoundAfter(queue'[i])
    BY QueueSoundLater
  <1>2. \A i, j \in 1..Len(queue') : i < j => Before(queue'[i].version, queue'[j].version)
    BY DEF QueueInv
  <1>3. QED
    BY <1>1, <1>2, QueueAfter

LEMMA UpdateSoundLater ==
  ASSUME TypeOK, TypeOK', Moves, UpdateInv, agentPhase \in {"fetching", "page"},
         cursorVersion <= cursorVersion', appliedVersion' = appliedVersion
  PROVE  /\ SoundAfter(update)
         /\ \A p \in FetchedParts : \/ update.content[p] = dbContent'[p]
                                    \/ update.snapshotVersion < dbContent'[p]
  <1>1. PICK u \in Update : u = update
    BY DEF TypeOK, LoopTypeOK
  <1>2. Sound(u) /\ FreshParts(u, FetchedParts)
    BY <1>1 DEF UpdateInv
  <1>3. Before(appliedVersion', u.version)
    BY <1>2 DEF Sound
  <1>4. SoundAfter(u)
    BY <1>2, <1>3, SoundLater DEF TypeOK, StreamTypeOK
  <1>5. FetchedParts \subseteq Parts
    BY PartsOfOrders DEF FetchedParts, TypeOK, LoopTypeOK
  <1>6. u.snapshotVersion \in Nat /\ u.snapshotVersion <= dbVersion
    BY <1>2 DEF Sound, Update, TypeOK, StoreTypeOK
  <1>7. \A p \in FetchedParts : \/ u.content[p] = dbContent'[p]
                                \/ u.snapshotVersion < dbContent'[p]
    BY <1>2, <1>5, <1>6, FreshLater DEF FreshParts, TypeOK
  <1>8. QED
    BY <1>1, <1>4, <1>7

LEMMA UpdateFrame ==
  ASSUME TypeOK, TypeOK', Moves, UpdateInv,
         UNCHANGED <<queue, update, fetched, agentPhase, appliedVersion>>,
         cursorVersion <= cursorVersion'
  PROVE  UpdateInv'
  <1>1. SUFFICES ASSUME agentPhase \in {"fetching", "page"} PROVE UpdateInv'
    BY DEF UpdateInv
  <1>2. SoundAfter(update') /\ FetchedParts' = FetchedParts
    BY <1>1, UpdateSoundLater DEF FetchedParts
  <1>3. \A p \in FetchedParts' : \/ update'.content[p] = dbContent'[p]
                                 \/ update'.snapshotVersion < dbContent'[p]
    BY <1>1, <1>2, UpdateSoundLater
  <1>4. \A i \in 1..Len(queue') : Before(update'.version, queue'[i].version)
    BY <1>1 DEF UpdateInv
  <1>5. fetched' > 0 \/ agentPhase' = "page" => update'.snapshotVersion = update'.version
    BY <1>1 DEF UpdateInv
  <1>6. QED
    BY <1>2, <1>3, <1>4, <1>5, UpdateAfter

LEMMA ConnectionFrame ==
  ASSUME TypeOK, TypeOK', Moves, ConnectionInv,
         UNCHANGED <<queue, streamPhase, cursorVersion, agentPhase, appliedVersion>>
  PROVE  ConnectionInv'
  BY DEF ConnectionInv, Connected, Moves, TypeOK, StreamTypeOK, StoreTypeOK

LEMMA AppliedFrame ==
  ASSUME TypeOK, TypeOK', Moves, AppliedInv,
         UNCHANGED <<appliedVersion, enforced, clean>>,
         agentPhase' = "exited" \/ agentPhase # "exited"
  PROVE  AppliedInv'
  <1>1. /\ appliedVersion \in Int
        /\ dbVersion \in Int
        /\ dbVersion' \in Int
    BY DEF TypeOK, AppliedTypeOK, StoreTypeOK
  <1>2. clean => \A p \in Parts : \/ enforced[p] = dbContent'[p]
                                  \/ appliedVersion < dbContent'[p]
    BY <1>1, FreshLater DEF AppliedInv, TypeOK
  <1>3. QED
    BY <1>1, <1>2 DEF AppliedInv, Fresh, Moves

(***************************************************************************)
(* A subscription that ends leaves nothing to be wrong about.              *)
(***************************************************************************)
LEMMA DropInv ==
  ASSUME DropStream
  PROVE  BuildingInv' /\ QueueInv'
  BY DEF DropStream, BuildingInv, QueueInv

LEMMA LeaveInv ==
  ASSUME DropStream, agentPhase' \in {"connecting", "exited"}
  PROVE  UpdateInv' /\ ConnectionInv'
  BY DEF DropStream, UpdateInv, ConnectionInv, Connected

(***************************************************************************)
(* Before is a strict order, or with runtime CIDRs a total one.            *)
(***************************************************************************)
LEMMA BeforeOrder ==
  ASSUME NEW a \in Int, NEW b \in Int, NEW c \in Int
  PROVE  /\ Before(a, b) => a <= b
         /\ a <= b /\ RuntimeCidrs => Before(a, b)
         /\ a < b => Before(a, b)
         /\ ~RuntimeCidrs /\ Before(a, b) => a < b
         /\ a <= b /\ Before(b, c) => Before(a, c)
         /\ Before(a, b) /\ b <= c => Before(a, c)
  <1>1. CASE RuntimeCidrs
    BY <1>1 DEF Before
  <1>2. CASE ~RuntimeCidrs
    BY <1>2 DEF Before
  <1>3. QED
    BY <1>1, <1>2

-----------------------------------------------------------------------------
(* The steps of the stream task.                                            *)

LEMMA BuildingSteps ==
  ASSUME TypeOK, TypeOK', Moves, IInv, StreamStep \/ StreamFails
  PROVE  BuildingInv'
  <1> USE DEF TypeOK, StreamTypeOK, StoreTypeOK
  <1>1. CASE StreamReadVersion
    <2>1. building' = [NoUpdate EXCEPT !.version = dbVersion] /\ streamPhase' = "polled"
      BY <1>1 DEF StreamReadVersion
    <2>2. building'.version = dbVersion
      BY <2>1 DEF NoUpdate
    <2>3. UNCHANGED <<cursorVersion, dbVersion>>
      BY <1>1 DEF StreamReadVersion, streamRest, storeVars
    <2>4. Connected
      BY <1>1 DEF IInv, ConnectionInv, StreamReadVersion
    <2>5. QED
      BY <2>1, <2>2, <2>3, <2>4 DEF BuildingInv, IInv, StoreInv, ConnectionInv
  <1>2. CASE StreamNothingNew \/ StreamFails \/ StreamPush
    BY <1>2 DEF StreamNothingNew, StreamFails, StreamPush, BuildingInv
  <1>3. CASE StreamReadRuntime
    <2>1. building'.version = building.version /\ building.version \in Nat
      BY <1>3 DEF StreamReadRuntime, Update
    <2>2. UNCHANGED <<cursorVersion, dbVersion>> /\ streamPhase' = "snapshot"
      BY <1>3 DEF StreamReadRuntime, streamRest, storeVars
    <2>3. building.version \in 1..dbVersion /\ cursorVersion <= building.version
      BY <1>3 DEF StreamReadRuntime, IInv, BuildingInv
    <2>4. Before(cursorVersion, building.version)
      <3>1. ~(building.version <= cursorVersion) \/ RuntimeCidrs
        BY <1>3 DEF StreamReadRuntime, Unchanged
      <3>2. cursorVersion \in Int /\ building.version \in Int
        BY <2>1, SMTT(30)
      <3>3. cursorVersion < building.version \/ RuntimeCidrs
        BY <3>1, <3>2, SMTT(30)
      <3>4. QED
        BY <2>3, <3>2, <3>3, BeforeOrder
    <2>5. QED
      BY <2>1, <2>2, <2>3, <2>4 DEF BuildingInv, Before
  <1>4. CASE StreamReadSnapshotVersion
    <2>1. /\ building'.version = building.version
          /\ building'.snapshotVersion = dbVersion
          /\ building.version \in Nat
      BY <1>4 DEF StreamReadSnapshotVersion, Update
    <2>2. UNCHANGED <<cursorVersion, dbVersion>> /\ streamPhase' = "tables" /\ loaded' = 0
      BY <1>4 DEF StreamReadSnapshotVersion, streamRest, storeVars
    <2>3. LoadedParts' = {}
      BY <2>2 DEF LoadedParts
    <2>4. /\ building.version \in 1..dbVersion
          /\ cursorVersion <= building.version
          /\ Before(cursorVersion, building.version)
      BY <1>4 DEF StreamReadSnapshotVersion, IInv, BuildingInv
    <2>5. QED
      BY <2>1, <2>2, <2>3, <2>4, SMTT(30) DEF BuildingInv, Before, FreshParts
  <1>5. CASE StreamLoadTable
    <2> DEFINE part == LoadOrder[loaded + 1]
    <2>1. /\ building' = [building EXCEPT !.content[part] = dbContent[part]]
          /\ loaded' = loaded + 1
          /\ UNCHANGED <<cursorVersion, dbVersion, dbContent, streamPhase>>
          /\ streamPhase = "tables"
      BY <1>5 DEF StreamLoadTable, streamRest, storeVars
    <2>2. LoadedParts' = LoadedParts \cup {part} /\ LoadedParts \subseteq Parts
      <3>1. loaded \in Nat /\ loaded \in 0..Len(LoadOrder)
        BY Bounds
      <3>2. LoadedParts' = LoadedParts \cup {part}
        BY <2>1, <3>1, PrefixGrows DEF LoadedParts
      <3>3. LoadedParts \subseteq Parts
        BY <3>1, PartsOfOrders DEF LoadedParts
      <3>4. QED
        BY <3>2, <3>3
    <2>3. /\ building'.version = building.version
          /\ building'.snapshotVersion = building.snapshotVersion
          /\ \A p \in Parts : building'.content[p] = IF p = part THEN dbContent[part]
                                                                 ELSE building.content[p]
      BY <2>1 DEF Update
    <2>4. part \in Parts
      BY <1>5, <2>1, Orders DEF StreamLoadTable
    <2> HIDE DEF part
    <2>5. BuildingInv
      BY DEF IInv
    <2>6. FreshParts(building, LoadedParts)
      BY <2>1, <2>5 DEF BuildingInv
    <2>7. FreshParts(building, LoadedParts)'
      BY <2>1, <2>2, <2>3, <2>4, <2>6 DEF FreshParts, Fresh
    <2>8. QED
      BY <2>1, <2>3, <2>5, <2>7 DEF BuildingInv, Before
  <1>6. QED
    BY <1>1, <1>2, <1>3, <1>4, <1>5 DEF StreamStep

(***************************************************************************)
(* What the task pushes is sound, and follows what it pushed before.       *)
(***************************************************************************)
LEMMA PushSteps ==
  ASSUME TypeOK, TypeOK', Moves, IInv, StreamPush, UNCHANGED streamRest
  PROVE  QueueInv' /\ UpdateInv' /\ ConnectionInv'
  <1> USE DEF TypeOK, StreamTypeOK, StoreTypeOK
  <1>0. UNCHANGED <<update, fetched, agentPhase, appliedVersion, dbVersion, dbContent>>
    BY DEF streamRest, agentVars, storeVars
  <1>1. Connected /\ appliedVersion <= cursorVersion /\ cursorVersion <= dbVersion
    BY DEF StreamPush, IInv, ConnectionInv
  <1>2. appliedVersion \in Int /\ cursorVersion \in Int
    BY DEF AppliedTypeOK
  <1>3. CASE Len(queue) >= QueueCap
    <2>1. UNCHANGED <<queue, cursorVersion>>
      BY <1>3, Bounds, LenProperties DEF StreamPush
    <2>2. QED
      BY <2>1, <1>0, <1>1, QueueFrame, UpdateFrame, SMTT(30) DEF IInv, ConnectionInv, Connected
  <1>4. CASE Len(queue) < QueueCap
    <2> DEFINE u == building
    <2>1. /\ queue' = Append(queue, u)
          /\ cursorVersion' = u.version
          /\ u \in Update
          /\ u.version \in Nat /\ u.snapshotVersion \in Nat
      <3>1. Len(queue) \in Int /\ QueueCap \in Int
        BY Bounds, LenProperties
      <3>2. ~(Len(queue) >= QueueCap)
        BY <1>4, <3>1, SMTT(30)
      <3>3. u.version \in Nat /\ u.snapshotVersion \in Nat
        BY DEF Update
      <3>4. QED
        BY <3>2, <3>3 DEF StreamPush
    <2>6. Before(cursorVersion, u.version)
      BY DEF StreamPush, IInv, BuildingInv
    <2>7. u.version \in Int
      BY <2>1, SMTT(30)
    <2>2. /\ u.version \in 1..dbVersion
          /\ u.snapshotVersion \in u.version..dbVersion
          /\ FreshParts(u, {LoadOrder[i] : i \in 1..Len(LoadOrder)})
      BY DEF StreamPush, IInv, BuildingInv, LoadedParts
    <2>3. cursorVersion <= cursorVersion'
      <3>2. cursorVersion <= u.version
        BY ONLY <1>2, <2>6, <2>7, BeforeOrder
      <3>3. QED
        BY <2>1, <3>2
    <2>4. Before(appliedVersion, u.version)
      BY ONLY <1>1, <1>2, <2>6, <2>7, BeforeOrder
    <2>5. SoundAfter(u)
      BY <1>0, <2>1, <2>2, <2>4, SMTT(30) DEF SoundAfter, FreshParts, Fresh
    <2>8. /\ Len(queue) \in Nat
          /\ Len(queue') = Len(queue) + 1
          /\ \A i \in 1..Len(queue) : queue'[i] = queue[i]
          /\ queue'[Len(queue) + 1] = u
      BY <2>1, AppendProperties, LenProperties
    <2>9. QueueInv'
      <3>1. \A i \in 1..Len(queue) : SoundAfter(queue[i])
        BY <1>0, <2>3, QueueSoundLater DEF IInv
      <3>2. \A i \in 1..Len(queue') : SoundAfter(queue'[i])
        BY ONLY <2>5, <2>8, <3>1
      <3>3. \A i \in 1..Len(queue) : Before(queue[i].version, u.version)
        <4>1. SUFFICES ASSUME NEW i \in 1..Len(queue) PROVE Before(queue[i].version, u.version)
          OBVIOUS
        <4>2. queue[i] \in Update
          BY SMTT(30)
        <4>3. queue[i].version \in Int
          BY ONLY <4>2 DEF Update
        <4>4. queue[i].version \in 1..cursorVersion
          BY DEF IInv, QueueInv, Sound
        <4>5. queue[i].version <= cursorVersion
          BY ONLY <1>2, <4>3, <4>4
        <4>6. QED
          BY ONLY <1>2, <2>6, <2>7, <4>3, <4>5, BeforeOrder
      <3>4. \A i, j \in 1..Len(queue) : i < j => Before(queue[i].version, queue[j].version)
        BY DEF IInv, QueueInv
      <3>5. \A i, j \in 1..Len(queue') : i < j => Before(queue'[i].version, queue'[j].version)
        BY ONLY <2>8, <3>3, <3>4
      <3>6. QED
        BY <3>2, <3>5, QueueAfter
    <2>10. UpdateInv'
      <3>1. SUFFICES ASSUME agentPhase \in {"fetching", "page"} PROVE UpdateInv'
        BY <1>0 DEF UpdateInv
      <3>2. UpdateInv
        BY DEF IInv
      <3>3. SoundAfter(update') /\ FetchedParts' = FetchedParts
        BY <1>0, <2>3, <3>1, <3>2, UpdateSoundLater DEF FetchedParts
      <3>4. \A p \in FetchedParts' : \/ update'.content[p] = dbContent'[p]
                                     \/ update'.snapshotVersion < dbContent'[p]
        BY <1>0, <2>3, <3>1, <3>2, <3>3, UpdateSoundLater
      <3>5. update.version \in Int /\ update.version <= cursorVersion
        BY <1>2, <3>1, <3>2 DEF UpdateInv, Sound, Update, LoopTypeOK
      <3>6. Before(update.version, u.version)
        BY ONLY <1>2, <2>6, <2>7, <3>5, BeforeOrder
      <3>7. \A i \in 1..Len(queue) : Before(update.version, queue[i].version)
        BY <3>1, <3>2 DEF UpdateInv
      <3>8. \A i \in 1..Len(queue') : Before(update'.version, queue'[i].version)
        BY ONLY <1>0, <2>8, <3>6, <3>7
      <3>9. fetched' > 0 \/ agentPhase' = "page" => update'.snapshotVersion = update'.version
        BY <1>0, <3>1, <3>2 DEF UpdateInv
      <3>10. QED
        BY <3>3, <3>4, <3>8, <3>9, UpdateAfter
    <2>11. ConnectionInv'
      <3>1. Connected' /\ appliedVersion' = appliedVersion /\ dbVersion' = dbVersion
        BY <1>0, <1>1 DEF Connected
      <3>2. appliedVersion <= cursorVersion' /\ cursorVersion' <= dbVersion
        <4>1. dbVersion \in Int /\ u.version \in 1..dbVersion /\ cursorVersion' = u.version
          BY <2>1, <2>2
        <4>2. QED
          BY ONLY <1>1, <1>2, <2>3, <2>7, <4>1
      <3>3. QED
        BY <3>1, <3>2 DEF ConnectionInv
    <2>12. QED
      BY <2>9, <2>10, <2>11
  <1>5. QED
    BY <1>3, <1>4, Bounds, LenProperties

LEMMA StreamSteps ==
  ASSUME TypeOK, TypeOK', IInv, StreamStep \/ StreamFails
  PROVE  IInv'
  <1>1. UNCHANGED <<storeVars, agentVars>> /\ (StreamStep => UNCHANGED streamRest)
    BY DEF StreamStep, StreamFails, StreamReadVersion, StreamNothingNew, StreamReadRuntime,
           StreamReadSnapshotVersion, StreamLoadTable, StreamPush, streamRest, boundVars
  <1>2. StoreInv' /\ Moves
    BY <1>1, StoreFrame DEF IInv, TypeOK
  <1>3. BuildingInv'
    BY <1>2, BuildingSteps
  <1>4. AppliedInv'
    BY <1>1, <1>2, AppliedFrame DEF IInv, agentVars, mapVars
  <1>5. CASE StreamPush
    BY <1>1, <1>2, <1>3, <1>4, <1>5, PushSteps DEF IInv, StreamStep
  <1>6. CASE ~StreamPush
    <2>1. UNCHANGED <<queue, cursorVersion>>
      BY <1>6 DEF StreamStep, StreamFails, StreamReadVersion, StreamNothingNew,
                  StreamReadRuntime, StreamReadSnapshotVersion, StreamLoadTable
    <2>2. cursorVersion <= cursorVersion'
      BY <2>1 DEF TypeOK, StreamTypeOK
    <2>3. QueueInv' /\ UpdateInv'
      BY <1>1, <1>2, <2>1, <2>2, QueueFrame, UpdateFrame DEF IInv, agentVars
    <2>4. ConnectionInv'
      <3>1. streamPhase # "none"
        BY <1>6 DEF StreamStep, StreamFails, StreamReadVersion, StreamNothingNew,
                    StreamReadRuntime, StreamReadSnapshotVersion, StreamLoadTable
      <3>2. Connected /\ Connected'
        BY <1>1, <3>1 DEF IInv, ConnectionInv, Connected, agentVars
      <3>3. QED
        BY <1>1, <2>1, <3>2 DEF IInv, ConnectionInv, agentVars, storeVars
    <2>5. QED
      BY <1>2, <1>3, <1>4, <2>3, <2>4 DEF IInv
  <1>7. QED
    BY <1>5, <1>6

-----------------------------------------------------------------------------
(* The steps of the agent.                                                  *)

(***************************************************************************)
(* A failure either keeps the maps, clears them, or leaves the process     *)
(* dead with half-cleared ones.                                            *)
(***************************************************************************)
LEMMA FailureInv ==
  ASSUME TypeOK, TypeOK', IInv, Failure, UNCHANGED storeVars, agentPhase # "exited"
  PROVE  IInv'
  <1>1. StoreInv' /\ Moves
    BY StoreFrame DEF IInv, TypeOK
  <1>2. DropStream /\ agentPhase' \in {"connecting", "exited"}
    BY DEF Failure, Reconnect
  <1>3. BuildingInv' /\ QueueInv' /\ UpdateInv' /\ ConnectionInv'
    BY <1>2, DropInv, LeaveInv
  <1>4. AppliedInv'
    <2>1. dbVersion' = dbVersion /\ dbContent' = dbContent /\ dbVersion >= 1
          /\ dbVersion \in Int /\ dbContent \in [Parts -> Nat]
      BY DEF storeVars, IInv, StoreInv, TypeOK, StoreTypeOK
    <2>2. CASE UNCHANGED <<appliedVersion, mapVars>>
      BY <1>1, <2>2, AppliedFrame DEF IInv, mapVars
    <2>3. CASE appliedVersion' = -1 /\ clean' = TRUE
      BY <2>1, <2>3 DEF AppliedInv, Fresh
    <2>4. CASE UNCHANGED appliedVersion /\ clean' = FALSE /\ agentPhase' = "exited"
      BY <2>1, <2>4 DEF AppliedInv, IInv
    <2>5. QED
      BY <2>2, <2>3, <2>4 DEF Failure
  <1>5. QED
    BY <1>1, <1>3, <1>4 DEF IInv

LEMMA UpdateVersions ==
  \A u \in Update : u.version \in Nat /\ u.snapshotVersion \in Nat
  BY DEF Update

LEMMA SubscribeInv ==
  ASSUME TypeOK, TypeOK', IInv, AgentSubscribe
  PROVE  IInv'
  <1>1. StoreInv' /\ Moves
    BY StoreFrame DEF IInv, TypeOK, AgentSubscribe
  <1>2. queue = <<>> /\ queue' = <<>>
    BY DEF AgentSubscribe, IInv, ConnectionInv, Connected
  <1>3. BuildingInv' /\ QueueInv' /\ UpdateInv'
    BY <1>2 DEF AgentSubscribe, BuildingInv, QueueInv, UpdateInv
  <1>4. AppliedInv'
    BY <1>1, AppliedFrame DEF IInv, AgentSubscribe, mapVars
  <1>5. ConnectionInv'
    <2>1. /\ appliedVersion \in Int
          /\ cursorVersion' = appliedVersion
          /\ appliedVersion' = appliedVersion
          /\ dbVersion' = dbVersion
          /\ Connected'
      BY DEF AgentSubscribe, TypeOK, AppliedTypeOK, storeVars, Connected
    <2>2. appliedVersion <= dbVersion
      BY DEF IInv, AppliedInv
    <2>3. QED
      BY <2>1, <2>2 DEF ConnectionInv
  <1>6. QED
    BY <1>1, <1>3, <1>4, <1>5 DEF IInv

LEMMA ReceiveInv ==
  ASSUME TypeOK, TypeOK', IInv, AgentReceive
  PROVE  IInv'
  <1>1. StoreInv' /\ Moves /\ UNCHANGED storeVars
    BY StoreFrame DEF IInv, TypeOK, AgentReceive
  <1>2. UNCHANGED <<streamVars, appliedVersion, mapVars>>
    BY DEF AgentReceive
  <1>3. queue \in Seq(Update) /\ queue # <<>>
    BY DEF AgentReceive, TypeOK, StreamTypeOK
  <1>4. /\ Len(queue) \in Nat \ {0}
        /\ update' = queue[1]
        /\ Len(queue') = Len(queue) - 1
        /\ \A i \in 1..Len(queue') : queue'[i] = queue[i + 1]
    BY <1>3, HeadTailProperties, EmptySeq DEF AgentReceive
  <1>5. cursorVersion \in Int /\ cursorVersion <= cursorVersion'
    BY <1>2 DEF TypeOK, StreamTypeOK, streamVars
  <1>6. \A i \in 1..Len(queue) : SoundAfter(queue[i])
    BY <1>1, <1>2, <1>5, QueueSoundLater DEF IInv
  <1>7. \A i, j \in 1..Len(queue) : i < j => Before(queue[i].version, queue[j].version)
    BY DEF IInv, QueueInv
  <1>8. QueueInv'
    <2>1. \A i \in 1..Len(queue') : SoundAfter(queue'[i])
      BY ONLY <1>4, <1>6
    <2>2. \A i, j \in 1..Len(queue') : i < j => Before(queue'[i].version, queue'[j].version)
      BY ONLY <1>4, <1>7
    <2>3. QED
      BY <2>1, <2>2, QueueAfter
  <1>9. UpdateInv'
    <2>1. SoundAfter(update')
      BY <1>4, <1>6
    <2>2. FetchedParts' = {} /\ fetched' = 0 /\ agentPhase' = "fetching"
      BY DEF AgentReceive, FetchedParts
    <2>3. \A i \in 1..Len(queue') : Before(update'.version, queue'[i].version)
      BY ONLY <1>4, <1>7
    <2>4. QED
      BY <2>1, <2>2, <2>3, UpdateAfter
  <1>10. BuildingInv' /\ AppliedInv'
    BY <1>1, <1>2, BuildingFrame, AppliedFrame DEF IInv, TypeOK, streamVars, mapVars, AgentReceive
  <1>11. ConnectionInv'
    <2>1. Connected /\ Connected'
      BY DEF AgentReceive, Connected
    <2>2. QED
      BY <1>1, <1>2, <2>1 DEF IInv, ConnectionInv, streamVars, storeVars
  <1>12. QED
    BY <1>1, <1>8, <1>9, <1>10, <1>11 DEF IInv

(***************************************************************************)
(* A page is asked for only at the version of the update, which is then    *)
(* also the version of its snapshot.                                       *)
(***************************************************************************)
LEMMA PageInv ==
  ASSUME TypeOK, TypeOK', IInv, FetchPageCheck \/ FetchPageLoad
  PROVE  IInv'
  <1>1. StoreInv' /\ Moves /\ UNCHANGED storeVars
    BY StoreFrame DEF IInv, TypeOK, FetchPageCheck, FetchPageLoad
  <1>2. UNCHANGED <<streamVars, queue, appliedVersion, mapVars>>
    BY DEF FetchPageCheck, FetchPageLoad
  <1>3. agentPhase \in {"fetching", "page"} /\ agentPhase' \in {"fetching", "page"}
    BY DEF FetchPageCheck, FetchPageLoad
  <1>4. cursorVersion \in Int /\ cursorVersion <= cursorVersion'
    BY <1>2 DEF TypeOK, StreamTypeOK, streamVars
  <1>5. BuildingInv' /\ QueueInv' /\ AppliedInv'
    BY <1>1, <1>2, <1>3, <1>4, BuildingFrame, QueueFrame, AppliedFrame
    DEF IInv, TypeOK, streamVars, mapVars
  <1>6. ConnectionInv'
    BY <1>1, <1>2, <1>3 DEF IInv, ConnectionInv, Connected, streamVars, storeVars
  <1>7. UpdateInv
    BY DEF IInv
  <1>8. /\ SoundAfter(update)
        /\ \A p \in FetchedParts : \/ update.content[p] = dbContent'[p]
                                   \/ update.snapshotVersion < dbContent'[p]
    BY <1>1, <1>2, <1>3, <1>4, <1>7, UpdateSoundLater
  <1>9. \A i \in 1..Len(queue) : Before(update.version, queue[i].version)
    BY <1>3, <1>7 DEF UpdateInv
  <1>10. CASE FetchPageCheck
    <2>1. UNCHANGED <<update, fetched>>
      BY <1>10 DEF FetchPageCheck
    <2>2. update.version \in 1..cursorVersion /\ update.snapshotVersion \in update.version..dbVersion
      BY <1>3, <1>7 DEF UpdateInv, Sound
    <2>3. update \in Update /\ dbVersion \in Nat
      BY DEF TypeOK, LoopTypeOK, StoreTypeOK
    <2>4. update.version \in Nat /\ update.snapshotVersion \in Nat
      BY ONLY <2>3, UpdateVersions
    <2>5. update.version = dbVersion
      BY <1>4, <1>10, <2>2, <2>4 DEF FetchPageCheck, PageVersionCurrent
    <2>6. update.snapshotVersion = update.version
      BY ONLY <2>2, <2>3, <2>4, <2>5
    <2>7. UpdateInv'
      BY <1>2, <1>8, <1>9, <2>1, <2>6, UpdateAfter DEF FetchedParts
    <2>8. QED
      BY <1>1, <1>5, <1>6, <2>7 DEF IInv
  <1>11. CASE FetchPageLoad
    <2> DEFINE part == PageOrder[fetched + 1]
    <2>1. /\ update' = [update EXCEPT !.content[part] = dbContent[part]]
          /\ fetched' = fetched + 1
          /\ agentPhase = "page"
          /\ agentPhase' = "fetching"
      BY <1>11 DEF FetchPageLoad
    <2>2. update \in Update /\ fetched \in Nat /\ fetched \in 0..Len(PageOrder)
      BY Bounds DEF TypeOK, LoopTypeOK
    <2>3. FetchedParts' = FetchedParts \cup {part}
      BY <2>1, <2>2, PrefixGrows DEF FetchedParts
    <2>4. FetchedParts \subseteq Parts
      BY <2>2, PartsOfOrders DEF FetchedParts
    <2>5. part \in Parts
      BY <2>1, Bounds, Orders, SMTT(30) DEF TypeOK, LoopTypeOK
    <2>6. dbContent' = dbContent
      BY <1>1 DEF storeVars
    <2> HIDE DEF part
    <2>7. /\ update'.version = update.version
          /\ update'.snapshotVersion = update.snapshotVersion
          /\ \A p \in Parts : update'.content[p] = IF p = part THEN dbContent[part]
                                                               ELSE update.content[p]
      BY ONLY <2>1, <2>2 DEF Update
    <2>8. SoundAfter(update')
      BY <1>8, <2>5, <2>6, <2>7, PartsOfOrders DEF SoundAfter
    <2>9. \A p \in FetchedParts' : \/ update'.content[p] = dbContent'[p]
                                   \/ update'.snapshotVersion < dbContent'[p]
      BY <1>8, <2>3, <2>4, <2>5, <2>6, <2>7
    <2>10. update'.snapshotVersion = update'.version
      BY <1>7, <2>1, <2>7 DEF UpdateInv
    <2>11. \A i \in 1..Len(queue') : Before(update'.version, queue'[i].version)
      BY <1>2, <1>9, <2>7
    <2>12. UpdateInv'
      BY <2>8, <2>9, <2>10, <2>11, UpdateAfter
    <2>13. QED
      BY <1>1, <1>5, <1>6, <2>12 DEF IInv
  <1>12. QED
    BY <1>10, <1>11

(***************************************************************************)
(* An update whose pages are all fetched is one the maps may hold.         *)
(***************************************************************************)
LEMMA FetchedUpdate ==
  ASSUME TypeOK, IInv, agentPhase = "fetching", fetched = Len(PageOrder)
  PROVE  /\ update.version \in Int
         /\ update.snapshotVersion = update.version
         /\ Before(appliedVersion, update.version)
         /\ update.version <= cursorVersion
         /\ update.version <= dbVersion
         /\ \A p \in Parts : Fresh(update.version, p, update.content[p])
         /\ \A i \in 1..Len(queue) : Before(update.version, queue[i].version)
  <1>1. /\ Sound(update)
        /\ FreshParts(update, FetchedParts)
        /\ \A i \in 1..Len(queue) : Before(update.version, queue[i].version)
    BY DEF IInv, UpdateInv
  <1>2. update.snapshotVersion = update.version
    <2>1. fetched > 0
      BY Bounds
    <2>2. QED
      BY <2>1 DEF IInv, UpdateInv
  <1>3. update \in Update /\ cursorVersion \in Int /\ dbVersion \in Int
    BY DEF TypeOK, LoopTypeOK, StreamTypeOK, StoreTypeOK
  <1>4. update.version \in Int
    BY <1>3, UpdateVersions
  <1>5. update.version \in 1..cursorVersion /\ update.snapshotVersion \in update.version..dbVersion
    BY <1>1 DEF Sound
  <1>6. \A p \in Parts : Fresh(update.version, p, update.content[p])
    BY <1>1, <1>2, PartsOfOrders DEF Sound, FreshParts, FetchedParts
  <1>7. Before(appliedVersion, update.version)
    BY <1>1 DEF Sound
  <1>8. update.version <= cursorVersion /\ update.version <= dbVersion
    BY ONLY <1>2, <1>3, <1>4, <1>5
  <1>9. QED
    BY <1>1, <1>2, <1>4, <1>6, <1>7, <1>8

LEMMA ApplyInv ==
  ASSUME TypeOK, TypeOK', IInv, AgentApply
  PROVE  IInv'
  <1>1. StoreInv' /\ Moves /\ UNCHANGED storeVars
    BY StoreFrame DEF IInv, TypeOK, AgentApply
  <1>2. UNCHANGED <<streamVars, queue>>
    BY DEF AgentApply
  <1>3. agentPhase = "fetching" /\ fetched = Len(PageOrder) /\ agentPhase' = "reporting"
    BY DEF AgentApply
  <1>4. /\ appliedVersion' = update.version
        /\ update.version \in Int
        /\ update.version <= cursorVersion
        /\ update.version <= dbVersion
        /\ \A p \in Parts : Fresh(update.version, p, update.content[p])
        /\ \A i \in 1..Len(queue) : Before(update.version, queue[i].version)
    BY <1>3, FetchedUpdate DEF AgentApply
  <1>5. BuildingInv'
    BY <1>1, <1>2, BuildingFrame DEF IInv, TypeOK, streamVars
  <1>6. QueueInv'
    <2>1. \A i \in 1..Len(queue) : SoundAfter(queue[i])
      <3>1. SUFFICES ASSUME NEW i \in 1..Len(queue) PROVE SoundAfter(queue[i])
        OBVIOUS
      <3>2. PICK u \in Update : u = queue[i]
        BY SMTT(30) DEF TypeOK, StreamTypeOK
      <3>3. Sound(u)
        BY <3>2 DEF IInv, QueueInv
      <3>4. Before(appliedVersion', u.version)
        BY <1>4, <3>2
      <3>5. cursorVersion \in Int /\ cursorVersion' \in Int /\ cursorVersion <= cursorVersion'
        BY <1>2 DEF TypeOK, StreamTypeOK, streamVars
      <3>6. SoundAfter(u)
        BY <1>1, <3>3, <3>4, <3>5, SoundLater DEF TypeOK
      <3>7. QED
        BY <3>2, <3>6
    <2>2. \A i, j \in 1..Len(queue) : i < j => Before(queue[i].version, queue[j].version)
      BY DEF IInv, QueueInv
    <2>3. QED
      BY <1>2, <2>1, <2>2, QueueAfter
  <1>7. UpdateInv'
    BY <1>3 DEF UpdateInv
  <1>8. ConnectionInv'
    <2>1. Connected /\ Connected'
      BY <1>3 DEF Connected
    <2>2. QED
      BY <1>1, <1>2, <1>4, <2>1 DEF IInv, ConnectionInv, streamVars, storeVars
  <1>9. AppliedInv'
    <2>1. dbVersion' = dbVersion /\ dbContent' = dbContent
      BY <1>1 DEF storeVars
    <2>2. enforced' = update.content /\ clean' = TRUE
      BY DEF AgentApply
    <2>3. QED
      BY <1>4, <2>1, <2>2 DEF AppliedInv, Fresh
  <1>10. QED
    BY <1>1, <1>5, <1>6, <1>7, <1>8, <1>9 DEF IInv

(***************************************************************************)
(* A failed apply leaves the agent at a version older than the database's. *)
(***************************************************************************)
LEMMA ApplyFailsInv ==
  ASSUME TypeOK, TypeOK', IInv, AgentApplyFails
  PROVE  IInv'
  <1>1. StoreInv' /\ UNCHANGED storeVars
    BY StoreFrame DEF IInv, TypeOK, AgentApplyFails
  <1>2. DropStream /\ agentPhase' = "connecting"
    BY DEF AgentApplyFails, Reconnect
  <1>3. BuildingInv' /\ QueueInv' /\ UpdateInv' /\ ConnectionInv'
    BY <1>2, DropInv, LeaveInv
  <1>4. AppliedInv'
    <2>1. agentPhase = "fetching" /\ fetched = Len(PageOrder)
      BY DEF AgentApplyFails
    <2>2. /\ update.version \in Int
          /\ Before(appliedVersion, update.version)
          /\ update.version <= dbVersion
      BY <2>1, FetchedUpdate
    <2>3. appliedVersion \in Int /\ dbVersion \in Int
      BY DEF TypeOK, AppliedTypeOK, StoreTypeOK
    <2>4. ~RuntimeCidrs => appliedVersion < update.version
      BY ONLY <2>2, <2>3, BeforeOrder
    <2>5. appliedVersion' = appliedVersion /\ dbVersion' = dbVersion /\ clean' = FALSE
      BY <1>1 DEF AgentApplyFails, storeVars
    <2>6. appliedVersion <= dbVersion
      BY DEF IInv, AppliedInv
    <2>7. ~RuntimeCidrs => appliedVersion < dbVersion
      <3>1. SUFFICES ASSUME ~RuntimeCidrs PROVE appliedVersion < dbVersion
        OBVIOUS
      <3>2. appliedVersion < update.version
        BY <2>4, <3>1
      <3>3. QED
        BY ONLY <2>2, <2>3, <3>2
    <2>8. QED
      BY <2>5, <2>6, <2>7 DEF AppliedInv
  <1>5. QED
    BY <1>1, <1>3, <1>4 DEF IInv

LEMMA RestartInv ==
  ASSUME TypeOK, TypeOK', IInv, AgentRestart
  PROVE  IInv'
  <1>1. StoreInv' /\ UNCHANGED storeVars
    BY StoreFrame DEF IInv, TypeOK, AgentRestart
  <1>2. DropStream /\ agentPhase' = "connecting"
    BY DEF AgentRestart, Reconnect
  <1>3. BuildingInv' /\ QueueInv' /\ UpdateInv' /\ ConnectionInv'
    BY <1>2, DropInv, LeaveInv
  <1>4. AppliedInv'
    <2>1. /\ dbVersion' = dbVersion /\ dbContent' = dbContent
          /\ dbVersion >= 1 /\ dbVersion \in Int /\ dbContent \in [Parts -> Nat]
      BY <1>1 DEF storeVars, IInv, StoreInv, TypeOK, StoreTypeOK
    <2>2. appliedVersion' = -1
      BY DEF AgentRestart
    <2>3. QED
      BY <2>1, <2>2 DEF AppliedInv, Fresh
  <1>5. QED
    BY <1>1, <1>3, <1>4 DEF IInv

LEMMA QuietInv ==
  ASSUME TypeOK, TypeOK', IInv, AgentHeartbeat \/ AgentReport
  PROVE  IInv'
  <1>1. StoreInv' /\ Moves /\ UNCHANGED storeVars
    BY StoreFrame DEF IInv, TypeOK, AgentHeartbeat, AgentReport
  <1>2. /\ UNCHANGED <<streamVars, queue, appliedVersion, mapVars>>
        /\ agentPhase \in {"streaming", "reporting"} /\ agentPhase' = "streaming"
    BY DEF AgentHeartbeat, AgentReport
  <1>3. cursorVersion <= cursorVersion'
    BY <1>2 DEF TypeOK, StreamTypeOK, streamVars
  <1>4. BuildingInv' /\ QueueInv' /\ AppliedInv'
    BY <1>1, <1>2, <1>3, BuildingFrame, QueueFrame, AppliedFrame
    DEF IInv, TypeOK, streamVars, mapVars
  <1>5. UpdateInv' /\ ConnectionInv'
    BY <1>1, <1>2 DEF IInv, UpdateInv, ConnectionInv, Connected, streamVars, storeVars
  <1>6. QED
    BY <1>1, <1>4, <1>5 DEF IInv

-----------------------------------------------------------------------------
(* The theorems.                                                            *)

LEMMA InvInit == Init => IInv
  <1> SUFFICES ASSUME Init PROVE IInv
    OBVIOUS
  <1>1. StoreInv
    BY DEF Init, StoreInit, StoreInv, Busy, InTxn, InBump, Idle
  <1>2. BuildingInv /\ QueueInv /\ UpdateInv
    BY DEF Init, BuildingInv, QueueInv, UpdateInv
  <1>3. ConnectionInv
    BY DEF Init, ConnectionInv, Connected
  <1>4. AppliedInv
    BY DEF Init, StoreInit, AppliedInv, Fresh
  <1>5. QED
    BY <1>1, <1>2, <1>3, <1>4 DEF IInv

LEMMA InvNext ==
  ASSUME Serialised, TypeOK, TypeOK', IInv, [Next]_vars
  PROVE  IInv'
  <1>1. CASE Write \/ RuntimeChange \/ UNCHANGED vars
    <2>1. UNCHANGED <<streamVars, queue, agentVars>>
      BY <1>1 DEF Write, RuntimeChange, vars
    <2>2. StoreInv' /\ Moves
      BY <1>1, StoreStep, StoreFrame DEF Write, RuntimeChange, vars, IInv, TypeOK
    <2>3. cursorVersion <= cursorVersion'
      BY <2>1 DEF TypeOK, StreamTypeOK, streamVars
    <2>4. QED
      BY <2>1, <2>2, <2>3, BuildingFrame, QueueFrame, UpdateFrame, ConnectionFrame,
         AppliedFrame DEF IInv, TypeOK, streamVars, agentVars, mapVars
  <1>2. CASE StreamStep \/ StreamFails
    BY <1>2, StreamSteps
  <1>3. CASE \/ AgentConnectFails
             \/ AgentStreamFails
             \/ AgentStreamEnds
             \/ FetchPageRefused
             \/ FetchPageFails
             \/ AgentReportFails
    BY <1>3, FailureInv
    DEF AgentConnectFails, AgentStreamFails, AgentStreamEnds, FetchPageRefused,
        FetchPageFails, AgentReportFails, ConnectionFault
  <1>4. CASE AgentSubscribe
    BY <1>4, SubscribeInv
  <1>5. CASE AgentReceive
    BY <1>5, ReceiveInv
  <1>6. CASE FetchPageCheck \/ FetchPageLoad
    BY <1>6, PageInv
  <1>7. CASE AgentApply
    BY <1>7, ApplyInv
  <1>8. CASE AgentApplyFails
    BY <1>8, ApplyFailsInv
  <1>9. CASE AgentRestart
    BY <1>9, RestartInv
  <1>10. CASE AgentHeartbeat \/ AgentReport
    BY <1>10, QuietInv
  <1>11. QED
    BY <1>1, <1>2, <1>3, <1>4, <1>5, <1>6, <1>7, <1>8, <1>9, <1>10
    DEF Next, AgentStep, Fault

(***************************************************************************)
(* The inductive invariant holds wherever writers are serialised.          *)
(***************************************************************************)
THEOREM InvariantHolds ==
  ASSUME Serialised
  PROVE  Spec => []IInv
  <1>1. Init => IInv
    BY InvInit
  <1>2. TypeOK /\ TypeOK' /\ IInv /\ [Next]_vars => IInv'
    BY InvNext
  <1>3. QED
    BY <1>1, <1>2, TypeCorrect, PTL DEF Spec

(***************************************************************************)
(* With serialised writers, an agent whose applied version is the current  *)
(* one enforces the current policy, however the untransacted loads of      *)
(* load_policy and of the GeoIP pages interleave with commits, and         *)
(* whatever fails or restarts on the way.                                  *)
(***************************************************************************)
THEOREM AgentInSync ==
  ASSUME Serialised
  PROVE  Spec => []InSync
  <1>1. TypeOK /\ IInv => InSync
    <2>1. SUFFICES ASSUME TypeOK, IInv, clean, appliedVersion = dbVersion
                   PROVE  enforced = dbContent
      BY DEF InSync, Delivery!InSync
    <2>2. \A p \in Parts : enforced[p] = dbContent[p]
      <3>1. SUFFICES ASSUME NEW p \in Parts PROVE enforced[p] = dbContent[p]
        OBVIOUS
      <3>2. enforced[p] = dbContent[p] \/ dbVersion < dbContent[p]
        BY <2>1 DEF IInv, AppliedInv, Fresh
      <3>3. dbContent[p] <= dbVersion
        BY <2>1 DEF IInv, StoreInv
      <3>4. dbVersion \in Int /\ dbContent[p] \in Int
        BY <2>1 DEF TypeOK, StoreTypeOK
      <3>5. QED
        BY ONLY <3>2, <3>3, <3>4
    <2>3. enforced \in [Parts -> Nat \cup {-1}] /\ dbContent \in [Parts -> Nat]
      BY <2>1 DEF TypeOK, AppliedTypeOK, StoreTypeOK
    <2>4. QED
      BY <2>2, <2>3
  <1>2. QED
    BY <1>1, InvariantHolds, TypeCorrect, PTL

(***************************************************************************)
(* With serialised writers and no runtime CIDRs, an agent left with        *)
(* half-written maps is behind the database, so it is pushed a policy.     *)
(***************************************************************************)
THEOREM HalfWrittenIsRetried ==
  ASSUME Serialised
  PROVE  Spec => []PartialIsRetried
  <1>1. IInv => PartialIsRetried
    BY DEF IInv, AppliedInv, PartialIsRetried
  <1>2. QED
    BY <1>1, InvariantHolds, PTL

-----------------------------------------------------------------------------
(* Refinement.                                                              *)

deliveryView == <<dbVersion, dbContent, appliedVersion, enforced, clean>>

\* Commits are the abstract changes.
LEMMA StoreRefines ==
  ASSUME Serialised, StoreTypeOK, StoreInv, StoreNext,
         UNCHANGED <<appliedVersion, enforced, clean>>
  PROVE  [Delivery!DeliveryNext]_deliveryView
  <1>1. PICK w \in Writers :
           \/ \E parts \in ChangeSets : WriterBegin(w, parts)
           \/ WriterReadVersion(w)
           \/ WriterCommit(w)
           \/ WriterAbort(w)
           \/ BumpRead(w)
           \/ BumpWrite(w)
    BY DEF StoreNext
  <1>2. CASE WriterCommit(w)
    <2> DEFINE parts == txn[w].parts
    <2>1. parts \in ChangeSets /\ txn[w].seen = dbVersion
      BY <1>2 DEF StoreInv, WriterCommit, InTxn
    <2>2. /\ dbVersion' = dbVersion + 1
          /\ dbContent' = [p \in Parts |-> IF p \in parts THEN dbVersion + 1 ELSE dbContent[p]]
      BY <1>2, <2>1 DEF WriterCommit, StoreInv
    <2>3. Delivery!Change(parts)
      BY <2>2 DEF Delivery!Change
    <2>4. QED
      BY <2>1, <2>3 DEF Delivery!DeliveryNext
  <1>3. CASE BumpWrite(w)
    <2>1. dbVersion' = dbVersion + 1 /\ dbContent' = dbContent
      BY <1>3 DEF BumpWrite, InBump, StoreInv
    <2>2. dbContent' = [p \in Parts |-> IF p \in {} THEN dbVersion + 1 ELSE dbContent[p]]
      BY <2>1 DEF StoreTypeOK
    <2>3. Delivery!Change({})
      BY <2>1, <2>2 DEF Delivery!Change
    <2>4. QED
      BY <2>3 DEF Delivery!DeliveryNext
  <1>4. CASE ~WriterCommit(w) /\ ~BumpWrite(w)
    BY <1>1, <1>4
    DEF WriterBegin, WriterReadVersion, WriterAbort, BumpRead, deliveryView
  <1>5. QED
    BY <1>2, <1>3, <1>4

\* A handled failure clears the maps, spoils them, or leaves them alone.
LEMMA FailureRefines ==
  ASSUME Failure, UNCHANGED storeVars
  PROVE  [Delivery!DeliveryNext]_deliveryView
  <1>1. CASE UNCHANGED <<appliedVersion, mapVars>>
    BY <1>1 DEF deliveryView, mapVars, storeVars
  <1>2. CASE appliedVersion' = -1 /\ enforced' = Nothing /\ clean' = TRUE
    BY <1>2 DEF Delivery!DeliveryNext, Delivery!Clear, Delivery!Nothing, Nothing, storeVars
  <1>3. CASE clean' = FALSE /\ appliedVersion' = appliedVersion
    BY <1>3 DEF Delivery!DeliveryNext, Delivery!Spoil, storeVars
  <1>4. QED
    BY <1>1, <1>2, <1>3 DEF Failure

LEMMA StepRefines ==
  ASSUME Serialised, TypeOK, IInv, [Next]_vars
  PROVE  [Delivery!DeliveryNext]_deliveryView
  <1>1. CASE Write
    BY <1>1, StoreRefines DEF Write, IInv, TypeOK, agentVars, mapVars
  <1>2. CASE AgentApply
    <2>1. /\ appliedVersion' = update.version
          /\ update.version \in Int
          /\ Before(appliedVersion, update.version)
          /\ update.version <= dbVersion
          /\ \A p \in Parts : Fresh(update.version, p, update.content[p])
      BY <1>2, FetchedUpdate DEF AgentApply
    <2>2. appliedVersion \in Int
      BY DEF TypeOK, AppliedTypeOK
    <2>3. appliedVersion <= appliedVersion'
      BY ONLY <2>1, <2>2, BeforeOrder
    <2>4. enforced' = update.content /\ clean' = TRUE /\ UNCHANGED <<dbVersion, dbContent>>
      BY <1>2 DEF AgentApply, storeVars
    <2>5. Delivery!Deliver
      BY <2>1, <2>3, <2>4 DEF Delivery!Deliver, Delivery!FreshPart, Fresh
    <2>6. QED
      BY <2>5 DEF Delivery!DeliveryNext
  <1>3. CASE AgentApplyFails
    BY <1>3 DEF AgentApplyFails, Delivery!DeliveryNext, Delivery!Spoil, storeVars
  <1>4. CASE AgentRestart
    BY <1>4 DEF AgentRestart, Delivery!DeliveryNext, Delivery!Forget, mapVars, storeVars
  <1>5. CASE \/ AgentConnectFails
             \/ AgentStreamFails
             \/ AgentStreamEnds
             \/ FetchPageRefused
             \/ FetchPageFails
             \/ AgentReportFails
    BY <1>5, FailureRefines
    DEF AgentConnectFails, AgentStreamFails, AgentStreamEnds, FetchPageRefused,
        FetchPageFails, AgentReportFails, ConnectionFault
  <1>6. CASE UNCHANGED <<storeVars, appliedVersion, mapVars>>
    BY <1>6 DEF storeVars, mapVars, deliveryView
  <1>7. RuntimeChange \/ StreamStep \/ StreamFails \/ UNCHANGED vars
          => UNCHANGED <<storeVars, appliedVersion, mapVars>>
    BY DEF RuntimeChange, StreamStep, StreamFails, vars, agentVars, StreamReadVersion,
           StreamNothingNew, StreamReadRuntime, StreamReadSnapshotVersion, StreamLoadTable,
           StreamPush, streamRest
  <1>8. \/ AgentSubscribe
        \/ AgentHeartbeat
        \/ AgentReceive
        \/ FetchPageCheck
        \/ FetchPageLoad
        \/ AgentReport
        => UNCHANGED <<storeVars, appliedVersion, mapVars>>
    BY DEF AgentSubscribe, AgentHeartbeat, AgentReceive, FetchPageCheck, FetchPageLoad,
           AgentReport
  <1>9. QED
    BY <1>1, <1>2, <1>3, <1>4, <1>5, <1>6, <1>7, <1>8 DEF Next, AgentStep, Fault

(***************************************************************************)
(* With serialised writers, the stream, the page fetches, the retries and  *)
(* the offline handling together do what PolicyDelivery says: each step is *)
(* a change, a delivery of something at least as new as it claims, a       *)
(* spoiling, a clearing, a restart, or nothing.                            *)
(***************************************************************************)
THEOREM DeliveryImplemented ==
  ASSUME Serialised
  PROVE  Spec => ImplementsDelivery
  <1>1. Init => Delivery!DeliveryInit
    BY DEF Init, StoreInit, Delivery!DeliveryInit, Delivery!Nothing, Nothing
  <1>2. TypeOK /\ IInv /\ [Next]_vars => [Delivery!DeliveryNext]_(Delivery!deliveryVars)
    BY StepRefines DEF deliveryView, Delivery!deliveryVars
  <1>3. QED
    BY <1>1, <1>2, InvariantHolds, TypeCorrect, PTL
    DEF Spec, ImplementsDelivery, Delivery!DeliverySpec

-----------------------------------------------------------------------------
(***************************************************************************)
(* Offline handling: rules that were unloaded are gone, or what an apply   *)
(* wrote since stopped half-way.                                           *)
(***************************************************************************)
UnloadedStay == rulesUnloaded => enforced = Nothing \/ ~clean

\* What a failure that is counted leaves in the maps.
LEMMA FailureUnloads ==
  ASSUME UnloadedStay, Failure, TypeOK
  PROVE  /\ UnloadedStay'
         /\ UnloadRules /\ consecutiveFailures' >= FailureLimit
              => enforced' = Nothing \/ ~clean' \/ agentPhase' = "exited"
BY DEF UnloadedStay, Failure, ShouldUnload, Nothing, mapVars

\* Everything but a failure leaves the count or resets it.
LEMMA OtherStepsOffline ==
  ASSUME UnloadedStay, [Next]_vars
  PROVE  \/ Failure
         \/ UnloadedStay' /\ consecutiveFailures' \in {consecutiveFailures, 0}
  <1>1. CASE AgentApply
    BY <1>1 DEF AgentApply, UnloadedStay
  <1>2. CASE AgentApplyFails
    BY <1>2 DEF AgentApplyFails, UnloadedStay, offlineVars
  <1>3. CASE AgentRestart
    BY <1>3 DEF AgentRestart, UnloadedStay
  <1>4. CASE \/ AgentConnectFails
             \/ AgentStreamFails
             \/ AgentStreamEnds
             \/ FetchPageRefused
             \/ FetchPageFails
             \/ AgentReportFails
    BY <1>4
    DEF AgentConnectFails, AgentStreamFails, AgentStreamEnds, FetchPageRefused,
        FetchPageFails, AgentReportFails, ConnectionFault
  <1>5. CASE UNCHANGED <<mapVars, offlineVars>>
    BY <1>5 DEF UnloadedStay, mapVars, offlineVars, Nothing
  <1>6. Write \/ RuntimeChange \/ StreamStep \/ StreamFails \/ UNCHANGED vars
          => UNCHANGED <<mapVars, offlineVars>>
    BY DEF Write, RuntimeChange, StreamStep, StreamFails, vars, agentVars, StreamReadVersion,
           StreamNothingNew, StreamReadRuntime, StreamReadSnapshotVersion, StreamLoadTable,
           StreamPush, streamRest
  <1>7. \/ AgentSubscribe
        \/ AgentReceive
        \/ FetchPageCheck
        \/ FetchPageLoad
        \/ AgentReport
        => UNCHANGED <<mapVars, offlineVars>>
    BY DEF AgentSubscribe, AgentReceive, FetchPageCheck, FetchPageLoad, AgentReport
  <1>8. CASE AgentHeartbeat
    BY <1>8 DEF AgentHeartbeat, UnloadedStay, mapVars, Nothing
  <1>9. QED
    BY <1>1, <1>2, <1>3, <1>4, <1>5, <1>6, <1>7, <1>8 DEF Next, AgentStep, Fault

(***************************************************************************)
(* With offline mode unload-rules, no failure at or past the limit leaves  *)
(* rules in the maps, other than those an apply wrote part-way since the   *)
(* unload (handle_control_plane_failure).                                  *)
(***************************************************************************)
THEOREM RulesAreUnloaded == Spec => UnloadedAtLimit
  <1>1. Init => UnloadedStay
    BY DEF Init, UnloadedStay
  <1>2. TypeOK /\ UnloadedStay /\ [Next]_vars => UnloadedStay'
    BY FailureUnloads, OtherStepsOffline
  <1>3. TypeOK /\ UnloadedStay /\ [Next]_vars
          => [/\ UnloadRules
              /\ consecutiveFailures' > consecutiveFailures
              /\ consecutiveFailures' >= FailureLimit
              => enforced' = Nothing \/ ~clean' \/ agentPhase' = "exited"]_vars
    <2> SUFFICES ASSUME TypeOK, UnloadedStay, [Next]_vars,
                        UnloadRules,
                        consecutiveFailures' > consecutiveFailures,
                        consecutiveFailures' >= FailureLimit
                 PROVE  enforced' = Nothing \/ ~clean' \/ agentPhase' = "exited"
      OBVIOUS
    <2>1. consecutiveFailures \in Nat
      BY DEF TypeOK, AppliedTypeOK
    <2>2. CASE Failure
      BY <2>2, FailureUnloads
    <2>3. CASE consecutiveFailures' \in {consecutiveFailures, 0}
      BY <2>1, <2>3
    <2>4. QED
      BY <2>2, <2>3, OtherStepsOffline
  <1>4. QED
    BY <1>1, <1>2, <1>3, TypeCorrect, PTL DEF Spec, UnloadedAtLimit
=============================================================================
