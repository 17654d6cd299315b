----------------------------- MODULE PolicySync -----------------------------
(***************************************************************************)
(* How a policy travels from the database to the XDP maps of one agent:    *)
(* the control plane's stream task polls the version, loads a snapshot     *)
(* table by table and pushes it; the agent fetches the GeoIP pages the     *)
(* push leaves out, writes the maps, and counts control-plane failures     *)
(* towards unloading everything.                                           *)
(***************************************************************************)
EXTENDS PolicyStore, Sequences

CONSTANTS
    LoadOrder,       \* the parts the stream task loads, in the order it does
    PageOrder,       \* the parts the agent fetches page by page
    QueueCap,        \* updates the stream channel holds (8 in the code)
    RuntimeCidrs,    \* TRUE: runtime trusted CIDRs are configured
    UnloadRules,     \* --offline-mode unload-rules (TRUE) or keep-rules
    FailureLimit,    \* --offline-failure-limit
    MaxRuntime,      \* bound on changes of the runtime CIDRs
    MaxFaults,       \* bound on connection faults
    MaxApplyFaults,  \* bound on failures of writing the maps
    MaxRestarts      \* bound on agent restarts

Elements(s) == {s[i] : i \in DOMAIN s}

ASSUME SyncAssumption ==
    /\ LoadOrder \in Seq(Parts)
    /\ PageOrder \in Seq(Parts)
    /\ Len(PageOrder) >= 1
    /\ Parts = Elements(LoadOrder) \cup Elements(PageOrder)
    /\ Elements(LoadOrder) \cap Elements(PageOrder) = {}
    /\ QueueCap \in Nat \ {0}
    /\ RuntimeCidrs \in BOOLEAN
    /\ UnloadRules \in BOOLEAN
    /\ FailureLimit \in Nat
    /\ {MaxRuntime, MaxFaults, MaxApplyFaults, MaxRestarts} \subseteq Nat

VARIABLES
    runtime,              \* revision of the runtime trusted CIDRs
    streamPhase,          \* where the stream task of the subscription is
    cursorVersion,        \* PolicyStreamCursor.version
    cursorRuntime,        \* PolicyStreamCursor.runtime_fingerprint, -1: None
    building,             \* the update the stream task is building
    loaded,               \* parts of LoadOrder it has loaded
    queue,                \* updates pushed and not yet taken by the agent
    agentPhase,           \* where the agent's main loop is
    update,               \* the update the agent is processing
    fetched,              \* pages of PageOrder it has fetched
    appliedVersion,       \* AgentRuntime.applied_version
    enforced,             \* [Parts -> what the maps hold], -1: no entries
    enforcedRuntime,      \* runtime CIDRs the maps hold, -1: none
    clean,                \* FALSE: the last apply stopped half-way
    consecutiveFailures,  \* OfflinePolicyState.consecutive_failures
    rulesUnloaded,        \* OfflinePolicyState.rules_unloaded
    faults, applyFaults, restarts  \* spent out of the bounds

streamVars == <<streamPhase, cursorVersion, cursorRuntime, building, loaded>>
mapVars == <<enforced, enforcedRuntime, clean>>
offlineVars == <<consecutiveFailures, rulesUnloaded>>
boundVars == <<faults, applyFaults, restarts>>
agentVars == <<agentPhase, update, fetched, appliedVersion, mapVars, offlineVars>>
vars == <<storeVars, runtime, streamVars, queue, agentVars, boundVars>>

-----------------------------------------------------------------------------
Nothing == [p \in Parts |-> -1]

NoUpdate == [version |-> 0, snapshotVersion |-> 0, content |-> Nothing, runtime |-> 0]

\* version: read by build_policy_update.  snapshotVersion: read again as the
\* first statement of load_policy, and what the agent reports as applied.
Update == [version : Nat, snapshotVersion : Nat,
           content : [Parts -> Nat \cup {-1}], runtime : Nat]

Init ==
    /\ StoreInit
    /\ runtime = 0
    /\ streamPhase = "none"
    /\ cursorVersion = -1
    /\ cursorRuntime = -1
    /\ building = NoUpdate
    /\ loaded = 0
    /\ queue = <<>>
    /\ agentPhase = "connecting"
    /\ update = NoUpdate
    /\ fetched = 0
    /\ appliedVersion = -1
    /\ enforced = Nothing
    /\ enforcedRuntime = -1
    /\ clean = TRUE
    /\ consecutiveFailures = 0
    /\ rulesUnloaded = FALSE
    /\ faults = 0
    /\ applyFaults = 0
    /\ restarts = 0

-----------------------------------------------------------------------------
(* The database, and the discovery of runtime CIDRs.                        *)

Write == StoreNext /\ UNCHANGED <<runtime, streamVars, queue, agentVars, boundVars>>

RuntimeChange ==
    /\ RuntimeCidrs
    /\ runtime < MaxRuntime
    /\ runtime' = runtime + 1
    /\ UNCHANGED <<storeVars, streamVars, queue, agentVars, boundVars>>

-----------------------------------------------------------------------------
(* The stream task: one turn of the loop of run_policy_stream.  Each read   *)
(* is a statement of its own, outside any transaction.                      *)

streamRest == <<storeVars, runtime, agentVars, boundVars>>

StreamReadVersion ==
    /\ streamPhase = "poll"
    /\ streamPhase' = "polled"
    /\ building' = [NoUpdate EXCEPT !.version = dbVersion]
    /\ UNCHANGED <<cursorVersion, cursorRuntime, loaded, queue, streamRest>>

\* Mutant: the fingerprint of the runtime CIDRs is left out of the comparison.
UnchangedVersionOnly == building.version <= cursorVersion

\* policy_update_unchanged, on the version just read.
Unchanged ==
    /\ building.version <= cursorVersion
    /\ ~RuntimeCidrs \/ cursorRuntime = runtime

StreamNothingNew ==
    /\ streamPhase = "polled"
    /\ Unchanged
    /\ streamPhase' = "poll"
    /\ building' = NoUpdate
    /\ UNCHANGED <<cursorVersion, cursorRuntime, loaded, queue, streamRest>>

StreamReadRuntime ==
    /\ streamPhase = "polled"
    /\ ~Unchanged
    /\ streamPhase' = "snapshot"
    /\ building' = [building EXCEPT !.runtime = runtime]
    /\ UNCHANGED <<cursorVersion, cursorRuntime, loaded, queue, streamRest>>

StreamReadSnapshotVersion ==
    /\ streamPhase = "snapshot"
    /\ streamPhase' = "tables"
    /\ building' = [building EXCEPT !.snapshotVersion = dbVersion]
    /\ loaded' = 0
    /\ UNCHANGED <<cursorVersion, cursorRuntime, queue, streamRest>>

StreamLoadTable ==
    /\ streamPhase = "tables"
    /\ loaded < Len(LoadOrder)
    /\ LET part == LoadOrder[loaded + 1]
       IN  building' = [building EXCEPT !.content[part] = dbContent[part]]
    /\ loaded' = loaded + 1
    /\ UNCHANGED <<streamPhase, cursorVersion, cursorRuntime, queue, streamRest>>

\* try_send: a full channel closes the stream.  What is already in it is still
\* delivered.
StreamPush ==
    /\ streamPhase = "tables"
    /\ loaded = Len(LoadOrder)
    /\ \/ /\ Len(queue) < QueueCap
          /\ queue' = Append(queue, building)
          /\ streamPhase' = "poll"
          /\ cursorVersion' = building.version
          /\ cursorRuntime' = building.runtime
       \/ /\ Len(queue) >= QueueCap
          /\ streamPhase' = "none"
          /\ UNCHANGED <<queue, cursorVersion, cursorRuntime>>
    /\ building' = NoUpdate
    /\ loaded' = 0
    /\ UNCHANGED streamRest

\* A statement fails: the task pushes the error and ends.
StreamFails ==
    /\ streamPhase # "none"
    /\ faults < MaxFaults
    /\ faults' = faults + 1
    /\ streamPhase' = "none"
    /\ building' = NoUpdate
    /\ loaded' = 0
    /\ UNCHANGED <<cursorVersion, cursorRuntime, queue, storeVars, runtime,
                   agentVars, applyFaults, restarts>>

StreamStep ==
    \/ StreamReadVersion
    \/ StreamNothingNew
    \/ StreamReadRuntime
    \/ StreamReadSnapshotVersion
    \/ StreamLoadTable
    \/ StreamPush

-----------------------------------------------------------------------------
(* The agent.                                                               *)

\* The subscription ends: the stream task sees its channel closed, and what it
\* had pushed is lost.
DropStream ==
    /\ streamPhase' = "none"
    /\ building' = NoUpdate
    /\ loaded' = 0
    /\ queue' = <<>>
    /\ UNCHANGED <<cursorVersion, cursorRuntime>>

Reconnect ==
    /\ agentPhase' = "connecting"
    /\ update' = NoUpdate
    /\ fetched' = 0
    /\ DropStream

ShouldUnload(failures) ==
    UnloadRules /\ ~rulesUnloaded /\ failures >= FailureLimit

\* handle_control_plane_failure, after which the agent is to reconnect.  If the
\* maps cannot be cleared the error ends the process.
Failure ==
    /\ consecutiveFailures' = consecutiveFailures + 1
    /\ \/ /\ ~ShouldUnload(consecutiveFailures + 1)
          /\ UNCHANGED <<appliedVersion, mapVars, rulesUnloaded, applyFaults>>
          /\ Reconnect
       \/ /\ ShouldUnload(consecutiveFailures + 1)
          /\ appliedVersion' = -1
          /\ enforced' = Nothing
          /\ enforcedRuntime' = -1
          /\ clean' = TRUE
          /\ rulesUnloaded' = TRUE
          /\ UNCHANGED applyFaults
          /\ Reconnect
       \/ /\ ShouldUnload(consecutiveFailures + 1)
          /\ applyFaults < MaxApplyFaults
          /\ applyFaults' = applyFaults + 1
          /\ clean' = FALSE
          /\ agentPhase' = "exited"
          /\ update' = NoUpdate
          /\ fetched' = 0
          /\ DropStream
          /\ \E cleared \in SUBSET Parts :
                enforced' = [p \in Parts |-> IF p \in cleared THEN -1 ELSE enforced[p]]
          /\ UNCHANGED <<appliedVersion, enforcedRuntime, rulesUnloaded>>

ConnectionFault ==
    /\ faults < MaxFaults
    /\ faults' = faults + 1
    /\ Failure
    /\ UNCHANGED <<storeVars, runtime, restarts>>

\* connect_and_subscribe: the cursor of the new stream task starts at the
\* version the agent applied.  The starting heartbeat resets no counter.
AgentSubscribe ==
    /\ agentPhase = "connecting"
    /\ agentPhase' = "streaming"
    /\ streamPhase' = "poll"
    /\ cursorVersion' = appliedVersion
    /\ cursorRuntime' = -1
    /\ UNCHANGED <<storeVars, runtime, building, loaded, queue, update, fetched,
                   appliedVersion, mapVars, offlineVars, boundVars>>

AgentConnectFails == agentPhase = "connecting" /\ ConnectionFault

AgentHeartbeat ==
    /\ agentPhase = "streaming"
    /\ consecutiveFailures # 0
    /\ consecutiveFailures' = 0
    /\ UNCHANGED <<storeVars, runtime, streamVars, queue, agentPhase, update, fetched,
                   appliedVersion, mapVars, rulesUnloaded, boundVars>>

\* A heartbeat or the stream fails at the transport.
AgentStreamFails == agentPhase = "streaming" /\ ConnectionFault

\* The server closed the stream (or pushed an error): a failure like another.
AgentStreamEnds ==
    /\ agentPhase = "streaming"
    /\ queue = <<>>
    /\ streamPhase = "none"
    /\ Failure
    /\ UNCHANGED <<storeVars, runtime, faults, restarts>>

AgentReceive ==
    /\ agentPhase = "streaming"
    /\ queue # <<>>
    /\ update' = Head(queue)
    /\ queue' = Tail(queue)
    /\ agentPhase' = "fetching"
    /\ fetched' = 0
    /\ UNCHANGED <<storeVars, runtime, streamVars, appliedVersion, mapVars,
                   offlineVars, boundVars>>

\* fetch_geo_prefixes_response: the version is checked ...
PageVersionCurrent == update.version = 0 \/ update.version = dbVersion

FetchPageCheck ==
    /\ agentPhase = "fetching"
    /\ fetched < Len(PageOrder)
    /\ PageVersionCurrent
    /\ agentPhase' = "page"
    /\ UNCHANGED <<storeVars, runtime, streamVars, queue, update, fetched,
                   appliedVersion, mapVars, offlineVars, boundVars>>

\* ... and the page is then loaded by another statement.
FetchPageLoad ==
    /\ agentPhase = "page"
    /\ LET part == PageOrder[fetched + 1]
       IN  update' = [update EXCEPT !.content[part] = dbContent[part]]
    /\ fetched' = fetched + 1
    /\ agentPhase' = "fetching"
    /\ UNCHANGED <<storeVars, runtime, streamVars, queue, appliedVersion, mapVars,
                   offlineVars, boundVars>>

\* Mutant: a refused page is taken for an empty one.
FetchPageSkipped ==
    /\ agentPhase = "fetching"
    /\ fetched < Len(PageOrder)
    /\ ~PageVersionCurrent
    /\ fetched' = fetched + 1
    /\ UNCHANGED <<storeVars, runtime, streamVars, queue, agentPhase, update,
                   appliedVersion, mapVars, offlineVars, boundVars>>

\* FailedPrecondition: the agent counts it as a failure of the control plane.
FetchPageRefused ==
    /\ agentPhase = "fetching"
    /\ fetched < Len(PageOrder)
    /\ ~PageVersionCurrent
    /\ Failure
    /\ UNCHANGED <<storeVars, runtime, faults, restarts>>

FetchPageFails == agentPhase \in {"fetching", "page"} /\ ConnectionFault

\* Mutant: the loop over the pages stops one page early.
AgentApplyEarly ==
    /\ agentPhase = "fetching"
    /\ fetched + 1 = Len(PageOrder)
    /\ appliedVersion' = update.snapshotVersion
    /\ enforced' = update.content
    /\ enforcedRuntime' = update.runtime
    /\ clean' = TRUE
    /\ consecutiveFailures' = 0
    /\ rulesUnloaded' = FALSE
    /\ agentPhase' = "reporting"
    /\ update' = NoUpdate
    /\ fetched' = 0
    /\ UNCHANGED <<storeVars, runtime, streamVars, queue, boundVars>>

\* Mutant: an apply resets the count of failures but not rules_unloaded.
AgentApplyStaysUnloaded ==
    /\ agentPhase = "fetching"
    /\ fetched = Len(PageOrder)
    /\ appliedVersion' = update.snapshotVersion
    /\ enforced' = update.content
    /\ enforcedRuntime' = update.runtime
    /\ clean' = TRUE
    /\ consecutiveFailures' = 0
    /\ agentPhase' = "reporting"
    /\ update' = NoUpdate
    /\ fetched' = 0
    /\ UNCHANGED <<storeVars, runtime, streamVars, queue, rulesUnloaded, boundVars>>

\* The maps are written.  The version the agent records is the one inside the
\* snapshot; record_policy_applied ends the offline state.
AgentApply ==
    /\ agentPhase = "fetching"
    /\ fetched = Len(PageOrder)
    /\ appliedVersion' = update.snapshotVersion
    /\ enforced' = update.content
    /\ enforcedRuntime' = update.runtime
    /\ clean' = TRUE
    /\ consecutiveFailures' = 0
    /\ rulesUnloaded' = FALSE
    /\ agentPhase' = "reporting"
    /\ update' = NoUpdate
    /\ fetched' = 0
    /\ UNCHANGED <<storeVars, runtime, streamVars, queue, boundVars>>

\* The ok heartbeat that follows an apply.
AgentReport ==
    /\ agentPhase = "reporting"
    /\ agentPhase' = "streaming"
    /\ UNCHANGED <<storeVars, runtime, streamVars, queue, update, fetched,
                   appliedVersion, mapVars, offlineVars, boundVars>>

AgentReportFails == agentPhase = "reporting" /\ ConnectionFault

\* Mutant: the version is recorded before the maps are written.
AgentApplyFailsRecorded ==
    /\ agentPhase = "fetching"
    /\ fetched = Len(PageOrder)
    /\ applyFaults < MaxApplyFaults
    /\ applyFaults' = applyFaults + 1
    /\ appliedVersion' = update.snapshotVersion
    /\ \E written \in SUBSET Parts :
          enforced' = [p \in Parts |-> IF p \in written THEN update.content[p]
                                                        ELSE enforced[p]]
    /\ clean' = FALSE
    /\ Reconnect
    /\ UNCHANGED <<storeVars, runtime, enforcedRuntime, offlineVars, faults, restarts>>

\* Writing the maps fails part-way: some parts are the new ones, some are not.
\* Not a failure of the control plane; the agent reconnects.
AgentApplyFails ==
    /\ agentPhase = "fetching"
    /\ fetched = Len(PageOrder)
    /\ applyFaults < MaxApplyFaults
    /\ applyFaults' = applyFaults + 1
    /\ \E written \in SUBSET Parts :
          enforced' = [p \in Parts |-> IF p \in written THEN update.content[p]
                                                        ELSE enforced[p]]
    /\ clean' = FALSE
    /\ Reconnect
    /\ UNCHANGED <<storeVars, runtime, appliedVersion, enforcedRuntime, offlineVars,
                   faults, restarts>>

\* The agent process ends, or has ended, and is started again.  The pinned maps
\* keep what they hold.
AgentRestart ==
    /\ \/ agentPhase = "exited" /\ UNCHANGED restarts
       \/ restarts < MaxRestarts /\ restarts' = restarts + 1
    /\ appliedVersion' = -1
    /\ consecutiveFailures' = 0
    /\ rulesUnloaded' = FALSE
    /\ Reconnect
    /\ UNCHANGED <<storeVars, runtime, mapVars, faults, applyFaults>>

AgentStep ==
    \/ AgentSubscribe
    \/ AgentHeartbeat
    \/ AgentStreamEnds
    \/ AgentReceive
    \/ FetchPageCheck
    \/ FetchPageLoad
    \/ FetchPageRefused
    \/ AgentApply
    \/ AgentReport

Fault ==
    \/ StreamFails
    \/ AgentConnectFails
    \/ AgentStreamFails
    \/ FetchPageFails
    \/ AgentReportFails
    \/ AgentApplyFails

Next ==
    \/ Write
    \/ RuntimeChange
    \/ StreamStep
    \/ AgentStep
    \/ Fault
    \/ AgentRestart

Spec == Init /\ [][Next]_vars

(***************************************************************************)
(* The tokio tasks keep running: the stream task polls every push          *)
(* interval, the agent's loop takes what is ready, and a process that      *)
(* exited is restarted by its supervisor.  Nothing makes a writer commit,  *)
(* a fault happen, or the runtime CIDRs change.                            *)
(***************************************************************************)
Fairness ==
    /\ WF_vars(StreamStep)
    /\ WF_vars(AgentStep)
    /\ WF_vars(agentPhase = "exited" /\ AgentRestart)

FairSpec == Spec /\ Fairness

-----------------------------------------------------------------------------
StreamTypeOK ==
    /\ streamPhase \in {"none", "poll", "polled", "snapshot", "tables"}
    /\ cursorVersion \in Nat \cup {-1}
    /\ cursorRuntime \in Nat \cup {-1}
    /\ building \in Update
    /\ loaded \in 0..Len(LoadOrder)
    /\ queue \in Seq(Update)
    /\ Len(queue) <= QueueCap

LoopTypeOK ==
    /\ agentPhase \in {"connecting", "streaming", "fetching", "page", "reporting", "exited"}
    /\ update \in Update
    /\ fetched \in 0..Len(PageOrder)
    /\ agentPhase = "page" => fetched < Len(PageOrder)

AppliedTypeOK ==
    /\ appliedVersion \in Nat \cup {-1}
    /\ enforced \in [Parts -> Nat \cup {-1}]
    /\ enforcedRuntime \in Nat \cup {-1}
    /\ clean \in BOOLEAN
    /\ consecutiveFailures \in Nat
    /\ rulesUnloaded \in BOOLEAN

TypeOK ==
    /\ StoreTypeOK
    /\ StreamTypeOK
    /\ LoopTypeOK
    /\ AppliedTypeOK
    /\ {runtime, faults, applyFaults, restarts} \subseteq Nat

Delivery == INSTANCE PolicyDelivery

(***************************************************************************)
(* An agent that reports the current version enforces the current policy,  *)
(* although the snapshot it was sent is not read in one transaction        *)
(* (build_policy_update, load_policy) and its GeoIP pages are read later   *)
(* still (fetch_geo_prefixes_response).                                    *)
(***************************************************************************)
InSync == Delivery!InSync

(***************************************************************************)
(* Maps that a failed apply left half-written are not the end of it: the   *)
(* agent's version is behind, so its next subscription is pushed a policy  *)
(* (process_policy_update leaves applied_version alone when the apply      *)
(* fails).  With runtime CIDRs the first poll pushes in any case.          *)
(***************************************************************************)
PartialIsRetried ==
    ~clean /\ ~RuntimeCidrs /\ agentPhase # "exited" => appliedVersion < dbVersion

(***************************************************************************)
(* "Consecutive xDS/API connection failures before offline-mode            *)
(* unload-rules clears XDP firewall rules" (cli/agent.rs:104): whenever a  *)
(* failure at or past the limit has been handled, the maps are empty or    *)
(* the process is gone.  One case is left out: rules that an apply wrote   *)
(* part-way after an unload stay, because only an apply that succeeds      *)
(* resets rules_unloaded (record_policy_applied).                          *)
(***************************************************************************)
UnloadedAtLimit ==
    [][/\ UnloadRules
       /\ consecutiveFailures' > consecutiveFailures
       /\ consecutiveFailures' >= FailureLimit
       => enforced' = Nothing \/ ~clean' \/ agentPhase' = "exited"]_vars

(***************************************************************************)
(* Once nobody writes, the agent ends up enforcing what the database and   *)
(* the discovery of runtime CIDRs hold, whatever was raced, lost, unloaded *)
(* or left half-written before.                                            *)
(***************************************************************************)
EventuallyInSync ==
    <>[](/\ clean
         /\ enforced = dbContent
         /\ appliedVersion = dbVersion
         /\ RuntimeCidrs => enforcedRuntime = runtime)

(***************************************************************************)
(* The protocol implements what PolicyDelivery promises.                   *)
(***************************************************************************)
ImplementsDelivery == Delivery!DeliverySpec
=============================================================================
