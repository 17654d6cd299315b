---------------------------- MODULE DropMonitor ----------------------------
(***************************************************************************)
(* Remote drop monitoring of one node: browsers subscribe to the control   *)
(* plane's hub, the node's stream task is woken through a watch channel    *)
(* and tells the agent, whose reporter then reads the events that the BPF  *)
(* program emits while drop_config is set.                                 *)
(*                                                                         *)
(* Policies travel on the same stream, and each carries the setting too.   *)
(* Of a policy only its version is kept; PolicySync has the rest.          *)
(***************************************************************************)
EXTENDS Integers, Sequences

CONSTANTS
    Viewers,         \* frontend connections to /drop-events/stream
    QueueCap,        \* messages the stream channel holds (8 in the code)
    MaxVisits,       \* bound on subscriptions
    MaxVersion,      \* bound on the policy version
    MaxFaults,       \* bound on lost connections
    MaxApplyFaults,  \* bound on failures of writing the policy
    MaxSwitchFaults, \* bound on failures of switching drop_config on
    MaxResizes,      \* bound on policies that make the agent recreate its maps
    MaxRestarts,     \* bound on agent restarts
    MaxCli           \* bound on runs of `monitor --drop` on the node

ASSUME MonitorAssumption ==
    /\ QueueCap \in Nat \ {0}
    /\ {MaxVisits, MaxVersion, MaxFaults, MaxApplyFaults, MaxSwitchFaults,
        MaxResizes, MaxRestarts, MaxCli} \subseteq Nat

\* What a viewer asks for: every node, this node, or some other node.
Filters == {"all", "this", "other"}

VARIABLES
    viewer,          \* [Viewers -> the viewer's phase and filter]
    counts,          \* DropSubscriptionRegistry.subscriptions, absent: 0
    unseen,          \* the stream task's watch receiver has a change to report
    dbVersion,       \* current policy version
    streamPhase,     \* where the stream task is
    cursorVersion,   \* PolicyStreamCursor.version
    cursorMonitor,   \* PolicyStreamCursor.drop_monitor_enabled
    building,        \* version of the update being built
    queue,           \* messages pushed and not yet taken by the agent
    agentPhase,      \* where the agent's main loop is
    update,          \* the policy update in the agent's hands
    appliedVersion,  \* AgentRuntime.applied_version
    reporter,        \* AgentRuntime.drop_monitor is Some
    dropConfig,      \* drop_config[0] of the maps the BPF program reads
    cli,             \* `monitor --drop` is running on the node
    spent            \* events spent out of the bounds

viewerVars == <<viewer, counts>>
streamVars == <<streamPhase, cursorVersion, cursorMonitor, building>>
agentVars == <<agentPhase, update, appliedVersion, reporter>>
vars == <<viewerVars, unseen, dbVersion, streamVars, queue, agentVars, dropConfig,
          cli, spent>>

-----------------------------------------------------------------------------
Message == [kind : {"monitor", "policy"}, version : Nat, monitor : BOOLEAN]

NoUpdate == [kind |-> "policy", version |-> 0, monitor |-> FALSE]

Bound == [visits |-> MaxVisits, faults |-> MaxFaults, applies |-> MaxApplyFaults,
          switches |-> MaxSwitchFaults, resizes |-> MaxResizes,
          restarts |-> MaxRestarts, clis |-> MaxCli]

Spend(what) ==
    /\ spent[what] < Bound[what]
    /\ spent' = [spent EXCEPT ![what] = @ + 1]

Init ==
    /\ viewer = [v \in Viewers |-> [phase |-> "off", filter |-> "all"]]
    /\ counts = [f \in Filters |-> 0]
    /\ unseen = FALSE
    /\ dbVersion = 1
    /\ streamPhase = "none"
    /\ cursorVersion = -1
    /\ cursorMonitor = FALSE
    /\ building = 0
    /\ queue = <<>>
    /\ agentPhase = "connecting"
    /\ update = NoUpdate
    /\ appliedVersion = -1
    /\ reporter = FALSE
    /\ dropConfig = FALSE
    /\ cli = FALSE
    /\ spent = [what \in DOMAIN Bound |-> 0]

\* enabled_for_node
EnabledForNode == counts["all"] > 0 \/ counts["this"] > 0

-----------------------------------------------------------------------------
(* Viewers.  The registry is changed under its mutex; the watch channel is  *)
(* notified after the mutex is released.                                    *)

\* send_replace: every receiver there is has a change to report.
NotifyChanged == unseen' = (streamPhase \notin {"none", "spawned"})

ViewerAdd(v, filter) ==
    /\ viewer[v].phase = "off"
    /\ Spend("visits")
    /\ viewer' = [viewer EXCEPT ![v] = [phase |-> "added", filter |-> filter]]
    /\ counts' = [counts EXCEPT ![filter] = @ + 1]
    /\ UNCHANGED <<unseen, dbVersion, streamVars, queue, agentVars, dropConfig, cli>>

ViewerAddNotify(v) ==
    /\ viewer[v].phase = "added"
    /\ viewer' = [viewer EXCEPT ![v].phase = "on"]
    /\ NotifyChanged
    /\ UNCHANGED <<counts, dbVersion, streamVars, queue, agentVars, dropConfig, cli, spent>>

ViewerRemove(v) ==
    /\ viewer[v].phase = "on"
    /\ viewer' = [viewer EXCEPT ![v].phase = "removed"]
    /\ counts' = [counts EXCEPT ![viewer[v].filter] = @ - 1]
    /\ UNCHANGED <<unseen, dbVersion, streamVars, queue, agentVars, dropConfig, cli, spent>>

\* Mutant: a subscription that goes away notifies nobody.
ViewerRemoveSilently(v) ==
    /\ viewer[v].phase = "removed"
    /\ viewer' = [viewer EXCEPT ![v].phase = "off"]
    /\ UNCHANGED <<unseen, counts, dbVersion, streamVars, queue, agentVars, dropConfig,
                   cli, spent>>

ViewerRemoveNotify(v) ==
    /\ viewer[v].phase = "removed"
    /\ viewer' = [viewer EXCEPT ![v].phase = "off"]
    /\ NotifyChanged
    /\ UNCHANGED <<counts, dbVersion, streamVars, queue, agentVars, dropConfig, cli, spent>>

PolicyChange ==
    /\ dbVersion < MaxVersion
    /\ dbVersion' = dbVersion + 1
    /\ UNCHANGED <<viewerVars, unseen, streamVars, queue, agentVars, dropConfig, cli, spent>>

-----------------------------------------------------------------------------
(* The stream task of the node's subscription.                              *)

streamRest == <<viewerVars, dbVersion, agentVars, dropConfig, cli, spent>>

\* A receiver starts with the current value as seen.
StreamSubscribeChanges ==
    /\ streamPhase = "spawned"
    /\ streamPhase' = "subscribed"
    /\ unseen' = FALSE
    /\ UNCHANGED <<cursorVersion, cursorMonitor, building, queue, streamRest>>

\* try_send of one message, after which the task is in phase next; a full
\* channel closes the stream.
TrySend(message, next) ==
    \/ /\ Len(queue) < QueueCap
       /\ queue' = Append(queue, message)
       /\ streamPhase' = next
    \/ /\ Len(queue) >= QueueCap
       /\ streamPhase' = "none"
       /\ UNCHANGED queue

MonitorMessage(enabled) ==
    [kind |-> "monitor", version |-> IF cursorVersion < 0 THEN 0 ELSE cursorVersion,
     monitor |-> enabled]

\* Mutant: the task waits for the first change before it says anything.
StreamStartSilently ==
    /\ streamPhase = "subscribed"
    /\ cursorMonitor' = EnabledForNode
    /\ streamPhase' = "build"
    /\ UNCHANGED <<queue, unseen, cursorVersion, building, streamRest>>

\* PolicyStreamCursor::new reads the registry.  Only an enabled monitor is
\* announced.
StreamStart ==
    /\ streamPhase = "subscribed"
    /\ cursorMonitor' = EnabledForNode
    /\ \/ EnabledForNode /\ TrySend(MonitorMessage(TRUE), "build")
       \/ ~EnabledForNode /\ streamPhase' = "build" /\ UNCHANGED queue
    /\ UNCHANGED <<unseen, cursorVersion, building, streamRest>>

\* build_policy_update
StreamBuild ==
    /\ streamPhase = "build"
    /\ \/ /\ dbVersion <= cursorVersion
          /\ streamPhase' = "wait"
          /\ UNCHANGED building
       \/ /\ dbVersion > cursorVersion
          /\ streamPhase' = "built"
          /\ building' = dbVersion
    /\ UNCHANGED <<unseen, cursorVersion, cursorMonitor, queue, streamRest>>

StreamPushPolicy ==
    /\ streamPhase = "built"
    /\ TrySend([kind |-> "policy", version |-> building, monitor |-> EnabledForNode], "wait")
    /\ \/ /\ streamPhase' = "wait"
          /\ cursorVersion' = building
          /\ cursorMonitor' = EnabledForNode
       \/ streamPhase' = "none" /\ UNCHANGED <<cursorVersion, cursorMonitor>>
    /\ building' = 0
    /\ UNCHANGED <<unseen, streamRest>>

\* Mutant: only a monitor that was switched on is announced.
StreamWakeOnly ==
    /\ streamPhase = "wait"
    /\ unseen
    /\ unseen' = FALSE
    /\ cursorMonitor' = EnabledForNode
    /\ \/ /\ EnabledForNode => cursorMonitor
          /\ streamPhase' = "build"
          /\ UNCHANGED queue
       \/ /\ EnabledForNode /\ ~cursorMonitor
          /\ TrySend(MonitorMessage(EnabledForNode), "build")
    /\ UNCHANGED <<cursorVersion, building, streamRest>>

\* changed() is ready: send_drop_monitor_change.
StreamWake ==
    /\ streamPhase = "wait"
    /\ unseen
    /\ unseen' = FALSE
    /\ cursorMonitor' = EnabledForNode
    /\ \/ /\ EnabledForNode = cursorMonitor
          /\ streamPhase' = "build"
          /\ UNCHANGED queue
       \/ /\ EnabledForNode # cursorMonitor
          /\ TrySend(MonitorMessage(EnabledForNode), "build")
    /\ UNCHANGED <<cursorVersion, building, streamRest>>

\* The push interval is over.
StreamTick ==
    /\ streamPhase = "wait"
    /\ streamPhase' = "build"
    /\ UNCHANGED <<unseen, cursorVersion, cursorMonitor, building, queue, streamRest>>

StreamStep ==
    \/ StreamSubscribeChanges
    \/ StreamStart
    \/ StreamBuild
    \/ StreamPushPolicy
    \/ StreamTick

-----------------------------------------------------------------------------
(* The agent.                                                               *)

AgentSubscribe ==
    /\ agentPhase = "connecting"
    /\ agentPhase' = "streaming"
    /\ streamPhase' = "spawned"
    /\ cursorVersion' = appliedVersion
    /\ cursorMonitor' = FALSE
    /\ UNCHANGED <<viewerVars, unseen, dbVersion, building, queue, update,
                   appliedVersion, reporter, dropConfig, cli, spent>>

\* The subscription is over, and what was pushed and not taken is lost.
Reconnect ==
    /\ agentPhase' = "connecting"
    /\ update' = NoUpdate
    /\ streamPhase' = "none"
    /\ building' = 0
    /\ unseen' = FALSE
    /\ queue' = <<>>
    /\ UNCHANGED <<cursorVersion, cursorMonitor>>

\* disable: a reporter is aborted and the switch written; that this may fail is
\* only logged.
Disable ==
    /\ reporter' = FALSE
    /\ dropConfig' \in {dropConfig /\ ~reporter, dropConfig}

\* enable: the reporter is spawned only after the switch is written.
Enable ==
    \/ reporter' = TRUE /\ dropConfig' = TRUE /\ UNCHANGED spent
    \/ Spend("switches") /\ UNCHANGED <<reporter, dropConfig>>

\* drop_monitor::reconcile
Reconcile(enabled) ==
    \/ enabled /\ ~reporter /\ Enable
    \/ enabled /\ reporter /\ UNCHANGED <<reporter, dropConfig, spent>>
    \/ ~enabled /\ Disable /\ UNCHANGED spent

\* A message without a policy.
AgentReceiveMonitor ==
    /\ agentPhase = "streaming"
    /\ queue # <<>>
    /\ Head(queue).kind = "monitor"
    /\ queue' = Tail(queue)
    /\ Reconcile(Head(queue).monitor)
    /\ UNCHANGED <<viewerVars, unseen, dbVersion, streamVars, agentPhase, update,
                   appliedVersion, cli>>

AgentReceivePolicy ==
    /\ agentPhase = "streaming"
    /\ queue # <<>>
    /\ Head(queue).kind = "policy"
    /\ queue' = Tail(queue)
    /\ update' = Head(queue)
    /\ agentPhase' = "fetching"
    /\ UNCHANGED <<viewerVars, unseen, dbVersion, streamVars, appliedVersion, reporter,
                   dropConfig, cli, spent>>

\* The GeoIP pages are there: the setting is taken before the maps are written.
AgentFetched ==
    /\ agentPhase = "fetching"
    /\ update.version = dbVersion
    /\ Reconcile(update.monitor)
    /\ agentPhase' = "applying"
    /\ UNCHANGED <<viewerVars, unseen, dbVersion, streamVars, queue, update,
                   appliedVersion, cli>>

\* handle_control_plane_failure.  Whether the failure limit is reached is left
\* open; unloading also stops the monitor.
Failure ==
    /\ Reconnect
    /\ \/ UNCHANGED <<appliedVersion, reporter, dropConfig>>
       \/ appliedVersion' = -1 /\ Disable
    /\ UNCHANGED <<viewerVars, dbVersion, cli>>

\* The policy moved on while its pages were being fetched: the update, and the
\* setting it carries, are given up.
AgentRefused ==
    /\ agentPhase = "fetching"
    /\ update.version # dbVersion
    /\ Failure
    /\ UNCHANGED spent

AgentApply ==
    /\ agentPhase = "applying"
    /\ appliedVersion' = update.version
    /\ update' = NoUpdate
    /\ agentPhase' = "streaming"
    /\ UNCHANGED <<viewerVars, unseen, dbVersion, streamVars, queue, reporter, dropConfig,
                   cli, spent>>

\* The policy does not fit: attach makes new maps, their switch off.
AgentApplyResized ==
    /\ agentPhase = "applying"
    /\ Spend("resizes")
    /\ appliedVersion' = update.version
    /\ dropConfig' = FALSE
    /\ update' = NoUpdate
    /\ agentPhase' = "streaming"
    /\ UNCHANGED <<viewerVars, unseen, dbVersion, streamVars, queue, reporter, cli>>

AgentApplyFails ==
    /\ agentPhase = "applying"
    /\ Spend("applies")
    /\ Reconnect
    /\ UNCHANGED <<viewerVars, dbVersion, appliedVersion, reporter, dropConfig, cli>>

AgentStreamEnds ==
    /\ agentPhase = "streaming"
    /\ queue = <<>>
    /\ streamPhase = "none"
    /\ Failure
    /\ UNCHANGED spent

ConnectionLost ==
    /\ agentPhase # "connecting"
    /\ Spend("faults")
    /\ Failure

\* A new process attaches: build_attached_manager switches the monitor off.
AgentRestart ==
    /\ Spend("restarts")
    /\ Reconnect
    /\ appliedVersion' = -1
    /\ reporter' = FALSE
    /\ dropConfig' = FALSE
    /\ UNCHANGED <<viewerVars, dbVersion, cli>>

\* `monitor --drop` switches the same map on, and off when it ends.
CliStart ==
    /\ ~cli
    /\ Spend("clis")
    /\ cli' = TRUE
    /\ dropConfig' = TRUE
    /\ UNCHANGED <<viewerVars, unseen, dbVersion, streamVars, queue, agentVars>>

CliStop ==
    /\ cli
    /\ cli' = FALSE
    /\ dropConfig' = FALSE
    /\ UNCHANGED <<viewerVars, unseen, dbVersion, streamVars, queue, agentVars, spent>>

AgentStep ==
    \/ AgentSubscribe
    \/ AgentReceiveMonitor
    \/ AgentReceivePolicy
    \/ AgentFetched
    \/ AgentRefused
    \/ AgentApply
    \/ AgentStreamEnds

Next ==
    \/ \E v \in Viewers :
          \/ \E filter \in Filters : ViewerAdd(v, filter)
          \/ ViewerAddNotify(v)
          \/ ViewerRemove(v)
          \/ ViewerRemoveNotify(v)
    \/ PolicyChange
    \/ StreamStep
    \/ StreamWake
    \/ AgentStep
    \/ AgentApplyResized
    \/ AgentApplyFails
    \/ ConnectionLost
    \/ AgentRestart
    \/ CliStart
    \/ CliStop

(***************************************************************************)
(* Tasks that can run do run.  StreamWake needs strong fairness: the push  *)
(* interval may be over first, but every round of the select starts a new  *)
(* sleep, and finds a pending notification ready before it.                *)
(***************************************************************************)
Fairness ==
    /\ WF_vars(StreamStep)
    /\ SF_vars(StreamWake)
    /\ WF_vars(AgentStep)
    /\ \A v \in Viewers : WF_vars(ViewerAddNotify(v)) /\ WF_vars(ViewerRemoveNotify(v))

Spec == Init /\ [][Next]_vars
FairSpec == Spec /\ Fairness

-----------------------------------------------------------------------------
TypeOK ==
    /\ viewer \in [Viewers -> [phase : {"off", "added", "on", "removed"}, filter : Filters]]
    /\ counts \in [Filters -> Nat]
    /\ unseen \in BOOLEAN
    /\ dbVersion \in Nat
    /\ streamPhase \in {"none", "spawned", "subscribed", "build", "built", "wait"}
    /\ cursorVersion \in Nat \cup {-1}
    /\ cursorMonitor \in BOOLEAN
    /\ building \in Nat
    /\ queue \in Seq(Message)
    /\ Len(queue) <= QueueCap
    /\ agentPhase \in {"connecting", "streaming", "fetching", "applying"}
    /\ update \in Message
    /\ appliedVersion \in Nat \cup {-1}
    /\ {reporter, dropConfig, cli} \subseteq BOOLEAN
    /\ spent \in [DOMAIN Bound -> Nat]

(***************************************************************************)
(* A stream task that waits, with nothing to wake it, has told the agent   *)
(* what the registry says, unless a viewer is between changing the         *)
(* registry and notifying: no change is lost between the mutex, the watch  *)
(* channel and the reads of the cursor (add, remove, run_policy_stream).   *)
(***************************************************************************)
NoLostChange ==
    streamPhase = "wait" /\ ~unseen /\ cursorMonitor # EnabledForNode
        => \E v \in Viewers : viewer[v].phase \in {"added", "removed"}

(***************************************************************************)
(* A viewer that stays gets its events: the agent's reporter runs and the  *)
(* BPF program emits ("The API tells agents through xDS to enable Drop     *)
(* monitoring only while a matching frontend subscriber is connected",     *)
(* README.md:361).                                                         *)
(***************************************************************************)
MonitorStarts == <>[]EnabledForNode => <>[](reporter /\ dropConfig)

(***************************************************************************)
(* "When the last matching subscriber disconnects, xDS pushes the disabled *)
(* state and agents stop reading the perf event buffer" (README.md:361).   *)
(***************************************************************************)
MonitorStops == <>[]~EnabledForNode => <>[]~reporter
=============================================================================
