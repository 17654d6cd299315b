# TLA+ models of xdp-firewall

xdp-firewall filters packets on every host of a cluster. A *control plane* keeps one
policy in a SQL database and serves an HTTP API and a gRPC (xDS) service. On every host an
*agent* subscribes to the policy, compiles it and writes it into BPF maps; an XDP *program*
looks packets up in these maps. This directory models the parts of that system in which the
order of events decides whether a host enforces the policy its operators see.

## The system

| Component | Source | State | Operations | Talks to |
|---|---|---|---|---|
| Policy store | `src/db/policy_version.rs`, `src/control_plane/api/*` | policy tables, version row | transactions of API handlers and clean-ups, `POST /policy/bump-version` | read by the stream task and the page service |
| xDS policy stream | `src/control_plane/xds/policy_stream.rs`, `state/snapshot.rs` | per subscription: cursor (version, runtime fingerprint, monitor flag), channel of 8 messages | poll, build an update from several statements, `try_send`, close | store, hub, agent |
| GeoIP page service | `src/control_plane/xds/fetch/geo_prefixes.rs` | none | check the version, load a page | called by the agent while it handles an update |
| Agent runtime | `src/agent/sync/runtime*`, `offline.rs`, `policy_apply.rs` | applied version, failure count, rules-unloaded flag, monitor handle | connect, receive, fetch, apply, heartbeat, unload, exit | stream, pages, data plane |
| Data plane: apply | `src/data_plane/xdp/linux/apply*`, `pending*`, `maps.rs` | six policy maps and the defence settings in bpffs | write all keys, remove stale keys, recreate maps that are too small | agent above, BPF program below |
| Data plane: lifecycle | `src/data_plane/xdp/linux.rs`, `attach_lifecycle.rs`, `loader*`, `pinned_maps.rs` | pin directory, attached program, link | attach, verify, roll back, detach for a resize | kernel, `xdp-loader` |
| BPF program | `bpf/xdp_firewall.c` | maps shared with the agent, token buckets, statistics | verdict per packet, drop event | perf buffer read by the agent |
| Drop monitor | `src/control_plane/xds/drop_events*`, `policy_stream/drop_monitor.rs`, `src/agent/drop_monitor*` | subscription counts, a watch channel, a flag per cursor, the agent's reporter, `drop_config` | subscribe, notify, push the setting, start and stop the reporter | API viewers, stream, data plane |
| Threat sources and country lists | `src/control_plane/api/threat_sources/*`, `src/control_plane/xds/refresh*`, `src/intelligence/*` | source rows, fingerprints, prefixes, in-memory gates, leased lock rows | create, switch, delete; take the lock, download, replace prefixes, release | store, feed providers |
| Runtime trusted CIDRs | `src/control_plane/xds/runtime_cidrs*` | cached discovery result | list and watch Kubernetes | fingerprint compared by the stream task |
| HTTP API and seeds | `src/control_plane/api/*`, `src/policy/seed.rs` | rules, trusted CIDRs, limits, countries, defense row | create, update, upsert, delete, batches, built-in and example policy | store |
| Temporary bans | `src/control_plane/api/temp_bans/*`, `src/control_plane/xds/refresh/temp_ban.rs`, `tools/btmp-monitor/` | ban rows, clean-up gate; read cursor and failure counts of the monitor | create, delete, clean up; poll the failure file, list, submit | API, agents |
| Nodes | `src/policy/node_maintenance.rs`, `xds/heartbeat.rs` | node rows | upsert per heartbeat, prune by age | agent heartbeats |
| Compilation | `src/policy/compile.rs`, `validate.rs` | none | rows to BPF keys | agent |

What is hard in it:

- *Interleaving.* Transactions overlap; a snapshot is loaded table by table outside any
  transaction; pages are fetched later still; viewers come and go between two statements of
  the stream task; packets are looked up between two map writes.
- *Failure.* Connections, statements and map writes fail at any point; an agent dies and
  starts again over maps that survive it in bpffs; unloading itself can fail.
- *Ordering.* The version is read before the tables; all keys are written before any is
  removed; the monitor setting is handled before the policy it came with.
- *Bounds.* Channels of 8 messages that close when they are full, maps sized for one policy.
- *Timeouts.* Leases that expire while their owner is still at work; failure limits.

Correctness, component by component:

- Store: every change of active rows gets a version of its own, and the version never goes
  back.
- Stream, pages and agent: an agent that reports the current version enforces the current
  policy; in the end every agent does; after the configured number of failures the maps are
  empty, and only then.
- Apply: a source that the old and the new policy treat alike is treated so throughout;
  nothing of an old policy stays; a policy that fits ends up in the maps.
- Packet path: trusted sources pass; a ban drops what it names as long as it lasts; of several
  matching rules one of the most exact class of protocol and port decides, and among those the
  first in the order that README.md:237 gives; a host never cuts itself off; a rate is kept up to what
  races between CPUs can do to a bucket.
- Drop monitor: reporters run while somebody watches, and only then.
- Lifecycle: while the agent runs, the attached program reads the maps that the agent writes;
  they have room for what is written; other owners' programs are left alone.
- HTTP API: the version moves exactly when active rows do; no two rows are alike.
- Temporary bans: no ban in force is cleaned up, expired ones go; the monitor counts every
  failure once, bans offenders, and nobody twice.
- Refresh locks: one refresh at a time.
- Country lists: what is stored and its ETag belong together; the lists become the published
  ones; the lookup database follows.
- Threat sources: what is stored of a feed and its fingerprint belong together, agents are told
  of every change, and in the end have what the providers serve.

## Modules

| Module | Models | Composed of | Runs |
|---|---|---|---|
| `PolicyStore` | the database and its writers | | `MCPolicyStore` |
| `PolicyDelivery` | abstract: what distribution promises | | refinement target |
| `PolicySync` | stream task, page service, agent | EXTENDS `PolicyStore`, INSTANCE `PolicyDelivery` | `MCPolicySync`, two cfgs |
| `PolicySyncInv` | its inductive invariant | EXTENDS `PolicySync` | |
| `PolicySyncProofs` | theorems | EXTENDS `PolicySyncInv` | TLAPS |
| `DropMonitor` | hub, stream task, agent reporter, switch | | `MCDropMonitor`, two cfgs |
| `PolicyApply` | map writes and lookups | | within `MCDataPath`; `MCPolicyApply` by hand |
| `PacketPath` | rows to maps (compile, compact, refuse) and maps to a verdict | | within `MCDataPath`; `MCPacketPath`, `RuleOrder.cfg` |
| `TokenBucket` | one bucket and the CPUs that race on it | | within `MCDataPath` |
| `XdpLifecycle` | attach, verify, roll back, resize, the tool's commands | | `MCXdpLifecycle` |
| `PolicyTables` | the transactions of the HTTP API and the seeds | | `MCPolicyTables` |
| `TempBans` | ban rows and their clean-up | | with `BtmpMonitor` |
| `BtmpMonitor` | btmp-monitor: failure file, counts, list, submit | EXTENDS `TempBans` | `MCBtmpMonitor`, `Bans.cfg` |
| `RefreshLease` | abstract: what the refresh lock promises | | refinement target; used by `ThreatFeeds` |
| `RefreshLock` | the lock as a database row | INSTANCE `RefreshLease` | within `MCGeoLists`; `MCRefreshLock` by hand |
| `GeoLists` | country lists: refresh, metadata, lookup database | EXTENDS `RefreshLock` | `MCGeoLists` |
| `ThreatFeeds` | threat sources and their refreshes | EXTENDS `RefreshLease` | `MCThreatFeeds`, `Feeds.cfg` |
| `MapsProofs` | theorems on `PacketPath` and `PolicyApply` | EXTENDS both | TLAPS |
| `ControlPlaneProofs` | theorems on `ThreatFeeds` and `DropMonitor` | EXTENDS both | TLAPS |
| `BtmpMonitorProofs`, `PolicyTablesProofs`, `TokenBucketProofs`, `XdpLifecycleProofs` | theorems | each EXTENDS its module | TLAPS |
| `GeoListsProofs` | theorems on `GeoLists` and `RefreshLock` | EXTENDS `GeoLists` | TLAPS |

`PROJECT.json` maps every definition to the lines it stands for, and lists the hazards with
the properties that watch them. Some modules hold *mutants*: a definition with a plausible
bug, next to the definition it would replace. They are used by no specification; putting one
in the place of the original breaks the property named with it in `PROJECT.json`, which is
how each property is known to say something about the code.

### PolicyStore

`txn[w]` is what writer `w` has open. `WriterBegin`, `WriterReadVersion` and `WriterCommit`
are the transaction of every handler: rows are changed, `next_policy_version_in_transaction`
reads the version with a plain SELECT, writes back one more and commits. `BumpRead` and
`BumpWrite` are `POST /policy/bump-version`, which does the same in two autocommitted
statements. `TxnOverlap` says whether the database lets writing transactions overlap
(PostgreSQL and MySQL at their default isolation) or not (SQLite); `BumpOverlap` whether a
bump may fall into somebody's transaction. The content of a table is the number of the commit
that last changed it, so that equal contents are equal numbers, and the version the code
computes is kept apart from it.

### PolicyDelivery and PolicySync

The stream task runs statement by statement: `StreamReadVersion`, `StreamReadRuntime`,
`StreamReadSnapshotVersion`, one `StreamLoadTable` per table, `StreamPush`; any statement may
fail. The agent's loop is `AgentSubscribe`, `AgentReceive`, for each page `FetchPageCheck` and
`FetchPageLoad` (or `FetchPageRefused`), `AgentApply` (or `AgentApplyFails`), `AgentReport`.
`Failure` is `handle_control_plane_failure` with the unload it may lead to; when the unload
fails, the process is gone until its supervisor runs `AgentRestart`. `appliedVersion`,
`consecutiveFailures` and `rulesUnloaded` are the fields of that name.

`PolicyDelivery` says what this amounts to: the database moves on, and the agent's maps are
from time to time made to hold, of every part, the version claimed or something newer.
`ImplementsDelivery` is the refinement; variables have the same names in both.

### DropMonitor

The registry is changed under its mutex and the watch is notified after it (`ViewerAdd`,
`ViewerAddNotify`), the stream task subscribes before it reads (`StreamSubscribeChanges`,
`StreamStart`) and keeps in its cursor what it last announced. `Reconcile` is the agent's
`drop_monitor::reconcile`; `AgentApplyResized` is an apply that recreates the maps, which
switches `drop_config` off. `cli` is `agent monitor --drop` on the host, which shares the
switch. The failure counter is left out: whether a failure unloads is a free choice there,
because only the version it resets matters. Of a policy only its version is kept.

### PolicyApply

`held` is what the BPF maps hold and `target` the pending keys of the policy being applied.
`StartApply` is the checks and the computation of pending keys; `Put` one `insert`, which the
kernel refuses in a full map (`PutRefused`); `StartClean` and `Remove` the removal of stale
keys; `Finish` the agent recording the version. `PutOrder` and `CleanOrder` are the orders of
the maps in `apply_to_current_maps` and `remove_stale_policy_keys`. `Interrupt` is a failed
system call or the death of the agent: the maps are pinned, so they stay as they are.
`since` is a history variable: the policies applied or tried since the last complete apply.
`Drops` is the verdict of `handle_packet` up to the rate limits: trusted, temporary bans,
rules, country. A packet is given by the keys its lookups match, in the order in which they
would be found; a ban in the model is one that has not expired.

### PacketPath

A policy is a set of rows. `Pending` is what the agent computes of them: rules and threat
prefixes in one order with the first of a key kept (`PendingRules`), trusted prefixes that no
other covers (`CompactTrusted`), bans compacted and then freed of what matches the interface
(`PendingBans`), limits, countries and prefixes by key. `Change` puts a policy in place in one
step; that its writes come one after the other is `PolicyApply`. `Packet` is `handle_packet`
with each `return` a disjunct: trusted, ban, rule, country, limiters. `Hit` is one lookup in a
trie: class by class, only the longest prefix of a class, whose ban may have expired, is looked
at. An address is a function from `1..W` to bits and a prefix one from `1..len`, which is what
`IpNet::trunc` leaves of it. Whether a bucket is empty is left open here. `last.by` remembers which rule
decided; the program returns it as the source of a drop event.

### TokenBucket

`token_bucket_limited` and its callers read and write the fields of a bucket one at a time, so
each read or write that another CPU can see is an action: `CheckBlocked`, `ReadUpdated`,
`ReadTokens`, `WriteUpdated`, `WriteBlocked`, `WriteTokens`. `Insert` is
`bpf_map_update_elem` with `BPF_ANY`: of two CPUs that saw no bucket the second replaces the
first one's, which the first goes on using. `Evict` is the LRU map. `elapsed` is unsigned and
wraps below `Modulus`; `BucketAssumption` says that the clock times the rate does not, which
for 64-bit nanoseconds means `elapsed * packets_per_second < 2^64`. `history` and `overlaps` are
history variables.

### XdpLifecycle

`nic` is what is attached to the interface: direct links, programs attached over netlink (in
the driver or generic mode), entries of the dispatcher, and a foreign program. `pins` is the pin
directory, `maps` the map sets the kernel holds. `Begin` to `Rollback` are the steps of
`attach`, of the agent and of the tool's `xdp replace` alike: recreate pinned maps of an older
layout, load, remove old entries, attach, verify that the one entry reads the pinned maps, or
take back what was attached. `MaxSets` bounds the map sets that exist at once (`CanMake`). `Apply`, `Detach` and `Write` are an apply, with the resize that
detaches, removes the pins and attaches again with more capacity. Each command may fail
(`Fault`) and each process be killed (`Kill`); the operator unloads programs, and another
program's owner comes. The size of a policy stands for the policy. `disturbed` and `failed`
are history variables that say what the guarantees depend on.

### PolicyTables

A request is one transaction: `Begin` takes the snapshot its selects see, `Commit` computes
the effect of every statement (`Effect`), and raises the version if active rows were touched,
`Rollback` ends it without one. `CreateRule`, `UpsertTrusted`, `CreateByFields`,
`DeleteFoundRules`, `DeleteTrusted`, `UpdateDefense` and so on are the handlers; `SeedExample`
and `Configure` the two seeds. With `TxnOverlap`, what a transaction writes applies to rows
that others have committed since its selects; a row to update, delete or switch that is gone by
then is an error that rolls back (`UpdateRow`, `DeleteIds`, `Configure`). A rule's key is computed
from its fields in the code; here it is given. `AfterItems` is the transaction after each item of a
batch, which stops at the first refused one.

### TempBans and BtmpMonitor

`TempBans` has the rows of `firewall_temp_bans`: `Insert` is the transaction of both create
endpoints, which refuses all items for one that covers a node's own address; `SweepStart` and
`SweepDeletes` are `TempBanCleanup::maybe_run`, which takes its time before it waits for the
database. `BtmpMonitor` adds the daemon that reads failed logins: `Poll` (from the offset if
the file is the same and not shorter, else from the start), one `ListPage` per page of bans in
force, one `SubmitChunk` per chunk, and its failures: `SubmitFails` has the three outcomes of a
lost request, one of which takes effect later (`LateCommit`). A record is one failure; `half` is
one of which only a part is written. `counts` is a bag of records rather than a queue of times
for each address: what the code asks of it is how many are in the window. A page of bans has
those with as many rows before them (`Rank`).

### RefreshLease and RefreshLock

The refresh of the threat feeds and that of the country lists take the same kind of lock: a
row of a state table. `EnsureLockRow`, `LoadLockRow` and `MarkLockRunning` are the three
statements of `try_acquire`; `DropGuard` spawns the release, `ReleaseLock` is its statement.
`lockRow` has the owner and `last_checked_at`. Moments are stamps that are only compared, so
the next moment is any stamp nobody remembers, and the age of a lease is the flag `expired`.
Distinct attempts are taken to have distinct moments: clocks that repeat a nanosecond, and
columns that round it, are outside the model. `RefreshLease` says what this amounts to, with
a phase per run: the lock is taken by one run at a time, refused at once, and left marked
until released or lapsed by a run that ended. A run is `contended` there when the row changed
after it had read it.

### GeoLists

A refresh takes the lock of `RefreshLock`, fetches the index (`RefreshCatalog`) and goes
through the countries: `Look` reads the stored rows and asks with HEAD, `Get` asks with
If-None-Match, `Touch` notes metadata for an unchanged list, `Store` is the transaction that
replaces prefixes and metadata; any of them may fail (`SkipCountry`) without ending the
refresh. A list is the number of its publication and so is its ETag; a date from the index
never equals one from a header, since the two are written differently. After the guard is
dropped, a refresh that changed something rebuilds the lookup database of its control plane:
`ClearLookup` empties it and counts pages, `ReadPage` reads one, `InstallLookup` publishes the
result. Rows are ordered by code; a page has those with as many rows before them (`OnPage`). `excused` is a history variable: the planes whose lookup a failure, an overtaking
rebuild or another control plane has left behind.

### ThreatFeeds

`source`, `state` and `prefixes` are the three tables, by name of source. The handlers are one
transaction each (`CreateSource`, `DeleteSources`, `UpdateSource`), except that the PUT reads
its row before (`ReadForUpdate`). `LoopTick` is `maybe_run` of a background loop, whose gate is
`recent`; `ManualRefresh` the endpoint; `QueuedAttempt` the task that an enabling handler
spawns. From `Acquire` on, each statement of `refresh_enabled_threat_sources` is an action:
sources, states, names of stored prefixes, one download per source, and `PersistBatch`, one
transaction that writes what `Changed` says and the new fingerprints, and bumps the version.
What a run has read is in `work[r]`. The content of a feed is its URL with the number of the
publication, and its fingerprint is the content. Here the lock is `RefreshLease` itself, with
runs that stay within their lease.

## Runs

Each line is a question put to TLC. Two of the answers are counterexamples to what the
repository says of itself; every property of every other run holds.

| Run | Result | What it shows |
|---|---|---|
| `sync_safety` | holds | torn snapshots, racing page fetches, a lost connection, a failed apply and a restart never leave an agent at the current version with another policy; `PolicyDelivery` is implemented; each failure that reaches the limit leaves the maps empty, half-written applies aside |
| `sync_liveness` | holds | after the faults the agent enforces the last policy and the last runtime CIDRs |
| `store` | violated | README.md:108: every change of active rows increments the version. Where writing transactions overlap (PostgreSQL, MySQL), two of them read one version and write the same next one (`src/db/policy_version.rs:43`), so that an agent which has fetched between the commits never learns of the second |
| `monitor_safety` | holds | no change of the registry fails to wake the stream task; a viewer that stays gets a reporter with the switch on, over a lost connection, a failed apply and a restart |
| `monitor_stops` | holds | while connections hold, the reporter stops after the last viewer |
| `data_path` | holds | *Packets:* trusted sources pass, bans are enforced until they end and no longer, the host's own address is never dropped by a ban or a rule, and the rule that decides is the first in the program's order: for every policy of up to three rows and every packet of the instance. *Writes:* a source treated alike by all policies involved is treated so at every moment, nothing older is left, and what is recorded as applied is what the maps hold. *Buckets:* with two CPUs racing on one bucket, what passes stays within the burst, the rate and a cost per race or eviction; without races nobody is starved and a block lasts exactly its time |
| `rule_order` | violated | README.md:237: longest-prefix matching first. `lookup_rule` looks for the longest prefix only within a class of protocol and port (`bpf/xdp_firewall.c:295`), so that a rule for one port of a wide prefix decides over a threat prefix inside it |
| `bans` | holds | no failure in the file is missed or counted twice, bans are neither cleaned up early nor kept for ever, nobody is banned twice and every offender is banned, over rotation, restart, lost and late requests |
| `tables` | holds | no two rows alike, and the version moves when active rows do and only then, with two clients, batches and seeds |
| `xdp` | holds | program, pins and the agent's handles are the same maps, which have room for what is written; foreign programs survive; growth is enforced in the end, over failed commands, kills and interference |
| `geo` | holds | one refresh at a time, ETag and list belong together, lists only move forward and in the end are the published ones, the lookup database follows; the lock implements `RefreshLease` |
| `feeds` | holds | prefixes and fingerprint belong together, prefixes never go back to an older publication, every change of what agents get bumps the version, and enabled feeds are in the end stored as they are served |

### Where the code departs from its documentation

The runs `store` and `rule_order` are two cases. The following configurations are kept to be run
by hand. Each checks what a text of the repository, or a reader of the code, would expect, and
ends with a counterexample.

| Configuration | Module | Property | What happens |
|---|---|---|---|
| `TablesOverlap.cfg` | `MCPolicyTables` | `ActiveChangesBump` | README.md:108 again. A handler that finds a row as it wants it bumps nothing, although another transaction has changed the row since (`trusted_cidrs/input.rs:65`). |
| `MonitorLostOnResize.cfg` | `MCDropMonitor` | `MonitorStarts` | README.md:361 says that agents report while somebody watches. A policy that outgrows the maps makes `apply` attach again, which starts with the switch off (`attach_lifecycle.rs:100`), and a reporter that is running already is not started again. |
| `LockFirstUse.cfg` | `MCRefreshLock` | `OneRefresh` | The row of the lock is inserted with the moment that the UPDATE then compares with (`intelligence/threat/lock.rs:110`, `geo/lock.rs:88`): on an empty database, two runs that insert and load one after the other both take it. |
| `FeedsBlocked.cfg` | `MCThreatFeeds` | `NewFeedIsMaterialized` | README.md:160 promises that a new feed is stored at once. A provider that does not answer ends the whole refresh (`refresh/batch.rs:42`), and a new feed next to it stays empty as long as that lasts. |
| `BansRefused.cfg` | `MCPacketPath` | `EveryBanEnforced` | README.md:236 says that matching sources are dropped. A ban absorbed by a wider one goes with it when the wider one is refused because it covers the host itself (`pending/temp_bans.rs:13`). |
| `XdpStale.cfg` | `MCXdpLifecycle` | `AppliedIsEnforced` | A resize that fails after the detach leaves the agent with handles on maps that no program reads; a later policy that fits them is written there and reported as applied (`apply.rs:82`). |

`ApplySettles.cfg` (`MCPolicyApply`) is kept to be run by hand as well, and holds: a policy that
fits next to what the maps hold is recorded as applied in the end (`FittingPolicySettles`).

More that the models show has no configuration of its own:

- A bump that overlaps a commit takes the version back (`VersionIsMonotone` with
  `BumpOverlap`).
- Policy changes that race page fetches are counted like lost connections, up to an unload
  while every connection works (`FetchPageRefused`).
- When the last viewer leaves while an agent is disconnected, the new stream takes its reporter
  to be off and announces nothing (`MonitorStops` with a connection fault).
- A policy that fits the maps, but not together with the one it replaces, is refused at the
  same insert at every retry, which is why `FittingPolicySettles` asks for room for both; what
  `AppliedIsHeld` and `OnlyRecentEntries` say holds for it as well.
- Rules that an apply wrote part-way after an unload stay in the maps through every later
  outage, because only an apply that succeeds resets `rules_unloaded`: `UnloadedAtLimit` leaves
  that case out by name (`~clean`).
- Temporary bans are written before trusted CIDRs, so a policy that brings a ban together with
  an exception to it drops the exempted source until the second map is written; the guarantees
  of `PolicyApply` are about sources that every policy involved treats alike.
- A country whose action is *allow* is as good as none.
- A refresh that read a source before it was disabled stores the rows which the handler had
  just deleted; agents are not sent them.
- Two rebuilds of the lookup of one control plane may overlap, and the older be installed last;
  a refresh by another control plane rebuilds nothing here. The lookup is empty during a
  rebuild and after a failed one. Pages are counted first, so rows that are inserted meanwhile
  shift them. All of this is what `excused` excuses.
- The country loop sleeps for a day between ticks, so that the exception from the throttle for
  missing lists (README.md:262) has an effect only when a process starts.
- In direct mode without `allow_replace` a resize can never succeed, and fails after the pins
  are gone. `verify_dispatcher_map_identity` compares with what is pinned at that moment. Two
  concurrent attaches leave two entries of the dispatcher, and neither is rolled back
  (docs/PLAN.md:307 promises a rollback).
- A batch of the monitor that contains one node's address is refused every round, with all the
  addresses in its chunk and the chunks after it (`OffenderBanned` leaves it out).

### Bounds

Every bound is a constant with a name that begins with `Max`, and cuts off a counter that
the code does not bound.

- Store: two writers with four commits; two suffice for a lost increment. The serialised store
  is part of the two `sync` runs.
- Sync: two tables and one page for safety (a snapshot can be torn between tables, and between
  tables and page), one of each for liveness; two writers and two commits after the initial
  one, so that one falls into the load and one into the fetch; a channel of 1 or 2 in place of
  8, so that it fills; at most one fault of a kind, since each leads back to `connecting` with
  nothing left but the applied version, the maps and the two offline fields. The failure limit
  is 1 in `sync_safety`, so that a fault and a refused page are two outages, and 2 elsewhere,
  so that the count itself matters.
- Monitor: two viewers, so that one can leave while the other comes, and two visits;
  two versions; at most one fault of each kind in a run.
- Apply: a wide and a narrow prefix, the smallest map in which one entry shadows another; six
  policies chosen so that each step between two of them moves a source from one map to
  another; capacities of 1 and 2, at which one policy fills a map; three changes and two
  faults, so that two failed applies of different policies lie under a third.
- Packet path: addresses of two bits, so that prefixes nest twice; 28 candidate rows of every
  table that collide in key, prefix or order, and every policy of at most three of them: three
  rows are a longer, a shorter and an intervening one. A packet is followed by nothing
  else, since it changes nothing that the next step reads. Eight packets, three moments, so that
  bans of two lengths end one after the other.
- Bucket: two CPUs, a burst of one and a token every two ticks: the smallest bucket in which a
  fraction of a token can be lost. Up to four packets, each of which may overlap another, and
  one eviction; limiters with and without a block time. Four ticks are two tokens and a block
  that ends. `rule_order` needs two rows and no time.
- Lifecycle: both strategies, every combination of options, policies of 1, 3 and 5 entries for
  maps of 1 that can grow to 4: one that fits, one that needs a resize, one that never fits. One
  fault at any command and one act of somebody else, which leads through every rollback.
- Tables: one key, two values, two clients and three requests with batches of two: a row, its
  duplicate, and a change of either. Without overlap, as in SQLite.
- Bans: two addresses, one of them a node's; two failures; pages and chunks of one row, so that
  a list and a submission can each be cut in the middle; one trouble. Four rows are never
  exceeded.
- What the runs have one of, the theorems have any number of: clients in `feeds`, stream tasks
  that clean up in `bans`, countries in `geo`.
- Lock and country lists: two runs, since what a third could do to one of them, the second does
  too, of one control plane; one country, three stamps, which lets one run be at work with an
  older release still on its way; two publications. A lease does not run out under a refresh
  that is still at work (`SlowRefresh` is FALSE).
- Feeds: one source name with one URL and two publications; two rows, so that a source is
  deleted and created again under its name with a new id; the loop, the endpoint and a job;
  one client. A request that enables a source waits in the model until one of the `Jobs` is
  free, where the code spawns another task. A queued refresh gives up at the first busy lock in
  place of the twelfth (`MaxAttempts`): what it may then leave undone is left to the loop. The version is counted modulo 2,
  since only its change matters.

### Fairness

- `PolicySync`: the stream task, the agent and the supervisor that restarts an exited agent
  are weakly fair: each is a loop that always takes its next step. Writers, faults and the
  discovery are not: they may stop, and do when their bounds are spent.
- `DropMonitor`: as above; the wake-up of the stream task is strongly fair, because
  `tokio::select!` polls its branches in random order and therefore takes a branch that is
  ready again and again, and a notification that is pending stays pending until it is read.
- `PolicyApply`, in `ApplySettles.cfg` only: an apply once started runs on, and a policy not
  recorded as applied is pushed again at the next subscription, which is what `PolicySync` shows;
  so `Agent` is weakly fair.
- `BtmpMonitor`: the daemon polls, lists and submits again after every interval, failed or not;
  time passes. The clean-up is strongly fair, because push ticks come again and again while an
  agent is connected and the database fails now and then, not for ever.
- `XdpLifecycle`: agent and tool take their next step; a supervisor restarts the agent.
- `GeoLists`: spawned refreshes run, the loop ticks, releases are carried out and leases end.
  Requests, publications and faults are not fair. `ListsConverge` is about behaviours in which
  faults come to an end.
- `ThreatFeeds`: spawned tasks run, loops tick, intervals pass, and a lock that was left is
  freed: each is weakly fair. Clients, providers and faults are not. `FeedsConverge` is about
  behaviours in which the sources, the faults and the failing providers come to an end.
- `PacketPath`, `TokenBucket` and `PolicyTables` state no liveness.

## Proofs

TLAPS checks the theorems for all values of the constants.

`PolicySyncProofs` assumes `StoreAssumption` and `SyncAssumption` (parts,
orders, capacities) and, for most of the theorems, `Serialised`: one writing
transaction at a time and no bump across one. That premise is needed, as the run `store` and the bump above show:
they hold for SQLite. Proved: `TypeCorrect`, `InvariantHolds`, `AgentInSync`,
`HalfWrittenIsRetried`, `DeliveryImplemented` (initial states and steps of the refinement, put
together) and, without that premise, `RulesAreUnloaded`. `InSync` alone is not inductive: that the agent's maps are
right when its version is current depends on the update it applied, that one on the pages, the
tables and the version read before them, and on the queue in between. `IInv` follows an update
along that way: whatever is loaded of it is *fresh*, which means equal to what the database
holds or replaced since the version the update claims. A commit keeps that true, since it
raises the version together with the content, and at the end, where version and database
agree, "replaced since" is impossible and equality is left.

`MapsProofs` extends `PolicyApply` and `PacketPath`, which is why the names of the specification
and its actions in `PolicyApply` carry `Apply`. Of the writes it assumes `ApplyAssumption`:
finitely many keys, and policies that fit. Proved: `WritesTyped` (with the capacity of each map),
`WritesInvariant`, `NoOldEntries`, `RecordedIsExact`, `TrustIsKept`,
`DropIsKept`, and both together as `AgreementIsKept`. The invariant: the maps hold every key of *some* policy involved (the old one
until the last write, the new one from then on) and only values that some policy involved has.
A lookup that succeeds for that policy therefore succeeds in the maps, and whatever it finds
there is the opinion of a policy involved. The order of the maps within the writes plays no
part in it; only that all writes precede all removals. `RecordedIsExact` needs the same of the
writes and that the removal of stale keys is complete before the version is recorded.

`GeoListsProofs` begins with the lock. It assumes `LockAssumption` and, by name, `LockRowSeeded` and `~SlowRefresh`:
without the first `LockFirstUse.cfg` is a counterexample, and without the second a refresh that
outlives its lease is one. Proved: `LockInvHolds`, `OneRefreshAtATime` and `LockImplementsLease`. That two runs never
hold the lock says nothing about the moment before; `LockInv` adds that the row names the
holder and its moment, that the moment of a run that is still trying is written nowhere, and
that a run whose comparison will succeed has read the row when it was free. Writing one's own
moment, which nobody has read, is what makes everybody else's comparison fail; a row inserted
with that moment breaks exactly this. The refinement follows action by action: a row written
with a new moment overtakes everybody who has read the row, which is `Overtake` of
`RefreshLease`, and a holder that ends leaves a row with its name in it, which is `Quit`.

About the lists it rests on these premises and on `GeoAssumption`. Proved: `GeoInvHolds`,
`EtagsAreRight`, `ListsOnlyMoveForward`, `LookupsFollowTheLists` and, from `LockImplementsLease`,
`ListsImplementLease`.
A refresh looks, asks and stores in separate steps;
the invariant says that what it has noted of a country lies between the list that is stored and
the newest publication, which stays true because only the holder of the lock stores lists and
publications only become more. The rebuild of a lookup has no lock. `LookupInv` says of each
control plane that is not excused that its lookup is the stored lists, or that one of its runs
owes a rebuild, or is at one and has the lists of exactly the rows on the pages before; whatever
could make that false, another rebuild or a list that changes meanwhile, excuses the plane. That
the pages counted at the start take in every row is `LastPage`.

Of the feeds, `ControlPlaneProofs` assumes `FeedAssumption`; their lock is `RefreshLease`, so runs that stay
within their lease are part of the model. Proved: `FeedInvHolds`, `FingerprintsAreRight`,
`PublicationsOnlyMoveForward` and `ChangesAreAnnounced`. One run has the lock (`OneHolder`), and
while it is at work others may delete prefixes but not store any; so the fingerprints it has
read fit what is still there, a source left alone because its fingerprint has not changed has
the right prefixes, and what it downloads is no older than what is stored. A second invariant
(`OrderInv`) carries the order of publications. That every change of what agents get moves the
version needs only that counting modulo 2 or more never repeats at once (`NextVersion`).

What it proves of `DropMonitor` needs no assumption on the constants.
`NoChangeIsLost`: from the moment the stream
task has read the registry, what it has told the agent is true, or it will be woken, or a viewer
has changed the registry and is still to notify. The weaker property speaks of a waiting task
only; its invariant has to cover the steps that lead there.

Of the packet path, `MapsProofs` assumes `PathAssumption` (columns have their types) and `NoneAssumption`
(model values differ from rows). The invariant, `InPlace`, is that the maps are what the rows
compile to at some moment not after now; each verdict follows from it and from what
compilation and lookup guarantee of each other. `HostIsNotCutOff`: every deny entry in the maps
has a prefix without an address of the interface, which compaction, ordering and deduplication
keep (`LocalSpared`), and what a lookup hits is a key whose prefix contains the source.
`TrustedSourcesPass`: a trusted prefix that compaction drops is covered by one that stays.
`BansAreEnforced`: of the bans that match, compaction keeps one that lasts as long, and the
prefixes of an address nest, so the longest one in the trie has a ban that lasts longest
unless a refused one absorbed it. `TheBestRuleDecides`: of the rows of one key the first in
order is kept, the class looked up first is the most exact, and the longest prefix in it is
unique. Within a class that is the order of README.md:237; between classes it is the program's
own (`GoesBefore`), which the run `rule_order` shows to be another one. That a longest match exists is by well-foundedness of the natural numbers.

`TokenBucketProofs` assumes `BucketAssumption`, in particular that `elapsed` times the rate
does not wrap. Proved: `BucketsTyped`, for packets that do not overlap `NobodyStarves` and
`BlocksHold`, and for all `RateIsBounded`. Beyond types, the first invariant has three parts:
without overlaps one CPU at most is between two of its reads and writes, and it is ahead of all
history (`InSequence`); a bucket without a whole token owes that to a packet that passed since less
than a token's time, or to the fraction that `updated_ns` keeps (`Refilling`); and the moment in
`blocked_until_ns` is that of the last packet that found the bucket empty plus the block time
(`Blocking`), as long as nothing is evicted.
The second (`RateInv`) keeps an account of every period: what has passed in it, against the bursts and
the rate that make room for it. While packets overlap there is room for each of them, and for
a burst more unless the bucket is empty and every one of them will find it so (`Parched`); a packet
on its own is paid for by the tokens it has read and what they are yet to earn (`Funded`), or by a
burst that no bucket has given out yet. The two bursts of an overlapping packet, with a token that
the bucket holds, make room for the packets in progress and for a full bucket after them; if it holds
none, none of them will pass. So the account does not care who writes last, or that a `now` which is
before `updated_ns` wraps to a full refill.

`XdpLifecycleProofs` assumes `XdpAssumption` and `PowersAssumption`, which states of the powers
of two that the growth of maps computes that they are numbers that exceed their exponents; TLC
evaluates it. Proved: `TypeCorrect`, `MapsAreLive`, `WritesHaveRoom` and `OthersAreKept`. That a running
agent writes to what its program reads depends on every step of the attach before it: the
invariant says, for each step, what is attached and pinned at that point (`Attaching`), that
the capacity asked for is enough for the policy held (`Growing`), and what holds once the agent
runs (`Live`); all of it as long as nobody interferes, because the operator, another program's
owner and `xdp replace` may change pins and programs between any two commands.

`BtmpMonitorProofs` assumes `BansAssumption` and `BtmpAssumption`: bounds and durations are numbers, pages
are not empty. Proved: `InvHolds`, `FailuresAreCounted`, `OnlyTheOperatorLifts` and
`NobodyIsBannedTwice`. `FileIsCounted` is not inductive: that a record is counted once needs that nothing
after the point where the next read starts has been counted, and that a half record, which counts
for nothing until it is whole, is the newest (`FileInv`). A file that is cut in place may be
read from the middle and then misses records, which is why the part about what has been read
leaves that case out (`cutInPlace`); no cut leads to a record counted twice. Of the listing, `ListInv` says
that the rows of a rank below the pages asked for are in the list. New rows expire last, so they
get the highest ranks and shift nobody; a row that goes shifts others to a page that has been
read, which `moved` excuses. A ban in force is then no candidate, and what is submitted comes from
the candidates. Clean-up compares with a time that is not after the clock (`BanInv`), so what it
takes has run out.

`PolicyTablesProofs` assumes `TablesAssumption`: finitely many keys, and the rows of the example
seed differ from each other. Proved for transactions that do not overlap (`~TxnOverlap`, SQLite):
`RowsDiffer` and `VersionTellsOfChanges`; each is false without that premise
(`TablesOverlap.cfg`). `Inv` says that ids and what identifies a row differ. Statement by
statement, `active` is shown to tell exactly whether what an agent is sent has changed: for
an item of a batch `Creates`, along a batch `Batch`, for everything else `Honest`. A batch
that names one CIDR twice may enable and disable it and end where it began; `TwoForOneKey` is
that exception, and the proof that it is the only one rests on the items having different keys
otherwise, so that no item undoes what another did. A batch is a recursive function; that it is
defined, and what holds after each item, is by the least item for which it does not hold
(`RunsExist`, `Items`, `CreateAllTied`), since induction theorems cannot be instantiated here.
Proved without that premise, for every database: `TypeCorrect` and `KeysAreUnique`. There a
statement writes to rows that are not the ones selected; `OverlapInv` carries, for every
transaction still open, that a row it has selected and a stored row of the same id have the same
table and key, which holds because ids are not used again and no statement changes a key.

Only model-checked:

- All liveness (`EventuallyInSync`, `MonitorStarts`, `MonitorStops`, `FittingPolicySettles`,
  `GrowthIsEnforced`, `ListsConverge`, `FeedsConverge`, `ExpiredRemoved`, `OffenderBanned`):
  `ENABLED` and fairness are out of this prover's reach.

Every invariant and every action property of the runs that hold is a theorem, and so is every
refinement up to its fairness.

Type invariants that are proved are in no run; those of the other modules are stated for the
reader.

## What is not modelled

- One agent and one stream at a time: agents share nothing but the store. A page of GeoIP
  prefixes is loaded in one step. Orderly shutdown and `sync --once` are the same steps in a
  straight line.
- Rows that do not decode: the code skips or refuses them one by one, in validation that has no
  state.
- The defence-settings entry and the growth of maps in `PolicyApply` (the second is in
  `XdpLifecycle`); a packet that spans several writes of `PolicyApply`, which would see what
  some order of two policies gives; the clock of bans there.
- Contents of messages, packet headers beyond the fields that decide, and the text of feeds and
  lists: parsers turn bytes into the rows the models start from.
- Heartbeats and pruning of nodes: one upsert and one delete by age, whose only race (a node
  pruned while it reports) is made good by the next heartbeat.
- The lookup databases' file formats, migrations, authentication and TLS, the Kubernetes client,
  the command line and the frontend: plumbing, generated or third-party code, with no state
  that the properties above speak of.
- SlowRefresh for the country lists: a refresh that outlives its lease breaks `OneRefresh`, as
  said above, and with it everything that rests on it.
- The limiters of manual refreshes (5 minutes): a request may come at any time in the models.
- A mirror whose HEAD and GET answers come from different publications, or leave a header out:
  the code then falls back from the one to the other.
- Feeds without a single prefix: the code finds such a source missing at every refresh, writes
  nothing for it and raises the version all the same (`intelligence/threat/refresh/batch.rs:84`).
  In `ThreatFeeds` every publication has prefixes.
- Bans of different lengths in `TempBans`: every ban lasts `Duration` from its commit, where a
  row has a duration of its own that is counted from before the transaction
  (`temp_bans/input.rs:30`). Rows may therefore be listed in another order than the one they came
  in; an insertion in the middle moves rows to later pages only, which does not lose them from
  a listing. `PacketPath` has bans of different lengths.
- Requests that delete rows which another transaction has deleted meanwhile: `DeleteFoundRules`
  refuses if any is gone, `delete_by_query` only if all are. Without overlap there is no
  difference.
- The first use of a refresh lock: `RefreshLock` has its row (`LockRowSeeded`) except in
  `LockFirstUse.cfg`.

## Plan

Done, in this order: `PolicyStore`, `PolicyDelivery`, `PolicySync` with proofs, `DropMonitor`,
`PolicyApply` with proofs, `RefreshLease` and `RefreshLock` with proofs, `ThreatFeeds`, `PacketPath`, `TokenBucket`,
`TempBans` and `BtmpMonitor`, `PolicyTables`, `XdpLifecycle`, `GeoLists`, and proofs
about each of them, `RefreshLock` as an implementation of `RefreshLease` among them. What is left:

1. Composition of `PolicySync` with `PolicyApply` in place of its one-step apply, and of
   `PolicyApply` with the growth of maps in `XdpLifecycle`.
2. Two control planes in `GeoLists`, with the rebuild of each.
