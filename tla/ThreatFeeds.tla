---------------------------- MODULE ThreatFeeds ----------------------------
(***************************************************************************)
(* Threat-intelligence sources: the API handlers that create, switch and   *)
(* delete them, and the refreshes that download their feeds and store the  *)
(* prefixes agents are given.  A refresh is started by the background loop *)
(* of a control plane, by POST /threat-sources/refresh, or queued by the   *)
(* handler that enabled a source.  It takes the refresh lock (RefreshLease, *)
(* which RefreshLock implements), reads the sources and what is stored of  *)
(* them, downloads each feed, and stores everything in one transaction.    *)
(*                                                                         *)
(* What a feed contains is its URL and the number of its publication; the  *)
(* fingerprint of a content is the content, since equal prefix sets have   *)
(* equal fingerprints and the hash is taken to be injective.               *)
(***************************************************************************)
EXTENDS RefreshLease, Integers

CONSTANTS
    Names,          \* names of sources
    Urls,           \* where feeds are published
    Unreliable,     \* URLs whose provider may stop answering
    MaxRevision,    \* bound on the publications of a feed
    None,           \* no row, nothing fetched
    Loops,          \* background loops: one per active control plane
    Manuals,        \* control planes that serve POST /threat-sources/refresh
    Jobs,           \* queued refreshes; their number bounds those under way
    MaxAttempts,    \* QUEUED_THREAT_REFRESH_MAX_ATTEMPTS
    Clients,        \* clients of PUT /threat-sources/{id}
    MaxIds,         \* bound on the number of sources ever created
    VersionModulus  \* the policy version is counted modulo this

ASSUME FeedAssumption ==
    /\ Runs = Loops \cup Manuals \cup Jobs
    /\ Loops \cap Manuals = {} /\ Loops \cap Jobs = {} /\ Manuals \cap Jobs = {}
    /\ None \notin Urls /\ Unreliable \subseteq Urls
    /\ MaxAttempts \in Nat \ {0} /\ MaxIds \in Nat /\ MaxRevision \in Nat \ {0}
    /\ VersionModulus \in Nat \ {0, 1}

VARIABLES
    source,     \* firewall_threat_sources: [Names -> row or None]
    state,      \* firewall_threat_source_states: the fingerprint of each name
    prefixes,   \* firewall_threat_prefixes: the stored content of each name
    version,    \* the policy version
    lastId,     \* the last id given to a source
    edit,       \* each client's PUT between its read and its transaction
    feed,       \* the publication each URL serves
    down,       \* URLs whose provider does not answer
    work,       \* what each run has read and downloaded so far
    attempts,   \* attempts of each queued refresh, 0 when there is none
    recent      \* loops that succeeded within AUTO_REFRESH_INTERVAL

tableVars == <<source, state, prefixes, version, lastId, edit>>
worldVars == <<feed, down>>
timerVars == <<attempts, recent>>
feedVars == <<leaseVars, tableVars, worldVars, work, timerVars>>

-----------------------------------------------------------------------------
Contents == Urls \X (1..MaxRevision)

SourceRow == [id : 1..MaxIds, enabled : BOOLEAN, url : Urls]
NoEdit == [name |-> None, id |-> 0, enable |-> FALSE]

\* A run that holds no lock has read nothing.
NoWork == [step |-> "none", url |-> [n \in Names |-> None],
           known |-> [n \in Names |-> None], present |-> {},
           got |-> [n \in Names |-> None]]

WorkType ==
    [step : {"none", "sources", "states", "prefixes", "fetch"},
     url : [Names -> Urls \cup {None}], known : [Names -> Contents \cup {None}],
     present : SUBSET Names, got : [Names -> Contents \cup {None}]]

FeedInit ==
    /\ LeaseInit
    /\ source = [n \in Names |-> None]
    /\ state = [n \in Names |-> None]
    /\ prefixes = [n \in Names |-> None]
    /\ version = 0
    /\ lastId = 0
    /\ edit = [c \in Clients |-> NoEdit]
    /\ feed = [u \in Urls |-> 1]
    /\ down = {}
    /\ work = [r \in Runs |-> NoWork]
    /\ attempts = [j \in Jobs |-> 0]
    /\ recent = Loops          \* TimedRefreshState::new_successful

Enabled(n) == source[n] # None /\ source[n].enabled

Bump == version' = (version + 1) % VersionModulus

\* next_policy_version_in_transaction, if what agents are given changed.
BumpIf(changed) == IF changed THEN Bump ELSE UNCHANGED version

-----------------------------------------------------------------------------
(***************************************************************************)
(* The API.                                                                *)
(***************************************************************************)

\* spawn_threat_refresh, which always finds room: the model keeps an
\* enabling request waiting until one of its Jobs is free.
SpawnRefresh ==
    \E j \in Jobs : /\ attempts[j] = 0
                    /\ attempts' = [attempts EXCEPT ![j] = 1]

SpawnRefreshIf(enabled) == IF enabled THEN SpawnRefresh ELSE UNCHANGED attempts

\* POST /threat-sources.  A name that is there is returned unchanged, or is a
\* conflict: neither changes anything.
CreateSource(n, u, enabled) ==
    /\ source[n] = None
    /\ lastId < MaxIds
    /\ lastId' = lastId + 1
    /\ source' = [source EXCEPT ![n] = [id |-> lastId + 1, enabled |-> enabled, url |-> u]]
    /\ BumpIf(enabled)
    /\ SpawnRefreshIf(enabled)
    /\ UNCHANGED <<leaseVars, state, prefixes, edit, worldVars, work, recent>>

\* Mutant: the state goes, the prefixes stay.
DeleteStatesOnly(names) ==
    /\ state' = [n \in Names |-> IF n \in names THEN None ELSE state[n]]
    /\ UNCHANGED prefixes

DeleteStates(names) ==
    /\ state' = [n \in Names |-> IF n \in names THEN None ELSE state[n]]
    /\ prefixes' = [n \in Names |-> IF n \in names THEN None ELSE prefixes[n]]

\* DELETE /threat-sources/{id}, by name, or several at once.
DeleteSources(names) ==
    /\ names # {} /\ \A n \in names : source[n] # None
    /\ source' = [n \in Names |-> IF n \in names THEN None ELSE source[n]]
    /\ DeleteStates(names)
    /\ BumpIf(\E n \in names : Enabled(n))
    /\ UNCHANGED <<leaseVars, lastId, edit, worldVars, work, timerVars>>

\* PUT /threat-sources/{id} reads the row outside its transaction; a row that
\* is already as requested is returned.
ReadForUpdate(c, n) ==
    /\ edit[c] = NoEdit
    /\ source[n] # None
    /\ edit' = [edit EXCEPT ![c] =
                   [name |-> n, id |-> source[n].id, enable |-> ~source[n].enabled]]
    /\ UNCHANGED <<leaseVars, source, state, prefixes, version, lastId, worldVars,
                   work, timerVars>>

\* The transaction.  The UPDATE is by id: it fails when the row is gone.
UpdateSource(c) ==
    /\ edit[c] # NoEdit
    /\ edit' = [edit EXCEPT ![c] = NoEdit]
    /\ IF source[edit[c].name] # None /\ source[edit[c].name].id = edit[c].id
       THEN /\ source' = [source EXCEPT ![edit[c].name].enabled = edit[c].enable]
            /\ DeleteStates(IF edit[c].enable THEN {} ELSE {edit[c].name})
            /\ Bump
            /\ SpawnRefreshIf(edit[c].enable)
       ELSE UNCHANGED <<source, state, prefixes, version, attempts>>
    /\ UNCHANGED <<leaseVars, lastId, worldVars, work, recent>>

-----------------------------------------------------------------------------
(***************************************************************************)
(* Who starts a refresh.                                                   *)
(***************************************************************************)

\* enabled_threat_source_states_missing
StatesMissing ==
    \E n \in Names : Enabled(n) /\ (state[n] = None \/ prefixes[n] = None)

\* ThreatSourceRefresh::maybe_run on a tick of the loop.  The code asks for
\* missing rows some time before it starts; an answer that is no longer true
\* starts a refresh that might as well be due.  THREAT_REFRESH_RETRY_INTERVAL,
\* five minutes, may have passed since the last attempt at any time.
LoopTick(l) ==
    /\ l \in recent => StatesMissing
    /\ BeginTry(l)
    /\ UNCHANGED <<tableVars, worldVars, work, attempts, recent>>

\* AUTO_REFRESH_INTERVAL, one day, passes.
IntervalElapses(r) ==
    /\ r \in recent
    /\ recent' = recent \ {r}
    /\ UNCHANGED <<leaseVars, tableVars, worldVars, work, attempts>>

\* POST /threat-sources/refresh, through RefreshLimiter::start_or_cached.  A
\* limiter is not asked about its last start: MANUAL_REFRESH_RATE_LIMIT, five
\* minutes, may have passed at any time.
ManualRefresh(m) ==
    /\ BeginTry(m)
    /\ UNCHANGED <<tableVars, worldVars, work, timerVars>>

\* An attempt of a queued refresh.
QueuedAttempt(j) ==
    /\ attempts[j] > 0
    /\ BeginTry(j)
    /\ UNCHANGED <<tableVars, worldVars, work, timerVars>>

\* How a run ends.  A loop notes a success; a queued refresh tries again if
\* the lock was busy; a limiter only becomes free.
Ended(r, outcome) ==
    /\ recent' = IF r \in Loops /\ outcome = "ok" THEN recent \cup {r} ELSE recent
    /\ attempts' = IF r \notin Jobs THEN attempts
                   ELSE IF outcome = "running" /\ attempts[r] < MaxAttempts
                        THEN [attempts EXCEPT ![r] = @ + 1]
                        ELSE [attempts EXCEPT ![r] = 0]
    /\ work' = [work EXCEPT ![r] = NoWork]

-----------------------------------------------------------------------------
(***************************************************************************)
(* refresh_enabled_threat_sources.                                         *)
(***************************************************************************)
Acquire(r) ==
    /\ Take(r)
    /\ work' = [work EXCEPT ![r].step = "sources"]
    /\ UNCHANGED <<tableVars, worldVars, timerVars>>

\* "running elsewhere" is reported.
EndRefused(r) ==
    /\ Refuse(r)
    /\ Ended(r, "running")
    /\ UNCHANGED <<tableVars, worldVars>>

\* A statement of try_acquire fails, before or after the lock is marked.
EndAcquireFailed(r) ==
    /\ FailToTry(r) \/ TakeUnnoticed(r)
    /\ Ended(r, "err")
    /\ UNCHANGED <<tableVars, worldVars>>

Finish(r, outcome) ==
    /\ Quit(r)
    /\ Ended(r, outcome)

\* load_enabled_threat_sources; with none the refresh is over.
LoadSources(r) ==
    /\ work[r].step = "sources"
    /\ IF \E n \in Names : Enabled(n)
       THEN /\ work' = [work EXCEPT ![r].step = "states",
                           ![r].url = [n \in Names |-> IF Enabled(n) THEN source[n].url ELSE None]]
            /\ UNCHANGED <<leaseVars, timerVars>>
       ELSE Finish(r, "ok")
    /\ UNCHANGED <<tableVars, worldVars>>

\* load_existing_threat_states
LoadStates(r) ==
    /\ work[r].step = "states"
    /\ work' = [work EXCEPT ![r].step = "prefixes", ![r].known = state]
    /\ UNCHANGED <<leaseVars, tableVars, worldVars, timerVars>>

\* load_existing_threat_prefix_sources
LoadPrefixSources(r) ==
    /\ work[r].step = "prefixes"
    /\ work' = [work EXCEPT ![r].step = "fetch",
                            ![r].present = {n \in Names : prefixes[n] # None}]
    /\ UNCHANGED <<leaseVars, tableVars, worldVars, timerVars>>

Wanted(r) == {n \in Names : work[r].url[n] # None}

\* Mutant: a feed that is known is not downloaded again.
FetchFeedOnce(r, n) ==
    /\ work[r].step = "fetch"
    /\ n \in Wanted(r) /\ work[r].got[n] = None
    /\ work[r].url[n] \notin down
    /\ work' = [work EXCEPT ![r].got[n] = IF work[r].known[n] # None THEN work[r].known[n]
                                         ELSE <<work[r].url[n], feed[work[r].url[n]]>>]
    /\ UNCHANGED <<leaseVars, tableVars, worldVars, timerVars>>

\* A feed is downloaded; the sources are taken one after the other.
FetchFeed(r, n) ==
    /\ work[r].step = "fetch"
    /\ n \in Wanted(r) /\ work[r].got[n] = None
    /\ work[r].url[n] \notin down
    /\ work' = [work EXCEPT ![r].got[n] = <<work[r].url[n], feed[work[r].url[n]]>>]
    /\ UNCHANGED <<leaseVars, tableVars, worldVars, timerVars>>

\* A failed download ends the refresh: nothing of the batch is stored.
FetchFails(r, n) ==
    /\ work[r].step = "fetch"
    /\ n \in Wanted(r) /\ work[r].got[n] = None
    /\ work[r].url[n] \in down
    /\ Finish(r, "err")
    /\ UNCHANGED <<tableVars, worldVars>>

\* threat_source_changed
Changed(r, n) ==
    /\ n \in Wanted(r)
    /\ work[r].got[n] # work[r].known[n] \/ n \notin work[r].present

\* Mutant: a changed feed is stored and the version left as it is.
PersistBatchWithoutBump(r) ==
    /\ work[r].step = "fetch"
    /\ \A n \in Wanted(r) : work[r].got[n] # None
    /\ prefixes' = [n \in Names |-> IF Changed(r, n) THEN work[r].got[n] ELSE prefixes[n]]
    /\ state' = [n \in Names |-> IF n \in Wanted(r) THEN work[r].got[n] ELSE state[n]]
    /\ Finish(r, "ok")
    /\ UNCHANGED <<source, version, lastId, edit, worldVars>>

\* persist_threat_refresh_batch: the prefixes of the sources that changed, the
\* states of all of them, and the version, in one transaction.
PersistBatch(r) ==
    /\ work[r].step = "fetch"
    /\ \A n \in Wanted(r) : work[r].got[n] # None
    /\ prefixes' = [n \in Names |-> IF Changed(r, n) THEN work[r].got[n] ELSE prefixes[n]]
    /\ state' = [n \in Names |-> IF n \in Wanted(r) THEN work[r].got[n] ELSE state[n]]
    /\ BumpIf(\E n \in Names : Changed(r, n))
    /\ Finish(r, "ok")
    /\ UNCHANGED <<source, lastId, edit, worldVars>>

\* A statement of the refresh fails, or its transaction does not commit.
RefreshFails(r) ==
    /\ HasLease(r)
    /\ Finish(r, "err")
    /\ UNCHANGED <<tableVars, worldVars>>

\* A control plane dies: its runs die one after the other, and so do the queue
\* and the timers, which are in memory.  The loop begins again as after a success.
CrashRun(r) ==
    /\ FailToTry(r) \/ Quit(r) \/ (phase[r] = "idle" /\ UNCHANGED leaseVars)
    /\ work' = [work EXCEPT ![r] = NoWork]
    /\ attempts' = [j \in Jobs |-> IF j = r THEN 0 ELSE attempts[j]]
    /\ recent' = IF r \in Loops THEN recent \cup {r} ELSE recent
    /\ UNCHANGED <<tableVars, worldVars>>

\* The lease of a run that ended runs out, or its release is carried out.
LockFrees ==
    /\ Lapse \/ Free
    /\ UNCHANGED <<tableVars, worldVars, work, timerVars>>

-----------------------------------------------------------------------------
(***************************************************************************)
(* The providers.                                                          *)
(***************************************************************************)
Publish(u) ==
    /\ feed[u] < MaxRevision
    /\ feed' = [feed EXCEPT ![u] = @ + 1]
    /\ UNCHANGED <<leaseVars, tableVars, down, work, timerVars>>

ProviderDown(u) ==
    /\ u \in Unreliable \ down
    /\ down' = down \cup {u}
    /\ UNCHANGED <<leaseVars, tableVars, feed, work, timerVars>>

ProviderUp(u) ==
    /\ u \in down
    /\ down' = down \ {u}
    /\ UNCHANGED <<leaseVars, tableVars, feed, work, timerVars>>

-----------------------------------------------------------------------------
Api ==
    \/ \E n \in Names, u \in Urls, e \in BOOLEAN : CreateSource(n, u, e)
    \/ \E names \in SUBSET Names : DeleteSources(names)
    \/ \E c \in Clients, n \in Names : ReadForUpdate(c, n)

Start(r) ==
    \/ r \in Loops /\ LoopTick(r)
    \/ r \in Manuals /\ ManualRefresh(r)
    \/ r \in Jobs /\ QueuedAttempt(r)

Refresh(r) ==
    \/ Acquire(r) \/ EndRefused(r)
    \/ LoadSources(r) \/ LoadStates(r) \/ LoadPrefixSources(r)
    \/ \E n \in Names : FetchFeed(r, n) \/ FetchFails(r, n)
    \/ PersistBatch(r)

Faults(r) == EndAcquireFailed(r) \/ RefreshFails(r) \/ CrashRun(r)

Providers ==
    \E u \in Urls :
        ProviderDown(u) \/ ProviderUp(u) \/ Publish(u)

Timers == \E l \in Loops : IntervalElapses(l)

FeedNext ==
    \/ Api \/ \E c \in Clients : UpdateSource(c)
    \/ \E r \in Runs : Start(r) \/ Refresh(r) \/ Faults(r)
    \/ LockFrees \/ Timers \/ Providers

FeedSpec == FeedInit /\ [][FeedNext]_feedVars

(***************************************************************************)
(* Tasks that were spawned are run, loops tick, time passes.  Nothing is   *)
(* assumed of clients, providers and faults.                               *)
(***************************************************************************)
FairFeedSpec ==
    /\ FeedSpec
    /\ \A r \in Runs : WF_feedVars(Refresh(r))
    /\ \A l \in Loops :
        WF_feedVars(LoopTick(l)) /\ WF_feedVars(IntervalElapses(l))
    /\ \A j \in Jobs : WF_feedVars(QueuedAttempt(j))
    /\ \A c \in Clients : WF_feedVars(UpdateSource(c))
    /\ WF_feedVars(LockFrees)

-----------------------------------------------------------------------------
(***************************************************************************)
(* Properties.                                                             *)
(***************************************************************************)
FeedTypeOK ==
    /\ LeaseTypeOK
    /\ source \in [Names -> SourceRow \cup {None}]
    /\ state \in [Names -> Contents \cup {None}]
    /\ prefixes \in [Names -> Contents \cup {None}]
    /\ version \in 0..(VersionModulus - 1) /\ lastId \in 0..MaxIds
    /\ edit \in [Clients -> [name : Names, id : 1..MaxIds, enable : BOOLEAN] \cup {NoEdit}]
    /\ feed \in [Urls -> 1..MaxRevision] /\ down \subseteq Urls
    /\ work \in [Runs -> WorkType]
    /\ \A r \in Runs : HasLease(r) <=> work[r].step # "none"
    /\ attempts \in [Jobs -> 0..MaxAttempts]
    /\ recent \subseteq Loops

(* The fingerprint stored for a source is that of the prefixes stored for  *)
(* it.  If they came apart, every later refresh would find the fingerprint *)
(* unchanged and leave the wrong prefixes in place.                        *)
FingerprintMatches ==
    \A n \in Names : prefixes[n] # None => state[n] = prefixes[n]

(* What agents block because of a source never goes back to an older       *)
(* publication of the same feed, whatever refreshes overlap.               *)
NeverOlder ==
    \A n \in Names :
        /\ prefixes[n] # None /\ prefixes'[n] # None
        /\ prefixes[n][1] = prefixes'[n][1]
        => prefixes[n][2] <= prefixes'[n][2]

PrefixesNeverOlder == [][NeverOlder]_feedVars

(* What a snapshot contains of the sources. *)
Effective ==
    [n \in Names |-> IF Enabled(n) THEN <<source[n].url, prefixes[n]>> ELSE <<>>]

(* Whatever changes what agents are given advances the policy version in   *)
(* the same step, so that they are sent it.                                *)
EffectiveChangeBumps == [][Effective' # Effective => version' # version]_feedVars

(* Once clients leave the sources alone and nothing fails any more, the    *)
(* agents are given what every enabled feed now serves: no order of edits, *)
(* failures, crashes and overlapping refreshes before leaves a feed stale  *)
(* or missing for good.                                                    *)
Disturbed == \/ \E n \in Names : source'[n] # source[n]
             \/ \E r \in Runs : Faults(r) /\ ~Refresh(r)

Fresh == \A n \in Names : Enabled(n) => prefixes[n] = <<source[n].url, feed[source[n].url]>>

FeedsConverge ==
    (<>[][~Disturbed]_feedVars /\ <>[](down = {})) => <>[]Fresh

(* README.md: a newly added feed is "materialized without waiting a full   *)
(* day", and a provider that is unavailable costs only its own feed.       *)
NewFeedIsMaterialized ==
    \A n \in Names :
        (<>[][~Disturbed]_feedVars /\ <>[](Enabled(n) /\ source[n].url \notin down))
            => <>(prefixes[n] # None)
=============================================================================
