------------------------- MODULE ControlPlaneProofs -------------------------
(***************************************************************************)
(* The control plane between its handlers.                                 *)
(*                                                                         *)
(* Safety of the threat sources, for any number of sources, control planes, *)
(* clients and queued refreshes and whatever fails: the fingerprint of a   *)
(* source is that of its stored prefixes, although what a refresh compares *)
(* with was read some transactions before it writes; what is stored never  *)
(* goes back to an older publication; and whatever changes what agents are *)
(* given advances the version.                                             *)
(*                                                                         *)
(* And of the drop monitor's hub: no change of the registry is lost        *)
(* between the mutex, the watch channel and the cursor of the stream task, *)
(* for any number of viewers and any number of faults.                     *)
(***************************************************************************)
EXTENDS ThreatFeeds, DropMonitor, TLAPS

USE FeedAssumption

Fields == {"step", "url", "known", "present", "got"}
Shape(w) == w = [f \in Fields |-> w[f]]

(* Nobody but the holder of the lock stores prefixes: what it has read of  *)
(* a fingerprint still fits the prefixes, unless they have been deleted.   *)
WorkOk(w, stored) ==
    /\ Shape(w)
    /\ w.step \in {"prefixes", "fetch"} =>
        \A n \in Names : stored[n] # None => w.known[n] = stored[n]

OneHolder ==
    /\ phase = [r \in Runs |-> phase[r]]
    /\ \A r, s \in Runs : HasLease(r) /\ HasLease(s) => r = s

TablesOk ==
    /\ state = [n \in Names |-> state[n]] /\ prefixes = [n \in Names |-> prefixes[n]]
    /\ FingerprintMatches

RunsOk ==
    /\ work = [r \in Runs |-> work[r]]
    /\ \A r \in Runs : WorkOk(work[r], prefixes)
    /\ \A r \in Runs : work[r].step # "none" => HasLease(r)

FeedInv == OneHolder /\ TablesOk /\ RunsOk

-----------------------------------------------------------------------------
LEMMA IdleIsOk == ASSUME NEW stored PROVE WorkOk(NoWork, stored)
<1>1. Shape(NoWork)
  BY DEF Shape, Fields, NoWork
<1>2. NoWork.step = "none"
  BY DEF NoWork
<1>. QED  BY <1>1, <1>2 DEF WorkOk

(* The lock is given to one run at a time. *)
LEMMA LeaseStep ==
    ASSUME OneHolder, NEW r \in Runs,
           \/ BeginTry(r) \/ Take(r) \/ TakeUnnoticed(r) \/ Refuse(r) \/ FailToTry(r)
           \/ Quit(r) \/ Lapse \/ Free \/ UNCHANGED leaseVars
    PROVE  OneHolder'
BY DEF OneHolder, HasLease, LeaseBusy, BeginTry, Take, TakeUnnoticed, Refuse, FailToTry,
       GiveUp, Quit, Lapse, Free, leaseVars

(* Neither of these takes the lock from another run. *)
LEMMA OthersHold ==
    ASSUME OneHolder, NEW r \in Runs, NEW s \in Runs, s # r,
           \/ BeginTry(r) \/ Take(r) \/ TakeUnnoticed(r) \/ Refuse(r) \/ FailToTry(r)
           \/ Quit(r) \/ UNCHANGED leaseVars
    PROVE  HasLease(s)' <=> HasLease(s)
BY DEF OneHolder, HasLease, BeginTry, Take, TakeUnnoticed, Refuse, FailToTry,
       GiveUp, Quit, leaseVars

(* Rows may be deleted, and one run may move on. *)
LEMMA RunMoves ==
    ASSUME FeedInv, OneHolder',
           UNCHANGED <<state, prefixes>>,
           NEW r \in Runs,
           work' = [q \in Runs |-> work'[q]],
           \A q \in Runs \ {r} : work'[q] = work[q] /\ (HasLease(q)' <=> HasLease(q)),
           WorkOk(work'[r], prefixes),
           work'[r].step # "none" => HasLease(r)'
    PROVE  FeedInv'
<1>1. TablesOk'
  BY DEF FeedInv, TablesOk, FingerprintMatches
<1>2. \A q \in Runs : WorkOk(work'[q], prefixes)
  BY DEF FeedInv, RunsOk
<1>3. \A q \in Runs : work'[q].step # "none" => HasLease(q)'
  BY DEF FeedInv, RunsOk
<1>4. RunsOk'
  BY <1>2, <1>3 DEF RunsOk
<1>. QED  BY <1>1, <1>4 DEF FeedInv

LEMMA DeletionKeeps ==
    ASSUME FeedInv, UNCHANGED <<phase, work>>, NEW names, DeleteStates(names)
    PROVE  FeedInv'
<1>1. TablesOk'
  BY DEF FeedInv, TablesOk, FingerprintMatches, DeleteStates
<1>2. OneHolder' /\ \A r \in Runs : HasLease(r)' <=> HasLease(r)
  BY DEF FeedInv, OneHolder, HasLease
<1>3. \A n \in Names : prefixes'[n] # None => prefixes'[n] = prefixes[n]
  BY DEF DeleteStates
<1>4. \A r \in Runs : WorkOk(work[r], prefixes')
  BY <1>3 DEF FeedInv, RunsOk, WorkOk
<1>. QED  BY <1>1, <1>2, <1>4 DEF FeedInv, RunsOk

(* Nothing that the invariant speaks of changes. *)
LEMMA OthersKeep ==
    ASSUME FeedInv, OneHolder', UNCHANGED <<state, prefixes, work>>,
           \A r \in Runs : HasLease(r) => HasLease(r)'
    PROVE  FeedInv'
<1>1. TablesOk'
  BY DEF FeedInv, TablesOk, FingerprintMatches
<1>2. RunsOk'
  BY DEF FeedInv, RunsOk
<1>. QED  BY <1>1, <1>2 DEF FeedInv

-----------------------------------------------------------------------------
LEMMA ApiKeeps ==
    ASSUME FeedInv, Api \/ \E c \in Clients : UpdateSource(c)
    PROVE  FeedInv'
<1>1. ASSUME NEW names, DeleteSources(names) PROVE FeedInv'
  BY <1>1, DeletionKeeps DEF DeleteSources, leaseVars
<1>2. ASSUME NEW n \in Names, NEW u \in Urls, NEW e \in BOOLEAN, CreateSource(n, u, e)
      PROVE  FeedInv'
  <2>1. UNCHANGED <<state, prefixes, work, phase>>
    BY <1>2 DEF CreateSource, leaseVars
  <2>. QED  BY <2>1, OthersKeep DEF FeedInv, OneHolder, HasLease
<1>3. ASSUME NEW c \in Clients, NEW n \in Names, ReadForUpdate(c, n) PROVE FeedInv'
  <2>1. UNCHANGED <<state, prefixes, work, phase>>
    BY <1>3 DEF ReadForUpdate, leaseVars
  <2>. QED  BY <2>1, OthersKeep DEF FeedInv, OneHolder, HasLease
<1>4. ASSUME NEW c \in Clients, UpdateSource(c) PROVE FeedInv'
  <2>1. UNCHANGED <<work, phase>>
    BY <1>4 DEF UpdateSource, leaseVars
  <2>2. CASE UNCHANGED <<state, prefixes>>
    BY <2>1, <2>2, OthersKeep DEF FeedInv, OneHolder, HasLease
  <2>3. CASE \E names : DeleteStates(names)
    BY <2>1, <2>3, DeletionKeeps
  <2>. QED  BY <1>4, <2>2, <2>3 DEF UpdateSource
<1>. QED  BY <1>1, <1>2, <1>3, <1>4 DEF Api

(* A run that gives up, is refused, fails or dies has read nothing any     *)
(* more.                                                                   *)
LEMMA EndKeeps ==
    ASSUME FeedInv, NEW r \in Runs,
           UNCHANGED <<state, prefixes>>, work' = [work EXCEPT ![r] = NoWork],
           \/ Refuse(r) \/ FailToTry(r) \/ TakeUnnoticed(r) \/ Quit(r) \/ UNCHANGED leaseVars
    PROVE  FeedInv'
<1>1. OneHolder'
  BY LeaseStep DEF FeedInv
<1>2. /\ work' = [q \in Runs |-> work'[q]] /\ work'[r] = NoWork
      /\ \A q \in Runs \ {r} : work'[q] = work[q]
  BY DEF FeedInv, RunsOk
<1>3. \A q \in Runs \ {r} : HasLease(q)' <=> HasLease(q)
  BY OthersHold DEF FeedInv
<1>4. WorkOk(work'[r], prefixes)
  BY <1>2, IdleIsOk
<1>5. work'[r].step = "none"
  BY <1>2 DEF NoWork
<1>. QED  BY <1>1, <1>2, <1>3, <1>4, <1>5, RunMoves

LEMMA FaultKeeps ==
    ASSUME FeedInv, NEW r \in Runs, EndRefused(r) \/ Faults(r)
    PROVE  FeedInv'
BY EndKeeps DEF EndRefused, Faults, EndAcquireFailed, RefreshFails, CrashRun, Finish, Ended,
                tableVars

LEMMA StartKeeps ==
    ASSUME FeedInv, NEW r \in Runs, Start(r)
    PROVE  FeedInv'
<1>1. BeginTry(r) /\ UNCHANGED <<state, prefixes, work>>
  BY DEF Start, LoopTick, ManualRefresh, QueuedAttempt, tableVars
<1>2. OneHolder'
  BY <1>1, LeaseStep DEF FeedInv
<1>3. \A q \in Runs : HasLease(q) => HasLease(q)'
  BY <1>1 DEF BeginTry, HasLease, FeedInv, OneHolder
<1>. QED  BY <1>1, <1>2, <1>3, OthersKeep

-----------------------------------------------------------------------------
(* The actions of a refresh. *)
LEMMA AcquireKeeps ==
    ASSUME FeedInv, NEW r \in Runs, Acquire(r)
    PROVE  FeedInv'
<1>1. OneHolder' /\ UNCHANGED <<state, prefixes>>
  BY LeaseStep DEF FeedInv, Acquire, tableVars
<1>2. /\ work' = [q \in Runs |-> work'[q]] /\ \A q \in Runs \ {r} : work'[q] = work[q]
      /\ Shape(work'[r]) /\ work'[r].step = "sources"
  BY ZenonT(40) DEF FeedInv, RunsOk, WorkOk, Shape, Fields, Acquire
<1>3. \A q \in Runs \ {r} : HasLease(q)' <=> HasLease(q)
  BY OthersHold DEF FeedInv, Acquire
<1>4. HasLease(r)'
  BY DEF Acquire, Take, HasLease, FeedInv, OneHolder
<1>5. WorkOk(work'[r], prefixes)
  BY <1>2 DEF WorkOk
<1>. QED  BY <1>1, <1>2, <1>3, <1>4, <1>5, RunMoves

(* What is read and downloaded. *)
LEMMA ReadingKeeps ==
    ASSUME FeedInv, NEW r \in Runs,
           \/ LoadSources(r) /\ UNCHANGED leaseVars
           \/ LoadStates(r) \/ LoadPrefixSources(r) \/ \E n \in Names : FetchFeed(r, n)
    PROVE  FeedInv'
<1>1. UNCHANGED <<state, prefixes, phase>> /\ work[r].step # "none"
  BY DEF LoadSources, LoadStates, LoadPrefixSources, FetchFeed, tableVars, leaseVars
<1>2. OneHolder' /\ \A q \in Runs : HasLease(q)' <=> HasLease(q)
  BY <1>1 DEF FeedInv, OneHolder, HasLease
<1>3. HasLease(r)'
  BY <1>1, <1>2 DEF FeedInv, RunsOk
<1>4. work = [q \in Runs |-> work[q]] /\ Shape(work[r])
  BY DEF FeedInv, RunsOk, WorkOk
<1>5. /\ work' = [q \in Runs |-> work'[q]] /\ \A q \in Runs \ {r} : work'[q] = work[q]
      /\ WorkOk(work'[r], prefixes)
  <2>1. CASE LoadSources(r)
    <3>1. work' = [work EXCEPT ![r].step = "states", ![r].url = work'[r].url]
          \/ work' = [work EXCEPT ![r] = NoWork]
      BY <1>4, <2>1 DEF LoadSources, Finish, Ended, Shape, Fields
    <3>2. CASE work' = [work EXCEPT ![r] = NoWork]
      BY <1>4, <3>2, IdleIsOk
    <3>3. CASE work' = [work EXCEPT ![r].step = "states", ![r].url = work'[r].url]
      <4>1. /\ work' = [q \in Runs |-> work'[q]] /\ \A q \in Runs \ {r} : work'[q] = work[q]
            /\ Shape(work'[r]) /\ work'[r].step = "states"
        BY <1>4, <3>3 DEF Shape, Fields
      <4>. QED  BY <4>1 DEF WorkOk
    <3>. QED  BY <3>1, <3>2, <3>3
  <2>2. CASE LoadStates(r)
    <3>1. /\ work' = [q \in Runs |-> work'[q]] /\ \A q \in Runs \ {r} : work'[q] = work[q]
          /\ Shape(work'[r]) /\ work'[r].known = state
      BY <1>4, <2>2 DEF LoadStates, Shape, Fields
    <3>. QED  BY <3>1 DEF WorkOk, FeedInv, TablesOk, FingerprintMatches
  <2>3. CASE LoadPrefixSources(r)
    <3>1. /\ work' = [q \in Runs |-> work'[q]] /\ \A q \in Runs \ {r} : work'[q] = work[q]
          /\ Shape(work'[r]) /\ work'[r].known = work[r].known
          /\ work[r].step = "prefixes"
      BY <1>4, <2>3 DEF LoadPrefixSources, Shape, Fields
    <3>. QED  BY <3>1, SMTT(30) DEF WorkOk, FeedInv, RunsOk
  <2>4. CASE \E n \in Names : FetchFeed(r, n)
    <3>0. PICK n \in Names :
             /\ work[r].step = "fetch"
             /\ work' = [work EXCEPT ![r].got[n] = <<work[r].url[n], feed[work[r].url[n]]>>]
      BY <2>4 DEF FetchFeed
    <3>1. /\ work' = [q \in Runs |-> work'[q]] /\ \A q \in Runs \ {r} : work'[q] = work[q]
          /\ Shape(work'[r]) /\ work'[r].known = work[r].known
      BY <1>4, <3>0 DEF Shape, Fields
    <3>2. \A m \in Names : prefixes[m] # None => work[r].known[m] = prefixes[m]
      BY <3>0 DEF WorkOk, FeedInv, RunsOk
    <3>3. WorkOk(work'[r], prefixes)
      BY <3>1, <3>2 DEF WorkOk
    <3>. QED  BY <3>1, <3>3
  <2>. QED  BY <2>1, <2>2, <2>3, <2>4
<1>. QED  BY <1>1, <1>2, <1>3, <1>5, RunMoves

(* What is stored of a source is either new with its fingerprint, or was   *)
(* left alone because its fingerprint is the one that was read.            *)
LEMMA PersistKeeps ==
    ASSUME FeedInv, NEW r \in Runs, PersistBatch(r)
    PROVE  FeedInv'
<1>1. /\ work[r].step = "fetch" /\ Quit(r)
      /\ work' = [work EXCEPT ![r] = NoWork]
      /\ prefixes' = [n \in Names |-> IF Changed(r, n) THEN work[r].got[n] ELSE prefixes[n]]
      /\ state' = [n \in Names |-> IF n \in Wanted(r) THEN work[r].got[n] ELSE state[n]]
  BY DEF PersistBatch, Finish, Ended
<1>2. ASSUME NEW n \in Names, prefixes'[n] # None PROVE state'[n] = prefixes'[n]
  <2>1. CASE n \in Wanted(r) /\ ~Changed(r, n)
    <3>1. work[r].got[n] = work[r].known[n] /\ prefixes'[n] = prefixes[n]
      BY <1>1, <2>1 DEF Changed
    <3>2. work[r].known[n] = prefixes[n]
      BY <1>1, <1>2, <3>1 DEF FeedInv, RunsOk, WorkOk
    <3>. QED  BY <1>1, <2>1, <3>1, <3>2
  <2>2. CASE Changed(r, n)
    BY <1>1, <2>2 DEF Changed
  <2>3. CASE n \notin Wanted(r)
    BY <1>1, <1>2, <2>3 DEF Changed, FeedInv, TablesOk, FingerprintMatches
  <2>. QED  BY <2>1, <2>2, <2>3
<1>3. TablesOk'
  BY <1>1, <1>2 DEF TablesOk, FingerprintMatches
<1>4. OneHolder'
  BY <1>1, LeaseStep DEF FeedInv
<1>5. /\ work' = [q \in Runs |-> work'[q]] /\ work'[r] = NoWork
      /\ \A q \in Runs \ {r} : work'[q] = work[q]
  BY <1>1 DEF FeedInv, RunsOk
<1>6. \A q \in Runs \ {r} : work[q].step = "none"
  BY <1>1 DEF Quit, FeedInv, OneHolder, RunsOk
<1>7. \A q \in Runs : work'[q].step = "none"
  BY <1>5, <1>6 DEF NoWork
<1>8. \A q \in Runs : Shape(work'[q])
  BY <1>5, IdleIsOk DEF WorkOk, FeedInv, RunsOk
<1>9. RunsOk'
  BY <1>5, <1>7, <1>8 DEF RunsOk, WorkOk
<1>. QED  BY <1>3, <1>4, <1>9 DEF FeedInv

LEMMA RefreshKeeps ==
    ASSUME FeedInv, NEW r \in Runs, Refresh(r)
    PROVE  FeedInv'
<1>1. CASE LoadSources(r) /\ ~UNCHANGED leaseVars
  BY <1>1, EndKeeps DEF LoadSources, Finish, Ended, tableVars
<1>2. ASSUME NEW n \in Names, FetchFails(r, n) PROVE FeedInv'
  BY <1>2, EndKeeps DEF FetchFails, Finish, Ended, tableVars
<1>. QED
  BY <1>1, <1>2, AcquireKeeps, FaultKeeps, ReadingKeeps, PersistKeeps DEF Refresh

LEMMA FeedInvStep == FeedInv /\ [FeedNext]_feedVars => FeedInv'
<1>. SUFFICES ASSUME FeedInv, [FeedNext]_feedVars PROVE FeedInv'
  OBVIOUS
<1>1. CASE \/ LockFrees \/ Timers \/ Providers \/ UNCHANGED feedVars
  <2>1. UNCHANGED <<phase, state, prefixes, work>>
    BY <1>1 DEF LockFrees, Lapse, Free, Timers, IntervalElapses, Providers, ProviderDown,
                ProviderUp, Publish, feedVars, leaseVars, tableVars
  <2>. QED  BY <2>1, OthersKeep DEF FeedInv, OneHolder, HasLease
<1>2. CASE Api \/ \E c \in Clients : UpdateSource(c)
  BY <1>2, ApiKeeps
<1>3. ASSUME NEW r \in Runs, Start(r) \/ Refresh(r) \/ Faults(r) PROVE FeedInv'
  BY <1>3, StartKeeps, RefreshKeeps, FaultKeeps
<1>. QED  BY <1>1, <1>2, <1>3 DEF FeedNext

THEOREM FeedInvHolds == FeedSpec => []FeedInv
<1>1. FeedInit => FeedInv
  <2>. SUFFICES ASSUME FeedInit PROVE FeedInv
    OBVIOUS
  <2>1. OneHolder /\ TablesOk
    BY DEF FeedInit, LeaseInit, OneHolder, HasLease, TablesOk, FingerprintMatches
  <2>2. work = [r \in Runs |-> work[r]] /\ \A r \in Runs : work[r] = NoWork
    BY DEF FeedInit
  <2>3. RunsOk
    BY <2>2, IdleIsOk, SMTT(30) DEF RunsOk, NoWork
  <2>. QED  BY <2>1, <2>3 DEF FeedInv
<1>. QED  BY <1>1, FeedInvStep, PTL DEF FeedSpec

(* The fingerprint stored for a source is that of the prefixes stored for  *)
(* it (persist_threat_refresh_batch, threat_source_changed), so the next   *)
(* refresh that finds it unchanged is right to leave the prefixes.         *)
THEOREM FingerprintsAreRight == FeedSpec => []FingerprintMatches
<1>1. FeedInv => FingerprintMatches
  BY DEF FeedInv, TablesOk
<1>. QED  BY <1>1, FeedInvHolds, PTL

-----------------------------------------------------------------------------
(***************************************************************************)
(* What is stored never goes back.  A run downloads after it has taken the *)
(* lock, so a publication it has downloaded is no older than what earlier  *)
(* runs have stored, and until it has ended nobody else stores anything.   *)
(***************************************************************************)
RowOk(row) ==
    /\ row = [f \in {"id", "enabled", "url"} |-> row[f]]
    /\ row.url \in Urls

Publication(p, served) ==
    p[1] \in Urls /\ p[2] \in Nat /\ p[2] <= served[p[1]]

(* What a run, w, has downloaded when stored is in the table.              *)
DownloadsOk(w, stored, served) ==
    /\ w.got = [n \in Names |-> w.got[n]]
    /\ w.step # "fetch" => \A n \in Names : w.got[n] = None
    /\ \A n \in Names : w.url[n] \in Urls \cup {None}
    /\ \A n \in Names : w.got[n] # None =>
        /\ Publication(w.got[n], served)
        /\ stored[n] # None /\ stored[n][1] = w.got[n][1] => stored[n][2] <= w.got[n][2]

ServedOk == feed \in [Urls -> Nat]

StoredOk == \A n \in Names : prefixes[n] # None => Publication(prefixes[n], feed)

SourcesOk ==
    /\ source = [n \in Names |-> source[n]]
    /\ \A n \in Names : source[n] # None => RowOk(source[n])

OrderInv ==
    /\ ServedOk /\ StoredOk /\ SourcesOk
    /\ \A r \in Runs : DownloadsOk(work[r], prefixes, feed)

LEMMA NothingDownloaded ==
    ASSUME NEW stored, NEW served
    PROVE  DownloadsOk(NoWork, stored, served)
BY DEF DownloadsOk, NoWork

LEMMA SwitchedRowIsOk ==
    ASSUME NEW row, RowOk(row), NEW on, NEW new, new = [row EXCEPT !.enabled = on]
    PROVE  RowOk(new)
<1>1. new = [f \in {"id", "enabled", "url"} |-> new[f]] /\ new.url = row.url
  BY DEF RowOk
<1>. QED  BY <1>1 DEF RowOk

(* Publications only become more, rows only disappear. *)
LEMMA DownloadsStay ==
    ASSUME NEW w, NEW stored, NEW served \in [Urls -> Nat], NEW fewer,
           NEW newer \in [Urls -> Nat],
           \A n \in Names : fewer[n] # None => fewer[n] = stored[n],
           \A u \in Urls : served[u] <= newer[u],
           DownloadsOk(w, stored, served)
    PROVE  DownloadsOk(w, fewer, newer)
<1>1. \A n \in Names : w.got[n] # None => Publication(w.got[n], newer)
  BY DEF DownloadsOk, Publication
<1>. QED  BY <1>1 DEF DownloadsOk

LEMMA ServingKeeps ==
    ASSUME OrderInv, UNCHANGED <<source, work>>, ServedOk',
           \A n \in Names : prefixes'[n] # None => prefixes'[n] = prefixes[n],
           \A u \in Urls : feed[u] <= feed'[u]
    PROVE  OrderInv'
<1>1. StoredOk'
  BY DEF OrderInv, StoredOk, Publication, ServedOk
<1>2. SourcesOk'
  BY DEF OrderInv, SourcesOk
<1>3. \A r \in Runs : DownloadsOk(work[r], prefixes', feed')
  BY DownloadsStay DEF OrderInv, ServedOk
<1>. QED  BY <1>1, <1>2, <1>3 DEF OrderInv

LEMMA WorldKeepsOrder ==
    ASSUME OrderInv, LockFrees \/ Timers \/ Providers \/ UNCHANGED feedVars
    PROVE  OrderInv'
<1>1. UNCHANGED <<source, work, prefixes>>
  BY DEF LockFrees, Timers, IntervalElapses, Providers, ProviderDown, ProviderUp, Publish,
         feedVars, tableVars
<1>2. feed' = feed \/ \E u \in Urls : feed' = [feed EXCEPT ![u] = @ + 1]
  BY DEF LockFrees, Timers, IntervalElapses, Providers, ProviderDown, ProviderUp, Publish,
         feedVars, worldVars
<1>3. ServedOk' /\ \A u \in Urls : feed[u] <= feed'[u]
  BY <1>2 DEF OrderInv, ServedOk
<1>. QED  BY <1>1, <1>3, ServingKeeps

LEMMA ApiKeepsOrder ==
    ASSUME OrderInv, Api \/ \E c \in Clients : UpdateSource(c)
    PROVE  OrderInv'
<1>1. UNCHANGED <<work, feed>>
  BY DEF Api, CreateSource, DeleteSources, ReadForUpdate, UpdateSource, worldVars
<1>2. \A n \in Names : prefixes'[n] # None => prefixes'[n] = prefixes[n]
  BY ZenonT(40) DEF Api, CreateSource, DeleteSources, ReadForUpdate, UpdateSource, DeleteStates
<1>3. ServedOk' /\ \A u \in Urls : feed[u] <= feed'[u]
  BY <1>1 DEF OrderInv, ServedOk
<1>4. StoredOk'
  BY <1>1, <1>2 DEF OrderInv, StoredOk
<1>5. \A r \in Runs : DownloadsOk(work[r], prefixes', feed')
  BY <1>1, <1>2, <1>3, DownloadsStay DEF OrderInv, ServedOk
<1>6. SourcesOk'
  <2>1. ASSUME NEW n \in Names, NEW u \in Urls, NEW e \in BOOLEAN, CreateSource(n, u, e)
        PROVE  SourcesOk'
    <3>. DEFINE row == [id |-> lastId + 1, enabled |-> e, url |-> u]
    <3>1. RowOk(row)
      BY DEF RowOk
    <3>2. source' = [source EXCEPT ![n] = row]
      BY <2>1 DEF CreateSource
    <3>. HIDE DEF row
    <3>. QED  BY <3>1, <3>2 DEF OrderInv, SourcesOk
  <2>2. ASSUME NEW names, DeleteSources(names) PROVE SourcesOk'
    BY <2>2 DEF DeleteSources, OrderInv, SourcesOk
  <2>3. ASSUME NEW c \in Clients, NEW n \in Names, ReadForUpdate(c, n) PROVE SourcesOk'
    BY <2>3 DEF ReadForUpdate, OrderInv, SourcesOk
  <2>4. ASSUME NEW c \in Clients, UpdateSource(c) PROVE SourcesOk'
    <3>. DEFINE m == edit[c].name
                on == edit[c].enable
    <3>1. \/ source' = source
          \/ source[m] # None /\ source' = [source EXCEPT ![m].enabled = on]
      BY <2>4 DEF UpdateSource
    <3>. HIDE DEF m, on
    <3>2. CASE source' = source
      BY <3>2 DEF OrderInv, SourcesOk
    <3>3. CASE source[m] # None /\ source' = [source EXCEPT ![m].enabled = on]
      <4>1. source' = [n \in Names |-> source'[n]]
        BY <3>3 DEF OrderInv, SourcesOk
      <4>2. \A n \in Names \ {m} : source'[n] = source[n]
        BY <3>3 DEF OrderInv, SourcesOk
      <4>3. m \in Names => source'[m] = [source[m] EXCEPT !.enabled = on] /\ RowOk(source[m])
        BY <3>3 DEF OrderInv, SourcesOk
      <4>4. m \in Names => RowOk(source'[m])
        BY <4>3, SwitchedRowIsOk
      <4>. QED  BY <4>1, <4>2, <4>4 DEF OrderInv, SourcesOk
    <3>. QED  BY <3>1, <3>2, <3>3
  <2>. QED  BY <2>1, <2>2, <2>3, <2>4 DEF Api
<1>. QED  BY <1>1, <1>3, <1>4, <1>5, <1>6 DEF OrderInv

(* One run moves on, the tables stay. *)
LEMMA RunKeepsOrder ==
    ASSUME OrderInv, UNCHANGED <<source, prefixes, feed>>, NEW r \in Runs,
           \A q \in Runs \ {r} : work'[q] = work[q],
           DownloadsOk(work'[r], prefixes, feed)
    PROVE  OrderInv'
<1>1. \A q \in Runs : DownloadsOk(work'[q], prefixes, feed)
  BY DEF OrderInv
<1>. QED  BY <1>1 DEF OrderInv, ServedOk, StoredOk, SourcesOk

LEMMA EndKeepsOrder ==
    ASSUME FeedInv, OrderInv, UNCHANGED <<source, prefixes, feed>>, NEW r \in Runs,
           work' = [work EXCEPT ![r] = NoWork]
    PROVE  OrderInv'
<1>1. work'[r] = NoWork /\ \A q \in Runs \ {r} : work'[q] = work[q]
  BY DEF FeedInv, RunsOk
<1>. QED  BY <1>1, NothingDownloaded, RunKeepsOrder

LEMMA FaultKeepsOrder ==
    ASSUME FeedInv, OrderInv, NEW r \in Runs,
           EndRefused(r) \/ Faults(r) \/ \E n \in Names : FetchFails(r, n)
    PROVE  OrderInv'
BY EndKeepsOrder DEF EndRefused, Faults, EndAcquireFailed, RefreshFails, CrashRun, FetchFails,
                     Finish, Ended, tableVars, worldVars

LEMMA StartKeepsOrder ==
    ASSUME OrderInv, NEW r \in Runs, Start(r)
    PROVE  OrderInv'
<1>1. UNCHANGED <<source, prefixes, feed, work>>
  BY DEF Start, LoopTick, ManualRefresh, QueuedAttempt, tableVars, worldVars
<1>. QED  BY <1>1 DEF OrderInv, ServedOk, StoredOk, SourcesOk

LEMMA FetchKeepsOrder ==
    ASSUME FeedInv, OrderInv, NEW r \in Runs, NEW n \in Names, FetchFeed(r, n)
    PROVE  OrderInv'
<1>1. UNCHANGED <<source, prefixes, feed>>
  BY DEF FetchFeed, tableVars, worldVars
<1>. DEFINE u == work[r].url[n]
            w == work[r]
<1>2. /\ w.step = "fetch" /\ u # None
      /\ work' = [work EXCEPT ![r].got[n] = <<u, feed[u]>>]
  BY DEF FetchFeed, Wanted
<1>3. u \in Urls /\ feed[u] \in Nat
  BY <1>2 DEF OrderInv, DownloadsOk, ServedOk
<1>4. Shape(w) /\ DownloadsOk(w, prefixes, feed) /\ work = [q \in Runs |-> work[q]]
  BY DEF FeedInv, RunsOk, WorkOk, OrderInv
<1>. HIDE DEF u
<1>5. /\ \A q \in Runs \ {r} : work'[q] = work[q]
      /\ work'[r] = [w EXCEPT !.got[n] = <<u, feed[u]>>]
  BY <1>2, <1>4
<1>. HIDE DEF w
<1>6. /\ work'[r].step = w.step /\ work'[r].url = w.url
      /\ work'[r].got = [w.got EXCEPT ![n] = <<u, feed[u]>>]
  BY <1>4, <1>5 DEF Shape, Fields
<1>7. /\ work'[r].got = [m \in Names |-> work'[r].got[m]]
      /\ work'[r].got[n] = <<u, feed[u]>>
      /\ \A m \in Names \ {n} : work'[r].got[m] = w.got[m]
  BY <1>4, <1>6 DEF DownloadsOk
<1>8. Publication(<<u, feed[u]>>, feed)
  BY <1>3 DEF Publication
<1>9. prefixes[n] # None /\ prefixes[n][1] = u => prefixes[n][2] <= feed[u]
  BY DEF OrderInv, StoredOk, Publication
<1>10. DownloadsOk(work'[r], prefixes, feed)
  BY <1>2, <1>4, <1>6, <1>7, <1>8, <1>9, SMTT(30) DEF DownloadsOk
<1>. QED  BY <1>1, <1>5, <1>10, RunKeepsOrder DEF w

LEMMA ReadingKeepsOrder ==
    ASSUME FeedInv, OrderInv, NEW r \in Runs,
           \/ Acquire(r) \/ LoadSources(r) \/ LoadStates(r) \/ LoadPrefixSources(r)
    PROVE  OrderInv'
<1>1. UNCHANGED <<source, prefixes, feed>>
  BY DEF Acquire, LoadSources, LoadStates, LoadPrefixSources, tableVars, worldVars
<1>2. /\ Shape(work[r]) /\ DownloadsOk(work[r], prefixes, feed)
      /\ work = [q \in Runs |-> work[q]]
  BY DEF FeedInv, RunsOk, WorkOk, OrderInv
<1>3. work[r].step # "fetch"
  <2>1. CASE Acquire(r)
    BY <2>1 DEF Acquire, Take, HasLease, FeedInv, RunsOk
  <2>. QED  BY <2>1 DEF LoadSources, LoadStates, LoadPrefixSources
<1>4. CASE work' = [work EXCEPT ![r] = NoWork]
  BY <1>1, <1>4, EndKeepsOrder
<1>. DEFINE urls == [n \in Names |-> IF Enabled(n) THEN source[n].url ELSE None]
<1>5. \A n \in Names : urls[n] \in Urls \cup {None}
  BY DEF Enabled, OrderInv, SourcesOk, RowOk
<1>6. ASSUME \A q \in Runs \ {r} : work'[q] = work[q],
             work'[r].got = work[r].got,
             work'[r].url = work[r].url \/ work'[r].url = urls
      PROVE  OrderInv'
  <2>. HIDE DEF urls
  <2>1. DownloadsOk(work'[r], prefixes, feed)
    BY <1>2, <1>3, <1>5, <1>6 DEF DownloadsOk
  <2>. QED  BY <1>1, <1>6, <2>1, RunKeepsOrder
<1>7. CASE LoadSources(r) /\ work' # [work EXCEPT ![r] = NoWork]
  <2>1. work' = [work EXCEPT ![r].step = "states", ![r].url = urls]
    BY <1>7 DEF LoadSources, Finish, Ended
  <2>. HIDE DEF urls
  <2>2. /\ \A q \in Runs \ {r} : work'[q] = work[q]
        /\ work'[r].got = work[r].got /\ work'[r].url = urls
    BY <1>2, <2>1 DEF Shape, Fields
  <2>. QED  BY <2>2, <1>6
<1>8. CASE Acquire(r) \/ LoadStates(r) \/ LoadPrefixSources(r)
  <2>1. /\ \A q \in Runs \ {r} : work'[q] = work[q]
        /\ work'[r].got = work[r].got /\ work'[r].url = work[r].url
    BY <1>2, <1>8, SMTT(30) DEF Acquire, LoadStates, LoadPrefixSources, Shape, Fields
  <2>. QED  BY <2>1, <1>6
<1>. QED  BY <1>4, <1>7, <1>8

(* What a run stores it has downloaded since it took the lock. *)
LEMMA PersistMovesForward ==
    ASSUME FeedInv, OrderInv, NEW r \in Runs, PersistBatch(r)
    PROVE  OrderInv' /\ NeverOlder
<1>1. /\ work[r].step = "fetch" /\ HasLease(r) /\ UNCHANGED <<source, feed>>
      /\ work' = [work EXCEPT ![r] = NoWork]
      /\ prefixes' = [n \in Names |-> IF Changed(r, n) THEN work[r].got[n] ELSE prefixes[n]]
      /\ \A n \in Wanted(r) : work[r].got[n] # None
  BY DEF PersistBatch, Finish, Ended, Quit, worldVars
<1>2. \A n \in Names : \/ prefixes'[n] = prefixes[n]
                       \/ work[r].got[n] # None /\ prefixes'[n] = work[r].got[n]
  BY <1>1 DEF Changed
<1>3. DownloadsOk(work[r], prefixes, feed)
  BY DEF OrderInv
<1>4. StoredOk'
  BY <1>1, <1>2, <1>3 DEF OrderInv, StoredOk, DownloadsOk, Publication
<1>5. NeverOlder
  BY <1>2, <1>3 DEF NeverOlder, DownloadsOk, OrderInv, StoredOk, Publication
<1>6. /\ work'[r] = NoWork /\ \A q \in Runs \ {r} : work'[q] = work[q]
  BY <1>1 DEF FeedInv, RunsOk
<1>7. \A q \in Runs \ {r} : work[q].step = "none"
  BY <1>1 DEF FeedInv, OneHolder, RunsOk
<1>8. ASSUME NEW q \in Runs PROVE DownloadsOk(work'[q], prefixes', feed)
  <2>1. CASE q = r
    BY <1>6, <2>1, NothingDownloaded
  <2>2. CASE q # r
    BY <1>6, <1>7, <2>2 DEF OrderInv, DownloadsOk
  <2>. QED  BY <2>1, <2>2
<1>9. OrderInv'
  BY <1>1, <1>4, <1>8 DEF OrderInv, ServedOk, SourcesOk
<1>. QED  BY <1>5, <1>9

(* Nobody else stores a publication. *)
LEMMA OthersMoveForward ==
    ASSUME OrderInv, \A n \in Names : prefixes'[n] # None => prefixes'[n] = prefixes[n]
    PROVE  NeverOlder
BY DEF OrderInv, StoredOk, Publication, NeverOlder

LEMMA OrderStep ==
    ASSUME FeedInv, OrderInv, [FeedNext]_feedVars
    PROVE  OrderInv' /\ NeverOlder
<1>1. CASE LockFrees \/ Timers \/ Providers \/ UNCHANGED feedVars
  <2>1. UNCHANGED prefixes
    BY <1>1 DEF LockFrees, Timers, IntervalElapses, Providers, ProviderDown, ProviderUp,
                Publish, feedVars, tableVars
  <2>. QED  BY <1>1, <2>1, WorldKeepsOrder, OthersMoveForward
<1>2. CASE Api \/ \E c \in Clients : UpdateSource(c)
  <2>1. \A n \in Names : prefixes'[n] # None => prefixes'[n] = prefixes[n]
    BY <1>2, ZenonT(40) DEF Api, CreateSource, DeleteSources, ReadForUpdate, UpdateSource, DeleteStates
  <2>. QED  BY <1>2, <2>1, ApiKeepsOrder, OthersMoveForward
<1>3. ASSUME NEW r \in Runs, Start(r) \/ Faults(r) \/ (Refresh(r) /\ ~PersistBatch(r))
      PROVE  OrderInv' /\ NeverOlder
  <2>1. UNCHANGED prefixes
    BY <1>3 DEF Start, LoopTick, ManualRefresh, QueuedAttempt, Faults, EndAcquireFailed,
                RefreshFails, CrashRun, Refresh, Acquire, EndRefused, LoadSources, LoadStates,
                LoadPrefixSources, FetchFeed, FetchFails, tableVars
  <2>2. OrderInv'
    BY <1>3, StartKeepsOrder, FaultKeepsOrder, ReadingKeepsOrder, FetchKeepsOrder DEF Refresh
  <2>. QED  BY <2>1, <2>2, OthersMoveForward
<1>4. ASSUME NEW r \in Runs, PersistBatch(r) PROVE OrderInv' /\ NeverOlder
  BY <1>4, PersistMovesForward
<1>. QED  BY <1>1, <1>2, <1>3, <1>4 DEF FeedNext

LEMMA OrderInvHolds == FeedSpec => [](FeedInv /\ OrderInv)
<1>1. FeedInit => OrderInv
  <2>. SUFFICES ASSUME FeedInit PROVE OrderInv
    OBVIOUS
  <2>1. ServedOk /\ StoredOk /\ SourcesOk
    BY DEF FeedInit, ServedOk, StoredOk, SourcesOk
  <2>2. \A r \in Runs : work[r] = NoWork
    BY DEF FeedInit
  <2>. QED  BY <2>1, <2>2, NothingDownloaded DEF OrderInv
<1>2. FeedInv /\ OrderInv /\ [FeedNext]_feedVars => OrderInv'
  BY OrderStep
<1>. QED  BY <1>1, <1>2, FeedInvHolds, PTL DEF FeedSpec

(* What agents block because of a source never goes back to an older        *)
(* publication of its feed (refresh_enabled_threat_sources), because a      *)
(* refresh downloads and stores under the lock.                             *)
THEOREM PublicationsOnlyMoveForward == FeedSpec => PrefixesNeverOlder
<1>1. FeedInv /\ OrderInv /\ [FeedNext]_feedVars => [NeverOlder]_feedVars
  BY OrderStep
<1>. QED  BY <1>1, OrderInvHolds, PTL DEF FeedSpec, PrefixesNeverOlder

-----------------------------------------------------------------------------
(***************************************************************************)
(* Whatever changes what agents are given advances the version.            *)
(***************************************************************************)
VersionOk == version \in 0..(VersionModulus - 1)

LEMMA NextVersion ==
    ASSUME NEW v \in 0..(VersionModulus - 1)
    PROVE  /\ (v + 1) % VersionModulus # v
           /\ (v + 1) % VersionModulus \in 0..(VersionModulus - 1)
<1>1. CASE v + 1 = VersionModulus
  <2>1. VersionModulus % VersionModulus = 0
    OBVIOUS
  <2>. QED  BY <1>1, <2>1
<1>2. CASE v + 1 < VersionModulus
  <2>1. (v + 1) % VersionModulus = v + 1
    BY <1>2
  <2>. QED  BY <1>2, <2>1
<1>. QED  BY <1>1, <1>2

LEMMA BumpChanges == ASSUME VersionOk, Bump PROVE VersionOk' /\ version' # version
BY NextVersion DEF Bump, VersionOk

LEMMA SameTables == ASSUME UNCHANGED <<source, prefixes>> PROVE Effective' = Effective
BY DEF Effective, Enabled

(* A step that does not bump changes nothing that agents see. *)
LEMMA QuietSteps ==
    ASSUME FeedInv, OrderInv, [FeedNext]_feedVars, ~Bump
    PROVE  version' = version /\ Effective' = Effective
<1>1. CASE LockFrees \/ Timers \/ Providers \/ UNCHANGED feedVars
  <2>1. UNCHANGED <<version, source, prefixes>>
    BY <1>1 DEF LockFrees, Timers, IntervalElapses, Providers, ProviderDown, ProviderUp,
                Publish, feedVars, tableVars
  <2>. QED  BY <2>1, SameTables
<1>2. ASSUME NEW n \in Names, NEW u \in Urls, NEW e \in BOOLEAN, CreateSource(n, u, e)
      PROVE  version' = version /\ Effective' = Effective
  <2>. DEFINE row == [id |-> lastId + 1, enabled |-> e, url |-> u]
  <2>1. ~e /\ UNCHANGED <<version, prefixes>> /\ source[n] = None
    BY <1>2 DEF CreateSource, BumpIf
  <2>2. source' = [source EXCEPT ![n] = row] /\ ~row.enabled
    BY <1>2, <2>1 DEF CreateSource
  <2>. HIDE DEF row
  <2>3. source'[n] = row
    BY <2>2 DEF OrderInv, SourcesOk
  <2>4. \A m \in Names \ {n} : source'[m] = source[m]
    BY <2>2 DEF OrderInv, SourcesOk
  <2>5. ~Enabled(n) /\ ~Enabled(n)'
    BY <2>1, <2>2, <2>3 DEF Enabled
  <2>6. \A m \in Names : (Enabled(m)' <=> Enabled(m)) /\ (Enabled(m) => source'[m] = source[m])
    BY <2>4, <2>5 DEF Enabled
  <2>. QED  BY <2>1, <2>6 DEF Effective
<1>3. ASSUME NEW names, DeleteSources(names)
      PROVE  version' = version /\ Effective' = Effective
  <2>1. /\ version' = version /\ \A n \in names : ~Enabled(n)
        /\ source' = [n \in Names |-> IF n \in names THEN None ELSE source[n]]
        /\ prefixes' = [n \in Names |-> IF n \in names THEN None ELSE prefixes[n]]
    BY <1>3, ~Bump DEF DeleteSources, DeleteStates, BumpIf
  <2>. QED  BY <2>1 DEF Effective, Enabled
<1>4. ASSUME NEW c \in Clients, NEW n \in Names, ReadForUpdate(c, n)
      PROVE  version' = version /\ Effective' = Effective
  BY <1>4, SameTables DEF ReadForUpdate
<1>5. ASSUME NEW c \in Clients, UpdateSource(c)
      PROVE  version' = version /\ Effective' = Effective
  BY <1>5, SameTables DEF UpdateSource
<1>6. ASSUME NEW r \in Runs, PersistBatch(r)
      PROVE  version' = version /\ Effective' = Effective
  <2>1. /\ version' = version /\ source' = source /\ \A n \in Names : ~Changed(r, n)
        /\ prefixes' = [n \in Names |-> IF Changed(r, n) THEN work[r].got[n] ELSE prefixes[n]]
    BY <1>6, ~Bump DEF PersistBatch, BumpIf
  <2>2. prefixes' = prefixes
    BY <2>1 DEF FeedInv, TablesOk
  <2>. QED  BY <2>1, <2>2, SameTables
<1>7. ASSUME NEW r \in Runs, Start(r) \/ Faults(r) \/ (Refresh(r) /\ ~PersistBatch(r))
      PROVE  version' = version /\ Effective' = Effective
  <2>1. UNCHANGED <<version, source, prefixes>>
    BY <1>7 DEF Start, LoopTick, ManualRefresh, QueuedAttempt, Faults, EndAcquireFailed,
                RefreshFails, CrashRun, Refresh, Acquire, EndRefused, LoadSources, LoadStates,
                LoadPrefixSources, FetchFeed, FetchFails, tableVars
  <2>. QED  BY <2>1, SameTables
<1>. QED
  BY <1>1, <1>2, <1>3, <1>4, <1>5, <1>6, <1>7 DEF FeedNext, Api

(* What a snapshot contains of the sources changes only in a transaction    *)
(* that also advances the version (next_policy_version_in_transaction), so  *)
(* no client, no refresh and no order of them leaves the agents with less.  *)
THEOREM ChangesAreAnnounced == FeedSpec => EffectiveChangeBumps
<1>1. FeedInit => VersionOk
  BY DEF FeedInit, VersionOk
<1>2. FeedInv /\ OrderInv /\ VersionOk /\ [FeedNext]_feedVars
        => VersionOk' /\ [Effective' # Effective => version' # version]_feedVars
  BY BumpChanges, QuietSteps DEF VersionOk
<1>. QED  BY <1>1, <1>2, OrderInvHolds, PTL DEF FeedSpec, EffectiveChangeBumps

----------------------------------------------------------------------------
(* The drop monitor                                                        *)

ViewerRow == [phase : {"off", "added", "on", "removed"}, filter : Filters]

InTransition == \E v \in Viewers : viewer[v].phase \in {"added", "removed"}

Told == unseen \/ (cursorMonitor <=> EnabledForNode) \/ InTransition

(* The stream task need not be waiting: from the moment it has read the    *)
(* registry, what it has told is true, or it will be woken, or a viewer is *)
(* still to notify.                                                        *)
Hearing ==
    /\ viewer \in [Viewers -> ViewerRow]
    /\ cursorMonitor \in BOOLEAN
    /\ streamPhase \in {"none", "spawned", "subscribed", "build", "built", "wait"}
    /\ streamPhase \in {"build", "built", "wait"} => Told

LEMMA EnabledIsBoolean == EnabledForNode \in BOOLEAN
BY DEF EnabledForNode

(* A viewer that changes the registry is in transition until it has        *)
(* notified, and then every receiver that there is has seen something.     *)
LEMMA ViewersKeep ==
    ASSUME Hearing, NEW v \in Viewers, NEW filter \in Filters,
           ViewerAdd(v, filter) \/ ViewerAddNotify(v) \/ ViewerRemove(v) \/ ViewerRemoveNotify(v)
    PROVE  Hearing'
<1>1. /\ (viewer \in [Viewers -> ViewerRow])' /\ (cursorMonitor \in BOOLEAN)'
      /\ UNCHANGED <<streamPhase, cursorMonitor>>
  BY DEF Hearing, ViewerRow, ViewerAdd, ViewerAddNotify, ViewerRemove, ViewerRemoveNotify, streamVars
<1>2. CASE ViewerAdd(v, filter) \/ ViewerRemove(v)
  <2>1. viewer'[v].phase \in {"added", "removed"}
    BY <1>2 DEF Hearing, ViewerRow, ViewerAdd, ViewerRemove
  <2>2. Told'
    BY <2>1 DEF Told, InTransition
  <2>. QED  BY <1>1, <2>2 DEF Hearing
<1>3. CASE ViewerAddNotify(v) \/ ViewerRemoveNotify(v)
  <2>1. streamPhase \in {"build", "built", "wait"} => unseen'
    BY <1>3 DEF ViewerAddNotify, ViewerRemoveNotify, NotifyChanged
  <2>. QED  BY <1>1, <2>1 DEF Hearing, Told
<1>. QED  BY <1>2, <1>3

(* The stream task: what it keeps in its cursor it has just read.          *)
LEMMA StreamKeeps ==
    ASSUME Hearing, StreamStep \/ StreamWake
    PROVE  Hearing'
<1>1. UNCHANGED <<viewer, counts>>
  BY DEF StreamStep, StreamWake, StreamSubscribeChanges, StreamStart, StreamBuild,
         StreamPushPolicy, StreamTick, streamRest, viewerVars
<1>2. /\ (EnabledForNode <=> EnabledForNode') /\ (InTransition <=> InTransition')
      /\ (viewer \in [Viewers -> ViewerRow])'
  BY <1>1 DEF EnabledForNode, InTransition, Hearing
<1>3. CASE StreamSubscribeChanges
  BY <1>2, <1>3 DEF StreamSubscribeChanges, Hearing
<1>4. CASE StreamStart
  BY <1>2, <1>4, EnabledIsBoolean DEF StreamStart, TrySend, Hearing, Told
<1>5. CASE StreamBuild \/ StreamTick
  BY <1>2, <1>5 DEF StreamBuild, StreamTick, Hearing, Told
<1>6. CASE StreamPushPolicy
  BY <1>2, <1>6, EnabledIsBoolean DEF StreamPushPolicy, TrySend, Hearing, Told
<1>7. CASE StreamWake
  BY <1>2, <1>7, EnabledIsBoolean DEF StreamWake, TrySend, Hearing, Told
<1>. QED  BY <1>3, <1>4, <1>5, <1>6, <1>7 DEF StreamStep

(* Whatever else happens leaves viewers, cursor and channel alone, or ends *)
(* the subscription.                                                       *)
LEMMA OtherStepsKeep ==
    ASSUME Hearing,
           \/ PolicyChange \/ AgentStep \/ AgentApplyResized \/ AgentApplyFails
           \/ ConnectionLost \/ AgentRestart \/ CliStart \/ CliStop
    PROVE  Hearing'
<1>1. UNCHANGED <<viewer, counts>>
  BY DEF PolicyChange, AgentStep, AgentApplyResized, AgentApplyFails, ConnectionLost,
         AgentRestart, CliStart, CliStop, AgentSubscribe, AgentReceiveMonitor,
         AgentReceivePolicy, AgentFetched, AgentRefused, AgentApply, AgentStreamEnds,
         Failure, viewerVars
<1>2. /\ (EnabledForNode <=> EnabledForNode') /\ (InTransition <=> InTransition')
      /\ (viewer \in [Viewers -> ViewerRow])'
  BY <1>1 DEF EnabledForNode, InTransition, Hearing
<1>3. CASE AgentSubscribe
  BY <1>2, <1>3 DEF AgentSubscribe, Hearing
<1>4. CASE AgentRefused \/ AgentStreamEnds \/ AgentApplyFails \/ ConnectionLost \/ AgentRestart
  BY <1>2, <1>4 DEF AgentRefused, AgentStreamEnds, AgentApplyFails, ConnectionLost,
                    AgentRestart, Failure, Reconnect, Hearing
<1>5. CASE \/ PolicyChange \/ AgentReceiveMonitor \/ AgentReceivePolicy \/ AgentFetched
           \/ AgentApply \/ AgentApplyResized \/ CliStart \/ CliStop
  <2>1. UNCHANGED <<streamPhase, cursorMonitor, unseen>>
    BY <1>5 DEF PolicyChange, AgentReceiveMonitor, AgentReceivePolicy, AgentFetched,
                AgentApply, AgentApplyResized, CliStart, CliStop, streamVars
  <2>. QED  BY <1>2, <2>1 DEF Hearing, Told
<1>. QED  BY <1>3, <1>4, <1>5 DEF AgentStep

LEMMA HearingStep == Hearing /\ [Next]_vars => Hearing'
<1>. SUFFICES ASSUME Hearing, [Next]_vars PROVE Hearing'
  OBVIOUS
<1>1. CASE UNCHANGED vars
  BY <1>1 DEF vars, viewerVars, streamVars, Hearing, Told, EnabledForNode, InTransition
<1>2. CASE Next
  <2>1. ASSUME NEW v \in Viewers,
               \/ \E filter \in Filters : ViewerAdd(v, filter)
               \/ ViewerAddNotify(v) \/ ViewerRemove(v) \/ ViewerRemoveNotify(v)
        PROVE  Hearing'
    <3>1. "all" \in Filters
      BY DEF Filters
    <3>. QED  BY <2>1, <3>1, ViewersKeep
  <2>. QED  BY <1>2, <2>1, StreamKeeps, OtherStepsKeep DEF Next
<1>. QED  BY <1>1, <1>2

(* A waiting stream task with nothing to wake it has told the agent what   *)
(* the registry says, or a viewer is about to notify (add, remove,         *)
(* run_policy_stream).                                                     *)
THEOREM NoChangeIsLost == Spec => []NoLostChange
<1>1. Init => Hearing
  <2>1. Init => viewer \in [Viewers -> ViewerRow]
    BY DEF Init, ViewerRow, Filters
  <2>. QED  BY <2>1 DEF Init, Hearing
<1>2. Hearing => NoLostChange
  BY EnabledIsBoolean DEF Hearing, Told, InTransition, NoLostChange
<1>. QED  BY <1>1, <1>2, HearingStep, PTL DEF Spec
=============================================================================
