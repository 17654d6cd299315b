------------------------------ MODULE GeoLists ------------------------------
(***************************************************************************)
(* The country lists: a refresh crawls the provider's index, then asks for *)
(* one country after the other whether its list has changed, downloads it  *)
(* if so and stores it in a transaction of its own; a country that fails   *)
(* is skipped.  Refreshes are started by the daily loop of a control plane *)
(* and by POST /geo-countries/refresh, and take the lock of RefreshLock.   *)
(* A control plane whose refresh changed a list then rebuilds its lookup   *)
(* database from the stored lists, page by page and without the lock.      *)
(*                                                                         *)
(* A list is the number of its publication, and so is its ETag.  A         *)
(* last_modified comes from an HTTP header or from the index, whose date   *)
(* is written differently and therefore never equal to a header's.         *)
(***************************************************************************)
EXTENDS RefreshLock, Sequences

CONSTANTS
    Planes,       \* control-plane processes
    Codes,        \* the countries, in the order of their codes
    EnabledCodes, \* countries with an enabled country policy
    PageSize,     \* GEOIP_REBUILD_PAGE_SIZE
    MaxRevision   \* bound on the publications of a list

Countries == {Codes[i] : i \in 1..Len(Codes)}

ASSUME GeoAssumption ==
    /\ Runs \subseteq Planes \X {"loop", "api"}
    /\ \A i, j \in 1..Len(Codes) : Codes[i] = Codes[j] => i = j
    /\ EnabledCodes \subseteq Countries
    /\ Len(Codes) \in Nat
    /\ PageSize \in Nat \ {0} /\ MaxRevision \in Nat \ {0}

VARIABLES
    feed,      \* the publication the provider serves
    catalog,   \* firewall_geo_country_catalog: the publication the index told of
    list,      \* firewall_geo_ip_prefixes: the stored publication, 0 for no row
    listState, \* firewall_geo_ip_list_states: the metadata of each country
    bumped,    \* the policy version, modulo 2
    work,      \* how far each run is
    lookup,    \* the lookup database of each control plane
    waking,    \* control planes whose loop has not ticked since they started
    excused    \* control planes whose lookup others or a failure left behind

tableVars == <<catalog, list, listState, bumped>>
planeVars == <<lookup, waking, excused>>
geoVars == <<lockVars, feed, tableVars, work, planeVars>>

-----------------------------------------------------------------------------
Lists == [Countries -> 0..MaxRevision]
NoLists == [c \in Countries |-> 0]

Header(n) == [modified |-> <<"header", n>>, etag |-> n]
NoRow == [modified |-> <<"none", 0>>, etag |-> 0]
Metadata == [modified : {"none", "header", "index"} \X (0..MaxRevision),
             etag : 0..MaxRevision]

NoWork == [step |-> "none", at |-> 0, known |-> NoRow, head |-> NoRow, got |-> 0,
           changed |-> FALSE, built |-> NoLists]

WorkType ==
    [step : {"none", "look", "touch", "get", "store", "clear", "read"},
     at : 0..(Len(Codes) + 1), known : Metadata, head : Metadata, got : 0..MaxRevision,
     changed : BOOLEAN, built : Lists]

GeoInit ==
    /\ LockInit
    /\ feed = [c \in Countries |-> 1]
    /\ catalog = NoLists /\ list = NoLists
    /\ listState = [c \in Countries |-> NoRow]
    /\ bumped = 0
    /\ work = [r \in Runs |-> NoWork]
    /\ lookup = [p \in Planes |-> NoLists]
    /\ waking = Planes
    /\ excused = {}

Plane(r) == r[1]
Country(r) == Codes[work[r].at]

-----------------------------------------------------------------------------
(***************************************************************************)
(* Who starts a refresh.                                                   *)
(***************************************************************************)
Resting(r) == pc[r] = "idle" /\ work[r].step = "none"

\* geo_ip_lists_missing
ListsMissing == \E c \in EnabledCodes : list[c] = 0

\* GeoIpRefresh::maybe_run.  The loop ticks at once, when the start of the
\* process still counts as a success, and then after each
\* AUTO_REFRESH_INTERVAL, when no success is that recent.
LoopTick(r) ==
    /\ r[2] = "loop"
    /\ Resting(r)
    /\ IF Plane(r) \in waking /\ ~ListsMissing
       THEN UNCHANGED lockVars
       ELSE BeginAcquire(r)
    /\ waking' = waking \ {Plane(r)}
    /\ UNCHANGED <<feed, tableVars, work, lookup, excused>>

\* POST /geo-countries/refresh; MANUAL_REFRESH_RATE_LIMIT may pass at any time.
ManualRefresh(r) ==
    /\ r[2] = "api"
    /\ Resting(r)
    /\ BeginAcquire(r)
    /\ UNCHANGED <<feed, tableVars, work, planeVars>>

\* GeoRefreshDbLock, up to the guard or the report that the lock is taken.
Locking(r) ==
    /\ EnsureLockRow(r) \/ LoadLockRow(r) \/ MarkLockRunning(r) \/ ReportRunning(r)
    /\ UNCHANGED <<feed, tableVars, work, planeVars>>

LockingFails(r) ==
    /\ AcquireFails(r)
    /\ UNCHANGED <<feed, tableVars, work, planeVars>>

LockMoves ==
    /\ LeaseExpires \/ \E o \in releases : ReleaseLock(o)
    /\ UNCHANGED <<feed, tableVars, work, planeVars>>

ReleaseIsLost ==
    /\ \E o \in releases : ReleaseLost(o)
    /\ UNCHANGED <<feed, tableVars, work, planeVars>>

-----------------------------------------------------------------------------
(***************************************************************************)
(* refresh_all_ipdeny_lists.                                               *)
(***************************************************************************)

\* The index is fetched and every row of the catalog updated.
RefreshCatalog(r) ==
    /\ Holds(r) /\ work[r].step = "none"
    /\ catalog' = feed
    /\ work' = [work EXCEPT ![r].step = "look", ![r].at = 1]
    /\ UNCHANGED <<lockVars, feed, list, listState, bumped, planeVars>>

\* It cannot be fetched, or an update fails: the refresh ends with an error.
CatalogFails(r) ==
    /\ Holds(r) /\ work[r].step = "none"
    /\ DropGuard(r)
    /\ UNCHANGED <<feed, tableVars, work, planeVars>>

InList(r, step) == work[r].step = step /\ work[r].at <= Len(Codes)

NextCountry(r, changed) ==
    work' = [work EXCEPT ![r] = [NoWork EXCEPT !.step = "look", !.at = work[r].at + 1,
                                               !.changed = work[r].changed \/ changed]]

\* geo_ip_list_changed
ListChanged(known, stored, head) ==
    \/ known = NoRow
    \/ stored = 0
    \/ known.modified # head.modified \/ known.etag # head.etag

\* Mutant: the new metadata is noted before the list is downloaded.
LookNoting(r) ==
    /\ InList(r, "look")
    /\ LET c == Country(r)
           head == Header(feed[c]) IN
       /\ work' = [work EXCEPT ![r].known = listState[c], ![r].head = head,
                       ![r].step = IF ListChanged(listState[c], list[c], head)
                                   THEN "get" ELSE "touch"]
       /\ listState' = [listState EXCEPT ![c] = IF @ = NoRow THEN @ ELSE head]
    /\ UNCHANGED <<lockVars, feed, catalog, list, bumped, planeVars>>

\* The rows of the country are read and the provider is asked with HEAD; what
\* the index said has to do if it does not answer.
Look(r) ==
    /\ InList(r, "look")
    /\ LET c == Country(r)
           fallback == [modified |-> <<"index", catalog[c]>>, etag |-> listState[c].etag]
       IN \E head \in {Header(feed[c]), fallback} :
              work' = [work EXCEPT ![r].known = listState[c], ![r].head = head,
                           ![r].step = IF ListChanged(listState[c], list[c], head)
                                       THEN "get" ELSE "touch"]
    /\ UNCHANGED <<lockVars, feed, tableVars, planeVars>>

\* GET with If-None-Match: the list, or "not modified".
Get(r) ==
    /\ InList(r, "get")
    /\ LET now_ == feed[Country(r)] IN
       work' = [work EXCEPT ![r].got = now_,
                            ![r].step = IF now_ = work[r].known.etag THEN "touch" ELSE "store"]
    /\ UNCHANGED <<lockVars, feed, tableVars, planeVars>>

\* touch_existing_geo_ip_state
Touch(r) ==
    /\ InList(r, "touch")
    /\ listState' = [listState EXCEPT ![Country(r)] =
                         IF work[r].known = NoRow THEN @ ELSE work[r].head]
    /\ NextCountry(r, FALSE)
    /\ UNCHANGED <<lockVars, feed, catalog, list, bumped, planeVars>>

\* A lookup of another control plane is behind from now on, and so is one that
\* is being rebuilt.
Rebuilding(p) == \E r \in Runs : Plane(r) = p /\ work[r].step = "read"

LeftBehind(r) == {p \in Planes : p # Plane(r) \/ Rebuilding(p)}

\* merge_geo_ip_metadata: what came with the list goes before what HEAD said.
\* Mutant: the other way round.
MergedHeadFirst(got, head) == head

Merged(got, head) == Header(got)

\* Mutant: the version stays.
StoreWithoutBump(r) ==
    /\ InList(r, "store")
    /\ LET c == Country(r) IN
       /\ list' = [list EXCEPT ![c] = work[r].got]
       /\ listState' = [listState EXCEPT ![c] = Merged(work[r].got, work[r].head)]
       /\ excused' = IF list[c] # work[r].got THEN excused \cup LeftBehind(r) ELSE excused
       /\ NextCountry(r, list[c] # work[r].got)
    /\ UNCHANGED <<lockVars, feed, catalog, bumped, lookup, waking>>

\* replace_geo_prefixes, a transaction.
Store(r) ==
    /\ InList(r, "store")
    /\ LET c == Country(r)
           changed == list[c] # work[r].got IN
       /\ list' = [list EXCEPT ![c] = work[r].got]
       /\ listState' = [listState EXCEPT ![c] = Merged(work[r].got, work[r].head)]
       /\ bumped' = IF changed THEN 1 - bumped ELSE bumped
       /\ excused' = IF changed THEN excused \cup LeftBehind(r) ELSE excused
       /\ NextCountry(r, changed)
    /\ UNCHANGED <<lockVars, feed, catalog, lookup, waking>>

\* A statement or a download fails, or the list is empty: the country is skipped.
SkipCountry(r) ==
    /\ \E step \in {"look", "touch", "get", "store"} : InList(r, step)
    /\ NextCountry(r, FALSE)
    /\ UNCHANGED <<lockVars, feed, tableVars, planeVars>>

\* Mutant: the lookup is left as it is.
EndListsUnbuilt(r) ==
    /\ work[r].step = "look" /\ work[r].at > Len(Codes)
    /\ DropGuard(r)
    /\ work' = [work EXCEPT ![r] = NoWork]
    /\ UNCHANGED <<feed, tableVars, planeVars>>

\* The guard is dropped with the report; a changed list calls for a rebuild.
EndLists(r) ==
    /\ work[r].step = "look" /\ work[r].at > Len(Codes)
    /\ DropGuard(r)
    /\ work' = [work EXCEPT ![r] =
                    IF work[r].changed THEN [NoWork EXCEPT !.step = "clear"] ELSE NoWork]
    /\ UNCHANGED <<feed, tableVars, planeVars>>

-----------------------------------------------------------------------------
(***************************************************************************)
(* GeoIpLookup::rebuild_from_db.                                           *)
(***************************************************************************)
\* The rows of the prefix table in the order of their codes, as positions in Codes.
Stored == {i \in 1..Len(Codes) : list[Codes[i]] # 0}
RowsBefore(i) == Cardinality({j \in Stored : j < i})

Pages(n) == (n + PageSize - 1) \div PageSize

\* The old database goes; the pages are counted (got) before they are read.
ClearLookup(r) ==
    /\ work[r].step = "clear"
    /\ lookup' = [lookup EXCEPT ![Plane(r)] = NoLists]
    /\ work' = [work EXCEPT ![r].step = "read", ![r].got = Pages(Cardinality(Stored))]
    /\ excused' = IF Rebuilding(Plane(r)) THEN excused \cup {Plane(r)}
                                          ELSE excused \ {Plane(r)}
    /\ UNCHANGED <<lockVars, feed, tableVars, waking>>

OnPage(page) == {Codes[i] : i \in {j \in Stored : RowsBefore(j) \div PageSize = page}}

ReadPage(r) ==
    /\ work[r].step = "read" /\ work[r].at < work[r].got
    /\ work' = [work EXCEPT ![r].at = @ + 1,
                    ![r].built = [c \in Countries |->
                                     IF c \in OnPage(work[r].at) THEN list[c] ELSE @[c]]]
    /\ UNCHANGED <<lockVars, feed, tableVars, planeVars>>

\* Whoever is ready last decides what the control plane looks up.
InstallLookup(r) ==
    /\ work[r].step = "read" /\ work[r].at = work[r].got
    /\ lookup' = IF work[r].built = NoLists THEN lookup
                 ELSE [lookup EXCEPT ![Plane(r)] = work[r].built]
    /\ work' = [work EXCEPT ![r] = NoWork]
    /\ UNCHANGED <<lockVars, feed, tableVars, waking, excused>>

\* A page cannot be read or the file not be written: the lookup stays empty.
RebuildFails(r) ==
    /\ work[r].step \in {"clear", "read"}
    /\ work' = [work EXCEPT ![r] = NoWork]
    /\ excused' = excused \cup {Plane(r)}
    /\ UNCHANGED <<lockVars, feed, tableVars, lookup, waking>>

\* A control plane dies: its runs die one after the other.
RunDies(r) ==
    /\ Crash(r) \/ (work[r].step \in {"clear", "read"} /\ UNCHANGED lockVars)
    /\ work' = [work EXCEPT ![r] = NoWork]
    /\ excused' = excused \cup {Plane(r)}
    /\ UNCHANGED <<feed, tableVars, lookup, waking>>

\* It starts; load_geo_lookup comes before everything else.
Restart(p) ==
    /\ \A r \in Runs : Plane(r) = p => Resting(r)
    /\ lookup' = [lookup EXCEPT ![p] = list]
    /\ waking' = waking \cup {p}
    /\ excused' = excused \ {p}
    /\ UNCHANGED <<lockVars, feed, tableVars, work>>

Publish(c) ==
    /\ feed[c] < MaxRevision
    /\ feed' = [feed EXCEPT ![c] = @ + 1]
    /\ UNCHANGED <<lockVars, tableVars, work, planeVars>>

-----------------------------------------------------------------------------
Refresh(r) ==
    \/ Locking(r) \/ RefreshCatalog(r)
    \/ Look(r) \/ Get(r) \/ Touch(r) \/ Store(r) \/ EndLists(r)
    \/ ClearLookup(r) \/ ReadPage(r) \/ InstallLookup(r)

Faults(r) ==
    LockingFails(r) \/ CatalogFails(r) \/ SkipCountry(r) \/ RebuildFails(r) \/ RunDies(r)

GeoNext ==
    \/ \E r \in Runs : LoopTick(r) \/ ManualRefresh(r) \/ Refresh(r) \/ Faults(r)
    \/ LockMoves \/ ReleaseIsLost
    \/ \E p \in Planes : Restart(p)
    \/ \E c \in Countries : Publish(c)

GeoSpec == GeoInit /\ [][GeoNext]_geoVars

(***************************************************************************)
(* Tasks that were spawned are run, the loop ticks every day, leases run   *)
(* out.  Nothing is assumed of callers, the provider and faults.           *)
(***************************************************************************)
FairGeoSpec ==
    /\ GeoSpec
    /\ \A r \in Runs : WF_geoVars(Refresh(r)) /\ WF_geoVars(LoopTick(r))
    /\ WF_geoVars(LockMoves)

-----------------------------------------------------------------------------
(***************************************************************************)
(* Properties.                                                             *)
(***************************************************************************)
GeoTypeOK ==
    /\ LockTypeOK
    /\ feed \in [Countries -> 1..MaxRevision]
    /\ catalog \in Lists /\ list \in Lists
    /\ listState \in [Countries -> Metadata]
    /\ bumped \in 0..1
    /\ work \in [Runs -> WorkType]
    /\ lookup \in [Planes -> Lists]
    /\ waking \subseteq Planes /\ excused \subseteq Planes

(* The ETag stored for a country is that of its list.  With a newer one    *)
(* every later refresh would be told "not modified" and keep the old list  *)
(* (refresh_one_country, merge_geo_ip_metadata).                           *)
EtagIsOfTheList == \A c \in Countries : listState[c].etag = list[c]

(* A stored list changes only to a newer publication, whichever refreshes  *)
(* overlap, and agents are told: the policy version changes with it, and   *)
(* not for a refresh that found nothing new.                               *)
ListsMoveForward ==
    [][/\ (list' # list) <=> (bumped' # bumped)
       /\ \A c \in Countries : list[c] <= list'[c]]_geoVars

(* A control plane at rest looks countries up in the lists that are        *)
(* stored, unless a rebuild of its own failed or was overtaken, or another *)
(* control plane stored a list since.                                      *)
LookupFollows ==
    \A p \in Planes :
        (p \notin excused /\ \A r \in Runs : Plane(r) = p => Resting(r))
            => lookup[p] = list

(* Once faults end, every list becomes the one the provider publishes: no  *)
(* failure, crash, lost release or overlap before leaves one stale.        *)
Disturbed ==
    \/ \E r \in Runs : Faults(r) /\ ~Refresh(r)
    \/ ReleaseIsLost
    \/ \E p \in Planes : Restart(p)

ListsConverge == <>[][~Disturbed]_geoVars => <>[](list = feed)
=============================================================================
