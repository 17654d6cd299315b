---------------------------- MODULE RefreshLock ----------------------------
(***************************************************************************)
(* The leased lock, one database row, that is to keep two refreshes of the *)
(* threat feeds (or of the country lists) from running at the same time,   *)
(* whichever control-plane process or task starts them.  Both locks are    *)
(* the same protocol on different tables: the row is inserted if it is not *)
(* there, read, found busy or free, and taken by an UPDATE that compares   *)
(* the last_checked_at that was read; it is given back by a spawned task   *)
(* when the guard is dropped.                                              *)
(*                                                                         *)
(* A moment of time is a stamp.  Moments are only compared for equality,   *)
(* so a new one is any stamp that nobody remembers, and the age of a lease *)
(* is the Boolean `expired'.                                               *)
(***************************************************************************)
EXTENDS Integers, FiniteSets

CONSTANTS
    Runs,          \* the tasks that refresh
    Stamps,        \* moments of time; their number bounds what is in flight
    LockRowSeeded, \* TRUE: some refresh has run before, the row is there
    SlowRefresh    \* TRUE: a refresh may take longer than the lease

ASSUME LockAssumption ==
    /\ Runs # {}
    /\ Stamps \subseteq Nat \ {0}
    /\ 1 \in Stamps
    /\ LockRowSeeded \in BOOLEAN
    /\ SlowRefresh \in BOOLEAN

VARIABLES
    lockRow,   \* owner: 0 is "idle"; checked: last_checked_at, 0 is "no row"
    pc,        \* how far the acquisition of each run is
    now,       \* Utc::now() at the start of try_acquire; names the owner too
    seen,      \* last_checked_at as the run read it
    releases   \* owners whose guard was dropped and whose release has not run

lockVars == <<lockRow, pc, now, seen, releases>>

Steps == {"idle", "ensure", "load", "mark", "held", "refused"}

LockRowType == [owner : Stamps \cup {0}, checked : Stamps \cup {0}, expired : BOOLEAN]

LockInit ==
    /\ lockRow = [owner |-> 0, checked |-> IF LockRowSeeded THEN 1 ELSE 0,
                  expired |-> FALSE]
    /\ pc = [r \in Runs |-> "idle"]
    /\ now = [r \in Runs |-> 0]
    /\ seen = [r \in Runs |-> 0]
    /\ releases = {}

-----------------------------------------------------------------------------
InUse ==
    {lockRow.owner, lockRow.checked} \cup releases
        \cup {now[r] : r \in Runs} \cup {seen[r] : r \in Runs}

TimePasses == Stamps \ InUse # {}        \* the bound of the instance

Moment == CHOOSE s \in Stamps : s \notin InUse

\* The run leaves the lock alone and forgets what it read.
Leave(r, step) ==
    /\ pc' = [pc EXCEPT ![r] = step]
    /\ now' = [now EXCEPT ![r] = 0]
    /\ seen' = [seen EXCEPT ![r] = 0]

\* refresh_* is called: try_acquire takes the time.
BeginAcquire(r) ==
    /\ pc[r] = "idle"
    /\ TimePasses
    /\ pc' = [pc EXCEPT ![r] = "ensure"]
    /\ now' = [now EXCEPT ![r] = Moment]
    /\ UNCHANGED <<lockRow, seen, releases>>

\* Mutant: the row is inserted over the one that is there.
EnsureLockRowOver(r) ==
    /\ pc[r] = "ensure"
    /\ pc' = [pc EXCEPT ![r] = "load"]
    /\ lockRow' = [owner |-> 0, checked |-> now[r], expired |-> FALSE]
    /\ UNCHANGED <<now, seen, releases>>

\* INSERT ... ON CONFLICT, which leaves a row that is there as it is.
EnsureLockRow(r) ==
    /\ pc[r] = "ensure"
    /\ pc' = [pc EXCEPT ![r] = "load"]
    /\ lockRow' = IF lockRow.checked = 0
                  THEN [owner |-> 0, checked |-> now[r], expired |-> FALSE]
                  ELSE lockRow
    /\ UNCHANGED <<now, seen, releases>>

LockIsBusy == lockRow.owner # 0 /\ ~lockRow.expired

\* SELECT; a busy lock ends the attempt.
LoadLockRow(r) ==
    /\ pc[r] = "load"
    /\ IF LockIsBusy
       THEN Leave(r, "refused")
       ELSE /\ pc' = [pc EXCEPT ![r] = "mark"]
            /\ seen' = [seen EXCEPT ![r] = lockRow.checked]
            /\ UNCHANGED now
    /\ UNCHANGED <<lockRow, releases>>

TakeLockRow(r) ==
    /\ lockRow' = [owner |-> now[r], checked |-> now[r], expired |-> FALSE]
    /\ pc' = [pc EXCEPT ![r] = "held"]
    /\ UNCHANGED <<now, seen>>

\* Mutant: the UPDATE does not compare.
MarkLockRunningBlindly(r) ==
    /\ pc[r] = "mark"
    /\ TakeLockRow(r)
    /\ UNCHANGED releases

\* UPDATE ... WHERE last_checked_at = the one that was read.
MarkLockRunning(r) ==
    /\ pc[r] = "mark"
    /\ IF lockRow.checked = seen[r] THEN TakeLockRow(r)
       ELSE Leave(r, "refused") /\ UNCHANGED lockRow
    /\ UNCHANGED releases

\* A statement of try_acquire fails: there is no guard, so nothing is released.
\* (The UPDATE may have been carried out: the lease then has to expire.)
AcquireFails(r) ==
    /\ pc[r] \in {"ensure", "load", "mark"}
    /\ Leave(r, "idle")
    /\ \/ UNCHANGED lockRow
       \/ /\ pc[r] = "mark" /\ lockRow.checked = seen[r]
          /\ lockRow' = [owner |-> now[r], checked |-> now[r], expired |-> FALSE]
    /\ UNCHANGED releases

\* The guard goes out of scope at the end of the refresh; its Drop spawns the release.
DropGuard(r) ==
    /\ pc[r] = "held"
    /\ Leave(r, "idle")
    /\ releases' = releases \cup {now[r]}
    /\ UNCHANGED lockRow

\* The process dies, or the task is cancelled with its runtime: no release.
Crash(r) ==
    /\ pc[r] \notin {"idle", "refused"}
    /\ Leave(r, "idle")
    /\ UNCHANGED <<lockRow, releases>>

\* The spawned release; it touches the row only if it still names this owner.
ReleaseLock(o) ==
    /\ o \in releases
    /\ IF lockRow.owner = o
       THEN /\ TimePasses
            /\ lockRow' = [owner |-> 0, checked |-> Moment, expired |-> FALSE]
       ELSE UNCHANGED lockRow
    /\ releases' = releases \ {o}
    /\ UNCHANGED <<pc, now, seen>>

\* The release fails (it is only logged) or dies with the process.
ReleaseLost(o) ==
    /\ o \in releases
    /\ releases' = releases \ {o}
    /\ UNCHANGED <<lockRow, pc, now, seen>>

Holds(r) == pc[r] = "held"

\* REFRESH_LOCK_STALE_SECONDS pass since the lock was taken.
LeaseExpires ==
    /\ LockIsBusy
    /\ SlowRefresh \/ ~(\E r \in Runs : Holds(r) /\ now[r] = lockRow.owner)
    /\ lockRow' = [lockRow EXCEPT !.expired = TRUE]
    /\ UNCHANGED <<pc, now, seen, releases>>

\* "running elsewhere" is reported to the caller.
ReportRunning(r) ==
    /\ pc[r] = "refused"
    /\ Leave(r, "idle")
    /\ UNCHANGED <<lockRow, releases>>

LockNext ==
    \/ \E r \in Runs :
        \/ BeginAcquire(r) \/ EnsureLockRow(r) \/ LoadLockRow(r) \/ MarkLockRunning(r)
        \/ AcquireFails(r) \/ ReportRunning(r) \/ DropGuard(r) \/ Crash(r)
    \/ \E o \in releases : ReleaseLock(o) \/ ReleaseLost(o)
    \/ LeaseExpires

LockSpec == LockInit /\ [][LockNext]_lockVars

-----------------------------------------------------------------------------
(***************************************************************************)
(* Properties.                                                             *)
(***************************************************************************)
LockTypeOK ==
    /\ lockRow \in LockRowType
    /\ pc \in [Runs -> Steps]
    /\ now \in [Runs -> Stamps \cup {0}]
    /\ seen \in [Runs -> Stamps \cup {0}]
    /\ releases \subseteq Stamps

(* One refresh at a time, in whichever process (docs/PLAN.md: "one-at-a-time *)
(* refresh coordination").                                                   *)
OneRefresh == \A r, s \in Runs : Holds(r) /\ Holds(s) => r = s

(* The lock keeps the promises of RefreshLease.  A run that has read the row *)
(* has been overtaken if last_checked_at is no longer what it read.          *)
Acquiring(r) == pc[r] \in {"ensure", "load", "mark"}

LeasePhase == [r \in Runs |-> IF Holds(r) THEN "held"
                              ELSE IF Acquiring(r) THEN "trying" ELSE "idle"]

LeaseLeft == IF lockRow.owner = 0 \/ \E r \in Runs : Holds(r) THEN "no"
             ELSE IF lockRow.expired THEN "lapsed" ELSE "marked"

LeaseContended == {r \in Runs : pc[r] = "mark" /\ seen[r] # lockRow.checked}

Lease == INSTANCE RefreshLease WITH
    phase <- LeasePhase, left <- LeaseLeft, contended <- LeaseContended

ImplementsLease == Lease!LeaseSpec

-----------------------------------------------------------------------------
(***************************************************************************)
(* Why one refresh at a time: the row names the holder; a moment that was  *)
(* taken and not yet written is nowhere else; and a run whose comparison   *)
(* will succeed read the row when it was free.                             *)
(***************************************************************************)
HolderIsNamed ==
    \A r \in Runs : Holds(r) =>
        /\ lockRow.owner = now[r] /\ lockRow.checked = now[r] /\ ~lockRow.expired

MomentIsOwn ==
    \A r \in Runs :
        /\ (Acquiring(r) \/ Holds(r)) => now[r] # 0
        /\ Acquiring(r) =>
            /\ now[r] \notin {lockRow.owner, lockRow.checked} \cup releases
            /\ \A s \in Runs : seen[s] # now[r]
        /\ \A s \in Runs \ {r} : now[r] # 0 => now[s] # now[r]

ReadWhenFree ==
    \A r \in Runs :
        pc[r] = "mark" /\ seen[r] = lockRow.checked => lockRow.owner = 0 \/ lockRow.expired

ReleaseIsOver == \A r \in Runs : Holds(r) => now[r] \notin releases

LockInv ==
    /\ LockTypeOK
    /\ lockRow.checked # 0
    /\ HolderIsNamed /\ MomentIsOwn /\ ReadWhenFree /\ ReleaseIsOver
=============================================================================
