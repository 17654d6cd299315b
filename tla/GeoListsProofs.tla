--------------------------- MODULE GeoListsProofs ---------------------------
(***************************************************************************)
(* First the lock alone: one refresh at a time, and RefreshLock implements *)
(* RefreshLease, for any number of runs, provided that the row of the lock *)
(* is there already and that no refresh takes longer than its lease.       *)
(* Without either, the theorems are false.                                 *)
(*                                                                         *)
(* Then the country lists, for any number of control planes, refreshes and *)
(* countries, whatever fails and whenever the provider publishes: the ETag *)
(* stored for a country is that of its list, and lists only move forward.  *)
(* The argument needs that what a refresh has read of a country is changed *)
(* by nobody else before it has written, which is what the lock is for.    *)
(*                                                                         *)
(* At last what a control plane looks up, which is rebuilt from the stored *)
(* lists page by page, without the lock.                                   *)
(***************************************************************************)
EXTENDS GeoLists, FiniteSetTheorems, TLAPS

USE LockAssumption

(* A moment nobody remembers. *)
LEMMA MomentIsNew ==
    ASSUME TimePasses
    PROVE  /\ Moment \in Stamps /\ Moment # 0
           /\ Moment \notin releases
           /\ Moment # lockRow.owner /\ Moment # lockRow.checked
           /\ \A r \in Runs : Moment # now[r] /\ Moment # seen[r]
<1>1. PICK s \in Stamps : s \notin InUse
  BY DEF TimePasses
<1>2. Moment \in Stamps /\ Moment \notin InUse
  BY <1>1, Zenon DEF Moment
<1>. QED  BY <1>2 DEF InUse

(* What is written to the row is a row. *)
LEMMA RowIsTyped ==
    ASSUME NEW o \in Stamps \cup {0}, NEW c \in Stamps \cup {0}, NEW e \in BOOLEAN
    PROVE  [owner |-> o, checked |-> c, expired |-> e] \in LockRowType
BY DEF LockRowType

LEMMA ExpiredRowIsTyped ==
    ASSUME NEW row \in LockRowType
    PROVE  /\ [row EXCEPT !.expired = TRUE] \in LockRowType
           /\ [row EXCEPT !.expired = TRUE].expired
           /\ [row EXCEPT !.expired = TRUE].owner = row.owner
           /\ [row EXCEPT !.expired = TRUE].checked = row.checked
BY DEF LockRowType

(* The invariant holds at the start. *)
LEMMA LockInvInit ==
    ASSUME LockRowSeeded, LockInit
    PROVE  LockInv
BY DEF LockInit, LockInv, LockTypeOK, LockRowType, Steps, HolderIsNamed, MomentIsOwn,
       ReadWhenFree, ReleaseIsOver, Holds, Acquiring

LEMMA BeginKeeps ==
    ASSUME LockInv, NEW r \in Runs, BeginAcquire(r)
    PROVE  LockInv'
<1>. USE MomentIsNew DEF BeginAcquire, LockInv, LockTypeOK, LockRowType, Steps, Holds, Acquiring
<1>1. LockTypeOK' /\ (lockRow.checked # 0)'
  OBVIOUS
<1>2. HolderIsNamed'
  BY DEF HolderIsNamed
<1>3. MomentIsOwn'
  BY DEF MomentIsOwn
<1>4. ReadWhenFree' /\ ReleaseIsOver'
  BY DEF ReadWhenFree, ReleaseIsOver
<1>. QED  BY <1>1, <1>2, <1>3, <1>4

LEMMA EnsureKeeps ==
    ASSUME LockInv, NEW r \in Runs, EnsureLockRow(r)
    PROVE  LockInv'
<1>. USE DEF EnsureLockRow, LockInv, LockTypeOK, LockRowType, Steps, Holds, Acquiring
<1>1. LockTypeOK' /\ (lockRow.checked # 0)'
  OBVIOUS
<1>2. HolderIsNamed'
  BY DEF HolderIsNamed
<1>3. MomentIsOwn'
  BY DEF MomentIsOwn
<1>4. ReadWhenFree' /\ ReleaseIsOver'
  BY DEF ReadWhenFree, ReleaseIsOver
<1>. QED  BY <1>1, <1>2, <1>3, <1>4

LEMMA LoadKeeps ==
    ASSUME LockInv, NEW r \in Runs, LoadLockRow(r)
    PROVE  LockInv'
<1>. USE DEF LoadLockRow, Leave, LockIsBusy, LockInv, LockTypeOK, LockRowType, Steps, Holds, Acquiring
<1>1. LockTypeOK' /\ (lockRow.checked # 0)'
  OBVIOUS
<1>2. HolderIsNamed'
  BY DEF HolderIsNamed
<1>3. MomentIsOwn'
  BY DEF MomentIsOwn
<1>4. ReadWhenFree' /\ ReleaseIsOver'
  BY DEF ReadWhenFree, ReleaseIsOver
<1>. QED  BY <1>1, <1>2, <1>3, <1>4

(* The comparison succeeds only on a row that was free when it was read, so *)
(* nobody holds the lock when it is taken.                                  *)
LEMMA FreeWhenMarked ==
    ASSUME LockInv, NEW r \in Runs, pc[r] = "mark", lockRow.checked = seen[r]
    PROVE  \A s \in Runs : ~Holds(s)
<1>1. lockRow.owner = 0 \/ lockRow.expired
  BY DEF LockInv, ReadWhenFree
<1>2. \A s \in Runs : Holds(s) => lockRow.owner = now[s] /\ now[s] # 0 /\ ~lockRow.expired
  BY DEF LockInv, HolderIsNamed, MomentIsOwn
<1>. QED  BY <1>1, <1>2

LEMMA MarkKeeps ==
    ASSUME LockInv, NEW r \in Runs, MarkLockRunning(r)
    PROVE  LockInv'
<1>. USE DEF MarkLockRunning, TakeLockRow, Leave, LockInv, LockTypeOK, Steps,
             Holds, Acquiring
<1>1. LockTypeOK' /\ (lockRow.checked # 0)'
  <2>1. (pc \in [Runs -> Steps] /\ now \in [Runs -> Stamps \cup {0}])'
    OBVIOUS
  <2>2. (seen \in [Runs -> Stamps \cup {0}])'
    OBVIOUS
  <2>3. (releases \subseteq Stamps)'
    BY DEF MomentIsOwn
  <2>4. (lockRow \in LockRowType /\ lockRow.checked # 0)'
    <3>1. now[r] \in Stamps
      BY DEF MomentIsOwn
    <3>2. lockRow' = lockRow \/ lockRow' = [owner |-> now[r], checked |-> now[r], expired |-> FALSE]
      OBVIOUS
    <3>3. now[r] # 0 /\ FALSE \in BOOLEAN
      BY <3>1
    <3>4. lockRow' \in LockRowType
      <4>1. CASE lockRow' = lockRow
        BY <4>1
      <4>2. CASE lockRow' = [owner |-> now[r], checked |-> now[r], expired |-> FALSE]
        <5>1. now[r] \in Stamps \cup {0}
          BY <3>1
        <5>2. [owner |-> now[r], checked |-> now[r], expired |-> FALSE] \in LockRowType
          BY <5>1, <3>3, RowIsTyped
        <5>. QED  BY <4>2, <5>2
      <4>. QED  BY <3>2, <4>1, <4>2
    <3>5. (lockRow.checked # 0)'
      BY <3>2, <3>3
    <3>. QED  BY <3>4, <3>5
  <2>. QED  BY <2>1, <2>2, <2>3, <2>4
<1>2. HolderIsNamed'
  BY FreeWhenMarked DEF HolderIsNamed
<1>3. MomentIsOwn'
  BY DEF MomentIsOwn
<1>4. ReadWhenFree' /\ ReleaseIsOver'
  BY DEF ReadWhenFree, ReleaseIsOver, MomentIsOwn
<1>. QED  BY <1>1, <1>2, <1>3, <1>4

LEMMA AcquireFailsKeeps ==
    ASSUME LockInv, NEW r \in Runs, AcquireFails(r)
    PROVE  LockInv'
<1>. USE DEF AcquireFails, Leave, LockInv, LockTypeOK, Steps, Holds, Acquiring
<1>1. LockTypeOK' /\ (lockRow.checked # 0)'
  <2>1. (pc \in [Runs -> Steps] /\ now \in [Runs -> Stamps \cup {0}])'
    OBVIOUS
  <2>2. (seen \in [Runs -> Stamps \cup {0}])'
    OBVIOUS
  <2>3. (releases \subseteq Stamps)'
    BY DEF MomentIsOwn
  <2>4. (lockRow \in LockRowType /\ lockRow.checked # 0)'
    <3>1. now[r] \in Stamps
      BY DEF MomentIsOwn
    <3>2. lockRow' = lockRow \/ lockRow' = [owner |-> now[r], checked |-> now[r], expired |-> FALSE]
      OBVIOUS
    <3>3. now[r] # 0 /\ FALSE \in BOOLEAN
      BY <3>1
    <3>4. lockRow' \in LockRowType
      <4>1. CASE lockRow' = lockRow
        BY <4>1
      <4>2. CASE lockRow' = [owner |-> now[r], checked |-> now[r], expired |-> FALSE]
        <5>1. now[r] \in Stamps \cup {0}
          BY <3>1
        <5>2. [owner |-> now[r], checked |-> now[r], expired |-> FALSE] \in LockRowType
          BY <5>1, <3>3, RowIsTyped
        <5>. QED  BY <4>2, <5>2
      <4>. QED  BY <3>2, <4>1, <4>2
    <3>5. (lockRow.checked # 0)'
      BY <3>2, <3>3
    <3>. QED  BY <3>4, <3>5
  <2>. QED  BY <2>1, <2>2, <2>3, <2>4
<1>2. HolderIsNamed'
  BY FreeWhenMarked DEF HolderIsNamed
<1>3. MomentIsOwn'
  BY DEF MomentIsOwn
<1>4. ReadWhenFree' /\ ReleaseIsOver'
  BY DEF ReadWhenFree, ReleaseIsOver, MomentIsOwn
<1>. QED  BY <1>1, <1>2, <1>3, <1>4

LEMMA LeavingKeeps ==
    ASSUME LockInv, NEW r \in Runs, DropGuard(r) \/ Crash(r) \/ ReportRunning(r)
    PROVE  LockInv'
<1>. USE DEF DropGuard, Crash, ReportRunning, Leave, LockInv, LockTypeOK, LockRowType, Steps,
             Holds, Acquiring
<1>1. LockTypeOK' /\ (lockRow.checked # 0)'
  <2>1. (pc \in [Runs -> Steps] /\ now \in [Runs -> Stamps \cup {0}])'
    OBVIOUS
  <2>2. (seen \in [Runs -> Stamps \cup {0}])'
    OBVIOUS
  <2>3. (releases \subseteq Stamps)'
    <3>1. CASE DropGuard(r)
      <4>1. now[r] \in Stamps
        BY <3>1 DEF MomentIsOwn
      <4>. QED  BY <3>1, <4>1
    <3>2. CASE Crash(r) \/ ReportRunning(r)
      BY <3>2
    <3>. QED  BY <3>1, <3>2
  <2>4. (lockRow \in LockRowType /\ lockRow.checked # 0)'
    BY DEF MomentIsOwn
  <2>. QED  BY <2>1, <2>2, <2>3, <2>4
<1>2. HolderIsNamed'
  BY DEF HolderIsNamed
<1>3. MomentIsOwn'
  BY DEF MomentIsOwn
<1>4. ReadWhenFree' /\ ReleaseIsOver'
  BY DEF ReadWhenFree, ReleaseIsOver, MomentIsOwn
<1>. QED  BY <1>1, <1>2, <1>3, <1>4

(* A release that is carried out names nobody who holds the lock. *)
LEMMA ReleaseKeeps ==
    ASSUME LockInv, NEW o \in releases, ReleaseLock(o) \/ ReleaseLost(o)
    PROVE  LockInv'
<1>. USE DEF ReleaseLock, ReleaseLost, LockInv, LockTypeOK, Steps, Holds, Acquiring
<1>1. LockTypeOK' /\ (lockRow.checked # 0)'
  <2>1. (pc \in [Runs -> Steps] /\ now \in [Runs -> Stamps \cup {0}])'
    OBVIOUS
  <2>2. (seen \in [Runs -> Stamps \cup {0}])'
    OBVIOUS
  <2>3. (releases \subseteq Stamps)'
    OBVIOUS
  <2>4. (lockRow \in LockRowType /\ lockRow.checked # 0)'
    <3>1. CASE lockRow' = lockRow
      BY <3>1
    <3>2. CASE TimePasses /\ lockRow' = [owner |-> 0, checked |-> Moment, expired |-> FALSE]
      <4>1. Moment \in Stamps \cup {0} /\ 0 \in Stamps \cup {0} /\ Moment # 0
        BY <3>2, MomentIsNew
      <4>2. [owner |-> 0, checked |-> Moment, expired |-> FALSE] \in LockRowType
        BY <4>1, RowIsTyped
      <4>. QED  BY <3>2, <4>1, <4>2
    <3>. QED  BY <3>1, <3>2
  <2>. QED  BY <2>1, <2>2, <2>3, <2>4
<1>2. HolderIsNamed'
  BY MomentIsNew DEF HolderIsNamed, ReleaseIsOver
<1>3. MomentIsOwn'
  BY MomentIsNew DEF MomentIsOwn
<1>4. ReadWhenFree' /\ ReleaseIsOver'
  BY MomentIsNew DEF ReadWhenFree, ReleaseIsOver
<1>. QED  BY <1>1, <1>2, <1>3, <1>4

LEMMA ExpireKeeps ==
    ASSUME ~SlowRefresh, LockInv, LeaseExpires
    PROVE  LockInv'
<1>. USE DEF LeaseExpires, LockIsBusy, LockInv, LockTypeOK, Steps, Holds, Acquiring
<1>0. lockRow' = [lockRow EXCEPT !.expired = TRUE] /\ lockRow \in LockRowType
  OBVIOUS
<1>a. /\ lockRow' \in LockRowType /\ lockRow'.expired
      /\ lockRow'.owner = lockRow.owner /\ lockRow'.checked = lockRow.checked
  BY <1>0, ExpiredRowIsTyped
<1>1. LockTypeOK' /\ (lockRow.checked # 0)'
  BY <1>a
<1>2. HolderIsNamed'
  BY <1>a DEF HolderIsNamed
<1>3. MomentIsOwn'
  BY <1>a DEF MomentIsOwn
<1>4. ReadWhenFree' /\ ReleaseIsOver'
  BY <1>a DEF ReadWhenFree, ReleaseIsOver
<1>. QED  BY <1>1, <1>2, <1>3, <1>4

LEMMA LockInvStep ==
    ASSUME ~SlowRefresh, LockInv, [LockNext]_lockVars
    PROVE  LockInv'
<1>1. CASE UNCHANGED lockVars
  BY <1>1 DEF lockVars, LockInv, LockTypeOK, HolderIsNamed, MomentIsOwn, ReadWhenFree,
              ReleaseIsOver, Holds, Acquiring
<1>2. CASE LockNext
  BY <1>2, BeginKeeps, EnsureKeeps, LoadKeeps, MarkKeeps, AcquireFailsKeeps, LeavingKeeps,
     ReleaseKeeps, ExpireKeeps DEF LockNext
<1>. QED  BY <1>1, <1>2

(* The row always names the one run that refreshes, with a lease that runs. *)
THEOREM LockInvHolds ==
    ASSUME LockRowSeeded, ~SlowRefresh
    PROVE  LockSpec => []LockInv
<1>1. LockInit => LockInv
  BY LockInvInit
<1>2. LockInv /\ [LockNext]_lockVars => LockInv'
  BY LockInvStep
<1>. QED  BY <1>1, <1>2, PTL DEF LockSpec

(* Never two refreshes at the same time. *)
THEOREM OneRefreshAtATime ==
    ASSUME LockRowSeeded, ~SlowRefresh
    PROVE  LockSpec => []OneRefresh
<1>1. LockInv => OneRefresh
  BY DEF LockInv, HolderIsNamed, MomentIsOwn, OneRefresh, Holds, LockTypeOK
<1>. QED  BY <1>1, LockInvHolds, PTL

-----------------------------------------------------------------------------
(***************************************************************************)
(* RefreshLock implements RefreshLease.  Only what can be read off the row *)
(* counts: a moment that is written for the first time overtakes everybody *)
(* who has read the row, and a holder who is named leaves it marked.       *)
(***************************************************************************)
LeaseState == <<LeasePhase, LeaseLeft, LeaseContended>>

LeaseStep == Lease!LeaseNext \/ UNCHANGED LeaseState

LEMMA NobodyElseHolds ==
    ASSUME LockInv, NEW r \in Runs, NEW s \in Runs, Holds(r), Holds(s)
    PROVE  r = s
BY DEF LockInv, HolderIsNamed, MomentIsOwn, Holds, LockTypeOK

LEMMA BeginIsLease ==
    ASSUME LockInv, NEW r \in Runs, BeginAcquire(r)
    PROVE  LeaseStep
<1>. USE DEF BeginAcquire, Holds, Acquiring, LockInv, LockTypeOK
<1>1. LeasePhase[r] = "idle" /\ LeasePhase' = [LeasePhase EXCEPT ![r] = "trying"]
  BY DEF LeasePhase
<1>2. LeaseLeft' = LeaseLeft
  BY DEF LeaseLeft
<1>3. LeaseContended' = LeaseContended
  BY DEF LeaseContended
<1>4. Lease!BeginTry(r)
  BY <1>1, <1>2, <1>3 DEF Lease!BeginTry
<1>. QED  BY <1>4 DEF LeaseStep, Lease!LeaseNext

(* A run that gives up trying has overtaken nobody. *)
LEMMA GivingUpIsLease ==
    ASSUME LockInv, NEW r \in Runs, Acquiring(r), UNCHANGED lockRow,
           Leave(r, "idle") \/ Leave(r, "refused")
    PROVE  LeasePhase[r] = "trying" /\ Lease!GiveUp(r)
<1>. USE DEF Leave, Holds, Acquiring, LockInv, LockTypeOK
<1>1. LeasePhase[r] = "trying" /\ LeasePhase' = [LeasePhase EXCEPT ![r] = "idle"]
  <2>1. LeasePhase[r] = "trying"
    BY DEF LeasePhase
  <2>2. LeasePhase'[r] = "idle" /\ \A s \in Runs \ {r} : LeasePhase'[s] = LeasePhase[s]
    BY DEF LeasePhase
  <2>3. /\ LeasePhase = [s \in Runs |-> LeasePhase[s]]
        /\ LeasePhase' = [s \in Runs |-> LeasePhase'[s]]
    BY DEF LeasePhase
  <2>. QED  BY <2>1, <2>2, <2>3
<1>2. LeaseLeft' = LeaseLeft
  BY DEF LeaseLeft
<1>3. LeaseContended' = LeaseContended \ {r}
  BY DEF LeaseContended
<1>. QED  BY <1>1, <1>2, <1>3 DEF Lease!GiveUp

LEMMA EnsureAndLoadAreLease ==
    ASSUME LockInv, NEW r \in Runs, EnsureLockRow(r) \/ LoadLockRow(r)
    PROVE  LeaseStep
<1>1. CASE EnsureLockRow(r) \/ (LoadLockRow(r) /\ ~LockIsBusy)
  <2>. USE DEF EnsureLockRow, LoadLockRow, Holds, Acquiring, LockInv, LockTypeOK
  <2>1. lockRow' = lockRow
    BY <1>1
  <2>2. LeasePhase' = LeasePhase
    BY <1>1 DEF LeasePhase
  <2>3. LeaseLeft' = LeaseLeft
    BY <1>1, <2>1 DEF LeaseLeft
  <2>4. LeaseContended' = LeaseContended
    BY <1>1, <2>1 DEF LeaseContended
  <2>. QED  BY <2>2, <2>3, <2>4 DEF LeaseStep, LeaseState
<1>2. CASE LoadLockRow(r) /\ LockIsBusy
  <2>1. LeasePhase[r] = "trying" /\ Lease!GiveUp(r)
    BY <1>2, GivingUpIsLease DEF LoadLockRow, Acquiring
  <2>2. LeaseLeft = "marked" \/ \E s \in Runs : LeasePhase[s] = "held"
    BY <1>2 DEF LockIsBusy, LeaseLeft, LeasePhase
  <2>3. Lease!Refuse(r)
    BY <2>1, <2>2 DEF Lease!Refuse, Lease!LeaseBusy, Lease!HasLease
  <2>. QED  BY <2>3 DEF LeaseStep, Lease!LeaseNext
<1>. QED  BY <1>1, <1>2

(* The row is written with one's own moment: whoever else has read it has  *)
(* read another one.                                                       *)
LEMMA WritingOvertakes ==
    ASSUME LockInv, NEW r \in Runs, pc[r] = "mark", lockRow.checked = seen[r],
           lockRow' = [owner |-> now[r], checked |-> now[r], expired |-> FALSE],
           \A s \in Runs \ {r} : pc'[s] = pc[s] /\ seen'[s] = seen[s],
           pc'[r] # "mark"
    PROVE  /\ r \notin LeaseContended /\ ~Lease!LeaseBusy
           /\ Lease!Overtake(Lease!Trying \ {r})
<1>1. r \notin LeaseContended
  BY DEF LeaseContended
<1>2. ~Lease!LeaseBusy
  <2>1. \A s \in Runs : ~Holds(s)
    BY FreeWhenMarked
  <2>2. LeaseLeft # "marked"
    BY DEF LeaseLeft, LockInv, ReadWhenFree
  <2>3. \A s \in Runs : LeasePhase[s] # "held"
    BY <2>1 DEF LeasePhase
  <2>. QED  BY <2>2, <2>3 DEF Lease!LeaseBusy, Lease!HasLease
<1>. DEFINE C == {s \in Runs \ {r} : pc[s] = "mark"}
<1>3. \A s \in Runs : seen[s] # now[r]
  BY DEF LockInv, MomentIsOwn, Acquiring
<1>4. LeaseContended' = C /\ LeaseContended \subseteq C
  BY <1>1, <1>3 DEF LeaseContended
<1>5. C \subseteq Lease!Trying \ {r}
  BY DEF Lease!Trying, LeasePhase, Holds, Acquiring
<1>6. C \in SUBSET (Lease!Trying \ {r}) /\ LeaseContended' = LeaseContended \cup C
  BY <1>4, <1>5
<1>7. Lease!Overtake(Lease!Trying \ {r})
  BY <1>6 DEF Lease!Overtake
<1>. QED  BY <1>1, <1>2, <1>7

LEMMA MarkIsLease ==
    ASSUME LockInv, NEW r \in Runs, MarkLockRunning(r)
    PROVE  LeaseStep
<1>1. CASE lockRow.checked = seen[r]
  <2>. USE DEF MarkLockRunning, TakeLockRow, Holds, Acquiring, LockInv, LockTypeOK
  <2>1. LeasePhase[r] = "trying" /\ LeasePhase' = [LeasePhase EXCEPT ![r] = "held"]
    BY <1>1 DEF LeasePhase
  <2>2. LeaseLeft' = "no"
    BY <1>1 DEF LeaseLeft
  <2>3. /\ r \notin LeaseContended /\ ~Lease!LeaseBusy
        /\ Lease!Overtake(Lease!Trying \ {r})
    BY <1>1, WritingOvertakes
  <2>4. Lease!Take(r)
    BY <2>1, <2>2, <2>3 DEF Lease!Take
  <2>. QED  BY <2>4 DEF LeaseStep, Lease!LeaseNext
<1>2. CASE lockRow.checked # seen[r]
  <2>1. LeasePhase[r] = "trying" /\ Lease!GiveUp(r)
    BY <1>2, GivingUpIsLease DEF MarkLockRunning, Acquiring
  <2>2. r \in LeaseContended
    BY <1>2 DEF MarkLockRunning, LeaseContended
  <2>3. Lease!Refuse(r)
    BY <2>1, <2>2 DEF Lease!Refuse
  <2>. QED  BY <2>3 DEF LeaseStep, Lease!LeaseNext
<1>. QED  BY <1>1, <1>2

LEMMA AcquireFailsIsLease ==
    ASSUME LockInv, NEW r \in Runs, AcquireFails(r)
    PROVE  LeaseStep
<1>1. CASE UNCHANGED lockRow
  <2>1. LeasePhase[r] = "trying" /\ Lease!GiveUp(r)
    BY <1>1, GivingUpIsLease DEF AcquireFails, Acquiring
  <2>2. Lease!FailToTry(r)
    BY <2>1 DEF Lease!FailToTry
  <2>. QED  BY <2>2 DEF LeaseStep, Lease!LeaseNext
<1>2. CASE /\ pc[r] = "mark" /\ lockRow.checked = seen[r]
           /\ lockRow' = [owner |-> now[r], checked |-> now[r], expired |-> FALSE]
  <2>. USE DEF AcquireFails, Leave, Holds, Acquiring, LockInv, LockTypeOK
  <2>1. LeasePhase[r] = "trying" /\ LeasePhase' = [LeasePhase EXCEPT ![r] = "idle"]
    BY <1>2 DEF LeasePhase
  <2>2. LeaseLeft' = "marked"
    <3>1. \A s \in Runs : ~Holds(s)'
      BY <1>2, FreeWhenMarked
    <3>2. now[r] # 0
      BY <1>2 DEF MomentIsOwn
    <3>3. lockRow'.owner # 0 /\ ~lockRow'.expired
      BY <1>2, <3>2
    <3>. QED  BY <3>1, <3>3 DEF LeaseLeft
  <2>3. /\ r \notin LeaseContended /\ ~Lease!LeaseBusy
        /\ Lease!Overtake(Lease!Trying \ {r})
    BY <1>2, WritingOvertakes
  <2>4. Lease!TakeUnnoticed(r)
    BY <2>1, <2>2, <2>3 DEF Lease!TakeUnnoticed
  <2>. QED  BY <2>4 DEF LeaseStep, Lease!LeaseNext
<1>. QED  BY <1>1, <1>2 DEF AcquireFails

(* A holder that ends leaves the row as it is, with its name in it. *)
LEMMA QuittingIsLease ==
    ASSUME LockInv, NEW r \in Runs, Holds(r), Leave(r, "idle"), UNCHANGED lockRow
    PROVE  LeaseStep
<1>. USE DEF Leave, Holds, Acquiring, LockInv, LockTypeOK
<1>1. LeasePhase[r] = "held" /\ LeasePhase' = [LeasePhase EXCEPT ![r] = "idle"]
  BY DEF LeasePhase
<1>2. LeaseLeft' = "marked"
  <2>1. \A s \in Runs : ~Holds(s)'
    BY NobodyElseHolds
  <2>2. lockRow.owner # 0 /\ ~lockRow.expired
    BY DEF HolderIsNamed, MomentIsOwn
  <2>. QED  BY <2>1, <2>2 DEF LeaseLeft
<1>3. LeaseContended' = LeaseContended
  BY DEF LeaseContended
<1>4. Lease!Quit(r)
  BY <1>1, <1>2, <1>3 DEF Lease!Quit, Lease!HasLease
<1>. QED  BY <1>4 DEF LeaseStep, Lease!LeaseNext

LEMMA LeavingIsLease ==
    ASSUME LockInv, NEW r \in Runs, DropGuard(r) \/ Crash(r) \/ ReportRunning(r)
    PROVE  LeaseStep
<1>1. CASE Holds(r)
  BY <1>1, QuittingIsLease DEF DropGuard, Crash, ReportRunning, Holds
<1>2. CASE Acquiring(r)
  <2>1. LeasePhase[r] = "trying" /\ Lease!GiveUp(r)
    BY <1>2, GivingUpIsLease DEF DropGuard, Crash, ReportRunning, Acquiring
  <2>2. Lease!FailToTry(r)
    BY <2>1 DEF Lease!FailToTry
  <2>. QED  BY <2>2 DEF LeaseStep, Lease!LeaseNext
<1>3. CASE ReportRunning(r)
  <2>. USE DEF ReportRunning, Leave, Holds, Acquiring, LockInv, LockTypeOK
  <2>1. LeasePhase' = LeasePhase
    BY <1>3 DEF LeasePhase
  <2>2. LeaseLeft' = LeaseLeft
    BY <1>3 DEF LeaseLeft
  <2>3. LeaseContended' = LeaseContended
    BY <1>3 DEF LeaseContended
  <2>. QED  BY <2>1, <2>2, <2>3 DEF LeaseStep, LeaseState
<1>. QED
  BY <1>1, <1>2, <1>3 DEF DropGuard, Crash, Holds, Acquiring, LockInv, LockTypeOK, Steps

(* The release of a run that ended; everybody who has read the row loses. *)
LEMMA ReleaseIsLease ==
    ASSUME LockInv, NEW o \in releases, ReleaseLock(o) \/ ReleaseLost(o)
    PROVE  LeaseStep
<1>0. UNCHANGED <<pc, now, seen>>
  BY DEF ReleaseLock, ReleaseLost
<1>1. LeasePhase' = LeasePhase
  BY <1>0 DEF LeasePhase, Holds, Acquiring
<1>2. CASE UNCHANGED lockRow
  <2>1. LeaseLeft' = LeaseLeft /\ LeaseContended' = LeaseContended
    BY <1>0, <1>2 DEF LeaseLeft, LeaseContended, Holds
  <2>. QED  BY <1>1, <2>1 DEF LeaseStep, LeaseState
<1>3. CASE /\ ReleaseLock(o) /\ lockRow.owner = o /\ TimePasses
           /\ lockRow' = [owner |-> 0, checked |-> Moment, expired |-> FALSE]
  <2>1. LeaseLeft # "no"
    <3>1. \A s \in Runs : ~Holds(s)
      BY <1>3 DEF LockInv, HolderIsNamed, ReleaseIsOver
    <3>2. lockRow.owner # 0
      BY <1>3 DEF LockInv, LockTypeOK
    <3>. QED  BY <3>1, <3>2 DEF LeaseLeft
  <2>2. LeaseLeft' = "no"
    BY <1>3 DEF LeaseLeft
  <2>. DEFINE C == {s \in Runs : pc[s] = "mark"}
  <2>3. LeaseContended' = C /\ LeaseContended \subseteq C
    BY <1>0, <1>3, MomentIsNew DEF LeaseContended
  <2>4. C \subseteq Lease!Trying
    BY DEF Lease!Trying, LeasePhase, Holds, Acquiring
  <2>5. C \in SUBSET Lease!Trying /\ LeaseContended' = LeaseContended \cup C
    BY <2>3, <2>4
  <2>6. Lease!Overtake(Lease!Trying)
    BY <2>5 DEF Lease!Overtake
  <2>7. Lease!Free
    BY <1>1, <2>1, <2>2, <2>6 DEF Lease!Free
  <2>. QED  BY <2>7 DEF LeaseStep, Lease!LeaseNext
<1>. QED  BY <1>2, <1>3 DEF ReleaseLock, ReleaseLost

LEMMA ExpiryIsLease ==
    ASSUME ~SlowRefresh, LockInv, LeaseExpires
    PROVE  LeaseStep
<1>1. /\ lockRow'.expired /\ lockRow'.owner = lockRow.owner
      /\ lockRow'.checked = lockRow.checked
  BY ExpiredRowIsTyped DEF LeaseExpires, LockInv, LockTypeOK
<1>2. /\ UNCHANGED <<pc, now, seen>> /\ lockRow.owner # 0 /\ ~lockRow.expired
      /\ \A s \in Runs : ~Holds(s)
  BY DEF LeaseExpires, LockIsBusy, LockInv, HolderIsNamed
<1>3. LeasePhase' = LeasePhase
  BY <1>2 DEF LeasePhase, Holds, Acquiring
<1>4. LeaseLeft = "marked" /\ LeaseLeft' = "lapsed"
  BY <1>1, <1>2 DEF LeaseLeft, Holds
<1>5. LeaseContended' = LeaseContended
  BY <1>1, <1>2 DEF LeaseContended
<1>6. Lease!Lapse
  BY <1>3, <1>4, <1>5 DEF Lease!Lapse
<1>. QED  BY <1>6 DEF LeaseStep, Lease!LeaseNext

LEMMA EveryStepIsLease ==
    ASSUME ~SlowRefresh, LockInv, [LockNext]_lockVars
    PROVE  [Lease!LeaseNext]_LeaseState
<1>1. CASE UNCHANGED lockVars
  <2>1. UNCHANGED LeaseState
    BY <1>1 DEF lockVars, LeaseState, LeasePhase, LeaseLeft, LeaseContended, Holds, Acquiring
  <2>. QED  BY <2>1
<1>2. CASE LockNext
  <2>1. LeaseStep
    BY <1>2, BeginIsLease, EnsureAndLoadAreLease, MarkIsLease, AcquireFailsIsLease,
       LeavingIsLease, ReleaseIsLease, ExpiryIsLease DEF LockNext
  <2>. QED  BY <2>1 DEF LeaseStep
<1>. QED  BY <1>1, <1>2

(* The database row keeps the promises of the abstract lock: one holder, a  *)
(* refusal only when somebody else has or had it, and a mark that stays     *)
(* until a release or the end of the lease (try_acquire, Drop, release).    *)
THEOREM LockImplementsLease ==
    ASSUME LockRowSeeded, ~SlowRefresh
    PROVE  LockSpec => ImplementsLease
<1>1. LockInit => Lease!LeaseInit
  BY DEF LockInit, Lease!LeaseInit, LeasePhase, LeaseLeft, LeaseContended, Holds, Acquiring
<1>2. LockInv /\ [LockNext]_lockVars => [Lease!LeaseNext]_LeaseState
  BY EveryStepIsLease
<1>3. LeaseState = Lease!leaseVars
  BY DEF LeaseState, Lease!leaseVars
<1>4. LockInv /\ [LockNext]_lockVars => [Lease!LeaseNext]_(Lease!leaseVars)
  BY <1>2, <1>3 DEF LeaseState, Lease!leaseVars
<1>. QED
  BY <1>1, <1>4, LockInvHolds, PTL DEF LockSpec, ImplementsLease, Lease!LeaseSpec

-----------------------------------------------------------------------------
(* The lists of countries.                                                  *)

HIDE LockAssumption
USE GeoAssumption

Fields == {"step", "at", "known", "head", "got", "changed", "built"}
Shape(w) == w = [f \in Fields |-> w[f]]

Listing == {"look", "touch", "get", "store"}

(* How far a run may be, w, when l is stored and f is published: before    *)
(* the GET, what it noted lies between the list it found and the newest    *)
(* one; what it goes on to touch or to store fits the list that is there.  *)
WorkOk(w, l, f) ==
    /\ Shape(w)
    /\ w.step \in Listing => w.at \in Nat \ {0}
    /\ w.step \in Listing \ {"look"} => w.at <= Len(Codes)
    /\ w.step = "touch" => w.head.etag = l[Codes[w.at]]
    /\ w.step = "get" =>
        /\ w.known.etag = l[Codes[w.at]]
        /\ w.head.etag \in l[Codes[w.at]]..f[Codes[w.at]]
    /\ w.step = "store" => w.got \in l[Codes[w.at]]..f[Codes[w.at]]

TablesOk ==
    /\ feed \in [Countries -> Nat] /\ list \in [Countries -> Nat]
    /\ \A c \in Countries : list[c] <= feed[c]
    /\ listState = [c \in Countries |-> listState[c]]
    /\ EtagIsOfTheList
    /\ bumped \in 0..1

RunsOk ==
    /\ work = [r \in Runs |-> work[r]]
    /\ \A r \in Runs : WorkOk(work[r], list, feed)
    /\ \A r \in Runs : work[r].step \in Listing => Holds(r)

GeoInv == LockInv /\ TablesOk /\ RunsOk

-----------------------------------------------------------------------------
(* A run that has nothing to do, or whose lists are done. *)
LEMMA Restful ==
    ASSUME NEW l, NEW f
    PROVE  WorkOk(NoWork, l, f) /\ WorkOk([NoWork EXCEPT !.step = "clear"], l, f)
<1>1. Shape(NoWork) /\ Shape([NoWork EXCEPT !.step = "clear"])
  BY DEF Shape, Fields, NoWork
<1>2. NoWork.step = "none" /\ [NoWork EXCEPT !.step = "clear"].step = "clear"
  BY DEF NoWork
<1>. QED  BY <1>1, <1>2 DEF WorkOk, Listing

(* The country that comes next may be the one after the last. *)
LEMMA NextIsOk ==
    ASSUME NEW at \in Nat, NEW b, NEW l, NEW f
    PROVE  WorkOk([NoWork EXCEPT !.step = "look", !.at = at + 1, !.changed = b], l, f)
<1>. DEFINE w == [NoWork EXCEPT !.step = "look", !.at = at + 1, !.changed = b]
<1>1. Shape(w)
  BY DEF Shape, Fields, NoWork
<1>2. w.step = "look" /\ w.at \in Nat \ {0}
  BY DEF NoWork
<1>3. WorkOk(w, l, f)
  <2>. HIDE DEF w
  <2>. QED  BY <1>1, <1>2 DEF WorkOk, Listing
<1>. QED  BY <1>3

(* Every step of GeoLists is one of the lock, or none. *)
LEMMA StepsOfTheLock ==
    ASSUME [GeoNext]_geoVars
    PROVE  [LockNext]_lockVars
<1>1. CASE GeoNext
  <2>1. ASSUME NEW r \in Runs, LoopTick(r) \/ ManualRefresh(r)
        PROVE  LockNext \/ UNCHANGED lockVars
    BY <2>1 DEF LoopTick, ManualRefresh, LockNext
  <2>2. ASSUME NEW r \in Runs, Refresh(r)
        PROVE  LockNext \/ UNCHANGED lockVars
    BY <2>2 DEF Refresh, Locking, RefreshCatalog, Look, Get, Touch, Store, EndLists, ClearLookup,
                ReadPage, InstallLookup, LockNext
  <2>3. ASSUME NEW r \in Runs, Faults(r)
        PROVE  LockNext \/ UNCHANGED lockVars
    BY <2>3 DEF Faults, LockingFails, CatalogFails, SkipCountry, RebuildFails, RunDies, LockNext
  <2>4. CASE LockMoves \/ ReleaseIsLost
    BY <2>4 DEF LockMoves, ReleaseIsLost, LockNext
  <2>5. CASE (\E p \in Planes : Restart(p)) \/ (\E c \in Countries : Publish(c))
    BY <2>5 DEF Restart, Publish
  <2>. QED  BY <1>1, <2>1, <2>2, <2>3, <2>4, <2>5 DEF GeoNext
<1>2. CASE UNCHANGED geoVars
  BY <1>2 DEF geoVars, lockVars
<1>. QED  BY <1>1, <1>2

LEMMA LockInvKept ==
    ASSUME ~SlowRefresh, GeoInv, [GeoNext]_geoVars
    PROVE  LockInv'
BY StepsOfTheLock, LockInvStep DEF GeoInv

(* Only the run that ends loses the lock. *)
LEMMA HoldersStay ==
    ASSUME LockInv, NEW r \in Runs, NEW s \in Runs, Holds(s),
           \/ BeginAcquire(r) \/ EnsureLockRow(r) \/ LoadLockRow(r) \/ MarkLockRunning(r)
           \/ ReportRunning(r) \/ AcquireFails(r)
           \/ s # r /\ (DropGuard(r) \/ Crash(r))
    PROVE  Holds(s)'
BY DEF LockInv, LockTypeOK, Holds, BeginAcquire, EnsureLockRow, LoadLockRow, MarkLockRunning,
       ReportRunning, AcquireFails, DropGuard, Crash, Leave, TakeLockRow

(* Nothing but the lock changes. *)
LEMMA LockingKeeps ==
    ASSUME GeoInv, LockInv', UNCHANGED <<feed, list, listState, bumped, work>>,
           \A r \in Runs : Holds(r) /\ work[r].step \in Listing => Holds(r)'
    PROVE  GeoInv'
<1>1. TablesOk'
  BY DEF GeoInv, TablesOk, EtagIsOfTheList
<1>2. RunsOk'
  BY DEF GeoInv, RunsOk
<1>. QED  BY <1>1, <1>2 DEF GeoInv

(* One run moves on, and the tables stay. *)
LEMMA RunKeeps ==
    ASSUME GeoInv, LockInv', UNCHANGED <<feed, list, listState, bumped>>,
           NEW r \in Runs,
           work' = [q \in Runs |-> work'[q]],
           \A q \in Runs \ {r} : work'[q] = work[q] /\ (Holds(q) => Holds(q)'),
           WorkOk(work'[r], list, feed),
           work'[r].step \in Listing => Holds(r)'
    PROVE  GeoInv'
<1>1. TablesOk'
  BY DEF GeoInv, TablesOk, EtagIsOfTheList
<1>2. RunsOk'
  <2>1. \A q \in Runs : WorkOk(work'[q], list, feed)
    BY DEF GeoInv, RunsOk
  <2>2. \A q \in Runs : work'[q].step \in Listing => Holds(q)'
    BY DEF GeoInv, RunsOk
  <2>. QED  BY <2>1, <2>2 DEF RunsOk
<1>. QED  BY <1>1, <1>2 DEF GeoInv

(* Starting, waiting for and losing the lock. *)
LEMMA StartKeeps ==
    ASSUME GeoInv, LockInv', NEW r \in Runs,
           LoopTick(r) \/ ManualRefresh(r) \/ Locking(r) \/ LockingFails(r)
    PROVE  GeoInv'
<1>1. UNCHANGED <<feed, list, listState, bumped, work>>
  BY DEF LoopTick, ManualRefresh, Locking, LockingFails, tableVars
<1>2. ASSUME NEW s \in Runs, Holds(s) PROVE Holds(s)'
  <2>1. CASE UNCHANGED lockVars
    BY <1>2, <2>1 DEF lockVars, Holds
  <2>2. CASE ~UNCHANGED lockVars
    BY <1>2, <2>2, HoldersStay DEF GeoInv, LoopTick, ManualRefresh, Locking, LockingFails
  <2>. QED  BY <2>1, <2>2
<1>. QED  BY <1>1, <1>2, LockingKeeps

LEMMA LockMovesKeeps ==
    ASSUME GeoInv, LockInv', LockMoves \/ ReleaseIsLost \/ \E p \in Planes : Restart(p)
    PROVE  GeoInv'
<1>1. UNCHANGED <<feed, list, listState, bumped, work, pc>>
  BY DEF LockMoves, ReleaseIsLost, Restart, LeaseExpires, ReleaseLock, ReleaseLost, tableVars,
         lockVars
<1>. QED  BY <1>1, LockingKeeps DEF Holds

-----------------------------------------------------------------------------
(* The actions of a refresh. *)
LEMMA CatalogKeeps ==
    ASSUME GeoInv, LockInv', NEW r \in Runs, RefreshCatalog(r)
    PROVE  GeoInv'
<1>1. UNCHANGED <<feed, list, listState, bumped>> /\ \A q \in Runs : Holds(q) => Holds(q)'
  BY DEF RefreshCatalog, lockVars, Holds
<1>2. /\ work' = [q \in Runs |-> work'[q]] /\ \A q \in Runs \ {r} : work'[q] = work[q]
      /\ Shape(work'[r]) /\ work'[r].step = "look" /\ work'[r].at = 1
  BY ZenonT(40) DEF RefreshCatalog, GeoInv, RunsOk, WorkOk, Shape, Fields
<1>3. WorkOk(work'[r], list, feed)
  BY <1>2 DEF WorkOk, Listing
<1>4. Holds(r)'
  BY <1>1 DEF RefreshCatalog
<1>. QED  BY <1>1, <1>2, <1>3, <1>4, RunKeeps

LEMMA LookKeeps ==
    ASSUME GeoInv, LockInv', NEW r \in Runs, Look(r)
    PROVE  GeoInv'
<1>1. UNCHANGED <<feed, list, listState, bumped>> /\ \A q \in Runs : Holds(q) => Holds(q)'
  BY DEF Look, lockVars, tableVars, Holds
<1>. DEFINE c == Country(r)
<1>2. /\ work[r].step = "look" /\ work[r].at \in 1..Len(Codes) /\ Shape(work[r]) /\ Holds(r)
      /\ c = Codes[work[r].at] /\ c \in Countries
  BY SMTT(30) DEF GeoInv, RunsOk, WorkOk, Listing, Look, InList, Country, Countries
<1>. DEFINE fallback == [modified |-> <<"index", catalog[c]>>, etag |-> listState[c].etag]
<1>a. PICK head \in {Header(feed[c]), fallback} :
        work' = [work EXCEPT ![r].known = listState[c], ![r].head = head,
                     ![r].step = IF ListChanged(listState[c], list[c], head)
                                 THEN "get" ELSE "touch"]
  BY DEF Look
<1>3. head.etag = feed[c] \/ head.etag = listState[c].etag
  BY DEF Header
<1>4. list[c] \in Nat /\ feed[c] \in Nat /\ list[c] <= feed[c] /\ listState[c].etag = list[c]
  BY <1>2 DEF GeoInv, TablesOk, EtagIsOfTheList
<1>5. /\ work' = [q \in Runs |-> work'[q]] /\ \A q \in Runs \ {r} : work'[q] = work[q]
      /\ Shape(work'[r]) /\ work'[r].at = work[r].at
      /\ work'[r].known = listState[c] /\ work'[r].head = head
      /\ work'[r].step = IF ListChanged(listState[c], list[c], head) THEN "get" ELSE "touch"
  <2>. HIDE DEF c
  <2>. QED  BY <1>2, <1>a DEF GeoInv, RunsOk, WorkOk, Shape, Fields
<1>6. ~ListChanged(listState[c], list[c], head) => head.etag = listState[c].etag
  BY DEF ListChanged
<1>7. WorkOk(work'[r], list, feed)
  <2>. HIDE DEF c
  <2>1. CASE ListChanged(listState[c], list[c], head)
    <3>1. work'[r].step = "get" /\ work'[r].head.etag \in list[c]..feed[c]
      BY <1>3, <1>4, <1>5, <2>1
    <3>. QED  BY <1>2, <1>4, <1>5, <3>1 DEF WorkOk, Listing
  <2>2. CASE ~ListChanged(listState[c], list[c], head)
    <3>1. work'[r].step = "touch" /\ work'[r].head.etag = list[c]
      BY <1>4, <1>5, <1>6, <2>2
    <3>. QED  BY <1>2, <1>5, <3>1 DEF WorkOk, Listing
  <2>. QED  BY <2>1, <2>2
<1>. QED  BY <1>1, <1>2, <1>5, <1>7, RunKeeps

LEMMA GetKeeps ==
    ASSUME GeoInv, LockInv', NEW r \in Runs, Get(r)
    PROVE  GeoInv'
<1>1. UNCHANGED <<feed, list, listState, bumped>> /\ \A q \in Runs : Holds(q) => Holds(q)'
  BY DEF Get, lockVars, tableVars, Holds
<1>. DEFINE c == Country(r)
<1>2. /\ work[r].step = "get" /\ work[r].at \in 1..Len(Codes) /\ Shape(work[r]) /\ Holds(r)
      /\ c = Codes[work[r].at] /\ c \in Countries
      /\ work[r].known.etag = list[c] /\ work[r].head.etag \in list[c]..feed[c]
  BY DEF GeoInv, RunsOk, WorkOk, Listing, Get, InList, Country, Countries
<1>3. list[c] \in Nat /\ feed[c] \in Nat /\ list[c] <= feed[c]
  BY <1>2 DEF GeoInv, TablesOk
<1>4. /\ work' = [q \in Runs |-> work'[q]] /\ \A q \in Runs \ {r} : work'[q] = work[q]
      /\ Shape(work'[r]) /\ work'[r].at = work[r].at
      /\ work'[r].known = work[r].known /\ work'[r].head = work[r].head
      /\ work'[r].got = feed[c]
      /\ work'[r].step = IF feed[c] = work[r].known.etag THEN "touch" ELSE "store"
  <2>1. work' = [work EXCEPT ![r].got = feed[c],
                     ![r].step = IF feed[c] = work[r].known.etag THEN "touch" ELSE "store"]
    BY DEF Get
  <2>. HIDE DEF c
  <2>. QED  BY <1>2, <2>1 DEF GeoInv, RunsOk, WorkOk, Shape, Fields
<1>5. WorkOk(work'[r], list, feed)
  <2>. HIDE DEF c
  <2>. QED  BY <1>2, <1>3, <1>4 DEF WorkOk, Listing
<1>. QED  BY <1>1, <1>2, <1>4, <1>5, RunKeeps

(* Whoever writes a country holds the lock, so nobody else is at a list. *)
LEMMA Alone ==
    ASSUME GeoInv, NEW r \in Runs, work[r].step \in Listing, NEW q \in Runs, q # r
    PROVE  work[q].step \notin Listing
BY DEF GeoInv, RunsOk, LockInv, HolderIsNamed, MomentIsOwn

(* A country's rows are written and the run goes on to the next one. *)
LEMMA WriteKeeps ==
    ASSUME GeoInv, LockInv', NEW r \in Runs, work[r].step \in Listing, UNCHANGED lockVars,
           NEW b, NextCountry(r, b), TablesOk', UNCHANGED feed
    PROVE  GeoInv'
<1>1. work[r].at \in Nat
  BY DEF GeoInv, RunsOk, WorkOk
<1>2. /\ work' = [q \in Runs |-> work'[q]] /\ \A q \in Runs \ {r} : work'[q] = work[q]
      /\ work'[r] = [NoWork EXCEPT !.step = "look", !.at = work[r].at + 1,
                                   !.changed = work[r].changed \/ b]
  BY DEF NextCountry, GeoInv, RunsOk
<1>3. WorkOk(work'[r], list', feed')
  <2>. DEFINE at == work[r].at
              changed == work[r].changed \/ b
  <2>1. at \in Nat /\ work'[r] = [NoWork EXCEPT !.step = "look", !.at = at + 1,
                                                !.changed = changed]
    BY <1>1, <1>2
  <2>. HIDE DEF at, changed
  <2>2. WorkOk([NoWork EXCEPT !.step = "look", !.at = at + 1, !.changed = changed], list', feed')
    BY <2>1, NextIsOk, Zenon
  <2>. QED  BY <2>1, <2>2
<1>4. ASSUME NEW q \in Runs \ {r} PROVE WorkOk(work'[q], list', feed')
  <2>1. work'[q].step \notin Listing /\ Shape(work'[q])
    BY <1>2, Alone DEF GeoInv, RunsOk, WorkOk
  <2>. QED  BY <2>1 DEF WorkOk, Listing
<1>5. ASSUME NEW q \in Runs, work'[q].step \in Listing PROVE Holds(q)'
  <2>1. q = r
    BY <1>2, <1>5, Alone
  <2>. QED  BY <2>1 DEF GeoInv, RunsOk, Holds, lockVars
<1>. QED  BY <1>2, <1>3, <1>4, <1>5 DEF GeoInv, RunsOk

LEMMA TouchKeeps ==
    ASSUME GeoInv, LockInv', NEW r \in Runs, Touch(r)
    PROVE  GeoInv'
<1>. DEFINE c == Country(r)
<1>1. /\ work[r].step \in Listing /\ c \in Countries
      /\ work[r].head.etag = list[c]
  BY DEF GeoInv, RunsOk, WorkOk, Listing, Touch, InList, Country, Countries
<1>2. UNCHANGED <<lockVars, feed, list, bumped>> /\ NextCountry(r, FALSE)
  BY DEF Touch
<1>3. TablesOk'
  <2>1. listState' = [listState EXCEPT ![c] = IF work[r].known = NoRow THEN @ ELSE work[r].head]
    BY DEF Touch
  <2>2. /\ listState' = [d \in Countries |-> listState'[d]]
        /\ \A d \in Countries : listState'[d].etag = list[d]
    <3>. HIDE DEF c
    <3>. QED  BY <1>1, <2>1 DEF GeoInv, TablesOk, EtagIsOfTheList
  <2>. QED  BY <1>2, <2>2 DEF GeoInv, TablesOk, EtagIsOfTheList
<1>. QED  BY <1>1, <1>2, <1>3, WriteKeeps

(* What a transaction does to list and version. *)
LEMMA StoreMoves ==
    ASSUME GeoInv, NEW r \in Runs, Store(r)
    PROVE  /\ TablesOk'
           /\ (list' # list) <=> (bumped' # bumped)
           /\ \A d \in Countries : list[d] <= list'[d]
<1>. DEFINE c == Country(r)
<1>1. /\ c \in Countries /\ work[r].got \in list[c]..feed[c]
      /\ list[c] \in Nat /\ feed[c] \in Nat
  BY DEF GeoInv, TablesOk, RunsOk, WorkOk, Listing, Store, InList, Country, Countries
<1>2. /\ list' = [list EXCEPT ![c] = work[r].got]
      /\ listState' = [listState EXCEPT ![c] = Merged(work[r].got, work[r].head)]
      /\ bumped' = IF list[c] # work[r].got THEN 1 - bumped ELSE bumped
      /\ UNCHANGED feed
  BY DEF Store
<1>3. Merged(work[r].got, work[r].head).etag = work[r].got
  BY DEF Merged, Header
<1>. HIDE DEF c
<1>4. /\ list' \in [Countries -> Nat]
      /\ \A d \in Countries : list[d] <= list'[d] /\ list'[d] <= feed[d]
  BY <1>1, <1>2 DEF GeoInv, TablesOk
<1>5. /\ listState' = [d \in Countries |-> listState'[d]]
      /\ \A d \in Countries : listState'[d].etag = list'[d]
  BY <1>1, <1>2, <1>3 DEF GeoInv, TablesOk, EtagIsOfTheList
<1>6. bumped' \in 0..1 /\ ((bumped' # bumped) <=> (list[c] # work[r].got))
  BY <1>2 DEF GeoInv, TablesOk
<1>7. (list' # list) <=> (list[c] # work[r].got)
  BY <1>1, <1>2 DEF GeoInv, TablesOk
<1>. QED  BY <1>2, <1>4, <1>5, <1>6, <1>7 DEF GeoInv, TablesOk, EtagIsOfTheList

LEMMA StoreKeeps ==
    ASSUME GeoInv, LockInv', NEW r \in Runs, Store(r)
    PROVE  GeoInv'
<1>1. work[r].step \in Listing /\ UNCHANGED lockVars /\ UNCHANGED feed
  BY DEF Store, InList, Listing
<1>2. \E b : NextCountry(r, b)
  BY DEF Store
<1>. QED  BY <1>1, <1>2, StoreMoves, WriteKeeps

LEMMA SkipKeeps ==
    ASSUME GeoInv, LockInv', NEW r \in Runs, SkipCountry(r)
    PROVE  GeoInv'
<1>1. work[r].step \in Listing /\ UNCHANGED <<lockVars, feed, list, listState, bumped>>
  BY DEF SkipCountry, InList, Listing, tableVars
<1>2. TablesOk'
  BY <1>1 DEF GeoInv, TablesOk, EtagIsOfTheList
<1>. QED  BY <1>1, <1>2, WriteKeeps DEF SkipCountry

(* The end of a refresh, and the rebuild after it. *)
LEMMA EndKeeps ==
    ASSUME GeoInv, LockInv', NEW r \in Runs,
           \/ EndLists(r) \/ RebuildFails(r) \/ RunDies(r) \/ InstallLookup(r)
    PROVE  GeoInv'
<1>1. UNCHANGED <<feed, list, listState, bumped>>
  BY DEF EndLists, RebuildFails, RunDies, InstallLookup, tableVars
<1>2. ASSUME NEW q \in Runs \ {r}, Holds(q) PROVE Holds(q)'
  <2>1. DropGuard(r) \/ Crash(r) \/ UNCHANGED lockVars
    BY DEF EndLists, RebuildFails, RunDies, InstallLookup
  <2>. QED  BY <1>2, <2>1, HoldersStay DEF GeoInv, Holds, lockVars
<1>3. /\ work' = [q \in Runs |-> work'[q]] /\ \A q \in Runs \ {r} : work'[q] = work[q]
      /\ work'[r] \in {NoWork, [NoWork EXCEPT !.step = "clear"]}
  BY DEF EndLists, RebuildFails, RunDies, InstallLookup, GeoInv, RunsOk
<1>4. WorkOk(work'[r], list, feed) /\ work'[r].step \notin Listing
  <2>1. WorkOk(work'[r], list, feed)
    BY <1>3, Restful
  <2>2. NoWork.step \notin Listing /\ [NoWork EXCEPT !.step = "clear"].step \notin Listing
    BY DEF NoWork, Listing
  <2>. QED  BY <1>3, <2>1, <2>2
<1>. QED  BY <1>1, <1>2, <1>3, <1>4, RunKeeps

LEMMA RebuildKeeps ==
    ASSUME GeoInv, LockInv', NEW r \in Runs, ClearLookup(r) \/ ReadPage(r)
    PROVE  GeoInv'
<1>1. UNCHANGED <<feed, list, listState, bumped>> /\ \A q \in Runs : Holds(q) => Holds(q)'
  BY DEF ClearLookup, ReadPage, lockVars, tableVars, Holds
<1>2. /\ work' = [q \in Runs |-> work'[q]] /\ \A q \in Runs \ {r} : work'[q] = work[q]
      /\ Shape(work'[r]) /\ work'[r].step = "read"
  <2>1. Shape(work[r]) /\ work = [q \in Runs |-> work[q]]
    BY DEF GeoInv, RunsOk, WorkOk
  <2>2. CASE ClearLookup(r)
    <3>1. PICK n : work' = [work EXCEPT ![r].step = "read", ![r].got = n]
      BY <2>2 DEF ClearLookup
    <3>. QED  BY <2>1, <3>1 DEF Shape, Fields
  <2>3. CASE ReadPage(r)
    <3>1. work[r].step = "read" /\ \E n, b : work' = [work EXCEPT ![r].at = n, ![r].built = b]
      BY <2>3 DEF ReadPage
    <3>. QED  BY <2>1, <3>1, ZenonT(40) DEF Shape, Fields
  <2>. QED  BY <2>2, <2>3
<1>3. WorkOk(work'[r], list, feed) /\ work'[r].step \notin Listing
  BY <1>2 DEF WorkOk, Listing
<1>. QED  BY <1>1, <1>2, <1>3, RunKeeps

LEMMA CatalogFailsKeeps ==
    ASSUME GeoInv, LockInv', NEW r \in Runs, CatalogFails(r)
    PROVE  GeoInv'
<1>1. UNCHANGED <<feed, list, listState, bumped, work>> /\ work[r].step = "none" /\ DropGuard(r)
  BY DEF CatalogFails, tableVars
<1>2. ASSUME NEW q \in Runs, Holds(q), work[q].step \in Listing PROVE Holds(q)'
  <2>1. q # r
    BY <1>1, <1>2 DEF Listing
  <2>. QED  BY <1>1, <1>2, <2>1, HoldersStay DEF GeoInv
<1>. QED  BY <1>1, <1>2, LockingKeeps

(* A publication: what was noted is not newer than the newest. *)
LEMMA PublishKeeps ==
    ASSUME GeoInv, LockInv', NEW c \in Countries, Publish(c)
    PROVE  GeoInv'
<1>1. UNCHANGED <<list, listState, bumped, work, pc>>
  BY DEF Publish, lockVars, tableVars
<1>2. feed' \in [Countries -> Nat] /\ \A d \in Countries : feed[d] <= feed'[d]
  BY DEF Publish, GeoInv, TablesOk
<1>3. TablesOk'
  BY <1>1, <1>2 DEF GeoInv, TablesOk, EtagIsOfTheList
<1>4. ASSUME NEW r \in Runs PROVE WorkOk(work[r], list, feed')
  <2>. DEFINE d == Codes[work[r].at]
  <2>1. WorkOk(work[r], list, feed)
    BY DEF GeoInv, RunsOk
  <2>2. work[r].step \in {"get", "store"} => d \in Countries
    BY <2>1 DEF WorkOk, Listing, Countries
  <2>3. d \in Countries => list[d] \in Nat /\ feed[d] \in Nat /\ feed'[d] \in Nat /\ feed[d] <= feed'[d]
    BY <1>2 DEF GeoInv, TablesOk
  <2>4. work[r].step = "get" => work[r].head.etag \in list[d]..feed'[d]
    BY <2>1, <2>2, <2>3 DEF WorkOk
  <2>5. work[r].step = "store" => work[r].got \in list[d]..feed'[d]
    BY <2>1, <2>2, <2>3 DEF WorkOk
  <2>. QED  BY <2>1, <2>4, <2>5 DEF WorkOk
<1>5. RunsOk'
  BY <1>1, <1>4 DEF GeoInv, RunsOk, Holds
<1>. QED  BY <1>3, <1>5 DEF GeoInv

-----------------------------------------------------------------------------
LEMMA GeoInvInit ==
    ASSUME LockRowSeeded, GeoInit
    PROVE  GeoInv
<1>1. LockInv
  BY LockInvInit DEF GeoInit
<1>2. TablesOk
  BY DEF GeoInit, TablesOk, EtagIsOfTheList, NoLists, NoRow
<1>3. RunsOk
  BY Restful DEF GeoInit, RunsOk, NoWork, Listing
<1>. QED  BY <1>1, <1>2, <1>3 DEF GeoInv

LEMMA GeoInvStep ==
    ASSUME ~SlowRefresh, GeoInv, [GeoNext]_geoVars
    PROVE  GeoInv'
<1>1. CASE UNCHANGED geoVars
  <2>1. LockInv'
    BY LockInvKept
  <2>. QED  BY <1>1, <2>1, LockingKeeps DEF geoVars, lockVars, tableVars, Holds
<1>2. CASE GeoNext
  <2>1. LockInv'
    BY <1>2, LockInvKept
  <2>2. ASSUME NEW r \in Runs, LoopTick(r) \/ ManualRefresh(r) \/ Refresh(r) \/ Faults(r)
        PROVE  GeoInv'
    BY <2>1, <2>2, StartKeeps, CatalogKeeps, LookKeeps, GetKeeps, TouchKeeps, StoreKeeps,
       SkipKeeps, EndKeeps, RebuildKeeps, CatalogFailsKeeps DEF Refresh, Faults
  <2>. QED  BY <1>2, <2>1, <2>2, LockMovesKeeps, PublishKeeps DEF GeoNext
<1>. QED  BY <1>1, <1>2

(* What a refresh has noted of a country stays between the stored list and *)
(* the newest publication until it has written (refresh_one_country).      *)
THEOREM GeoInvHolds ==
    ASSUME LockRowSeeded, ~SlowRefresh
    PROVE  GeoSpec => []GeoInv
<1>1. GeoInit => GeoInv
  BY GeoInvInit
<1>2. GeoInv /\ [GeoNext]_geoVars => GeoInv'
  BY GeoInvStep
<1>. QED  BY <1>1, <1>2, PTL DEF GeoSpec

(* No refresh, complete or broken off, leaves a list under the ETag of     *)
(* another one, with which the provider would answer "not modified" for    *)
(* ever (refresh_one_country, merge_geo_ip_metadata).                      *)
THEOREM EtagsAreRight ==
    ASSUME LockRowSeeded, ~SlowRefresh
    PROVE  GeoSpec => []EtagIsOfTheList
<1>1. GeoInv => EtagIsOfTheList
  BY DEF GeoInv, TablesOk
<1>. QED  BY <1>1, GeoInvHolds, PTL

(* A stored list changes only to a newer publication, and the policy       *)
(* version with it and only with it (replace_geo_prefixes).                *)
THEOREM ListsOnlyMoveForward ==
    ASSUME LockRowSeeded, ~SlowRefresh
    PROVE  GeoSpec => ListsMoveForward
<1>. DEFINE Forward == /\ (list' # list) <=> (bumped' # bumped)
                       /\ \A c \in Countries : list[c] <= list'[c]
<1>1. GeoInv /\ [GeoNext]_geoVars => Forward
  <2>. SUFFICES ASSUME GeoInv, [GeoNext]_geoVars PROVE Forward
    OBVIOUS
  <2>1. CASE UNCHANGED <<list, bumped>>
    BY <2>1 DEF GeoInv, TablesOk
  <2>2. CASE \E r \in Runs : Store(r)
    BY <2>2, StoreMoves
  <2>3. (UNCHANGED <<list, bumped>>) \/ \E r \in Runs : Store(r)
    BY ZenonT(40) DEF GeoNext, Refresh, Faults, LoopTick, ManualRefresh, Locking, RefreshCatalog, Look, Get,
           Touch, EndLists, ClearLookup, ReadPage, InstallLookup, LockingFails, CatalogFails,
           SkipCountry, RebuildFails, RunDies, LockMoves, ReleaseIsLost, Restart, Publish,
           tableVars, geoVars
  <2>. QED  BY <2>1, <2>2, <2>3
<1>. QED  BY <1>1, GeoInvHolds, PTL DEF GeoSpec, ListsMoveForward

(* The refreshes of the country lists use the lock as RefreshLease says it *)
(* may be used, steps of their own between, failures and restarts included.*)
THEOREM ListsImplementLease ==
    ASSUME LockRowSeeded, ~SlowRefresh
    PROVE  GeoSpec => ImplementsLease
<1>1. GeoInit => LockInit
  BY DEF GeoInit
<1>2. [GeoNext]_geoVars => [LockNext]_lockVars
  BY StepsOfTheLock
<1>. QED  BY <1>1, <1>2, LockImplementsLease, PTL DEF GeoSpec, LockSpec

-----------------------------------------------------------------------------
(***************************************************************************)
(* What a control plane looks up.  Unless it is excused, its lookup is the *)
(* stored lists, or one of its runs has still to rebuild it.               *)
(***************************************************************************)
Rebuilds(r) == work[r].step = "read"
Owes(r) == work[r].step = "clear" \/ work[r].changed

\* The lists of the rows on the first pages.
ReadUpTo(page) ==
    [c \in Countries |->
        IF \E i \in Stored : Codes[i] = c /\ RowsBefore(i) \div PageSize < page
        THEN list[c] ELSE 0]

ReaderOk(r) ==
    /\ lookup[Plane(r)] = NoLists
    /\ work[r].got = Pages(Cardinality(Stored))
    /\ work[r].at \in 0..work[r].got
    /\ work[r].built = ReadUpTo(work[r].at)

Following(p) ==
    /\ \A r \in Runs : Plane(r) = p /\ Rebuilds(r) =>
         ReaderOk(r) /\ \A q \in Runs : Plane(q) = p /\ Rebuilds(q) => q = r
    /\ lookup[p] = list \/ \E r \in Runs : Plane(r) = p /\ (Owes(r) \/ Rebuilds(r))

AtRest(w) == w.step \in {"none", "clear"} => w = [NoWork EXCEPT !.step = w.step]

LookupInv ==
    /\ lookup = [p \in Planes |-> lookup[p]]
    /\ \A p \in Planes : p \notin excused => Following(p)
    /\ \A r \in Runs : AtRest(work[r])

-----------------------------------------------------------------------------
(* Pages. *)
LEMMA StoredIsFinite ==
    /\ IsFiniteSet(Stored) /\ Cardinality(Stored) \in Nat
    /\ \A i \in Stored : i \in 1..Len(Codes) /\ Codes[i] \in Countries
<1>1. IsFiniteSet(1..Len(Codes)) /\ Stored \subseteq 1..Len(Codes)
  BY FS_Interval DEF Stored
<1>2. IsFiniteSet(Stored)
  BY <1>1, FS_Subset
<1>. QED  BY <1>1, <1>2, FS_CardinalityType DEF Countries

LEMMA FewerBefore ==
    ASSUME NEW i \in Stored
    PROVE  RowsBefore(i) \in Nat /\ RowsBefore(i) + 1 <= Cardinality(Stored)
<1>. DEFINE before == {j \in Stored : j < i}
            others == Stored \ {i}
<1>1. IsFiniteSet(others) /\ Cardinality(others) = Cardinality(Stored) - 1
  BY StoredIsFinite, FS_RemoveElement
<1>2. before \subseteq others
  BY StoredIsFinite
<1>3. IsFiniteSet(before) /\ Cardinality(before) <= Cardinality(others)
  BY <1>1, <1>2, FS_Subset
<1>4. Cardinality(before) \in Nat
  BY <1>3, FS_CardinalityType
<1>. QED  BY <1>1, <1>3, <1>4, StoredIsFinite DEF RowsBefore

LEMMA PagesSuffice ==
    ASSUME NEW n \in Nat, NEW s \in Nat \ {0}
    PROVE  /\ (n + s - 1) \div s \in Nat
           /\ \A b \in Nat : b + 1 <= n => b \div s \in Nat /\ b \div s < (n + s - 1) \div s
<1>1. ASSUME NEW b \in Nat, NEW d \in Int, b + 1 <= n,
             d = b \div s
      PROVE  d \in Nat /\ d < (n + s - 1) \div s
  <2>1. s * d <= b
    BY <1>1
  <2>. QED  BY <1>1
<1>. QED  BY <1>1

LEMMA LastPage ==
    /\ Pages(Cardinality(Stored)) \in Nat
    /\ \A i \in Stored : /\ RowsBefore(i) \div PageSize \in Nat
                         /\ RowsBefore(i) \div PageSize < Pages(Cardinality(Stored))
<1>. DEFINE n == Cardinality(Stored)
<1>1. /\ (n + PageSize - 1) \div PageSize \in Nat
      /\ \A b \in Nat : b + 1 <= n =>
           b \div PageSize \in Nat /\ b \div PageSize < (n + PageSize - 1) \div PageSize
  <2>1. n \in Nat /\ PageSize \in Nat \ {0}
    BY StoredIsFinite
  <2>. HIDE DEF n
  <2>. QED  BY ONLY <2>1, PagesSuffice
<1>2. Pages(n) = (n + PageSize - 1) \div PageSize
  BY DEF Pages
<1>3. ASSUME NEW i \in Stored
      PROVE  RowsBefore(i) \div PageSize \in Nat /\ RowsBefore(i) \div PageSize < Pages(n)
  BY <1>1, <1>2, <1>3, FewerBefore
<1>. QED  BY <1>1, <1>2, <1>3

\* Nothing has been read at first, and everything after the last page.
LEMMA FirstAndLast ==
    ASSUME list \in [Countries -> Nat]
    PROVE  /\ ReadUpTo(0) = NoLists
           /\ ReadUpTo(Pages(Cardinality(Stored))) = list
<1>1. ReadUpTo(0) = NoLists
  BY LastPage DEF ReadUpTo, NoLists
<1>2. ASSUME NEW c \in Countries
      PROVE  (\E i \in Stored : /\ Codes[i] = c
                                /\ RowsBefore(i) \div PageSize < Pages(Cardinality(Stored)))
               <=> list[c] # 0
  <2>1. ASSUME list[c] # 0 PROVE \E i \in Stored : Codes[i] = c
    BY <2>1 DEF Stored, Countries
  <2>2. ASSUME NEW i \in Stored, Codes[i] = c PROVE list[c] # 0
    BY <2>2 DEF Stored
  <2>. QED  BY <2>1, <2>2, LastPage
<1>3. ReadUpTo(Pages(Cardinality(Stored))) = [c \in Countries |-> list[c]]
  BY <1>2 DEF ReadUpTo
<1>. QED  BY <1>1, <1>3

LEMMA OnePageMore ==
    ASSUME NEW page \in Nat
    PROVE  ReadUpTo(page + 1) =
             [c \in Countries |-> IF c \in OnPage(page) THEN list[c] ELSE ReadUpTo(page)[c]]
<1>1. ASSUME NEW i \in Stored
      PROVE  (RowsBefore(i) \div PageSize < page + 1) <=>
               (RowsBefore(i) \div PageSize = page \/ RowsBefore(i) \div PageSize < page)
  BY LastPage
<1>2. ASSUME NEW c \in Countries
      PROVE  (\E i \in Stored : Codes[i] = c /\ RowsBefore(i) \div PageSize < page + 1) <=>
               \/ c \in OnPage(page)
               \/ \E i \in Stored : Codes[i] = c /\ RowsBefore(i) \div PageSize < page
  BY <1>1 DEF OnPage
<1>. QED  BY <1>2 DEF ReadUpTo

-----------------------------------------------------------------------------
(* What a step leaves of a plane. *)
LEMMA PlaneKeeps ==
    ASSUME NEW p \in Planes, Following(p), list' = list, lookup'[p] = lookup[p],
           \A r \in Runs : Plane(r) = p => work'[r] = work[r]
    PROVE  Following(p)'
<1>1. /\ Stored' = Stored /\ \A i : RowsBefore(i)' = RowsBefore(i)
      /\ \A page : ReadUpTo(page)' = ReadUpTo(page)
  BY DEF Stored, RowsBefore, ReadUpTo
<1>2. \A r \in Runs : Plane(r) = p =>
        /\ Rebuilds(r)' = Rebuilds(r) /\ Owes(r)' = Owes(r)
        /\ ReaderOk(r) => ReaderOk(r)'
  <2>. SUFFICES ASSUME NEW r \in Runs, Plane(r) = p
                PROVE  /\ Rebuilds(r)' = Rebuilds(r) /\ Owes(r)' = Owes(r)
                       /\ ReaderOk(r) => ReaderOk(r)'
    OBVIOUS
  <2>1. work'[r] = work[r] /\ lookup'[Plane(r)] = lookup[Plane(r)]
    OBVIOUS
  <2>. QED  BY <1>1, <2>1 DEF Rebuilds, Owes, ReaderOk, Pages
<1>. QED  BY <1>2 DEF Following

\* One run moves on, its debt stays, and no rebuild is concerned.
LEMMA DebtKeeps ==
    ASSUME NEW r \in Runs, NEW p \in Planes, Following(p), list' = list, lookup'[p] = lookup[p],
           \A q \in Runs \ {r} : work'[q] = work[q],
           work[r].step # "read", work'[r].step # "read", Owes(r) => Owes(r)'
    PROVE  Following(p)'
<1>1. /\ Stored' = Stored /\ \A i : RowsBefore(i)' = RowsBefore(i)
      /\ \A page : ReadUpTo(page)' = ReadUpTo(page)
  BY DEF Stored, RowsBefore, ReadUpTo
<1>2. \A q \in Runs : Plane(q) = p =>
        /\ Rebuilds(q)' = Rebuilds(q) /\ (Owes(q) => Owes(q)')
        /\ Rebuilds(q) /\ ReaderOk(q) => ReaderOk(q)'
  <2>. SUFFICES ASSUME NEW q \in Runs, Plane(q) = p
                PROVE  /\ Rebuilds(q)' = Rebuilds(q) /\ (Owes(q) => Owes(q)')
                       /\ Rebuilds(q) /\ ReaderOk(q) => ReaderOk(q)'
    OBVIOUS
  <2>1. CASE q = r
    BY <2>1 DEF Rebuilds
  <2>2. CASE q # r
    <3>1. work'[q] = work[q] /\ lookup'[Plane(q)] = lookup[Plane(q)]
      BY <2>2
    <3>. QED  BY <1>1, <3>1 DEF Rebuilds, Owes, ReaderOk, Pages
  <2>. QED  BY <2>1, <2>2
<1>. QED  BY <1>2 DEF Following

\* Steps in which a run moves on without touching lists or lookups.
LEMMA DebtorKeeps ==
    ASSUME LookupInv, NEW r \in Runs, UNCHANGED <<list, lookup, excused>>,
           \A q \in Runs \ {r} : work'[q] = work[q],
           work[r].step # "read", work'[r].step # "read", Owes(r) => Owes(r)',
           AtRest(work'[r])
    PROVE  LookupInv'
<1>1. ASSUME NEW p \in Planes, p \notin excused' PROVE Following(p)'
  BY <1>1, DebtKeeps DEF LookupInv
<1>. QED  BY <1>1 DEF LookupInv

\* The rest of the steps concern one plane.
LEMMA OtherPlanesKeep ==
    ASSUME LookupInv, NEW p \in Planes, list' = list,
           lookup' = [q \in Planes |-> lookup'[q]],
           \A q \in Planes \ {p} : lookup'[q] = lookup[q],
           \A q \in Planes \ {p} : q \notin excused' => q \notin excused,
           \A q \in Runs : Plane(q) # p => work'[q] = work[q],
           \A q \in Runs : AtRest(work'[q]),
           p \notin excused' => Following(p)'
    PROVE  LookupInv'
<1>1. ASSUME NEW q \in Planes \ {p}, q \notin excused' PROVE Following(q)'
  BY <1>1, PlaneKeeps DEF LookupInv
<1>. QED  BY <1>1 DEF LookupInv

-----------------------------------------------------------------------------
LEMMA LookupInvInit ==
    ASSUME GeoInit
    PROVE  LookupInv
<1>1. \A r \in Runs : work[r] = NoWork /\ AtRest(work[r])
  BY DEF GeoInit, AtRest, NoWork
<1>2. NoWork.step = "none"
  BY DEF NoWork
<1>. QED  BY <1>1, <1>2 DEF GeoInit, LookupInv, Following, Rebuilds

\* The lock, its callers and the provider.
LEMMA QuietKeeps ==
    ASSUME LookupInv, UNCHANGED <<list, lookup, excused, work>>
    PROVE  LookupInv'
<1>1. ASSUME NEW p \in Planes, p \notin excused' PROVE Following(p)'
  BY <1>1, PlaneKeeps DEF LookupInv
<1>. QED  BY <1>1 DEF LookupInv

\* The steps of a refresh that store nothing.
LEMMA RefreshingKeeps ==
    ASSUME GeoInv, LookupInv, NEW r \in Runs,
           RefreshCatalog(r) \/ Look(r) \/ Get(r) \/ Touch(r) \/ SkipCountry(r)
    PROVE  LookupInv'
<1>. DEFINE w == work[r]
            v == work'[r]
<1>1. work = [q \in Runs |-> work[q]] /\ Shape(w)
  BY DEF GeoInv, RunsOk, WorkOk
<1>2. UNCHANGED <<list, lookup, excused>>
  BY DEF RefreshCatalog, Look, Get, Touch, SkipCountry, tableVars, planeVars
<1>3. w.step \in {"none", "look", "get", "touch", "store"}
  BY DEF RefreshCatalog, Look, Get, Touch, SkipCountry, InList
<1>4. /\ \A q \in Runs \ {r} : work'[q] = work[q]
      /\ v.step \in {"look", "get", "touch", "store"}
      /\ w.changed => v.changed
  <2>1. CASE RefreshCatalog(r)
    BY <1>1, <2>1 DEF RefreshCatalog, Shape, Fields
  <2>2. CASE Look(r)
    <3>. DEFINE c == Country(r)
                next(head) == IF ListChanged(listState[c], list[c], head) THEN "get" ELSE "touch"
    <3>1. PICK head : work' = [work EXCEPT ![r].known = listState[c], ![r].head = head,
                                   ![r].step = next(head)]
      BY <2>2 DEF Look
    <3>2. next(head) \in {"get", "touch"}
      OBVIOUS
    <3>. HIDE DEF c, next
    <3>. QED  BY <1>1, <3>1, <3>2 DEF Shape, Fields
  <2>3. CASE Get(r)
    <3>. DEFINE got == feed[Country(r)]
                next == IF got = work[r].known.etag THEN "touch" ELSE "store"
    <3>1. work' = [work EXCEPT ![r].got = got, ![r].step = next]
      BY <2>3 DEF Get
    <3>2. next \in {"touch", "store"}
      OBVIOUS
    <3>. HIDE DEF got, next
    <3>. QED  BY <1>1, <3>1, <3>2 DEF Shape, Fields
  <2>4. CASE Touch(r) \/ SkipCountry(r)
    <3>1. v = [NoWork EXCEPT !.step = "look", !.at = w.at + 1, !.changed = w.changed \/ FALSE]
      BY <1>1, <2>4 DEF Touch, SkipCountry, NextCountry
    <3>2. v.step = "look" /\ (w.changed => v.changed)
      BY <3>1 DEF NoWork
    <3>. QED  BY <1>1, <2>4, <3>2 DEF Touch, SkipCountry, NextCountry
  <2>. QED  BY <2>1, <2>2, <2>3, <2>4
<1>5. AtRest(v) /\ (Owes(r) => Owes(r)')
  BY <1>3, <1>4 DEF AtRest, Owes
<1>. QED  BY <1>2, <1>3, <1>4, <1>5, DebtorKeeps

\* A refresh that has changed something owes the rebuild it ends with.
LEMMA EndListsFollows ==
    ASSUME GeoInv, LookupInv, NEW r \in Runs, EndLists(r)
    PROVE  LookupInv'
<1>1. work = [q \in Runs |-> work[q]] /\ work[r].step = "look"
  BY DEF GeoInv, RunsOk, EndLists
<1>2. /\ \A q \in Runs \ {r} : work'[q] = work[q]
      /\ work'[r] = IF work[r].changed THEN [NoWork EXCEPT !.step = "clear"] ELSE NoWork
      /\ UNCHANGED <<list, lookup, excused>>
  BY <1>1 DEF EndLists, tableVars, planeVars
<1>. DEFINE clearing == [NoWork EXCEPT !.step = "clear"]
<1>3. /\ clearing.step = "clear" /\ AtRest(clearing)
      /\ NoWork.step = "none" /\ AtRest(NoWork)
  BY DEF NoWork, AtRest
<1>4. work'[r] = IF work[r].changed THEN clearing ELSE NoWork
  BY <1>2
<1>. HIDE DEF clearing
<1>5. AtRest(work'[r]) /\ work'[r].step # "read" /\ (Owes(r) => Owes(r)')
  BY <1>1, <1>3, <1>4 DEF Owes
<1>. QED  BY <1>1, <1>2, <1>5, DebtorKeeps

\* A changed list leaves every lookup behind, but that of the run's own plane,
\* to which it now owes a rebuild.
LEMMA StoreFollows ==
    ASSUME GeoInv, LookupInv, NEW r \in Runs, Store(r)
    PROVE  LookupInv'
<1>. DEFINE c == Country(r)
            got == work[r].got
            v == work'[r]
            p == Plane(r)
<1>1. /\ work = [q \in Runs |-> work[q]] /\ work[r].step = "store"
      /\ c \in Countries /\ list \in [Countries -> Nat]
  BY DEF GeoInv, RunsOk, TablesOk, WorkOk, Listing, Store, InList, Country, Countries
<1>2. /\ \A q \in Runs \ {r} : work'[q] = work[q]
      /\ v = [NoWork EXCEPT !.step = "look", !.at = work[r].at + 1,
                            !.changed = work[r].changed \/ (list[c] # got)]
      /\ list' = [list EXCEPT ![c] = got]
      /\ excused' = IF list[c] # got THEN excused \cup LeftBehind(r) ELSE excused
      /\ lookup' = lookup
  BY <1>1 DEF Store, NextCountry
<1>3. v.step = "look" /\ AtRest(v) /\ (v.changed <=> (work[r].changed \/ list[c] # got))
  BY <1>2 DEF NoWork, AtRest
<1>4. CASE list[c] = got
  <2>1. list' = list /\ excused' = excused
    <3>. HIDE DEF c, got
    <3>. QED  BY <1>1, <1>2, <1>4
  <2>2. Owes(r) => Owes(r)'
    BY <1>1, <1>3 DEF Owes
  <2>. QED  BY <1>1, <1>2, <1>3, <2>1, <2>2, DebtorKeeps
<1>5. CASE list[c] # got
  <2>1. ASSUME NEW q \in Planes, q \notin excused'
        PROVE  q = p /\ \A s \in Runs : Plane(s) = q => ~Rebuilds(s)
    BY <1>2, <1>5, <2>1 DEF LeftBehind, Rebuilding, Rebuilds
  <2>2. ASSUME NEW s \in Runs, ~Rebuilds(s) PROVE ~Rebuilds(s)'
    BY <1>2, <1>3, <2>2 DEF Rebuilds
  <2>3. Owes(r)'
    BY <1>3, <1>5 DEF Owes
  <2>4. ASSUME NEW q \in Planes, q \notin excused' PROVE Following(q)'
    BY <2>1, <2>2, <2>3, <2>4 DEF Following, Plane
  <2>. QED  BY <1>2, <1>3, <2>4 DEF LookupInv
<1>. QED  BY <1>4, <1>5

LEMMA OwnPlane ==
    ASSUME NEW r \in Runs
    PROVE  Plane(r) \in Planes
BY DEF Plane

\* The rebuild starts with nothing read, of as many pages as there are now.
LEMMA ClearFollows ==
    ASSUME GeoInv, LookupInv, NEW r \in Runs, ClearLookup(r)
    PROVE  LookupInv'
<1>. DEFINE p == Plane(r)
            v == work'[r]
            n == Pages(Cardinality(Stored))
<1>1. /\ work = [q \in Runs |-> work[q]] /\ work[r].step = "clear" /\ AtRest(work[r])
      /\ p \in Planes /\ list \in [Countries -> Nat]
  BY OwnPlane DEF GeoInv, RunsOk, TablesOk, ClearLookup, LookupInv
<1>2. /\ \A q \in Runs \ {r} : work'[q] = work[q]
      /\ v = [work[r] EXCEPT !.step = "read", !.got = n]
      /\ lookup' = [lookup EXCEPT ![p] = NoLists]
      /\ excused' = IF Rebuilding(p) THEN excused \cup {p} ELSE excused \ {p}
      /\ list' = list
  BY <1>1 DEF ClearLookup, tableVars
<1>3. /\ v.step = "read" /\ v.got = n /\ v.at = 0 /\ v.built = NoLists
  <2>. HIDE DEF n
  <2>. QED  BY <1>1, <1>2 DEF AtRest, NoWork
<1>4. /\ lookup' = [q \in Planes |-> lookup'[q]]
      /\ lookup'[p] = NoLists
      /\ \A q \in Planes \ {p} : lookup'[q] = lookup[q]
  <2>. HIDE DEF p
  <2>. QED  BY <1>1, <1>2 DEF LookupInv
<1>5. ASSUME p \notin excused' PROVE Following(p)'
  <2>1. \A q \in Runs : Plane(q) = p => ~Rebuilds(q)
    BY <1>2, <1>5 DEF Rebuilding, Rebuilds
  <2>2. \A q \in Runs : Plane(q) = p /\ Rebuilds(q)' => q = r
    BY <1>2, <2>1 DEF Rebuilds
  <2>3. /\ Stored' = Stored /\ ReadUpTo(0)' = ReadUpTo(0)
    BY <1>2 DEF Stored, ReadUpTo, RowsBefore
  <2>4. n \in Nat /\ ReadUpTo(0) = NoLists
    BY <1>1, LastPage, FirstAndLast
  <2>5. v.at \in 0..v.got /\ v.got = Pages(Cardinality(Stored))' /\ v.built = ReadUpTo(0)'
    BY <1>3, <2>3, <2>4 DEF Pages
  <2>6. ReaderOk(r)'
    BY <1>3, <1>4, <2>5 DEF ReaderOk, Plane
  <2>7. Rebuilds(r)'
    BY <1>3 DEF Rebuilds
  <2>. QED  BY <2>2, <2>6, <2>7 DEF Following, Plane
<1>6. \A q \in Runs : AtRest(work'[q])
  BY <1>2, <1>3 DEF AtRest, LookupInv
<1>. QED  BY <1>1, <1>2, <1>4, <1>5, <1>6, OtherPlanesKeep, ZenonT(40)

\* A page adds the lists of its rows.
LEMMA ReadPageFollows ==
    ASSUME GeoInv, LookupInv, NEW r \in Runs, ReadPage(r)
    PROVE  LookupInv'
<1>. DEFINE p == Plane(r)
            v == work'[r]
            w == work[r]
            built == [c \in Countries |-> IF c \in OnPage(w.at) THEN list[c] ELSE w.built[c]]
<1>1. /\ work = [q \in Runs |-> work[q]] /\ w.step = "read" /\ w.at < w.got /\ Shape(w)
      /\ p \in Planes
  BY OwnPlane DEF GeoInv, RunsOk, WorkOk, ReadPage
<1>2. work' = [work EXCEPT ![r].at = w.at + 1, ![r].built = built]
      /\ UNCHANGED <<list, lookup, excused>>
  BY DEF ReadPage, tableVars, planeVars
<1>3. /\ \A q \in Runs \ {r} : work'[q] = work[q]
      /\ v.step = "read" /\ v.got = w.got /\ v.at = w.at + 1 /\ v.built = built
  <2>. HIDE DEF built
  <2>. QED  BY <1>1, <1>2 DEF Shape, Fields
<1>4. ASSUME p \notin excused PROVE Following(p)'
  <2>1. /\ ReaderOk(r) /\ \A q \in Runs : Plane(q) = p /\ Rebuilds(q) => q = r
    BY <1>1, <1>4 DEF LookupInv, Following, Rebuilds
  <2>2. w.at \in 0..w.got /\ w.got \in Nat /\ w.got = Pages(Cardinality(Stored))
    BY <2>1, LastPage DEF ReaderOk
  <2>3. built = ReadUpTo(w.at + 1)
    <3>1. w.at \in Nat /\ w.built = ReadUpTo(w.at)
      BY <2>1, <2>2 DEF ReaderOk
    <3>. QED  BY <3>1, OnePageMore
  <2>4. /\ Stored' = Stored /\ \A page : ReadUpTo(page)' = ReadUpTo(page)
    BY <1>2 DEF Stored, ReadUpTo, RowsBefore
  <2>5. v.at \in 0..v.got
    BY <1>1, <1>3, <2>2
  <2>6. v.got = Pages(Cardinality(Stored))'
    BY <1>3, <2>2, <2>4 DEF Pages
  <2>7. v.built = ReadUpTo(work[r].at)'
    <3>1. ReadUpTo(work[r].at)' = ReadUpTo(w.at + 1)
      <4>1. Stored' = Stored /\ (\A i : RowsBefore(i)' = RowsBefore(i)) /\ list' = list
        BY <1>2 DEF Stored, RowsBefore
      <4>2. work'[r].at = w.at + 1
        BY <1>3
      <4>. HIDE DEF w, v
      <4>. QED  BY ONLY <4>1, <4>2 DEF ReadUpTo
    <3>. QED  BY <1>3, <2>3, <3>1
  <2>8. ReaderOk(r)'
    BY <1>2, <2>1, <2>5, <2>6, <2>7 DEF ReaderOk, Plane
  <2>9. \A q \in Runs : Plane(q) = p /\ Rebuilds(q)' => q = r
    BY <1>3, <2>1 DEF Rebuilds
  <2>10. Rebuilds(r)'
    BY <1>3 DEF Rebuilds
  <2>. QED  BY <2>8, <2>9, <2>10 DEF Following, Plane
<1>5. \A q \in Runs : AtRest(work'[q])
  BY <1>3 DEF AtRest, LookupInv
<1>. QED  BY <1>1, <1>2, <1>3, <1>4, <1>5, OtherPlanesKeep, ZenonT(40) DEF LookupInv

\* What is installed is what is stored.
LEMMA InstallFollows ==
    ASSUME GeoInv, LookupInv, NEW r \in Runs, InstallLookup(r)
    PROVE  LookupInv'
<1>. DEFINE p == Plane(r)
            w == work[r]
<1>1. /\ work = [q \in Runs |-> work[q]] /\ w.step = "read" /\ w.at = w.got
      /\ p \in Planes /\ list \in [Countries -> Nat]
  BY OwnPlane DEF GeoInv, RunsOk, TablesOk, InstallLookup
<1>2. /\ \A q \in Runs \ {r} : work'[q] = work[q]
      /\ work'[r] = NoWork
      /\ lookup' = IF w.built = NoLists THEN lookup ELSE [lookup EXCEPT ![p] = w.built]
      /\ UNCHANGED <<list, excused>>
  BY <1>1 DEF InstallLookup, tableVars
<1>3. NoWork.step = "none" /\ AtRest(NoWork)
  BY DEF NoWork, AtRest
<1>4. /\ lookup' = [q \in Planes |-> lookup'[q]]
      /\ \A q \in Planes \ {p} : lookup'[q] = lookup[q]
      /\ lookup'[p] = IF w.built = NoLists THEN lookup[p] ELSE w.built
  <2>. HIDE DEF p
  <2>. QED  BY <1>1, <1>2 DEF LookupInv
<1>5. ASSUME p \notin excused PROVE Following(p)'
  <2>1. /\ ReaderOk(r) /\ \A q \in Runs : Plane(q) = p /\ Rebuilds(q) => q = r
    BY <1>1, <1>5 DEF LookupInv, Following, Rebuilds
  <2>2. w.built = list /\ lookup[p] = NoLists
    BY <1>1, <2>1, FirstAndLast DEF ReaderOk
  <2>3. lookup'[p] = list'
    BY <1>2, <1>4, <2>2
  <2>4. \A q \in Runs : Plane(q) = p => ~Rebuilds(q)'
    BY <1>2, <1>3, <2>1 DEF Rebuilds
  <2>. QED  BY <2>3, <2>4 DEF Following, Plane
<1>6. \A q \in Runs : AtRest(work'[q])
  BY <1>2, <1>3 DEF LookupInv
<1>7. \A q \in Runs : Plane(q) # p => work'[q] = work[q]
  BY <1>2
<1>. HIDE DEF p, w
<1>. QED  BY <1>1, <1>2, <1>4, <1>5, <1>6, <1>7, OtherPlanesKeep

\* A rebuild that fails and a run that dies excuse their plane.
LEMMA FailureFollows ==
    ASSUME GeoInv, LookupInv, NEW r \in Runs, RebuildFails(r) \/ RunDies(r)
    PROVE  LookupInv'
<1>1. /\ \A q \in Runs \ {r} : work'[q] = work[q]
      /\ work'[r] = NoWork /\ excused' = excused \cup {Plane(r)}
      /\ UNCHANGED <<list, lookup>>
  BY DEF RebuildFails, RunDies, GeoInv, RunsOk, tableVars
<1>2. AtRest(NoWork)
  BY DEF NoWork, AtRest
<1>. QED  BY <1>1, <1>2, OwnPlane, OtherPlanesKeep DEF LookupInv

\* A control plane starts with what is stored.
LEMMA RestartFollows ==
    ASSUME GeoInv, LookupInv, NEW p \in Planes, Restart(p)
    PROVE  LookupInv'
<1>1. /\ lookup' = [lookup EXCEPT ![p] = list] /\ excused' = excused \ {p}
      /\ UNCHANGED <<list, work>>
  BY DEF Restart, tableVars
<1>2. \A r \in Runs : Plane(r) = p => ~Rebuilds(r)'
  BY <1>1 DEF Restart, Resting, Rebuilds
<1>3. /\ lookup' = [q \in Planes |-> lookup'[q]] /\ lookup'[p] = list'
      /\ \A q \in Planes \ {p} : lookup'[q] = lookup[q]
  BY <1>1 DEF LookupInv
<1>4. Following(p)'
  BY <1>2, <1>3 DEF Following, Plane
<1>. QED  BY <1>1, <1>3, <1>4, OtherPlanesKeep DEF LookupInv

LEMMA LookupInvStep ==
    ASSUME GeoInv, LookupInv, [GeoNext]_geoVars
    PROVE  LookupInv'
<1>1. ASSUME NEW r \in Runs, LoopTick(r) \/ ManualRefresh(r) \/ Refresh(r) \/ Faults(r)
      PROVE  LookupInv'
  <2>1. CASE LoopTick(r) \/ ManualRefresh(r) \/ Locking(r) \/ LockingFails(r) \/ CatalogFails(r)
    BY <2>1, QuietKeeps DEF LoopTick, ManualRefresh, Locking, LockingFails, CatalogFails,
       tableVars, planeVars
  <2>. QED  BY <1>1, <2>1, RefreshingKeeps, StoreFollows, EndListsFollows, ClearFollows,
            ReadPageFollows, InstallFollows, FailureFollows DEF Refresh, Faults
<1>2. CASE \/ LockMoves \/ ReleaseIsLost \/ (\E c \in Countries : Publish(c))
           \/ UNCHANGED geoVars
  BY <1>2, QuietKeeps DEF LockMoves, ReleaseIsLost, Publish, tableVars, planeVars, geoVars
<1>. QED  BY <1>1, <1>2, RestartFollows DEF GeoNext

(* A control plane at rest whose rebuild was neither broken off nor        *)
(* overtaken, and whose lists nobody else has changed, looks countries up  *)
(* in the lists that are stored: paging through the rows loses none        *)
(* (build_geoip_rebuild_file, install_reader).                             *)
THEOREM LookupsFollowTheLists ==
    ASSUME LockRowSeeded, ~SlowRefresh
    PROVE  GeoSpec => []LookupFollows
<1>1. GeoInit => LookupInv
  BY LookupInvInit
<1>2. GeoInv /\ LookupInv /\ [GeoNext]_geoVars => LookupInv'
  BY LookupInvStep
<1>3. LookupInv => LookupFollows
  <2>. SUFFICES ASSUME LookupInv, NEW p \in Planes, p \notin excused,
                       \A r \in Runs : Plane(r) = p => Resting(r)
                PROVE  lookup[p] = list
    BY DEF LookupFollows
  <2>1. \A r \in Runs : Plane(r) = p => work[r] = [NoWork EXCEPT !.step = "none"]
    BY DEF LookupInv, AtRest, Resting
  <2>2. \A r \in Runs : Plane(r) = p => ~Owes(r) /\ ~Rebuilds(r)
    BY <2>1 DEF NoWork, Owes, Rebuilds
  <2>. QED  BY <2>2 DEF LookupInv, Following
<1>. QED  BY <1>1, <1>2, <1>3, GeoInvHolds, PTL DEF GeoSpec
=============================================================================
