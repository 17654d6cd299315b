---------------------------- MODULE RefreshLease ----------------------------
(***************************************************************************)
(* What the refresh lock promises to a refresh: one run at a time is given *)
(* it; a run that cannot have it is told so at once, and only if another   *)
(* run had it or took it meanwhile; and after a run has ended, or died,    *)
(* the lock stays marked until a release or the end of its lease frees it. *)
(* RefreshLock implements this with a row of the database.                 *)
(***************************************************************************)
EXTENDS FiniteSets

CONSTANT Runs     \* the tasks that refresh

VARIABLES
    phase,      \* [Runs -> "idle", "trying" to acquire, or "held"]
    left,       \* the lock of a run that ended is still "marked", or its lease
                \* has "lapsed"; "no": nobody left it so
    contended   \* runs that are trying and have been overtaken

leaseVars == <<phase, left, contended>>

LeaseInit ==
    /\ phase = [r \in Runs |-> "idle"]
    /\ left = "no"
    /\ contended = {}

LeaseTypeOK ==
    /\ phase \in [Runs -> {"idle", "trying", "held"}]
    /\ left \in {"no", "marked", "lapsed"}
    /\ contended \subseteq Runs

Trying == {r \in Runs : phase[r] = "trying"}

HasLease(r) == phase[r] = "held"

LeaseBusy == left = "marked" \/ \E r \in Runs : HasLease(r)

\* Some of those that are trying have looked at the lock before it changed.
Overtake(others) == \E C \in SUBSET others : contended' = contended \cup C

BeginTry(r) ==
    /\ phase[r] = "idle"
    /\ phase' = [phase EXCEPT ![r] = "trying"]
    /\ UNCHANGED <<left, contended>>

\* Mutant: the lock is given to anyone who asks.
TakeShared(r) ==
    /\ phase[r] = "trying"
    /\ phase' = [phase EXCEPT ![r] = "held"]
    /\ left' = "no"
    /\ Overtake(Trying \ {r})

Take(r) ==
    /\ phase[r] = "trying" /\ r \notin contended
    /\ ~LeaseBusy
    /\ phase' = [phase EXCEPT ![r] = "held"]
    /\ left' = "no"
    /\ Overtake(Trying \ {r})

\* The lock is taken, but the run is told of an error and ends.
TakeUnnoticed(r) ==
    /\ phase[r] = "trying" /\ r \notin contended
    /\ ~LeaseBusy
    /\ phase' = [phase EXCEPT ![r] = "idle"]
    /\ left' = "marked"
    /\ Overtake(Trying \ {r})

GiveUp(r) ==
    /\ phase' = [phase EXCEPT ![r] = "idle"]
    /\ contended' = contended \ {r}
    /\ UNCHANGED left

Refuse(r) ==
    /\ phase[r] = "trying"
    /\ LeaseBusy \/ r \in contended
    /\ GiveUp(r)

\* An error, or the death of the process, while trying.
FailToTry(r) ==
    /\ phase[r] = "trying"
    /\ GiveUp(r)

\* The run ends or dies; the lock is not free yet.
Quit(r) ==
    /\ HasLease(r)
    /\ phase' = [phase EXCEPT ![r] = "idle"]
    /\ left' = "marked"
    /\ UNCHANGED contended

\* The lease of a run that ended runs out.
Lapse ==
    /\ left = "marked"
    /\ left' = "lapsed"
    /\ UNCHANGED <<phase, contended>>

\* The release of a run that ended is carried out.
Free ==
    /\ left # "no"
    /\ left' = "no"
    /\ Overtake(Trying)
    /\ UNCHANGED phase

LeaseNext ==
    \/ \E r \in Runs :
        BeginTry(r) \/ Take(r) \/ TakeUnnoticed(r) \/ Refuse(r) \/ FailToTry(r) \/ Quit(r)
    \/ Lapse \/ Free

LeaseSpec == LeaseInit /\ [][LeaseNext]_leaseVars
=============================================================================
