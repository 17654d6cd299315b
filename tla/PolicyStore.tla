---------------------------- MODULE PolicyStore ----------------------------
(***************************************************************************)
(* The policy database and everything that writes it: the API handlers,    *)
(* the clean-up of expired bans, the feed and country refreshes, and       *)
(* POST /policy/bump-version.                                              *)
(*                                                                         *)
(* A policy is a set of Parts (the tables a snapshot is loaded from).  The *)
(* rows of a part are abstracted to the number of the commit that last     *)
(* changed its active rows: two contents are equal exactly when these      *)
(* numbers are.  The number of a commit is not the policy version: the     *)
(* code computes the version by reading it and writing back one more.      *)
(***************************************************************************)
EXTENDS Integers, FiniteSets

CONSTANTS
    Parts,        \* the tables (and pages of tables) a snapshot consists of
    ChangeSets,   \* the sets of parts that one transaction may change
    Writers,      \* the requests and background tasks that write
    TxnOverlap,   \* TRUE: two writing transactions may be open at the same time
                  \* (PostgreSQL, MySQL); FALSE: one at a time (SQLite)
    BumpOverlap,  \* TRUE: POST /policy/bump-version may overlap other writers
    MaxRevision   \* bound on the number of commits

ASSUME StoreAssumption ==
    /\ Parts # {}
    /\ ChangeSets \subseteq SUBSET Parts
    /\ TxnOverlap \in BOOLEAN
    /\ BumpOverlap \in BOOLEAN
    /\ MaxRevision \in Nat

VARIABLES
    dbVersion,   \* firewall_policy_versions.version
    dbContent,   \* [Parts -> commit that last changed the part]
    revision,    \* number of commits so far
    txn          \* [Writers -> the read-modify-write each one has open]

storeVars == <<dbVersion, dbContent, revision, txn>>

-----------------------------------------------------------------------------
(***************************************************************************)
(* "open": rows written, nothing visible yet.  "read": the version is read *)
(* too.  "bump": POST /policy/bump-version between its two statements,     *)
(* which are not in a transaction.                                         *)
(***************************************************************************)
Idle == [phase |-> "idle", parts |-> {}, seen |-> 0]

TxnType ==
    [phase : {"idle", "open", "read", "bump"}, parts : SUBSET Parts, seen : Nat]

InTxn(w)  == txn[w].phase \in {"open", "read"}
InBump(w) == txn[w].phase = "bump"
Busy(w)   == InTxn(w) \/ InBump(w)

\* A commit is reserved for each writer that is at work, so that the bound
\* never blocks one half-way.
RoomForWriter == revision + Cardinality({w \in Writers : Busy(w)}) < MaxRevision

\* The builtin policy is seeded before the server answers: version 1.
StoreInit ==
    /\ dbVersion = 1
    /\ dbContent = [p \in Parts |-> 1]
    /\ revision = 1
    /\ txn = [w \in Writers |-> Idle]

\* A handler begins a transaction and changes active rows of some parts.
WriterBegin(w, parts) ==
    /\ txn[w].phase = "idle"
    /\ RoomForWriter
    /\ TxnOverlap \/ ~(\E u \in Writers : InTxn(u))
    /\ BumpOverlap \/ ~(\E u \in Writers : InBump(u))
    /\ txn' = [txn EXCEPT ![w] = [phase |-> "open", parts |-> parts, seen |-> 0]]
    /\ UNCHANGED <<dbVersion, dbContent, revision>>

\* next_policy_version_in_transaction reads the version with a plain SELECT:
\* what it sees is the committed version, and it locks nothing.
WriterReadVersion(w) ==
    /\ txn[w].phase = "open"
    /\ txn' = [txn EXCEPT ![w] =
                  [phase |-> "read", parts |-> txn[w].parts, seen |-> dbVersion]]
    /\ UNCHANGED <<dbVersion, dbContent, revision>>

\* ... writes back what it read plus one, and the transaction commits.  The
\* UPDATE holds the row until the commit, so the two are one step.
WriterCommit(w) ==
    /\ txn[w].phase = "read"
    /\ revision' = revision + 1
    /\ dbVersion' = txn[w].seen + 1
    /\ dbContent' = [p \in Parts |-> IF p \in txn[w].parts THEN revision + 1
                                                           ELSE dbContent[p]]
    /\ txn' = [txn EXCEPT ![w] = Idle]

\* An error on any statement rolls the transaction back.
WriterAbort(w) ==
    /\ InTxn(w)
    /\ txn' = [txn EXCEPT ![w] = Idle]
    /\ UNCHANGED <<dbVersion, dbContent, revision>>

\* POST /policy/bump-version: the SELECT of next_policy_version ...
BumpRead(w) ==
    /\ txn[w].phase = "idle"
    /\ RoomForWriter
    /\ BumpOverlap \/ ~(\E u \in Writers : Busy(u))
    /\ txn' = [txn EXCEPT ![w] = [phase |-> "bump", parts |-> {}, seen |-> dbVersion]]
    /\ UNCHANGED <<dbVersion, dbContent, revision>>

\* ... and its UPDATE, each committed on its own.  SQLite makes the UPDATE
\* wait for an open writing transaction.
BumpWrite(w) ==
    /\ InBump(w)
    /\ TxnOverlap \/ ~(\E u \in Writers : InTxn(u))
    /\ revision' = revision + 1
    /\ dbVersion' = txn[w].seen + 1
    /\ txn' = [txn EXCEPT ![w] = Idle]
    /\ UNCHANGED dbContent

StoreNext ==
    \E w \in Writers :
        \/ \E parts \in ChangeSets : WriterBegin(w, parts)
        \/ WriterReadVersion(w)
        \/ WriterCommit(w)
        \/ WriterAbort(w)
        \/ BumpRead(w)
        \/ BumpWrite(w)

StoreSpec == StoreInit /\ [][StoreNext]_storeVars

-----------------------------------------------------------------------------
StoreTypeOK ==
    /\ dbVersion \in Nat
    /\ dbContent \in [Parts -> Nat]
    /\ revision \in Nat
    /\ txn \in [Writers -> TxnType]

(***************************************************************************)
(* "Every mutating endpoint that immediately changes the active firewall   *)
(* policy increments the policy version so the xDS control plane can push  *)
(* a fresh snapshot" (README.md:108).  It does not hold where transactions *)
(* overlap (PostgreSQL, MySQL): two of them read one version and write the *)
(* same next one, and the second change gets no number of its own.         *)
(***************************************************************************)
EveryChangeIncrementsVersion ==
    [][dbContent' # dbContent => dbVersion' > dbVersion]_storeVars

(***************************************************************************)
(* "firewall_policy_versions: monotonically increasing version for the     *)
(* single firewall policy" (README.md:138).                                *)
(***************************************************************************)
VersionIsMonotone == [][dbVersion' >= dbVersion]_storeVars
=============================================================================
