------------------------------ MODULE TempBans ------------------------------
(***************************************************************************)
(* Temporary bans in the control plane: rows that the API inserts and      *)
(* deletes, and the clean-up of expired rows that the push tick of any     *)
(* stream may run, one at a time and not more often than its interval.     *)
(*                                                                         *)
(* Passing time and the clean-up's interval are separate: due says that    *)
(* the interval since the last success is over.                            *)
(***************************************************************************)
EXTENDS Integers, Sequences, FiniteSets, SequencesExt

CONSTANTS
  Ips,              \* source addresses; a ban is on a single one
  NodeIps,          \* addresses of registered nodes' interfaces
  Scopes,           \* protocol and port of an operator's ban
  Duration,         \* seconds a ban lasts
  MaxTime,          \* bound: the clock
  MaxBans,          \* bound: rows inserted
  MaxOperator,      \* bound: calls of the operator
  Streams,          \* stream tasks, whose push ticks run the clean-up
  None

ASSUME BansAssumption ==
  /\ IsFiniteSet(Ips)
  /\ {Duration, MaxTime, MaxBans, MaxOperator} \subseteq Nat

VARIABLES
  clock,
  bans,             \* rows of firewall_temp_bans
  inserted,         \* rows ever inserted: the next id
  operated,         \* calls of the operator so far
  sweep,            \* TempBanCleanup: the stream that is running it, or None
  sweepTime,        \* the time it compares with
  due               \* the interval since the last success is over

banVars == <<clock, bans, inserted, operated, sweep, sweepTime, due>>

BanInit ==
  /\ clock = 0 /\ bans = {} /\ inserted = 0 /\ operated = 0
  /\ sweep = None /\ sweepTime = 0 /\ due = TRUE

Active == {b \in bans : b.expires > clock}

(* Rows for a set of items, in one transaction: all or none.  There is no  *)
(* unique index, a second ban on the same address is a second row.         *)
Insert(items, scope, by) ==
  LET order == SetToSeq(items)
  IN  /\ inserted + Len(order) <= MaxBans
      /\ items \cap NodeIps = {}
      /\ bans' = bans \cup {[id |-> inserted + i, ip |-> order[i], scope |-> scope, by |-> by,
                              expires |-> clock + Duration] : i \in 1..Len(order)}
      /\ inserted' = inserted + Len(order)
    
\* One item that is a node's own address refuses the whole batch.
Rejected(items) == items \cap NodeIps # {}

OperatorCreate(ip, scope) ==
  /\ operated < MaxOperator
  /\ Insert({ip}, scope, "operator")
  /\ operated' = operated + 1
  /\ UNCHANGED <<clock, sweep, sweepTime, due>>

(* One or several by id, expired or not.  When one of the ids is gone the   *)
(* request is answered with not found and nothing changes.                 *)
OperatorDelete(rows) ==
  /\ operated < MaxOperator
  /\ bans' = bans \ rows
  /\ operated' = operated + 1
  /\ UNCHANGED <<clock, inserted, sweep, sweepTime, due>>

SweepStart(s) ==
  /\ sweep = None /\ due
  /\ sweep' = s /\ sweepTime' = clock
  /\ UNCHANGED <<clock, bans, inserted, operated, due>>

\* Rows that expire at any time up to the next interval are taken along.
ExpiredSoon == {b \in bans : b.expires <= sweepTime + 1}

Expired == {b \in bans : b.expires <= sweepTime}

SweepDeletes(s) ==
  /\ sweep = s
  /\ bans' = bans \ Expired
  /\ sweep' = None /\ sweepTime' = 0 /\ due' = FALSE
  /\ UNCHANGED <<clock, inserted, operated>>

\* The flag of the running clean-up is left set when it fails.
SweepFailsRunning(s) ==
  /\ sweep = s
  /\ sweep' = "nobody"
  /\ UNCHANGED <<clock, bans, inserted, operated, sweepTime, due>>

\* A failed transaction does not count as a success: the next tick may retry.
SweepFails(s) ==
  /\ sweep = s
  /\ sweep' = None /\ sweepTime' = 0
  /\ UNCHANGED <<clock, bans, inserted, operated, due>>

IntervalPasses ==
  /\ ~due /\ due' = TRUE
  /\ UNCHANGED <<clock, bans, inserted, operated, sweep, sweepTime>>

Tick ==
  /\ clock < MaxTime
  /\ clock' = clock + 1
  /\ UNCHANGED <<bans, inserted, operated, sweep, sweepTime, due>>

BanNext ==
  \/ \E ip \in Ips, scope \in Scopes : OperatorCreate(ip, scope)
  \/ \E rows \in SUBSET bans \ {{}} : OperatorDelete(rows)
  \/ \E s \in Streams : SweepStart(s) \/ SweepDeletes(s) \/ SweepFails(s)
  \/ IntervalPasses
  \/ Tick

(* A push tick comes again and again while an agent is connected; the      *)
(* database fails now and then, not for ever.                              *)
BanFairness ==
  /\ WF_banVars(IntervalPasses) /\ WF_banVars(Tick)
  /\ \A s \in Streams : SF_banVars(SweepStart(s)) /\ SF_banVars(SweepDeletes(s))

----------------------------------------------------------------------------
(* Properties                                                              *)

BanTypeOK ==
  /\ clock \in 0..MaxTime /\ inserted \in 0..MaxBans /\ operated \in 0..MaxOperator
  /\ \A b \in bans : b.id \in 1..inserted /\ b.expires \in Duration..(clock + Duration)
  /\ \A b, c \in bans : b.id = c.id => b = c
  /\ sweep \in Streams \cup {None} /\ due \in BOOLEAN

(* A ban leaves the table before it expires only by the operator's hand:   *)
(* clean-up, which takes its time before it waits for the database, never  *)
(* deletes a ban that is still in force (cleanup_expired_temp_bans).       *)
BansKept ==
  [][(\E rows \in SUBSET bans : OperatorDelete(rows))
     \/ \A b \in bans : b \in bans' \/ b.expires <= clock]_banVars

(* Every row goes some time after it has expired, whichever stream does it, *)
(* whatever attempts failed before (TempBanCleanup::maybe_run).            *)
ExpiredRemoved ==
  \A i \in 1..MaxBans :
    (\E b \in bans : b.id = i /\ b.expires < MaxTime) ~> ~\E b \in bans : b.id = i
=============================================================================
