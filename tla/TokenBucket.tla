---------------------------- MODULE TokenBucket ----------------------------
(***************************************************************************)
(* One bucket of rate_buckets and the CPUs that run token_bucket_limited   *)
(* on it (bpf/xdp_firewall.c): the fields of a bucket are read and written *)
(* one at a time and without a lock, the element a CPU has looked up may   *)
(* be replaced or evicted behind its back, and the arithmetic is that of   *)
(* 64-bit words, here of words below Modulus.                              *)
(***************************************************************************)
EXTENDS Integers, Sequences, FiniteSets

CONSTANTS
  Cpus,
  Burst,            \* bucket size
  Rate, Second,     \* packets_per_second, and the clock's ticks in a second
  Blocks,           \* block times a limiter may have: 0 for none
  Modulus,          \* 2^64
  MaxTicks,         \* bound: the clock
  MaxPackets,       \* bound: packets of the source
  MaxEvictions,     \* bound: evictions from the LRU map
  NoElement

ASSUME BucketAssumption ==
  /\ Burst \in Nat \ {0} /\ Rate \in Nat \ {0} /\ Second \in Nat \ {0}
  /\ Blocks \subseteq Nat /\ NoElement \notin Nat
  /\ MaxTicks \in Nat /\ Modulus \in Nat /\ MaxTicks * Rate < Modulus

VARIABLES
  ktime,            \* bpf_ktime_get_ns
  block,            \* block_ns of this limiter
  element,          \* which element of the map holds the bucket, or NoElement
  next,             \* the next element to be used
  bucket,           \* the fields of every element ever used
  cpu,              \* what each CPU is doing: its step and its locals
  history,          \* finished packets: the time read and the outcome
  overlaps,         \* packets that ran while another one was in progress
  evictions

bucketVars == <<ktime, block, element, next, bucket, cpu, history, overlaps, evictions>>

Idle == [step |-> "idle", now |-> 0, at |-> NoElement, tokens |-> 0, refill |-> 0]

BucketInit ==
  /\ ktime = 0 /\ block \in Blocks
  /\ element = NoElement /\ next = 1 /\ bucket = <<>>
  /\ cpu = [c \in Cpus |-> Idle]
  /\ history = <<>> /\ overlaps = 0 /\ evictions = 0

BucketTick ==
  /\ ktime < MaxTicks
  /\ ktime' = ktime + 1
  /\ UNCHANGED <<block, element, next, bucket, cpu, history, overlaps, evictions>>

InProgress == {c \in Cpus : cpu[c].step # "idle"}

At(c, step) == cpu[c].step = step
Goto(c, step) == cpu' = [cpu EXCEPT ![c].step = step]

\* The packet is done: the locals are gone.
Done(c, out) ==
  /\ cpu' = [cpu EXCEPT ![c] = Idle]
  /\ history' = Append(history, [now |-> cpu[c].now, out |-> out])

(* A packet of the source: the time is read first.                         *)
Begin(c) ==
  /\ At(c, "idle")
  /\ Len(history) + Cardinality(InProgress) < MaxPackets
  /\ cpu' = [cpu EXCEPT ![c] = [Idle EXCEPT !.step = "lookup", !.now = ktime]]
  /\ overlaps' = IF InProgress = {} THEN overlaps
                 ELSE overlaps + 1
  /\ UNCHANGED <<ktime, block, element, next, bucket, history, evictions>>

Lookup(c) ==
  /\ At(c, "lookup")
  /\ cpu' = [cpu EXCEPT ![c].step = IF element = NoElement THEN "insert" ELSE "check",
                        ![c].at = element]
  /\ UNCHANGED <<ktime, block, element, next, bucket, history, overlaps, evictions>>

\* BPF_ANY: a bucket that another CPU has inserted meanwhile is replaced.
Insert(c) ==
  /\ At(c, "insert")
  /\ bucket' = Append(bucket, [tokens |-> Burst - 1, updated |-> cpu[c].now, blocked |-> 0])
  /\ element' = next /\ next' = next + 1
  /\ Done(c, "pass")
  /\ UNCHANGED <<ktime, block, overlaps, evictions>>

Bucket(c) == bucket[cpu[c].at]

CheckBlocked(c) ==
  /\ At(c, "check")
  /\ \/ /\ block > 0 /\ Bucket(c).blocked > cpu[c].now
        /\ Done(c, "blocked")
     \/ /\ ~(block > 0 /\ Bucket(c).blocked > cpu[c].now)
        /\ Goto(c, "read_updated")
        /\ UNCHANGED history
  /\ UNCHANGED <<ktime, block, element, next, bucket, overlaps, evictions>>

(* now - updated_ns and elapsed * packets_per_second both wrap.            *)
ReadUpdated(c) ==
  /\ At(c, "read_updated")
  /\ LET elapsed == (cpu[c].now - Bucket(c).updated) % Modulus
     IN  cpu' = [cpu EXCEPT ![c].step = "read_tokens",
                            ![c].refill = ((elapsed * Rate) % Modulus) \div Second]
  /\ UNCHANGED <<ktime, block, element, next, bucket, history, overlaps, evictions>>

Least(a, b) == IF a < b THEN a ELSE b

\* updated_ns is set for every packet, fractions of a token are lost.
ReadTokensAlways(c) ==
  /\ At(c, "read_tokens")
  /\ cpu' = [cpu EXCEPT ![c].step = "write_updated",
                        ![c].tokens = Least(Bucket(c).tokens + cpu[c].refill, Burst)]
  /\ UNCHANGED <<ktime, block, element, next, bucket, history, overlaps, evictions>>

ReadTokens(c) ==
  /\ At(c, "read_tokens")
  /\ cpu' = [cpu EXCEPT ![c].step = IF cpu[c].refill > 0 THEN "write_updated" ELSE "write",
                        ![c].tokens = IF cpu[c].refill > 0
                                      THEN Least(Bucket(c).tokens + cpu[c].refill, Burst)
                                      ELSE Bucket(c).tokens]
  /\ UNCHANGED <<ktime, block, element, next, bucket, history, overlaps, evictions>>

\* The time of the last refill is not moved.
WriteUpdatedNot(c) ==
  /\ At(c, "write_updated")
  /\ Goto(c, "write")
  /\ UNCHANGED <<ktime, block, element, next, bucket, history, overlaps, evictions>>

WriteUpdated(c) ==
  /\ At(c, "write_updated")
  /\ bucket' = [bucket EXCEPT ![cpu[c].at].updated = cpu[c].now]
  /\ Goto(c, "write")
  /\ UNCHANGED <<ktime, block, element, next, history, overlaps, evictions>>

\* The block time is compared with the wrong end.
WriteBlockedNow(c) ==
  /\ At(c, "write") /\ cpu[c].tokens = 0
  /\ bucket' = [bucket EXCEPT ![cpu[c].at].blocked = cpu[c].now]
  /\ Done(c, "empty")
  /\ UNCHANGED <<ktime, block, element, next, overlaps, evictions>>

WriteBlocked(c) ==
  /\ At(c, "write") /\ cpu[c].tokens = 0
  /\ bucket' = IF block > 0
               THEN [bucket EXCEPT ![cpu[c].at].blocked = cpu[c].now + block]
               ELSE bucket
  /\ Done(c, "empty")
  /\ UNCHANGED <<ktime, block, element, next, overlaps, evictions>>

WriteTokens(c) ==
  /\ At(c, "write") /\ cpu[c].tokens > 0
  /\ bucket' = [bucket EXCEPT ![cpu[c].at].tokens = cpu[c].tokens - 1]
  /\ Done(c, "pass")
  /\ UNCHANGED <<ktime, block, element, next, overlaps, evictions>>

(* The map is an LRU hash: other sources may push the bucket out.  A CPU   *)
(* that holds the element goes on writing to it.                           *)
Evict ==
  /\ element # NoElement /\ evictions < MaxEvictions
  /\ element' = NoElement /\ evictions' = evictions + 1
  /\ UNCHANGED <<ktime, block, next, bucket, cpu, history, overlaps>>

BucketNext ==
  \/ BucketTick \/ Evict
  \/ \E c \in Cpus :
       \/ Begin(c) \/ Lookup(c) \/ Insert(c) \/ CheckBlocked(c) \/ ReadUpdated(c)
       \/ ReadTokens(c) \/ WriteUpdated(c) \/ WriteBlocked(c) \/ WriteTokens(c)

BucketSpec == BucketInit /\ [][BucketNext]_bucketVars

----------------------------------------------------------------------------
(* Properties                                                              *)

(* No bucket holds more tokens than its size, not even in the locals of a  *)
(* CPU that has refilled it.                                               *)
BucketTypeOK ==
  /\ ktime \in 0..MaxTicks
  /\ element \in DOMAIN bucket \cup {NoElement} /\ next = Len(bucket) + 1
  /\ \A e \in DOMAIN bucket :
       /\ bucket[e].tokens \in 0..(Burst - 1)
       /\ bucket[e].updated \in 0..ktime /\ bucket[e].blocked \in 0..(ktime + block)
  /\ \A c \in Cpus : cpu[c].now \in 0..ktime /\ cpu[c].tokens \in 0..Burst

Passed(from, to) ==
  {i \in DOMAIN history : history[i].out = "pass" /\ history[i].now \in from..to}

(* A limiter lets at most its burst and what the rate has earned through   *)
(* in any period.  Every packet that overlaps another one on the same      *)
(* bucket may cost two bursts more and every eviction one, and no worse: this *)
(* bounds what lost updates, a clock that another CPU has set ahead        *)
(* (now < updated_ns wraps to a full refill) and a replaced bucket can do. *)
RateBounded ==
  \A from \in 0..ktime : \A to \in from..ktime :
    Cardinality(Passed(from, to)) <=
      Burst * (1 + 2 * overlaps + evictions) + ((to - from) * Rate) \div Second

Sequential == overlaps = 0

(* A source that keeps sending is not starved: a packet finds the bucket   *)
(* empty only if another one has passed in the time that earns one token.  *)
(* Fractions of a token survive packets that arrive in quick succession    *)
(* (updated_ns is set only if refill > 0).                                 *)
NotStarved ==
  Sequential =>
    \A j \in DOMAIN history : history[j].out = "empty" =>
      \E i \in 1..(j - 1) :
        history[i].out = "pass" /\ (history[j].now - history[i].now) * Rate < Second

(* Once a flood has emptied its bucket, nothing of the source passes until *)
(* the block time is over, packets that arrive meanwhile do not prolong it, *)
(* and nothing else ever blocks the source (blocked_until_ns).             *)
BlockHolds ==
  Sequential /\ evictions = 0 =>
    \A j \in DOMAIN history :
      history[j].out = "blocked" <=>
        \E i \in 1..(j - 1) :
          history[i].out = "empty" /\ history[j].now < history[i].now + block
=============================================================================
