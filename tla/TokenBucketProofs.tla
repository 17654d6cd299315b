-------------------------- MODULE TokenBucketProofs --------------------------
(***************************************************************************)
(* What a bucket promises whatever the burst, the rate and the block time: *)
(* when packets come one after the other, a source that keeps sending is   *)
(* not starved and a block lasts exactly its time; under every             *)
(* interleaving the fields are well formed and the rate is bounded.        *)
(***************************************************************************)
EXTENDS TokenBucket, SequenceTheorems, FiniteSetTheorems, TLAPS

Steps == {"idle", "lookup", "insert", "check", "read_updated", "read_tokens", "write_updated",
          "write"}
Holding == {"check", "read_updated", "read_tokens", "write_updated", "write"}
Past == Holding \ {"check"}

Fields == [tokens : Nat, updated : Nat, blocked : Nat]
CpuState == [step : Steps, now : Nat, at : Nat \cup {NoElement}, tokens : Nat, refill : Nat]
Outcome == [now : Nat, out : {"pass", "blocked", "empty"}]

Typed ==
  /\ ktime \in Nat /\ ktime <= MaxTicks /\ block \in Nat
  /\ element \in DOMAIN bucket \cup {NoElement} /\ next = Len(bucket) + 1
  /\ bucket \in Seq(Fields)
  /\ \A e \in DOMAIN bucket :
       /\ bucket[e].tokens < Burst
       /\ bucket[e].updated <= ktime /\ bucket[e].blocked <= ktime + block
  /\ cpu \in [Cpus -> CpuState]
  /\ \A c \in Cpus :
       /\ cpu[c].now <= ktime /\ cpu[c].tokens <= Burst
       /\ cpu[c].step \in Holding => cpu[c].at \in DOMAIN bucket
  /\ history \in Seq(Outcome)
  /\ overlaps \in Nat /\ evictions \in Nat

\* In sequence at most one CPU has a packet, and its time is the latest.
Busy(c) == cpu[c].step # "idle"

Alone == \A c, d \in Cpus : Busy(c) /\ Busy(d) => c = d

Earlier ==
  /\ \A i \in DOMAIN history : history[i].now <= ktime
  /\ \A c \in Cpus : Busy(c) =>
       /\ \A i \in DOMAIN history : history[i].now <= cpu[c].now
       /\ \A e \in DOMAIN bucket : bucket[e].updated <= cpu[c].now

InSequence == Sequential => Alone /\ Earlier

\* What the element was last refilled for is less than a token ago, and a packet that
\* passed, or is about to, has that time.
TooSoon(c) == (cpu[c].now - Bucket(c).updated) * Rate < Second
PaidFor(e) ==
  \/ \E i \in DOMAIN history : history[i].out = "pass" /\ history[i].now = bucket[e].updated
  \/ \E c \in Cpus : /\ cpu[c].step = "write" /\ cpu[c].at = e
                     /\ cpu[c].now = bucket[e].updated /\ cpu[c].tokens > 0

\* A CPU that will find the bucket empty does so too soon after the last refill.
Waiting(c) ==
  /\ cpu[c].step = "read_tokens" /\ cpu[c].refill = 0 => TooSoon(c)
  /\ cpu[c].step = "write_updated" => cpu[c].tokens > 0
  /\ cpu[c].step = "write" /\ cpu[c].tokens = 0 => TooSoon(c)

Refilling ==
  Sequential => (\A e \in DOMAIN bucket : PaidFor(e)) /\ (\A c \in Cpus : Waiting(c))

\* The only element, its last block, and the CPU that holds it.
Fresh == element = NoElement => history = <<>>
Held(c) ==
  /\ cpu[c].step = "insert" => element = NoElement
  /\ cpu[c].step \in Holding => cpu[c].at = element
  /\ cpu[c].step \in Past /\ block > 0 => Bucket(c).blocked <= cpu[c].now
BlockIsLast ==
  element # NoElement /\ block > 0 =>
    /\ \A i \in DOMAIN history :
         history[i].out = "empty" => history[i].now + block <= bucket[element].blocked
    /\ bucket[element].blocked > 0 =>
         \E i \in DOMAIN history :
           history[i].out = "empty" /\ bucket[element].blocked = history[i].now + block

Blocking ==
  Sequential /\ evictions = 0 => Fresh /\ (\A c \in Cpus : Held(c)) /\ BlockIsLast

IInv == Typed /\ InSequence /\ Refilling /\ Blocking /\ NotStarved /\ BlockHolds

----------------------------------------------------------------------------
(* Sequences and locals.                                                   *)

LEMMA Appended ==
  ASSUME NEW S, NEW s \in Seq(S), NEW x \in S
  PROVE  /\ Append(s, x) \in Seq(S) /\ Len(s) \in Nat
         /\ DOMAIN s = 1..Len(s) /\ Len(Append(s, x)) = Len(s) + 1
         /\ DOMAIN Append(s, x) = 1..(Len(s) + 1)
         /\ Append(s, x)[Len(s) + 1] = x
         /\ \A i \in DOMAIN s : Append(s, x)[i] = s[i] /\ i \in DOMAIN Append(s, x)
         /\ \A i \in DOMAIN Append(s, x) : i \in DOMAIN s \/ i = Len(s) + 1
OBVIOUS

LEMMA LocalsOf ==
  ASSUME Typed, NEW c \in Cpus
  PROVE  /\ cpu[c].step \in Steps /\ cpu[c].now \in Nat /\ cpu[c].at \in Nat \cup {NoElement}
         /\ cpu[c].tokens \in Nat /\ cpu[c].refill \in Nat
BY DEF Typed, CpuState

LEMMA FieldsOf ==
  ASSUME Typed, NEW e \in DOMAIN bucket
  PROVE  /\ bucket[e] \in Fields
         /\ bucket[e] = [tokens |-> bucket[e].tokens, updated |-> bucket[e].updated,
                         blocked |-> bucket[e].blocked]
         /\ bucket[e].tokens \in Nat /\ bucket[e].updated \in Nat /\ bucket[e].blocked \in Nat
<1>1. bucket[e] \in Fields
  BY ElementOfSeq DEF Typed
<1>. QED  BY <1>1 DEF Fields

LEMMA OutcomeOf ==
  ASSUME Typed, NEW i \in DOMAIN history
  PROVE  history[i].now \in Nat /\ history[i].out \in {"pass", "blocked", "empty"}
<1>1. history[i] \in Outcome
  BY ElementOfSeq DEF Typed
<1>. QED  BY <1>1 DEF Outcome

----------------------------------------------------------------------------
(* What each step does to the locals of its CPU.                           *)

CpuMoves(c, step, now, at, tokens, refill) ==
  /\ cpu' \in [Cpus -> CpuState]
  /\ cpu'[c].step = step /\ cpu'[c].now = now /\ cpu'[c].at = at
  /\ cpu'[c].tokens = tokens /\ cpu'[c].refill = refill
  /\ \A d \in Cpus : d # c => cpu'[d] = cpu[d]

Finishes(c, out) ==
  /\ CpuMoves(c, "idle", 0, NoElement, 0, 0)
  /\ history' = Append(history, [now |-> cpu[c].now, out |-> out])

SameMap == UNCHANGED <<block, element, next, bucket>>

\* A product that wraps only beyond the largest clock.
LEMMA NoWrap ==
  ASSUME NEW t \in Nat, t <= MaxTicks
  PROVE  t % Modulus = t /\ (t * Rate) % Modulus = t * Rate /\ t * Rate \in Nat
<1>1. t * Rate <= MaxTicks * Rate /\ t * Rate \in Nat /\ t <= t * Rate
  BY BucketAssumption
<1>2. \A x \in Nat : x < Modulus => x % Modulus = x
  BY BucketAssumption
<1>3. t * Rate < Modulus /\ t < Modulus
  BY <1>1, BucketAssumption
<1>. QED  BY <1>1, <1>2, <1>3

LEMMA FinishEffect ==
  ASSUME Typed, NEW c \in Cpus, NEW out, Done(c, out)
  PROVE  Finishes(c, out)
BY DEF Done, Finishes, CpuMoves, Typed, Idle, CpuState, Steps

LEMMA BeginEffect ==
  ASSUME Typed, NEW c \in Cpus, Begin(c)
  PROVE  /\ cpu[c].step = "idle"
         /\ CpuMoves(c, "lookup", ktime, NoElement, 0, 0)
         /\ SameMap /\ UNCHANGED <<ktime, history, evictions>>
         /\ overlaps' \in Nat
         /\ overlaps' = 0 => overlaps = 0 /\ \A d \in Cpus : ~Busy(d)
<1>1. CpuMoves(c, "lookup", ktime, NoElement, 0, 0)
  BY DEF Begin, CpuMoves, Typed, Idle, CpuState, Steps
<1>2. overlaps' \in Nat /\ (overlaps' = 0 => overlaps = 0 /\ InProgress = {})
  BY DEF Begin, Typed
<1>. QED  BY <1>1, <1>2 DEF Begin, At, SameMap, InProgress, Busy

LEMMA LookupEffect ==
  ASSUME Typed, NEW c \in Cpus, Lookup(c)
  PROVE  /\ cpu[c].step = "lookup"
         /\ CpuMoves(c, IF element = NoElement THEN "insert" ELSE "check", cpu[c].now, element,
                     cpu[c].tokens, cpu[c].refill)
         /\ SameMap /\ UNCHANGED <<ktime, history, overlaps, evictions>>
<1>1. element \in Nat \cup {NoElement}
  BY DEF Typed
<1>2. CpuMoves(c, IF element = NoElement THEN "insert" ELSE "check", cpu[c].now, element,
               cpu[c].tokens, cpu[c].refill)
  BY <1>1 DEF Lookup, CpuMoves, Typed, CpuState, Steps
<1>. QED  BY <1>2 DEF Lookup, At, SameMap

LEMMA CheckEffect ==
  ASSUME Typed, NEW c \in Cpus, CheckBlocked(c)
  PROVE  /\ cpu[c].step = "check"
         /\ \/ block > 0 /\ Bucket(c).blocked > cpu[c].now /\ Finishes(c, "blocked")
            \/ /\ ~(block > 0 /\ Bucket(c).blocked > cpu[c].now)
               /\ CpuMoves(c, "read_updated", cpu[c].now, cpu[c].at, cpu[c].tokens, cpu[c].refill)
               /\ history' = history
         /\ SameMap /\ UNCHANGED <<ktime, overlaps, evictions>>
<1>1. Goto(c, "read_updated") =>
        CpuMoves(c, "read_updated", cpu[c].now, cpu[c].at, cpu[c].tokens, cpu[c].refill)
  <2>1. cpu \in [Cpus -> CpuState] /\ "read_updated" \in Steps
    BY DEF Typed, Steps
  <2>. QED  BY <2>1 DEF Goto, CpuMoves, CpuState
<1>. QED  BY <1>1, FinishEffect DEF CheckBlocked, At, SameMap

LEMMA ReadUpdatedEffect ==
  ASSUME Typed, NEW c \in Cpus, ReadUpdated(c)
  PROVE  /\ cpu[c].step = "read_updated"
         /\ CpuMoves(c, "read_tokens", cpu[c].now, cpu[c].at, cpu[c].tokens,
              ((((cpu[c].now - Bucket(c).updated) % Modulus) * Rate) % Modulus) \div Second)
         /\ SameMap /\ UNCHANGED <<ktime, history, overlaps, evictions>>
<1>. DEFINE elapsed == (cpu[c].now - Bucket(c).updated) % Modulus
            refill == ((elapsed * Rate) % Modulus) \div Second
<1>1. cpu[c].step = "read_updated" /\ cpu[c].at \in DOMAIN bucket
  BY DEF ReadUpdated, At, Typed, Holding
<1>2. cpu[c].now - Bucket(c).updated \in Int
  BY <1>1, LocalsOf, FieldsOf DEF Bucket
<1>3. Modulus \in Nat \ {0}
  BY BucketAssumption
<1>4. \A x \in Int : x % Modulus \in Nat
  BY <1>3
<1>5. elapsed * Rate \in Int
  BY <1>2, <1>4, BucketAssumption
<1>6. refill \in Nat
  <2>1. (elapsed * Rate) % Modulus \in Nat
    BY <1>4, <1>5
  <2>. HIDE DEF elapsed
  <2>. QED  BY <2>1, BucketAssumption
<1>7. cpu' = [cpu EXCEPT ![c].step = "read_tokens", ![c].refill = refill]
  BY DEF ReadUpdated
<1>. HIDE DEF refill
<1>8. CpuMoves(c, "read_tokens", cpu[c].now, cpu[c].at, cpu[c].tokens, refill)
  BY <1>6, <1>7 DEF CpuMoves, Typed, CpuState, Steps
<1>. QED  BY <1>1, <1>8 DEF ReadUpdated, SameMap, refill

LEMMA ReadTokensEffect ==
  ASSUME Typed, NEW c \in Cpus, ReadTokens(c)
  PROVE  /\ cpu[c].step = "read_tokens"
         /\ \E tokens \in 0..Burst :
              /\ CpuMoves(c, IF cpu[c].refill > 0 THEN "write_updated" ELSE "write", cpu[c].now,
                          cpu[c].at, tokens, cpu[c].refill)
              /\ cpu[c].refill > 0 => tokens > 0
         /\ SameMap /\ UNCHANGED <<ktime, history, overlaps, evictions>>
<1>. DEFINE tokens == IF cpu[c].refill > 0 THEN Least(Bucket(c).tokens + cpu[c].refill, Burst)
                      ELSE Bucket(c).tokens
            step == IF cpu[c].refill > 0 THEN "write_updated" ELSE "write"
<1>1. cpu[c].step = "read_tokens" /\ cpu[c].at \in DOMAIN bucket
  BY DEF ReadTokens, At, Typed, Holding
<1>2. Bucket(c).tokens \in Nat /\ Bucket(c).tokens < Burst /\ cpu[c].refill \in Nat
  BY <1>1, LocalsOf, FieldsOf DEF Bucket, Typed
<1>3. tokens \in 0..Burst /\ (cpu[c].refill > 0 => tokens > 0) /\ tokens \in Nat
  BY <1>2, BucketAssumption DEF Least
<1>4. cpu' = [cpu EXCEPT ![c].step = step, ![c].tokens = tokens] /\ step \in Steps
  BY DEF ReadTokens, Steps
<1>. HIDE DEF tokens, step
<1>5. CpuMoves(c, step, cpu[c].now, cpu[c].at, tokens, cpu[c].refill)
  BY <1>3, <1>4 DEF CpuMoves, Typed, CpuState
<1>. QED  BY <1>1, <1>3, <1>5 DEF ReadTokens, SameMap, step

BucketWrites(e, tokens, updated, blocked) ==
  /\ bucket' \in Seq(Fields) /\ DOMAIN bucket' = DOMAIN bucket /\ Len(bucket') = Len(bucket)
  /\ bucket'[e].tokens = tokens /\ bucket'[e].updated = updated /\ bucket'[e].blocked = blocked
  /\ \A d \in DOMAIN bucket : d # e => bucket'[d] = bucket[d]

\* A field of an element is written: the element is replaced by one that differs in it.
LEMMA FieldWritten ==
  ASSUME Typed, NEW e \in DOMAIN bucket, NEW x \in Nat
  PROVE  /\ bucket' = [bucket EXCEPT ![e].tokens = x] =>
              BucketWrites(e, x, bucket[e].updated, bucket[e].blocked)
         /\ bucket' = [bucket EXCEPT ![e].updated = x] =>
              BucketWrites(e, bucket[e].tokens, x, bucket[e].blocked)
         /\ bucket' = [bucket EXCEPT ![e].blocked = x] =>
              BucketWrites(e, bucket[e].tokens, bucket[e].updated, x)
<1>. DEFINE n == Len(bucket)
<1>1. /\ bucket \in [1..n -> Fields] /\ n \in Nat /\ e \in 1..n /\ DOMAIN bucket = 1..n
  BY DEF Typed
<1>2. ASSUME NEW b, b \in [1..n -> Fields] PROVE b \in Seq(Fields) /\ DOMAIN b = 1..n /\ Len(b) = n
  BY <1>1, <1>2
<1>. HIDE DEF n
<1>3. ASSUME bucket' = [bucket EXCEPT ![e].tokens = x]
      PROVE  /\ bucket' \in [1..n -> Fields] /\ \A d \in 1..n : d # e => bucket'[d] = bucket[d]
             /\ bucket'[e].tokens = x /\ bucket'[e].updated = bucket[e].updated
             /\ bucket'[e].blocked = bucket[e].blocked
  BY <1>1, <1>3 DEF Fields
<1>4. ASSUME bucket' = [bucket EXCEPT ![e].updated = x]
      PROVE  /\ bucket' \in [1..n -> Fields] /\ \A d \in 1..n : d # e => bucket'[d] = bucket[d]
             /\ bucket'[e].updated = x /\ bucket'[e].tokens = bucket[e].tokens
             /\ bucket'[e].blocked = bucket[e].blocked
  BY <1>1, <1>4 DEF Fields
<1>5. ASSUME bucket' = [bucket EXCEPT ![e].blocked = x]
      PROVE  /\ bucket' \in [1..n -> Fields] /\ \A d \in 1..n : d # e => bucket'[d] = bucket[d]
             /\ bucket'[e].blocked = x /\ bucket'[e].tokens = bucket[e].tokens
             /\ bucket'[e].updated = bucket[e].updated
  BY <1>1, <1>5 DEF Fields
<1>6. n = Len(bucket)
  BY DEF n
<1>. QED  BY <1>1, <1>2, <1>3, <1>4, <1>5, <1>6 DEF BucketWrites

LEMMA InsertEffect ==
  ASSUME Typed, NEW c \in Cpus, Insert(c)
  PROVE  /\ cpu[c].step = "insert"
         /\ Finishes(c, "pass")
         /\ element' = Len(bucket) + 1 /\ next' = next + 1
         /\ bucket' \in Seq(Fields) /\ Len(bucket') = Len(bucket) + 1
         /\ DOMAIN bucket' = 1..(Len(bucket) + 1) /\ DOMAIN bucket = 1..Len(bucket)
         /\ bucket'[element'].tokens = Burst - 1 /\ bucket'[element'].updated = cpu[c].now
         /\ bucket'[element'].blocked = 0
         /\ \A d \in DOMAIN bucket : d # element' /\ d \in DOMAIN bucket' /\ bucket'[d] = bucket[d]
         /\ UNCHANGED <<ktime, block, overlaps, evictions>>
<1>. DEFINE x == [tokens |-> Burst - 1, updated |-> cpu[c].now, blocked |-> 0]
            n == Len(bucket)
<1>1. x \in Fields /\ bucket \in Seq(Fields) /\ next = n + 1
  <2>1. Burst - 1 \in Nat
    BY BucketAssumption
  <2>2. x \in Fields
    BY <2>1, LocalsOf DEF Fields
  <2>. HIDE DEF x
  <2>. QED  BY <2>2 DEF Typed
<1>2. bucket' = Append(bucket, x) /\ element' = next /\ next' = next + 1
  BY DEF Insert
<1>3. x.tokens = Burst - 1 /\ x.updated = cpu[c].now /\ x.blocked = 0
  OBVIOUS
<1>. HIDE DEF x
<1>4. /\ bucket' \in Seq(Fields) /\ Len(bucket') = n + 1 /\ DOMAIN bucket' = 1..(n + 1)
      /\ bucket'[n + 1] = x /\ DOMAIN bucket = 1..n /\ n \in Nat
      /\ \A d \in DOMAIN bucket : d # n + 1 /\ d \in DOMAIN bucket' /\ bucket'[d] = bucket[d]
  BY <1>1, <1>2, Appended
<1>. QED  BY <1>1, <1>2, <1>3, <1>4, FinishEffect DEF Insert, At

LEMMA WriteUpdatedEffect ==
  ASSUME Typed, NEW c \in Cpus, WriteUpdated(c)
  PROVE  /\ cpu[c].step = "write_updated" /\ cpu[c].at \in DOMAIN bucket
         /\ CpuMoves(c, "write", cpu[c].now, cpu[c].at, cpu[c].tokens, cpu[c].refill)
         /\ BucketWrites(cpu[c].at, Bucket(c).tokens, cpu[c].now, Bucket(c).blocked)
         /\ UNCHANGED <<ktime, block, element, next, history, overlaps, evictions>>
<1>1. cpu[c].step = "write_updated" /\ cpu[c].at \in DOMAIN bucket
  BY DEF WriteUpdated, At, Typed, Holding
<1>2. CpuMoves(c, "write", cpu[c].now, cpu[c].at, cpu[c].tokens, cpu[c].refill)
  BY DEF WriteUpdated, Goto, CpuMoves, Typed, CpuState, Steps
<1>. QED  BY <1>1, <1>2, FieldWritten, LocalsOf DEF WriteUpdated, Bucket

LEMMA WriteBlockedEffect ==
  ASSUME Typed, NEW c \in Cpus, WriteBlocked(c)
  PROVE  /\ cpu[c].step = "write" /\ cpu[c].tokens = 0 /\ cpu[c].at \in DOMAIN bucket
         /\ Finishes(c, "empty")
         /\ IF block > 0
            THEN BucketWrites(cpu[c].at, Bucket(c).tokens, Bucket(c).updated, cpu[c].now + block)
            ELSE bucket' = bucket
         /\ UNCHANGED <<ktime, block, element, next, overlaps, evictions>>
<1>1. /\ cpu[c].step = "write" /\ cpu[c].tokens = 0 /\ cpu[c].at \in DOMAIN bucket
  BY DEF WriteBlocked, At, Typed, Holding
<1>2. cpu[c].now + block \in Nat
  BY LocalsOf DEF Typed
<1>. QED  BY <1>1, <1>2, FieldWritten, FinishEffect DEF WriteBlocked, Bucket

LEMMA WriteTokensEffect ==
  ASSUME Typed, NEW c \in Cpus, WriteTokens(c)
  PROVE  /\ cpu[c].step = "write" /\ cpu[c].tokens > 0 /\ cpu[c].at \in DOMAIN bucket
         /\ Finishes(c, "pass")
         /\ BucketWrites(cpu[c].at, cpu[c].tokens - 1, Bucket(c).updated, Bucket(c).blocked)
         /\ UNCHANGED <<ktime, block, element, next, overlaps, evictions>>
<1>1. /\ cpu[c].step = "write" /\ cpu[c].tokens > 0 /\ cpu[c].at \in DOMAIN bucket
  BY DEF WriteTokens, At, Typed, Holding
<1>2. cpu[c].tokens - 1 \in Nat
  BY <1>1, LocalsOf
<1>. QED  BY <1>1, <1>2, FieldWritten, FinishEffect DEF WriteTokens, Bucket

----------------------------------------------------------------------------
(* Types.                                                                  *)

\* The part of Typed that a step of one CPU disturbs without writing to the map.
LEMMA MoveTyped ==
  ASSUME Typed, NEW c \in Cpus, NEW step, NEW now, NEW at, NEW tokens, NEW refill,
         CpuMoves(c, step, now, at, tokens, refill),
         now <= ktime, tokens <= Burst, step \in Holding => at \in DOMAIN bucket',
         ktime' = ktime, DOMAIN bucket \subseteq DOMAIN bucket'
  PROVE  /\ cpu' \in [Cpus -> CpuState]
         /\ \A d \in Cpus :
              /\ cpu'[d].now <= ktime' /\ cpu'[d].tokens <= Burst
              /\ cpu'[d].step \in Holding => cpu'[d].at \in DOMAIN bucket'
<1>1. ASSUME NEW d \in Cpus
      PROVE  /\ cpu'[d].now <= ktime' /\ cpu'[d].tokens <= Burst
             /\ cpu'[d].step \in Holding => cpu'[d].at \in DOMAIN bucket'
  <2>1. CASE d = c
    BY <2>1 DEF CpuMoves
  <2>2. CASE d # c
    BY <2>2 DEF CpuMoves, Typed
  <2>. QED  BY <2>1, <2>2
<1>. QED  BY <1>1 DEF CpuMoves

LEMMA FinishTyped ==
  ASSUME Typed, NEW c \in Cpus, NEW out \in {"pass", "blocked", "empty"}, Finishes(c, out),
         ktime' = ktime, DOMAIN bucket \subseteq DOMAIN bucket'
  PROVE  /\ cpu' \in [Cpus -> CpuState]
         /\ \A d \in Cpus :
              /\ cpu'[d].now <= ktime' /\ cpu'[d].tokens <= Burst
              /\ cpu'[d].step \in Holding => cpu'[d].at \in DOMAIN bucket'
         /\ history' \in Seq(Outcome)
         /\ DOMAIN history = 1..Len(history) /\ Len(history) \in Nat
         /\ DOMAIN history' = 1..(Len(history) + 1)
         /\ \A i \in DOMAIN history : i \in DOMAIN history' /\ history'[i] = history[i]
         /\ history'[Len(history) + 1].now = cpu[c].now /\ history'[Len(history) + 1].out = out
<1>. DEFINE x == [now |-> cpu[c].now, out |-> out]
<1>1. CpuMoves(c, "idle", 0, NoElement, 0, 0)
  BY DEF Finishes
<1>2. 0 <= ktime /\ 0 <= Burst /\ "idle" \notin Holding
  BY BucketAssumption DEF Typed, Holding
<1>3. x \in Outcome /\ x.now = cpu[c].now /\ x.out = out
  BY LocalsOf DEF Outcome
<1>4. history' = Append(history, x) /\ history \in Seq(Outcome)
  BY DEF Finishes, Typed
<1>. HIDE DEF x
<1>5. /\ history' \in Seq(Outcome)
      /\ DOMAIN history = 1..Len(history) /\ Len(history) \in Nat
      /\ DOMAIN history' = 1..(Len(history) + 1)
      /\ \A i \in DOMAIN history : i \in DOMAIN history' /\ history'[i] = history[i]
      /\ history'[Len(history) + 1] = x
  BY <1>3, <1>4, Appended
<1>. QED  BY <1>1, <1>2, <1>3, <1>5, MoveTyped

LEMMA MapTyped ==
  ASSUME Typed, NEW e \in DOMAIN bucket, NEW tokens \in Nat, NEW updated, NEW blocked,
         tokens < Burst, updated <= ktime, blocked <= ktime + block,
         BucketWrites(e, tokens, updated, blocked), UNCHANGED <<ktime, block, element, next>>
  PROVE  /\ element' \in DOMAIN bucket' \cup {NoElement} /\ next' = Len(bucket') + 1
         /\ bucket' \in Seq(Fields)
         /\ \A d \in DOMAIN bucket' :
              /\ bucket'[d].tokens < Burst
              /\ bucket'[d].updated <= ktime' /\ bucket'[d].blocked <= ktime' + block'
<1>1. ASSUME NEW d \in DOMAIN bucket
      PROVE  /\ bucket'[d].tokens < Burst
             /\ bucket'[d].updated <= ktime /\ bucket'[d].blocked <= ktime + block
  <2>1. CASE d = e
    BY <2>1 DEF BucketWrites
  <2>2. CASE d # e
    BY <2>2 DEF BucketWrites, Typed
  <2>. QED  BY <2>1, <2>2
<1>. QED  BY <1>1 DEF BucketWrites, Typed

SameMapTyped ==
  /\ block' \in Nat /\ element' \in DOMAIN bucket' \cup {NoElement} /\ next' = Len(bucket') + 1
  /\ bucket' \in Seq(Fields)
  /\ \A e \in DOMAIN bucket' :
       /\ bucket'[e].tokens < Burst
       /\ bucket'[e].updated <= ktime' /\ bucket'[e].blocked <= ktime' + block'

CpuStep(c) ==
  \/ Begin(c) \/ Lookup(c) \/ Insert(c) \/ CheckBlocked(c) \/ ReadUpdated(c)
  \/ ReadTokens(c) \/ WriteUpdated(c) \/ WriteBlocked(c) \/ WriteTokens(c)

LEMMA CpuStepTyped ==
  ASSUME Typed, NEW c \in Cpus, CpuStep(c)
  PROVE  Typed'
<1>1. ASSUME SameMap, ktime' = ktime PROVE SameMapTyped
  BY <1>1 DEF SameMap, Typed, SameMapTyped
<1>2. /\ cpu[c].now \in Nat /\ cpu[c].now <= ktime /\ ktime \in Nat /\ block \in Nat
      /\ cpu[c].tokens \in Nat /\ cpu[c].tokens <= Burst
      /\ cpu[c].step \in Holding => cpu[c].at \in DOMAIN bucket
      /\ Burst \in Nat /\ Burst > 0
  BY LocalsOf, BucketAssumption DEF Typed
<1>3. CASE Begin(c)
  <2>1. /\ CpuMoves(c, "lookup", ktime, NoElement, 0, 0) /\ SameMap
        /\ UNCHANGED <<ktime, history, evictions>> /\ overlaps' \in Nat
    BY <1>3, BeginEffect
  <2>2. /\ cpu' \in [Cpus -> CpuState]
        /\ \A d \in Cpus :
             /\ cpu'[d].now <= ktime' /\ cpu'[d].tokens <= Burst
             /\ cpu'[d].step \in Holding => cpu'[d].at \in DOMAIN bucket'
    BY <1>2, <2>1, MoveTyped DEF SameMap, Holding
  <2>. QED  BY <1>1, <2>1, <2>2 DEF Typed, SameMapTyped
<1>4. CASE Lookup(c)
  <2>. DEFINE step == IF element = NoElement THEN "insert" ELSE "check"
  <2>1. /\ CpuMoves(c, step, cpu[c].now, element, cpu[c].tokens, cpu[c].refill)
        /\ SameMap /\ UNCHANGED <<ktime, history, overlaps, evictions>>
    BY <1>4, LookupEffect
  <2>2. step \in Holding => element \in DOMAIN bucket
    BY DEF Typed, Holding
  <2>. HIDE DEF step
  <2>3. /\ cpu' \in [Cpus -> CpuState]
        /\ \A d \in Cpus :
             /\ cpu'[d].now <= ktime' /\ cpu'[d].tokens <= Burst
             /\ cpu'[d].step \in Holding => cpu'[d].at \in DOMAIN bucket'
    BY <1>2, <2>1, <2>2, MoveTyped DEF SameMap
  <2>. QED  BY <1>1, <2>1, <2>3 DEF Typed, SameMapTyped
<1>5. CASE Insert(c)
  <2>1. /\ Finishes(c, "pass")
        /\ element' = Len(bucket) + 1 /\ next' = next + 1
        /\ bucket' \in Seq(Fields) /\ Len(bucket') = Len(bucket) + 1
        /\ DOMAIN bucket' = 1..(Len(bucket) + 1) /\ DOMAIN bucket = 1..Len(bucket)
        /\ bucket'[element'].tokens = Burst - 1 /\ bucket'[element'].updated = cpu[c].now
        /\ bucket'[element'].blocked = 0
        /\ \A d \in DOMAIN bucket : d # element' /\ d \in DOMAIN bucket' /\ bucket'[d] = bucket[d]
        /\ UNCHANGED <<ktime, block, overlaps, evictions>>
    BY <1>5, InsertEffect
  <2>2. element' \in DOMAIN bucket' /\ \A d \in DOMAIN bucket' : d = element' \/ d \in DOMAIN bucket
    BY <2>1 DEF Typed
  <2>3. ASSUME NEW d \in DOMAIN bucket'
        PROVE  /\ bucket'[d].tokens < Burst
               /\ bucket'[d].updated <= ktime' /\ bucket'[d].blocked <= ktime' + block'
    <3>1. CASE d = element'
      BY <1>2, <2>1, <3>1
    <3>2. CASE d \in DOMAIN bucket
      BY <2>1, <3>2 DEF Typed
    <3>. QED  BY <2>2, <3>1, <3>2
  <2>4. next' = Len(bucket') + 1
    BY <2>1 DEF Typed
  <2>5. DOMAIN bucket \subseteq DOMAIN bucket'
    BY <2>1
  <2>6. SameMapTyped
    BY <1>2, <2>1, <2>2, <2>3, <2>4 DEF SameMapTyped
  <2>. QED  BY <2>1, <2>5, <2>6, FinishTyped DEF Typed, SameMapTyped
<1>6. CASE CheckBlocked(c)
  <2>1. SameMap /\ UNCHANGED <<ktime, overlaps, evictions>> /\ cpu[c].step = "check"
    BY <1>6, CheckEffect
  <2>2. CASE Finishes(c, "blocked")
    BY <1>1, <2>1, <2>2, FinishTyped DEF Typed, SameMap, SameMapTyped
  <2>3. CASE /\ CpuMoves(c, "read_updated", cpu[c].now, cpu[c].at, cpu[c].tokens, cpu[c].refill)
             /\ history' = history
    <3>1. /\ cpu' \in [Cpus -> CpuState]
          /\ \A d \in Cpus :
               /\ cpu'[d].now <= ktime' /\ cpu'[d].tokens <= Burst
               /\ cpu'[d].step \in Holding => cpu'[d].at \in DOMAIN bucket'
      BY <1>2, <2>1, <2>3, MoveTyped DEF SameMap, Holding
    <3>. QED  BY <1>1, <2>1, <2>3, <3>1 DEF Typed, SameMapTyped
  <2>. QED  BY <1>6, <2>2, <2>3, CheckEffect
<1>7. CASE ReadUpdated(c)
  <2>1. PICK refill :
          /\ CpuMoves(c, "read_tokens", cpu[c].now, cpu[c].at, cpu[c].tokens, refill)
          /\ SameMap /\ UNCHANGED <<ktime, history, overlaps, evictions>>
          /\ cpu[c].step = "read_updated"
    BY <1>7, ReadUpdatedEffect
  <2>2. /\ cpu' \in [Cpus -> CpuState]
        /\ \A d \in Cpus :
             /\ cpu'[d].now <= ktime' /\ cpu'[d].tokens <= Burst
             /\ cpu'[d].step \in Holding => cpu'[d].at \in DOMAIN bucket'
    BY <1>2, <2>1, MoveTyped DEF SameMap, Holding
  <2>. QED  BY <1>1, <2>1, <2>2 DEF Typed, SameMapTyped
<1>8. CASE ReadTokens(c)
  <2>1. PICK tokens \in 0..Burst, step \in Past :
          /\ CpuMoves(c, step, cpu[c].now, cpu[c].at, tokens, cpu[c].refill)
          /\ SameMap /\ UNCHANGED <<ktime, history, overlaps, evictions>>
          /\ cpu[c].step = "read_tokens"
    BY <1>8, ReadTokensEffect DEF Past, Holding
  <2>2. /\ cpu' \in [Cpus -> CpuState]
        /\ \A d \in Cpus :
             /\ cpu'[d].now <= ktime' /\ cpu'[d].tokens <= Burst
             /\ cpu'[d].step \in Holding => cpu'[d].at \in DOMAIN bucket'
    BY <1>2, <2>1, MoveTyped DEF SameMap, Holding
  <2>. QED  BY <1>1, <2>1, <2>2 DEF Typed, SameMapTyped
<1>9. CASE WriteUpdated(c)
  <2>1. /\ CpuMoves(c, "write", cpu[c].now, cpu[c].at, cpu[c].tokens, cpu[c].refill)
        /\ cpu[c].at \in DOMAIN bucket
        /\ BucketWrites(cpu[c].at, Bucket(c).tokens, cpu[c].now, Bucket(c).blocked)
        /\ UNCHANGED <<ktime, block, element, next, history, overlaps, evictions>>
    BY <1>9, WriteUpdatedEffect
  <2>2. /\ Bucket(c).tokens \in Nat /\ Bucket(c).tokens < Burst
        /\ Bucket(c).blocked <= ktime + block
    BY <2>1, FieldsOf DEF Typed, Bucket
  <2>3. SameMapTyped
    BY <1>2, <2>1, <2>2, MapTyped DEF SameMapTyped
  <2>4. /\ cpu' \in [Cpus -> CpuState]
        /\ \A d \in Cpus :
             /\ cpu'[d].now <= ktime' /\ cpu'[d].tokens <= Burst
             /\ cpu'[d].step \in Holding => cpu'[d].at \in DOMAIN bucket'
    BY <1>2, <2>1, MoveTyped DEF BucketWrites
  <2>. QED  BY <2>1, <2>3, <2>4 DEF Typed, SameMapTyped
<1>10. CASE WriteBlocked(c)
  <2>1. /\ Finishes(c, "empty") /\ cpu[c].at \in DOMAIN bucket
        /\ UNCHANGED <<ktime, block, element, next, overlaps, evictions>>
    BY <1>10, WriteBlockedEffect
  <2>2. SameMapTyped /\ DOMAIN bucket' = DOMAIN bucket
    <3>1. CASE block > 0
      <4>1. BucketWrites(cpu[c].at, Bucket(c).tokens, Bucket(c).updated, cpu[c].now + block)
        BY <1>10, <3>1, WriteBlockedEffect
      <4>2. /\ Bucket(c).tokens \in Nat /\ Bucket(c).tokens < Burst
            /\ Bucket(c).updated <= ktime /\ cpu[c].now + block <= ktime + block
        <5>1. cpu[c].now + block <= ktime + block
          BY <1>2
        <5>. QED  BY <2>1, <5>1, FieldsOf DEF Typed, Bucket
      <4>. QED  BY <1>2, <2>1, <4>1, <4>2, MapTyped DEF SameMapTyped, BucketWrites
    <3>2. CASE ~(block > 0)
      BY <1>1, <1>10, <2>1, <3>2, WriteBlockedEffect DEF SameMap
    <3>. QED  BY <3>1, <3>2
  <2>. QED  BY <2>1, <2>2, FinishTyped DEF Typed, SameMapTyped
<1>11. CASE WriteTokens(c)
  <2>1. /\ Finishes(c, "pass") /\ cpu[c].at \in DOMAIN bucket /\ cpu[c].tokens > 0
        /\ BucketWrites(cpu[c].at, cpu[c].tokens - 1, Bucket(c).updated, Bucket(c).blocked)
        /\ UNCHANGED <<ktime, block, element, next, overlaps, evictions>>
    BY <1>11, WriteTokensEffect
  <2>2. /\ cpu[c].tokens - 1 \in Nat /\ cpu[c].tokens - 1 < Burst
        /\ Bucket(c).updated <= ktime /\ Bucket(c).blocked <= ktime + block
    <3>1. cpu[c].tokens - 1 \in Nat /\ cpu[c].tokens - 1 < Burst
      BY <1>2, <2>1
    <3>. QED  BY <2>1, <3>1 DEF Typed, Bucket
  <2>3. SameMapTyped /\ DOMAIN bucket' = DOMAIN bucket
    BY <1>2, <2>1, <2>2, MapTyped DEF SameMapTyped, BucketWrites
  <2>. QED  BY <2>1, <2>3, FinishTyped DEF Typed, SameMapTyped
<1>. QED  BY <1>3, <1>4, <1>5, <1>6, <1>7, <1>8, <1>9, <1>10, <1>11 DEF CpuStep

LEMMA TypedInit == BucketInit => Typed
BY BucketAssumption DEF BucketInit, Typed, Idle, CpuState, Steps, Holding

LEMMA TypedStep == Typed /\ [BucketNext]_bucketVars => Typed'
<1>. SUFFICES ASSUME Typed, [BucketNext]_bucketVars PROVE Typed'
  OBVIOUS
<1>1. CASE BucketTick
  <2>1. ktime' = ktime + 1 /\ ktime' \in Nat /\ ktime' <= MaxTicks /\ ktime <= ktime'
    BY <1>1, BucketAssumption DEF BucketTick, Typed
  <2>2. UNCHANGED <<block, element, next, bucket, cpu, history, overlaps, evictions>>
    BY <1>1 DEF BucketTick
  <2>3. \A e \in DOMAIN bucket : bucket[e].updated <= ktime' /\ bucket[e].blocked <= ktime' + block
    BY <2>1, FieldsOf DEF Typed
  <2>4. \A c \in Cpus : cpu[c].now <= ktime'
    BY <2>1, LocalsOf DEF Typed
  <2>. QED  BY <2>1, <2>2, <2>3, <2>4 DEF Typed
<1>2. CASE Evict
  BY <1>2 DEF Evict, Typed
<1>3. CASE UNCHANGED bucketVars
  BY <1>3 DEF bucketVars, Typed
<1>. QED  BY <1>1, <1>2, <1>3, CpuStepTyped DEF BucketNext, CpuStep

----------------------------------------------------------------------------
(* One packet at a time.                                                   *)

\* Where a packet goes on: another local step, or its end.
Continues(c) ==
  /\ cpu[c].step # "idle" /\ cpu'[c].step # "idle" /\ cpu'[c].now = cpu[c].now
  /\ \A d \in Cpus : d # c => cpu'[d] = cpu[d]
  /\ UNCHANGED <<ktime, history, overlaps, evictions>>
Ends(c, out) ==
  /\ cpu[c].step # "idle" /\ Finishes(c, out)
  /\ UNCHANGED <<ktime, block, overlaps, evictions>>
  /\ out = "blocked" => cpu[c].step = "check" /\ block > 0 /\ Bucket(c).blocked > cpu[c].now
  /\ out # "blocked" => cpu[c].step \in {"insert", "write"}
  /\ out = "empty" <=> cpu[c].step = "write" /\ cpu[c].tokens = 0

LEMMA StepKinds ==
  ASSUME Typed, NEW c \in Cpus, CpuStep(c)
  PROVE  \/ Begin(c)
         \/ Continues(c) /\ (SameMap \/ WriteUpdated(c))
         \/ \E out \in {"pass", "blocked", "empty"} : Ends(c, out)
<1>1. CASE Lookup(c)
  BY <1>1, LookupEffect DEF CpuMoves, Continues
<1>2. CASE Insert(c)
  BY <1>2, InsertEffect DEF Ends
<1>3. CASE CheckBlocked(c)
  <2>1. CASE block > 0 /\ Bucket(c).blocked > cpu[c].now /\ Finishes(c, "blocked")
    BY <1>3, <2>1, CheckEffect DEF Ends, SameMap
  <2>2. CASE /\ CpuMoves(c, "read_updated", cpu[c].now, cpu[c].at, cpu[c].tokens, cpu[c].refill)
             /\ history' = history
    BY <1>3, <2>2, CheckEffect DEF CpuMoves, Continues
  <2>. QED  BY <1>3, <2>1, <2>2, CheckEffect
<1>4. CASE ReadUpdated(c)
  BY <1>4, ReadUpdatedEffect DEF CpuMoves, Continues
<1>5. CASE ReadTokens(c)
  BY <1>5, ReadTokensEffect DEF CpuMoves, Continues
<1>6. CASE WriteUpdated(c)
  BY <1>6, WriteUpdatedEffect DEF CpuMoves, Continues
<1>7. CASE WriteBlocked(c)
  BY <1>7, WriteBlockedEffect DEF Ends
<1>8. CASE WriteTokens(c)
  BY <1>8, WriteTokensEffect DEF Ends
<1>. QED  BY <1>1, <1>2, <1>3, <1>4, <1>5, <1>6, <1>7, <1>8 DEF CpuStep

LEMMA InSequenceStep == Typed /\ InSequence /\ [BucketNext]_bucketVars => InSequence'
<1>. SUFFICES ASSUME Typed, InSequence, [BucketNext]_bucketVars, Sequential' PROVE Alone' /\ Earlier'
  BY DEF InSequence
<1>0. Typed'
  BY TypedStep
<1>1. CASE BucketTick
  <2>1. UNCHANGED <<block, element, next, bucket, cpu, history, overlaps, evictions>>
    BY <1>1 DEF BucketTick
  <2>2. ktime <= ktime' /\ ktime \in Nat /\ ktime' \in Nat
    BY <1>1 DEF BucketTick, Typed
  <2>3. Alone /\ Earlier
    BY <2>1 DEF InSequence, Sequential
  <2>4. \A i \in DOMAIN history : history[i].now <= ktime'
    BY <2>2, <2>3, OutcomeOf DEF Earlier
  <2>. QED  BY <2>1, <2>3, <2>4 DEF Alone, Earlier, Busy
<1>2. CASE Evict \/ UNCHANGED bucketVars
  BY <1>2 DEF Evict, bucketVars, InSequence, Sequential, Alone, Earlier, Busy
<1>3. ASSUME NEW c \in Cpus, CpuStep(c) PROVE Alone' /\ Earlier'
  <2>1. CASE Begin(c)
    <3>1. /\ CpuMoves(c, "lookup", ktime, NoElement, 0, 0) /\ SameMap /\ UNCHANGED <<ktime, history>>
          /\ overlaps = 0 /\ \A d \in Cpus : ~Busy(d)
      BY <2>1, BeginEffect DEF Sequential
    <3>2. \A d \in Cpus : Busy(d)' => d = c
      BY <3>1 DEF CpuMoves, Busy
    <3>3. \A i \in DOMAIN history : history[i].now <= ktime
      BY <3>1 DEF InSequence, Sequential, Earlier
    <3>4. \A e \in DOMAIN bucket : bucket[e].updated <= ktime
      BY DEF Typed
    <3>. QED  BY <3>1, <3>2, <3>3, <3>4 DEF Alone, Earlier, CpuMoves, SameMap
  <2>2. CASE Continues(c) /\ (SameMap \/ WriteUpdated(c))
    <3>1. Alone /\ Earlier /\ Busy(c)
      BY <2>2 DEF Continues, InSequence, Sequential, Busy
    <3>2. \A d \in Cpus : Busy(d)' => d = c
      BY <2>2, <3>1 DEF Continues, Alone, Busy
    <3>3. \A e \in DOMAIN bucket' : bucket'[e].updated <= cpu'[c].now
      <4>1. CASE SameMap
        BY <2>2, <3>1, <4>1 DEF Continues, SameMap, Earlier
      <4>2. CASE WriteUpdated(c)
        <5>1. BucketWrites(cpu[c].at, Bucket(c).tokens, cpu[c].now, Bucket(c).blocked)
          BY <4>2, WriteUpdatedEffect
        <5>2. cpu[c].now \in Nat /\ cpu'[c].now = cpu[c].now
          BY <2>2, LocalsOf DEF Continues
        <5>. QED  BY <3>1, <5>1, <5>2 DEF BucketWrites, Earlier
      <4>. QED  BY <2>2, <4>1, <4>2
    <3>4. \A i \in DOMAIN history' : history'[i].now <= ktime' /\ history'[i].now <= cpu'[c].now
      BY <2>2, <3>1 DEF Continues, Earlier
    <3>. QED  BY <3>2, <3>3, <3>4 DEF Alone, Earlier
  <2>3. CASE \E out \in {"pass", "blocked", "empty"} : Ends(c, out)
    <3>1. PICK out \in {"pass", "blocked", "empty"} : Ends(c, out)
      BY <2>3
    <3>2. Alone /\ Earlier /\ Busy(c) /\ CpuMoves(c, "idle", 0, NoElement, 0, 0)
      BY <3>1 DEF Ends, Finishes, InSequence, Sequential, Busy
    <3>3. \A d \in Cpus : ~Busy(d)'
      BY <3>2 DEF Alone, Busy, CpuMoves
    <3>4. /\ history' = Append(history, [now |-> cpu[c].now, out |-> out])
          /\ ktime' = ktime
      BY <3>1 DEF Ends, Finishes
    <3>5. \A i \in DOMAIN history' : history'[i].now <= ktime
      <4>. DEFINE x == [now |-> cpu[c].now, out |-> out]
      <4>1. x \in Outcome /\ x.now = cpu[c].now /\ history \in Seq(Outcome) /\ cpu[c].now <= ktime
        BY LocalsOf DEF Outcome, Typed
      <4>. HIDE DEF x
      <4>. QED  BY <3>2, <3>4, <4>1, Appended DEF Earlier, x
    <3>. QED  BY <3>3, <3>4, <3>5 DEF Alone, Earlier
  <2>. QED  BY <1>3, <2>1, <2>2, <2>3, StepKinds
<1>. QED  BY <1>1, <1>2, <1>3 DEF BucketNext, CpuStep

----------------------------------------------------------------------------
(* Nobody starves: what was refilled last has been paid for by a packet    *)
(* that passed, and a bucket is found empty only within the time of one    *)
(* token after that.                                                       *)

\* In sequence, the refill that is computed is what the elapsed time earns.
LEMMA RefillEarned ==
  ASSUME Typed, NEW c \in Cpus, cpu[c].at \in DOMAIN bucket, Bucket(c).updated <= cpu[c].now,
         ((((cpu[c].now - Bucket(c).updated) % Modulus) * Rate) % Modulus) \div Second = 0
  PROVE  TooSoon(c)
<1>. DEFINE t == cpu[c].now - Bucket(c).updated
<1>1. /\ cpu[c].now \in Nat /\ cpu[c].now <= ktime /\ ktime \in Nat /\ ktime <= MaxTicks
      /\ Bucket(c).updated \in Nat /\ MaxTicks \in Nat
  BY LocalsOf, FieldsOf, BucketAssumption DEF Typed, Bucket
<1>2. t \in Nat /\ t <= MaxTicks
  BY <1>1
<1>3. t % Modulus = t /\ (t * Rate) % Modulus = t * Rate /\ t * Rate \in Nat
  BY <1>2, NoWrap
<1>4. (t * Rate) \div Second = 0
  BY <1>3
<1>5. \A x \in Nat : x \div Second = 0 => x < Second
  BY BucketAssumption
<1>. QED  BY <1>3, <1>4, <1>5 DEF TooSoon

\* Elements that were paid for stay so while nothing is written to the map.
LEMMA PaidStays ==
  ASSUME NEW e \in DOMAIN bucket, PaidFor(e), NEW c \in Cpus,
         cpu[c].step = "write" /\ cpu[c].tokens > 0 => cpu'[c] = cpu[c],
         \A d \in Cpus : d # c => cpu'[d] = cpu[d],
         \A i \in DOMAIN history : i \in DOMAIN history' /\ history'[i] = history[i],
         bucket'[e].updated = bucket[e].updated
  PROVE  PaidFor(e)'
BY DEF PaidFor

LEMMA RefillingCpuStep ==
  ASSUME Typed, Alone, Earlier, NEW c \in Cpus, CpuStep(c),
         \A e \in DOMAIN bucket : PaidFor(e), \A d \in Cpus : Waiting(d),
         ~Begin(c)
  PROVE  /\ \A e \in DOMAIN bucket' : PaidFor(e)'
         /\ \A d \in Cpus : Waiting(d)'
<1>0. cpu[c].step # "idle" /\ \A d \in Cpus : d # c => cpu[d].step = "idle"
  <2>1. cpu[c].step # "idle"
    BY StepKinds DEF Continues, Ends
  <2>. QED  BY <2>1 DEF Alone, Busy
<1>1. \A d \in Cpus : d # c /\ cpu'[d] = cpu[d] => Waiting(d)'
  BY <1>0 DEF Waiting
<1>2. ASSUME NEW out \in {"pass", "blocked", "empty"}, Finishes(c, out),
             cpu[c].step = "write" /\ cpu[c].tokens > 0 => out = "pass",
             \A e \in DOMAIN bucket' : e \in DOMAIN bucket => bucket'[e].updated = bucket[e].updated,
             \A e \in DOMAIN bucket' : e \notin DOMAIN bucket =>
               out = "pass" /\ bucket'[e].updated = cpu[c].now,
             DOMAIN bucket \subseteq DOMAIN bucket', ktime' = ktime
      PROVE  /\ \A e \in DOMAIN bucket' : PaidFor(e)'
             /\ \A d \in Cpus : Waiting(d)'
  <2>1. /\ DOMAIN history' = 1..(Len(history) + 1) /\ Len(history) \in Nat
        /\ \A i \in DOMAIN history : i \in DOMAIN history' /\ history'[i] = history[i]
        /\ history'[Len(history) + 1].now = cpu[c].now /\ history'[Len(history) + 1].out = out
    BY <1>2, FinishTyped
  <2>2. /\ cpu'[c].step = "idle" /\ \A d \in Cpus : d # c => cpu'[d] = cpu[d]
    BY <1>2 DEF Finishes, CpuMoves
  <2>3. Len(history) + 1 \in DOMAIN history'
    BY <2>1
  <2>4. ASSUME NEW e \in DOMAIN bucket PROVE PaidFor(e)'
    <3>1. CASE \E i \in DOMAIN history :
                 history[i].out = "pass" /\ history[i].now = bucket[e].updated
      BY <1>2, <2>1, <3>1 DEF PaidFor
    <3>2. CASE \E d \in Cpus : /\ cpu[d].step = "write" /\ cpu[d].at = e
                               /\ cpu[d].now = bucket[e].updated /\ cpu[d].tokens > 0
      <4>1. cpu[c].step = "write" /\ cpu[c].now = bucket[e].updated /\ cpu[c].tokens > 0
        BY <1>0, <3>2
      <4>. QED  BY <1>2, <2>1, <2>3, <4>1 DEF PaidFor
    <3>. QED  BY <3>1, <3>2 DEF PaidFor
  <2>5. ASSUME NEW e \in DOMAIN bucket', e \notin DOMAIN bucket PROVE PaidFor(e)'
    BY <1>2, <2>1, <2>3, <2>5 DEF PaidFor
  <2>6. Waiting(c)'
    BY <2>2 DEF Waiting
  <2>. QED  BY <1>1, <2>2, <2>4, <2>5, <2>6
<1>3. ASSUME SameMap, history' = history, \A d \in Cpus : d # c => cpu'[d] = cpu[d],
             cpu[c].step # "write"
      PROVE  \A e \in DOMAIN bucket' : PaidFor(e)'
  BY <1>3, PaidStays DEF SameMap
<1>4. CASE Lookup(c)
  BY <1>1, <1>3, <1>4, LookupEffect DEF CpuMoves, Waiting
<1>5. CASE Insert(c)
  <2>1. \A e \in DOMAIN bucket' : e \notin DOMAIN bucket => e = element'
    BY <1>5, InsertEffect DEF Typed
  <2>2. DOMAIN bucket \subseteq DOMAIN bucket' /\ ktime' = ktime /\ Finishes(c, "pass")
    BY <1>5, InsertEffect
  <2>3. /\ \A e \in DOMAIN bucket' : e \in DOMAIN bucket => bucket'[e].updated = bucket[e].updated
        /\ bucket'[element'].updated = cpu[c].now
    BY <1>5, InsertEffect
  <2>. QED  BY <1>2, <2>1, <2>2, <2>3
<1>6. CASE CheckBlocked(c)
  <2>1. CASE Finishes(c, "blocked")
    BY <1>2, <1>6, <2>1, CheckEffect DEF SameMap
  <2>2. CASE /\ CpuMoves(c, "read_updated", cpu[c].now, cpu[c].at, cpu[c].tokens, cpu[c].refill)
             /\ history' = history
    BY <1>1, <1>3, <1>6, <2>2, CheckEffect DEF CpuMoves, Waiting
  <2>. QED  BY <1>6, <2>1, <2>2, CheckEffect
<1>7. CASE ReadUpdated(c)
  <2>. DEFINE refill ==
         ((((cpu[c].now - Bucket(c).updated) % Modulus) * Rate) % Modulus) \div Second
  <2>1. /\ CpuMoves(c, "read_tokens", cpu[c].now, cpu[c].at, cpu[c].tokens, refill)
        /\ SameMap /\ history' = history /\ cpu[c].step = "read_updated"
    BY <1>7, ReadUpdatedEffect
  <2>2. cpu[c].at \in DOMAIN bucket /\ Bucket(c).updated <= cpu[c].now
    BY <1>0, <2>1 DEF Typed, Holding, Earlier, Busy, Bucket
  <2>3. refill = 0 => TooSoon(c)
    BY <2>2, RefillEarned
  <2>. HIDE DEF refill
  <2>4. Waiting(c)'
    BY <2>1, <2>3 DEF CpuMoves, Waiting, TooSoon, Bucket, SameMap
  <2>. QED  BY <1>1, <1>3, <2>1, <2>4 DEF CpuMoves
<1>8. CASE ReadTokens(c)
  <2>1. PICK tokens \in 0..Burst :
          /\ CpuMoves(c, IF cpu[c].refill > 0 THEN "write_updated" ELSE "write", cpu[c].now,
                      cpu[c].at, tokens, cpu[c].refill)
          /\ cpu[c].refill > 0 => tokens > 0
          /\ SameMap /\ history' = history /\ cpu[c].step = "read_tokens"
    BY <1>8, ReadTokensEffect
  <2>2. cpu[c].refill \in Nat /\ (cpu[c].refill = 0 => TooSoon(c))
    BY <2>1, LocalsOf DEF Waiting
  <2>3. Waiting(c)'
    BY <2>1, <2>2 DEF CpuMoves, Waiting, TooSoon, Bucket, SameMap
  <2>. QED  BY <1>1, <1>3, <2>1, <2>3 DEF CpuMoves
<1>9. CASE WriteUpdated(c)
  <2>1. /\ cpu[c].step = "write_updated" /\ cpu[c].at \in DOMAIN bucket /\ history' = history
        /\ CpuMoves(c, "write", cpu[c].now, cpu[c].at, cpu[c].tokens, cpu[c].refill)
        /\ BucketWrites(cpu[c].at, Bucket(c).tokens, cpu[c].now, Bucket(c).blocked)
    BY <1>9, WriteUpdatedEffect
  <2>2. cpu[c].tokens > 0 /\ cpu[c].tokens \in Nat
    BY <2>1, LocalsOf DEF Waiting
  <2>3. Waiting(c)'
    BY <2>1, <2>2 DEF CpuMoves, Waiting
  <2>4. PaidFor(cpu[c].at)'
    BY <2>1, <2>2 DEF CpuMoves, BucketWrites, PaidFor
  <2>5. ASSUME NEW e \in DOMAIN bucket, e # cpu[c].at PROVE PaidFor(e)'
    BY <2>1, <2>5, PaidStays DEF CpuMoves, BucketWrites
  <2>. QED  BY <1>1, <2>1, <2>3, <2>4, <2>5 DEF CpuMoves, BucketWrites
<1>10. CASE WriteBlocked(c)
  <2>1. /\ Finishes(c, "empty") /\ ktime' = ktime /\ cpu[c].tokens = 0
        /\ DOMAIN bucket' = DOMAIN bucket
        /\ \A e \in DOMAIN bucket : bucket'[e].updated = bucket[e].updated
    BY <1>10, WriteBlockedEffect DEF BucketWrites, Bucket
  <2>. QED  BY <1>2, <2>1
<1>11. CASE WriteTokens(c)
  <2>1. /\ Finishes(c, "pass") /\ ktime' = ktime
        /\ DOMAIN bucket' = DOMAIN bucket
        /\ \A e \in DOMAIN bucket : bucket'[e].updated = bucket[e].updated
    BY <1>11, WriteTokensEffect DEF BucketWrites, Bucket
  <2>. QED  BY <1>2, <2>1
<1>. QED  BY <1>4, <1>5, <1>6, <1>7, <1>8, <1>9, <1>10, <1>11 DEF CpuStep

LEMMA SequentialBefore == Typed /\ [BucketNext]_bucketVars /\ Sequential' => Sequential
<1>. SUFFICES ASSUME Typed, [BucketNext]_bucketVars, overlaps' = 0 PROVE overlaps = 0
  BY DEF Sequential
<1>1. CASE BucketTick \/ Evict \/ UNCHANGED bucketVars
  BY <1>1 DEF BucketTick, Evict, bucketVars
<1>2. ASSUME NEW c \in Cpus, CpuStep(c) PROVE overlaps = 0
  BY <1>2, StepKinds, BeginEffect DEF Continues, Ends
<1>. QED  BY <1>1, <1>2 DEF BucketNext, CpuStep

LEMMA RefillingStep == Typed /\ InSequence /\ Refilling /\ [BucketNext]_bucketVars => Refilling'
<1>. SUFFICES ASSUME Typed, InSequence, Refilling, [BucketNext]_bucketVars, Sequential'
              PROVE  (\A e \in DOMAIN bucket' : PaidFor(e)') /\ (\A d \in Cpus : Waiting(d)')
  BY DEF Refilling
<1>1. /\ Sequential /\ Alone /\ Earlier
      /\ \A e \in DOMAIN bucket : PaidFor(e)
      /\ \A d \in Cpus : Waiting(d)
  BY SequentialBefore DEF InSequence, Refilling
<1>2. CASE BucketTick \/ Evict \/ UNCHANGED bucketVars
  <2>1. UNCHANGED <<bucket, cpu, history>>
    BY <1>2 DEF BucketTick, Evict, bucketVars
  <2>. QED  BY <1>1, <2>1 DEF PaidFor, Waiting, TooSoon, Bucket
<1>3. ASSUME NEW c \in Cpus, Begin(c)
      PROVE  (\A e \in DOMAIN bucket' : PaidFor(e)') /\ (\A d \in Cpus : Waiting(d)')
  <2>1. /\ cpu[c].step = "idle" /\ cpu'[c].step = "lookup"
        /\ \A d \in Cpus : d # c => cpu'[d] = cpu[d]
        /\ UNCHANGED <<bucket, history>>
    BY <1>3, BeginEffect DEF CpuMoves, SameMap
  <2>2. \A e \in DOMAIN bucket' : PaidFor(e)'
    BY <1>1, <2>1, PaidStays
  <2>3. ASSUME NEW d \in Cpus PROVE Waiting(d)'
    <3>1. CASE d = c
      BY <2>1, <3>1 DEF Waiting
    <3>2. CASE d # c
      BY <1>1, <2>1, <3>2 DEF Waiting, TooSoon, Bucket
    <3>. QED  BY <3>1, <3>2
  <2>. QED  BY <2>2, <2>3
<1>4. ASSUME NEW c \in Cpus, CpuStep(c)
      PROVE  (\A e \in DOMAIN bucket' : PaidFor(e)') /\ (\A d \in Cpus : Waiting(d)')
  BY <1>1, <1>3, <1>4, RefillingCpuStep
<1>. QED  BY <1>2, <1>4 DEF BucketNext, CpuStep

\* A step leaves the history alone or ends one packet.
LEMMA HistoryStep ==
  ASSUME Typed, [BucketNext]_bucketVars
  PROVE  \/ history' = history
         \/ \E c \in Cpus, out \in {"pass", "blocked", "empty"} : CpuStep(c) /\ Ends(c, out)
<1>1. CASE BucketTick \/ Evict \/ UNCHANGED bucketVars
  BY <1>1 DEF BucketTick, Evict, bucketVars
<1>2. ASSUME NEW c \in Cpus, CpuStep(c)
      PROVE  \/ history' = history
             \/ \E out \in {"pass", "blocked", "empty"} : Ends(c, out)
  BY <1>2, StepKinds, BeginEffect DEF Continues
<1>. QED  BY <1>1, <1>2 DEF BucketNext, CpuStep

LEMMA DomainGrows ==
  ASSUME Typed, NEW c \in Cpus, CpuStep(c)
  PROVE  DOMAIN bucket \subseteq DOMAIN bucket'
<1>1. CASE SameMap
  BY <1>1 DEF SameMap
<1>2. CASE Insert(c)
  BY <1>2, InsertEffect
<1>3. CASE WriteUpdated(c) \/ WriteBlocked(c) \/ WriteTokens(c)
  BY <1>3, WriteUpdatedEffect, WriteBlockedEffect, WriteTokensEffect DEF BucketWrites
<1>. QED  BY <1>1, <1>2, <1>3, BeginEffect, LookupEffect, CheckEffect, ReadUpdatedEffect,
          ReadTokensEffect DEF CpuStep

LEMMA NotStarvedStep ==
  Typed /\ InSequence /\ Refilling /\ NotStarved /\ [BucketNext]_bucketVars => NotStarved'
<1>. SUFFICES ASSUME Typed, InSequence, Refilling, NotStarved, [BucketNext]_bucketVars, Sequential',
                     NEW j \in DOMAIN history', history'[j].out = "empty"
              PROVE  \E i \in 1..(j - 1) :
                       /\ history'[i].out = "pass"
                       /\ (history'[j].now - history'[i].now) * Rate < Second
  BY DEF NotStarved
<1>1. /\ Sequential /\ Alone /\ Earlier
      /\ \A e \in DOMAIN bucket : PaidFor(e)
      /\ \A d \in Cpus : Waiting(d)
  BY SequentialBefore DEF InSequence, Refilling
<1>2. DOMAIN history = 1..Len(history) /\ Len(history) \in Nat
  BY DEF Typed
<1>3. ASSUME \A i \in DOMAIN history : history'[i] = history[i], j \in DOMAIN history
      PROVE  \E i \in 1..(j - 1) :
               /\ history'[i].out = "pass"
               /\ (history'[j].now - history'[i].now) * Rate < Second
  <2>1. \A i \in 1..(j - 1) : i \in DOMAIN history
    BY <1>2, <1>3
  <2>2. PICK i \in 1..(j - 1) :
          /\ history[i].out = "pass"
          /\ (history[j].now - history[i].now) * Rate < Second
    BY <1>1, <1>3 DEF NotStarved
  <2>. QED  BY <1>3, <2>1, <2>2
<1>4. CASE history' = history
  BY <1>3, <1>4
<1>5. ASSUME NEW c \in Cpus, NEW out \in {"pass", "blocked", "empty"}, Ends(c, out), CpuStep(c)
      PROVE  \E i \in 1..(j - 1) :
               /\ history'[i].out = "pass"
               /\ (history'[j].now - history'[i].now) * Rate < Second
  <2>1. /\ DOMAIN history' = 1..(Len(history) + 1)
        /\ \A i \in DOMAIN history : i \in DOMAIN history' /\ history'[i] = history[i]
        /\ history'[Len(history) + 1].now = cpu[c].now /\ history'[Len(history) + 1].out = out
    <3>1. DOMAIN bucket \subseteq DOMAIN bucket' /\ ktime' = ktime
      BY <1>5, DomainGrows DEF Ends
    <3>. QED  BY <1>5, <3>1, FinishTyped DEF Ends
  <2>2. CASE j \in DOMAIN history
    BY <1>3, <2>1, <2>2
  <2>3. CASE j = Len(history) + 1
    <3>1. cpu[c].step = "write" /\ cpu[c].tokens = 0 /\ Busy(c)
      BY <1>5, <2>1, <2>3 DEF Ends, Busy
    <3>2. cpu[c].at \in DOMAIN bucket /\ TooSoon(c)
      BY <1>1, <3>1 DEF Typed, Holding, Waiting
    <3>3. \A d \in Cpus : cpu[d].step = "write" => d = c
      BY <1>1, <3>1 DEF Alone, Busy
    <3>4. PICK i \in DOMAIN history :
            history[i].out = "pass" /\ history[i].now = Bucket(c).updated
      BY <1>1, <3>1, <3>2, <3>3 DEF PaidFor, Bucket
    <3>5. i \in 1..(j - 1)
      BY <1>2, <2>3
    <3>. QED  BY <2>1, <2>3, <3>2, <3>4, <3>5 DEF TooSoon
  <2>. QED  BY <1>2, <2>1, <2>2, <2>3
<1>. QED  BY <1>4, <1>5, HistoryStep

----------------------------------------------------------------------------
(* A block lasts exactly its time: the element holds the end of the last   *)
(* one, and a packet gets past the check only when that is over.           *)

\* A packet that has ended, and the one before it.
LEMMA EndedHistory ==
  ASSUME Typed, NEW c \in Cpus, NEW out \in {"pass", "blocked", "empty"}, Ends(c, out), CpuStep(c)
  PROVE  /\ DOMAIN history = 1..Len(history) /\ Len(history) \in Nat
         /\ DOMAIN history' = 1..(Len(history) + 1)
         /\ \A i \in DOMAIN history : i \in DOMAIN history' /\ history'[i] = history[i]
         /\ history'[Len(history) + 1].now = cpu[c].now /\ history'[Len(history) + 1].out = out
         /\ cpu'[c].step = "idle" /\ \A d \in Cpus : d # c => cpu'[d] = cpu[d]
<1>1. DOMAIN bucket \subseteq DOMAIN bucket' /\ ktime' = ktime /\ Finishes(c, out)
  BY DomainGrows DEF Ends
<1>. QED  BY <1>1, FinishTyped DEF Finishes, CpuMoves

\* A step that leaves the end of the block and the outcomes alone.
LEMMA BlockKept ==
  ASSUME Fresh, BlockIsLast, UNCHANGED <<block, element, history>>,
         element # NoElement => bucket'[element].blocked = bucket[element].blocked
  PROVE  Fresh' /\ BlockIsLast'
BY DEF Fresh, BlockIsLast

LEMMA BlockingContinues ==
  ASSUME Typed, Alone, Fresh, \A d \in Cpus : Held(d), BlockIsLast, evictions = 0,
         NEW c \in Cpus, CpuStep(c), Continues(c) \/ Begin(c)
  PROVE  Fresh' /\ (\A d \in Cpus : Held(d)') /\ BlockIsLast'
<1>1. CASE Begin(c)
  <2>1. /\ cpu'[c].step = "lookup" /\ \A d \in Cpus : d # c => cpu'[d] = cpu[d]
        /\ SameMap /\ UNCHANGED history
    BY <1>1, BeginEffect DEF CpuMoves
  <2>2. \A d \in Cpus : Held(d)'
    BY <2>1 DEF Held, Holding, Past, SameMap, Bucket
  <2>. QED  BY <2>1, <2>2, BlockKept DEF SameMap
<1>2. ASSUME Continues(c) PROVE \A d \in Cpus : d # c => Held(d)'
  <2>1. \A d \in Cpus : d # c => cpu'[d] = cpu[d] /\ cpu[d].step = "idle"
    BY <1>2 DEF Continues, Alone, Busy
  <2>. QED  BY <2>1 DEF Held, Holding, Past
<1>3. CASE Continues(c) /\ Lookup(c)
  <2>1. /\ CpuMoves(c, IF element = NoElement THEN "insert" ELSE "check", cpu[c].now, element,
                    cpu[c].tokens, cpu[c].refill)
        /\ SameMap /\ UNCHANGED history
    BY <1>3, LookupEffect
  <2>2. Held(c)'
    BY <2>1 DEF Held, Holding, Past, SameMap, CpuMoves
  <2>. QED  BY <1>2, <1>3, <2>1, <2>2, BlockKept DEF SameMap
<1>4. CASE Continues(c) /\ CheckBlocked(c)
  <2>1. /\ cpu[c].step = "check" /\ cpu[c].at = element /\ cpu[c].at \in DOMAIN bucket
        /\ SameMap /\ UNCHANGED history
    BY <1>4, CheckEffect DEF Held, Holding, Continues, Typed
  <2>2. /\ ~(block > 0 /\ Bucket(c).blocked > cpu[c].now)
        /\ cpu'[c].step = "read_updated" /\ cpu'[c].now = cpu[c].now /\ cpu'[c].at = cpu[c].at
    BY <1>4, CheckEffect DEF Finishes, CpuMoves, Continues
  <2>3. block > 0 => Bucket(c).blocked <= cpu[c].now
    BY <2>1, <2>2, FieldsOf, LocalsOf DEF Bucket
  <2>4. Held(c)'
    BY <2>1, <2>2, <2>3 DEF Held, Holding, Past, SameMap, Bucket
  <2>. QED  BY <1>2, <1>4, <2>1, <2>4, BlockKept DEF SameMap
<1>5. CASE Continues(c) /\ (ReadUpdated(c) \/ ReadTokens(c))
  <2>1. /\ cpu[c].step \in Past /\ SameMap /\ UNCHANGED history
        /\ cpu'[c].now = cpu[c].now /\ cpu'[c].at = cpu[c].at /\ cpu'[c].step \in Past
    BY <1>5, ReadUpdatedEffect, ReadTokensEffect DEF Past, Holding, CpuMoves
  <2>2. Held(c)'
    BY <2>1 DEF Held, Holding, Past, SameMap, Bucket
  <2>. QED  BY <1>2, <1>5, <2>1, <2>2, BlockKept DEF SameMap
<1>6. CASE Continues(c) /\ WriteUpdated(c)
  <2>1. /\ cpu[c].step = "write_updated" /\ UNCHANGED <<block, element, history>>
        /\ CpuMoves(c, "write", cpu[c].now, cpu[c].at, cpu[c].tokens, cpu[c].refill)
        /\ BucketWrites(cpu[c].at, Bucket(c).tokens, cpu[c].now, Bucket(c).blocked)
    BY <1>6, WriteUpdatedEffect
  <2>2. cpu[c].at = element /\ bucket'[element].blocked = bucket[element].blocked
    BY <2>1 DEF BucketWrites, Held, Holding, Bucket
  <2>3. Held(c)'
    BY <2>1, <2>2 DEF Held, Holding, Past, Bucket, CpuMoves
  <2>. QED  BY <1>2, <1>6, <2>1, <2>2, <2>3, BlockKept
<1>7. ASSUME Continues(c) PROVE ~Insert(c) /\ ~WriteBlocked(c) /\ ~WriteTokens(c)
  BY <1>7, InsertEffect, WriteBlockedEffect, WriteTokensEffect DEF Finishes, CpuMoves, Continues
<1>. QED  BY <1>1, <1>3, <1>4, <1>5, <1>6, <1>7 DEF CpuStep

LEMMA BlockingEnds ==
  ASSUME Typed, Alone, Earlier, Fresh, \A d \in Cpus : Held(d), BlockIsLast, evictions = 0,
         NEW c \in Cpus, CpuStep(c), NEW out \in {"pass", "blocked", "empty"}, Ends(c, out)
  PROVE  Fresh' /\ (\A d \in Cpus : Held(d)') /\ BlockIsLast'
<1>1. /\ DOMAIN history = 1..Len(history) /\ Len(history) \in Nat
      /\ DOMAIN history' = 1..(Len(history) + 1)
      /\ \A i \in DOMAIN history : i \in DOMAIN history' /\ history'[i] = history[i]
      /\ history'[Len(history) + 1].now = cpu[c].now /\ history'[Len(history) + 1].out = out
      /\ cpu'[c].step = "idle" /\ \A d \in Cpus : d # c => cpu'[d] = cpu[d]
  BY EndedHistory
<1>2. \A d \in Cpus : cpu'[d].step = "idle"
  BY <1>1 DEF Alone, Busy, Ends
<1>3. \A d \in Cpus : Held(d)'
  BY <1>2 DEF Held, Holding, Past
<1>4. block' = block /\ block \in Nat
  BY DEF Ends, Typed
<1>5. CASE Insert(c)
  <2>1. /\ cpu[c].step = "insert" /\ element' = Len(bucket) + 1 /\ bucket'[element'].blocked = 0
        /\ Finishes(c, "pass")
    BY <1>5, InsertEffect
  <2>2. history = <<>> /\ out = "pass"
    BY <2>1 DEF Held, Fresh, Ends
  <2>3. \A i \in DOMAIN history' : history'[i].out = "pass"
    BY <1>1, <2>2
  <2>4. element' # NoElement
    BY <2>1, BucketAssumption DEF Typed
  <2>. QED  BY <1>3, <2>1, <2>3, <2>4 DEF Fresh, BlockIsLast
<1>6. CASE ~Insert(c)
  <2>1. /\ cpu[c].step \in Holding /\ cpu[c].at = element /\ cpu[c].at \in DOMAIN bucket
        /\ element' = element
    <3>1. cpu[c].step \in Holding /\ element' = element
      BY <1>6, BeginEffect, LookupEffect, CheckEffect, ReadUpdatedEffect, ReadTokensEffect,
         WriteUpdatedEffect, WriteBlockedEffect, WriteTokensEffect
         DEF CpuStep, Ends, Holding, SameMap
    <3>. QED  BY <3>1 DEF Held, Typed
  <2>2. element # NoElement
    BY <2>1, BucketAssumption DEF Typed
  <2>3. ASSUME out # "empty", bucket'[element].blocked = bucket[element].blocked
        PROVE  BlockIsLast'
    <3>1. \A i \in DOMAIN history' : history'[i].out = "empty" => i \in DOMAIN history
      BY <1>1, <2>3
    <3>. QED  BY <1>1, <1>4, <2>1, <2>3, <3>1 DEF BlockIsLast
  <2>4. CASE CheckBlocked(c)
    BY <1>3, <2>1, <2>2, <2>3, <2>4, CheckEffect DEF SameMap, Ends, Fresh
  <2>5. CASE WriteTokens(c)
    <3>1. bucket'[element].blocked = bucket[element].blocked /\ out # "empty"
      BY <2>1, <2>5, WriteTokensEffect DEF BucketWrites, Bucket, Ends
    <3>. QED  BY <1>3, <2>1, <2>2, <2>3, <3>1 DEF Fresh
  <2>6. CASE WriteBlocked(c)
    <3>1. ASSUME block > 0 PROVE bucket'[element].blocked = cpu[c].now + block
      BY <2>1, <2>6, <3>1, WriteBlockedEffect DEF BucketWrites
    <3>2. out = "empty"
      BY <2>6, WriteBlockedEffect DEF Ends
    <3>3. \A i \in DOMAIN history : history[i].now <= cpu[c].now
      BY DEF Earlier, Ends, Busy
    <3>4. cpu[c].now \in Nat
      BY LocalsOf
    <3>5. \A i \in DOMAIN history' : history'[i].now + block <= cpu[c].now + block
      <4>1. ASSUME NEW i \in DOMAIN history PROVE history'[i].now + block <= cpu[c].now + block
        BY <1>1, <1>4, <3>3, <3>4, OutcomeOf
      <4>2. history'[Len(history) + 1].now + block <= cpu[c].now + block
        BY <1>1, <1>4, <3>4
      <4>. QED  BY <1>1, <4>1, <4>2
    <3>6. Len(history) + 1 \in DOMAIN history'
      BY <1>1
    <3>7. BlockIsLast'
      BY <1>1, <1>4, <2>1, <3>1, <3>2, <3>5, <3>6 DEF BlockIsLast
    <3>. QED  BY <1>3, <2>1, <2>2, <3>7 DEF Fresh
  <2>. QED  BY <1>6, <2>4, <2>5, <2>6, BeginEffect, LookupEffect, ReadUpdatedEffect,
            ReadTokensEffect, WriteUpdatedEffect DEF CpuStep, Ends
<1>. QED  BY <1>5, <1>6

LEMMA BlockingStep == Typed /\ InSequence /\ Blocking /\ [BucketNext]_bucketVars => Blocking'
<1>. SUFFICES ASSUME Typed, InSequence, Blocking, [BucketNext]_bucketVars, Sequential', evictions' = 0
              PROVE  Fresh' /\ (\A d \in Cpus : Held(d)') /\ BlockIsLast'
  BY DEF Blocking
<1>1. evictions = 0 /\ ~Evict
  <2>1. CASE BucketTick \/ Evict \/ UNCHANGED bucketVars
    BY <2>1 DEF BucketTick, Evict, bucketVars, Typed
  <2>2. ASSUME NEW c \in Cpus, CpuStep(c) PROVE evictions' = evictions
    BY <2>2, StepKinds, BeginEffect DEF Continues, Ends
  <2>3. ~Evict
    BY DEF Evict, Typed
  <2>. QED  BY <2>1, <2>2, <2>3 DEF BucketNext, CpuStep
<1>2. Sequential /\ Alone /\ Earlier /\ Fresh /\ (\A d \in Cpus : Held(d)) /\ BlockIsLast
  BY <1>1, SequentialBefore DEF InSequence, Blocking
<1>3. CASE BucketTick \/ UNCHANGED bucketVars
  <2>1. UNCHANGED <<block, element, bucket, cpu, history>>
    BY <1>3 DEF BucketTick, bucketVars
  <2>. QED  BY <1>2, <2>1, BlockKept DEF Held, Bucket
<1>4. ASSUME NEW c \in Cpus, CpuStep(c)
      PROVE  Fresh' /\ (\A d \in Cpus : Held(d)') /\ BlockIsLast'
  BY <1>1, <1>2, <1>4, StepKinds, BlockingContinues, BlockingEnds
<1>. QED  BY <1>1, <1>3, <1>4 DEF BucketNext, CpuStep

Blocked(j) == \E i \in 1..(j - 1) : history[i].out = "empty" /\ history[j].now < history[i].now + block

LEMMA BlockHoldsStep ==
  Typed /\ InSequence /\ Blocking /\ BlockHolds /\ [BucketNext]_bucketVars => BlockHolds'
<1>. SUFFICES ASSUME Typed, InSequence, Blocking, BlockHolds, [BucketNext]_bucketVars,
                     Sequential', evictions' = 0, NEW j \in DOMAIN history'
              PROVE  history'[j].out = "blocked" <=> Blocked(j)'
  BY DEF BlockHolds, Blocked
<1>1. evictions = 0 /\ block' = block
  <2>1. CASE BucketTick \/ Evict \/ UNCHANGED bucketVars
    BY <2>1 DEF BucketTick, Evict, bucketVars, Typed
  <2>2. ASSUME NEW c \in Cpus, CpuStep(c) PROVE evictions' = evictions /\ block' = block
    BY <2>2, StepKinds, BeginEffect, WriteUpdatedEffect DEF Continues, Ends, SameMap
  <2>. QED  BY <2>1, <2>2 DEF BucketNext, CpuStep
<1>2. /\ Sequential /\ Alone /\ Earlier /\ Fresh /\ (\A d \in Cpus : Held(d)) /\ BlockIsLast
      /\ \A k \in DOMAIN history : history[k].out = "blocked" <=> Blocked(k)
  BY <1>1, SequentialBefore DEF InSequence, Blocking, BlockHolds, Blocked
<1>3. DOMAIN history = 1..Len(history) /\ Len(history) \in Nat
  BY DEF Typed
<1>4. ASSUME \A i \in DOMAIN history : history'[i] = history[i], j \in DOMAIN history
      PROVE  history'[j].out = "blocked" <=> Blocked(j)'
  <2>1. \A i \in 1..(j - 1) : i \in DOMAIN history
    BY <1>3, <1>4
  <2>. QED  BY <1>1, <1>2, <1>4, <2>1 DEF Blocked
<1>5. CASE history' = history
  BY <1>4, <1>5
<1>6. ASSUME NEW c \in Cpus, NEW out \in {"pass", "blocked", "empty"}, Ends(c, out), CpuStep(c)
      PROVE  history'[j].out = "blocked" <=> Blocked(j)'
  <2>1. /\ DOMAIN history' = 1..(Len(history) + 1)
        /\ \A i \in DOMAIN history : i \in DOMAIN history' /\ history'[i] = history[i]
        /\ history'[Len(history) + 1].now = cpu[c].now /\ history'[Len(history) + 1].out = out
    BY <1>6, EndedHistory
  <2>2. CASE j \in DOMAIN history
    BY <1>4, <2>1, <2>2
  <2>3. CASE j = Len(history) + 1
    <3>1. Blocked(j)' <=> \E i \in DOMAIN history : /\ history[i].out = "empty"
                                                    /\ cpu[c].now < history[i].now + block
      <4>1. 1..(j - 1) = DOMAIN history
        BY <1>3, <2>3
      <4>. QED  BY <1>1, <2>1, <2>3, <4>1 DEF Blocked
    <3>2. cpu[c].now \in Nat /\ block \in Nat
      BY LocalsOf DEF Typed
    <3>3. \A i \in DOMAIN history : history[i].now <= cpu[c].now /\ history[i].now \in Nat
      BY <1>2, <1>6, OutcomeOf DEF Earlier, Ends, Busy
    <3>4. CASE out = "blocked"
      <4>1. /\ cpu[c].step = "check" /\ block > 0 /\ Bucket(c).blocked > cpu[c].now
            /\ cpu[c].at = element /\ cpu[c].at \in DOMAIN bucket
        BY <1>2, <1>6, <3>4 DEF Ends, Held, Holding, Typed
      <4>2. element # NoElement /\ bucket[element].blocked > 0
        BY <3>2, <4>1, FieldsOf, BucketAssumption DEF Typed, Bucket
      <4>3. PICK i \in DOMAIN history :
              history[i].out = "empty" /\ bucket[element].blocked = history[i].now + block
        BY <1>2, <4>1, <4>2 DEF BlockIsLast
      <4>. QED  BY <2>1, <2>3, <3>1, <3>4, <4>1, <4>3 DEF Bucket
    <3>5. CASE out # "blocked"
      <4>1. cpu[c].step \in {"insert", "write"}
        BY <1>6, <3>5 DEF Ends
      <4>2. ASSUME NEW i \in DOMAIN history, history[i].out = "empty"
            PROVE  history[i].now + block <= cpu[c].now
        <5>1. CASE cpu[c].step = "insert"
          BY <1>2, <1>3, <4>2, <5>1 DEF Held, Fresh
        <5>2. CASE cpu[c].step = "write" /\ block > 0
          <6>1. cpu[c].at = element /\ Bucket(c).blocked <= cpu[c].now /\ cpu[c].at \in DOMAIN bucket
            BY <1>2, <5>2 DEF Held, Holding, Past, Typed
          <6>2. element # NoElement
            BY <6>1, BucketAssumption DEF Typed
          <6>3. history[i].now + block <= bucket[element].blocked
            BY <1>2, <4>2, <5>2, <6>2 DEF BlockIsLast
          <6>. QED  BY <3>2, <3>3, <6>1, <6>3, FieldsOf DEF Bucket
        <5>3. CASE ~(block > 0)
          BY <3>2, <3>3, <5>3
        <5>. QED  BY <4>1, <5>1, <5>2, <5>3
      <4>. QED  BY <2>1, <2>3, <3>1, <3>2, <3>3, <3>5, <4>2
    <3>. QED  BY <3>4, <3>5
  <2>. QED  BY <1>3, <2>1, <2>2, <2>3
<1>. QED  BY <1>5, <1>6, HistoryStep

----------------------------------------------------------------------------
(* The theorems.                                                           *)

LEMMA InductiveInit == BucketInit => IInv
<1>. SUFFICES ASSUME BucketInit PROVE IInv
  OBVIOUS
<1>1. Typed
  BY TypedInit
<1>2. InSequence /\ Refilling
  BY DEF BucketInit, Idle, InSequence, Alone, Earlier, Busy, Refilling, Waiting
<1>3. Blocking
  BY DEF BucketInit, Idle, Blocking, Fresh, Held, Holding, Past, BlockIsLast
<1>4. NotStarved /\ BlockHolds
  BY DEF BucketInit, NotStarved, BlockHolds
<1>. QED  BY <1>1, <1>2, <1>3, <1>4 DEF IInv

LEMMA Inductive == BucketSpec => []IInv
<1>1. IInv /\ [BucketNext]_bucketVars => IInv'
  BY TypedStep, InSequenceStep, RefillingStep, BlockingStep, NotStarvedStep, BlockHoldsStep
     DEF IInv
<1>. QED  BY <1>1, InductiveInit, PTL DEF BucketSpec

(* No bucket ever holds more tokens than its size, and no end of a block   *)
(* lies further ahead than the block time, however the packets overlap and *)
(* whatever is evicted (rate_buckets, token_bucket_limited).               *)
THEOREM BucketsTyped == BucketSpec => []BucketTypeOK
<1>1. IInv => BucketTypeOK
  <2>. SUFFICES ASSUME Typed PROVE BucketTypeOK
    BY DEF IInv
  <2>1. ASSUME NEW e \in DOMAIN bucket
        PROVE  /\ bucket[e].tokens \in 0..(Burst - 1)
               /\ bucket[e].updated \in 0..ktime /\ bucket[e].blocked \in 0..(ktime + block)
    BY <2>1, FieldsOf, BucketAssumption DEF Typed
  <2>2. ASSUME NEW c \in Cpus PROVE cpu[c].now \in 0..ktime /\ cpu[c].tokens \in 0..Burst
    BY <2>2, LocalsOf, BucketAssumption DEF Typed
  <2>. QED  BY <2>1, <2>2, BucketAssumption DEF Typed, BucketTypeOK
<1>. QED  BY <1>1, Inductive, PTL

(* A source whose packets do not overlap is not starved: a packet that     *)
(* finds the bucket empty comes within the time of one token after one     *)
(* that passed, because updated_ns moves only when a token was earned.     *)
THEOREM NobodyStarves == BucketSpec => []NotStarved
BY Inductive, PTL DEF IInv

(* A flood's block lasts exactly its time after the packet that emptied    *)
(* the bucket: nothing shortens it, and the packets it stops do not        *)
(* prolong it (blocked_until_ns).                                          *)
THEOREM BlocksHold == BucketSpec => []BlockHolds
BY Inductive, PTL DEF IInv

----------------------------------------------------------------------------
(* The account of a period: what a limiter lets through, however packets   *)
(* overlap, against what its bursts and its rate make room for.            *)

\* The account of a period: what passed in it, and what may.
Earned(x) == (x * Rate) \div Second
Room(from, to) == Burst * (1 + 2 * overlaps + evictions) + Earned(to - from)
Fits(from, to, n) == Cardinality(Passed(from, to)) + n <= Room(from, to)

\* No packet, finished or in progress, has a later time.
Covers(t) ==
  /\ \A i \in DOMAIN history : history[i].now <= t
  /\ \A c \in Cpus : Busy(c) => cpu[c].now <= t

\* n more packets fit into every period; n more packets and a full bucket fit into every
\* period from here on; n more packets, the tokens of a bucket and what it is yet to earn do.
Slack(n) == \A from, to \in Nat : from <= to => Fits(from, to, n)
Rich(from, n) == \A t \in Nat : Covers(t) /\ from <= t => Fits(from, t, Burst + n)
Flows(from, tokens, updated, n) ==
  \A t \in Nat : Covers(t) /\ from <= t => Fits(from, t, tokens + Earned(t - updated) + n)
Full(n) == \A from \in Nat : Rich(from, n)
Funded(tokens, updated, n) ==
  \A from \in Nat : Flows(from, tokens, updated, n) \/ Rich(from, n)

\* A CPU that is going to find the bucket of element e empty.
Empty(e, now) ==
  bucket[e].tokens = 0 /\ bucket[e].updated <= now /\ (now - bucket[e].updated) * Rate < Second
Dry(c) ==
  \/ cpu[c].step = "lookup" /\ element # NoElement /\ Empty(element, cpu[c].now)
  \/ cpu[c].step \in {"check", "read_updated"} /\ Empty(cpu[c].at, cpu[c].now)
  \/ cpu[c].step = "read_tokens" /\ cpu[c].refill = 0 /\ Empty(cpu[c].at, cpu[c].now)
  \/ cpu[c].step = "write" /\ cpu[c].tokens = 0

\* What the only CPU at work has seen of the bucket, and what it will leave in it.
Refilled(c) ==
  \/ cpu[c].step = "write_updated"
  \/ cpu[c].step = "write" /\ cpu[c].refill > 0
Tokens(c) == IF Refilled(c) THEN cpu[c].tokens ELSE bucket[element].tokens
Updated(c) == IF Refilled(c) THEN cpu[c].now ELSE bucket[element].updated
Follows(c) ==
  \/ cpu[c].step = "lookup"
  \/ /\ cpu[c].at = element
     /\ \/ cpu[c].step \in {"check", "read_updated"}
        \/ /\ cpu[c].step = "read_tokens"
           /\ cpu[c].refill = Earned(cpu[c].now - bucket[element].updated)
        \/ cpu[c].step = "write_updated" /\ cpu[c].refill > 0 /\ cpu[c].tokens > 0
        \/ /\ cpu[c].step = "write" /\ cpu[c].refill > 0 /\ cpu[c].tokens > 0
           /\ bucket[element].updated = cpu[c].now
        \/ /\ cpu[c].step = "write" /\ cpu[c].refill = 0
           /\ cpu[c].tokens = bucket[element].tokens
           /\ (cpu[c].now - bucket[element].updated) * Rate < Second

Parched(n) ==
  /\ element # NoElement /\ \A c \in Cpus : Busy(c) => Dry(c)
  /\ Funded(bucket[element].tokens, bucket[element].updated, n)
Ready(n) == Slack(n) /\ (Full(n) \/ Parched(n))

Fares(c) ==
  \/ element = NoElement /\ cpu[c].step \in {"lookup", "insert"} /\ Full(0)
  \/ element = NoElement /\ Dry(c) /\ Full(0)
  \/ element # NoElement /\ Follows(c) /\ Funded(Tokens(c), Updated(c), 0)
Only(c) == (\A d \in Cpus : Busy(d) <=> d = c) /\ Covers(cpu[c].now) /\ Fares(c)

\* No bucket was refilled after the last packet.
NoneAhead == \A e \in DOMAIN bucket : \A t \in Nat : Covers(t) => bucket[e].updated <= t

\* While packets overlap there is room for all of them, and for a burst unless the bucket is
\* empty for every one of them; a packet on its own is paid for by what it has seen.
RateInv ==
  /\ IsFiniteSet(InProgress) /\ Covers(ktime) /\ NoneAhead /\ Slack(0)
  /\ Ready(Cardinality(InProgress)) \/ \E c \in Cpus : Only(c)

----------------------------------------------------------------------------
(* What fits into a period.                                                *)

LEMMA Earnings ==
  ASSUME NEW x \in Nat, NEW y \in Nat
  PROVE  /\ Earned(x) \in Nat /\ Earned(0) = 0
         /\ Earned(x) + Earned(y) <= Earned(x + y)
         /\ x * Rate < Second => Earned(x) = 0 /\ Earned(x + y) <= Earned(y) + 1
         /\ ~(x * Rate < Second) => Earned(x) > 0
<1>1. Rate \in Nat \ {0} /\ Second \in Nat \ {0} /\ x * Rate \in Nat /\ y * Rate \in Nat
  BY BucketAssumption
<1>2. (x + y) * Rate = x * Rate + y * Rate
  BY <1>1
<1>. DEFINE a == x * Rate
            b == y * Rate
<1>3. a \in Nat /\ b \in Nat
  BY <1>1
<1>4. Earned(x) = a \div Second /\ Earned(y) = b \div Second /\ Earned(x + y) = (a + b) \div Second
  BY <1>2 DEF Earned
<1>5. Earned(0) = 0
  BY <1>1 DEF Earned
<1>. HIDE DEF a, b
<1>6. /\ a \div Second \in Nat
      /\ a \div Second + b \div Second <= (a + b) \div Second
      /\ a < Second => a \div Second = 0 /\ (a + b) \div Second <= b \div Second + 1
      /\ ~(a < Second) => a \div Second > 0
  BY <1>1, <1>3
<1>. QED  BY <1>4, <1>5, <1>6 DEF a

\* Passing later counts for less.
LEMMA EarnedLater ==
  ASSUME NEW x \in Nat, NEW y \in Nat, x <= y
  PROVE  Earned(x) <= Earned(y) /\ Earned(x) + Earned(y - x) <= Earned(y)
<1>1. y - x \in Nat /\ x + (y - x) = y
  OBVIOUS
<1>2. Earned(x) + Earned(y - x) <= Earned(x + (y - x))
  BY <1>1, Earnings
<1>3. Earned(x) \in Nat /\ Earned(y) \in Nat /\ Earned(y - x) \in Nat
  BY <1>1, Earnings
<1>. QED  BY <1>1, <1>2, <1>3

LEMMA PassedFinite ==
  ASSUME Typed, NEW from, NEW to
  PROVE  /\ Passed(from, to) \subseteq 1..Len(history) /\ IsFiniteSet(Passed(from, to))
         /\ Cardinality(Passed(from, to)) \in Nat
<1>1. Passed(from, to) \subseteq 1..Len(history) /\ Len(history) \in Nat
  BY DEF Typed, Passed
<1>2. IsFiniteSet(1..Len(history))
  BY <1>1, FS_Interval
<1>. QED  BY <1>1, <1>2, FS_Subset, FS_CardinalityType

LEMMA RoomIsNat ==
  ASSUME Typed, NEW from \in Nat, NEW to \in Nat, from <= to
  PROVE  Room(from, to) \in Nat
<1>1. Earned(to - from) \in Nat
  BY Earnings
<1>2. Burst * (1 + 2 * overlaps + evictions) \in Nat
  BY BucketAssumption DEF Typed
<1>. QED  BY <1>1, <1>2 DEF Room

\* Fits: fewer packets fit where more do, and what fits up to the latest time so far, with
\* what is earned since, fits later.
LEMMA FitsFewer ==
  ASSUME Typed, NEW from \in Nat, NEW to \in Nat, from <= to,
         NEW n \in Int, NEW k \in Int, k <= n, Fits(from, to, n)
  PROVE  Fits(from, to, k)
BY PassedFinite, RoomIsNat DEF Fits

LEMMA FitsLater ==
  ASSUME Typed, NEW from \in Nat, NEW now \in Nat, NEW t \in Nat, from <= now, now <= t,
         Covers(now), NEW n \in Int, Fits(from, now, n)
  PROVE  Fits(from, t, n + Earned(t - now))
<1>1. Passed(from, t) = Passed(from, now)
  <2>1. ASSUME NEW i \in DOMAIN history PROVE history[i].now <= now /\ history[i].now \in Nat
    BY <2>1, OutcomeOf DEF Covers
  <2>2. ASSUME NEW i \in DOMAIN history PROVE history[i].now \in from..t <=> history[i].now \in from..now
    BY <2>1, <2>2
  <2>. QED  BY <2>2 DEF Passed
<1>2. Earned(now - from) + Earned(t - now) <= Earned(t - from)
  <2>1. now - from \in Nat /\ t - now \in Nat /\ (now - from) + (t - now) = t - from
    OBVIOUS
  <2>. QED  BY <2>1, Earnings
<1>3. Earned(now - from) \in Nat /\ Earned(t - now) \in Nat /\ Earned(t - from) \in Nat
  <2>1. now - from \in Nat /\ t - now \in Nat /\ t - from \in Nat
    OBVIOUS
  <2>. QED  BY <2>1, Earnings
<1>4. Burst * (1 + 2 * overlaps + evictions) \in Nat
  BY BucketAssumption DEF Typed
<1>. DEFINE base == Burst * (1 + 2 * overlaps + evictions)
            passed == Cardinality(Passed(from, now))
<1>5. base \in Nat /\ passed \in Nat
  BY <1>4, PassedFinite
<1>6. passed + n <= base + Earned(now - from)
  BY DEF Fits, Room
<1>7. passed + (n + Earned(t - now)) <= base + Earned(t - from)
  <2>. HIDE DEF base, passed
  <2>. QED  BY <1>2, <1>3, <1>5, <1>6
<1>. QED  BY <1>1, <1>7 DEF Fits, Room

----------------------------------------------------------------------------
(* What the steps do to the account.                                       *)

SameCover == \A t \in Nat : Covers(t)' <=> Covers(t)
SameFits == \A from, to \in Nat, n \in Int : Fits(from, to, n)' <=> Fits(from, to, n)

LEMMA BusyCover ==
  ASSUME Typed, NEW c \in Cpus, Busy(c), NEW t \in Nat, Covers(t)
  PROVE  cpu[c].now <= t
BY DEF Covers

\* A CPU goes on with its packet.
LEMMA GoesOn ==
  ASSUME Typed, NEW c \in Cpus, NEW step, NEW at, NEW tokens, NEW refill, Busy(c),
         CpuMoves(c, step, cpu[c].now, at, tokens, refill), step # "idle",
         UNCHANGED <<history, overlaps, evictions>>
  PROVE  /\ SameCover /\ SameFits
         /\ InProgress' = InProgress /\ \A d \in Cpus : Busy(d)' <=> Busy(d)
<1>1. \A d \in Cpus : (Busy(d)' <=> Busy(d)) /\ cpu'[d].now = cpu[d].now
  <2>. TAKE d \in Cpus
  <2>1. CASE d = c
    BY <2>1 DEF CpuMoves, Busy
  <2>2. CASE d # c
    BY <2>2 DEF CpuMoves, Busy
  <2>. QED  BY <2>1, <2>2
<1>2. InProgress' = InProgress
  BY <1>1 DEF InProgress, Busy
<1>3. SameCover
  BY <1>1 DEF SameCover, Covers
<1>4. SameFits
  BY DEF SameFits, Fits, Passed, Room
<1>. QED  BY <1>1, <1>2, <1>3, <1>4

\* A CPU is done with its packet.
LEMMA Leaves ==
  ASSUME Typed, NEW c \in Cpus, NEW out \in {"pass", "blocked", "empty"}, Busy(c),
         Finishes(c, out)
  PROVE  /\ SameCover
         /\ InProgress' = InProgress \ {c}
         /\ \A d \in Cpus : Busy(d)' <=> Busy(d) /\ d # c
         /\ \A d \in Cpus : d # c => cpu'[d] = cpu[d]
<1>1. \A d \in Cpus : (Busy(d)' <=> Busy(d) /\ d # c) /\ (d # c => cpu'[d] = cpu[d])
  BY DEF Finishes, CpuMoves, Busy
<1>2. InProgress' = InProgress \ {c}
  BY <1>1 DEF InProgress, Busy
<1>3. [now |-> cpu[c].now, out |-> out] \in Outcome
  BY LocalsOf DEF Outcome
<1>4. /\ DOMAIN history' = 1..(Len(history) + 1) /\ DOMAIN history = 1..Len(history)
      /\ Len(history) \in Nat
      /\ \A i \in DOMAIN history : i \in DOMAIN history' /\ history'[i] = history[i]
      /\ history'[Len(history) + 1].now = cpu[c].now
  BY <1>3, Appended DEF Finishes, Typed
<1>5. ASSUME NEW t \in Nat PROVE Covers(t)' <=> Covers(t)
  <2>1. (\A i \in DOMAIN history' : history'[i].now <= t)
          <=> (\A i \in DOMAIN history : history[i].now <= t) /\ cpu[c].now <= t
    BY <1>4
  <2>2. (\A d \in Cpus : Busy(d)' => cpu'[d].now <= t) /\ cpu[c].now <= t
          <=> (\A d \in Cpus : Busy(d) => cpu[d].now <= t)
    BY <1>1
  <2>. QED  BY <2>1, <2>2 DEF Covers
<1>. QED  BY <1>1, <1>2, <1>5 DEF SameCover

LEMMA PassedNext ==
  ASSUME Typed, NEW c \in Cpus, NEW out \in {"pass", "blocked", "empty"},
         Finishes(c, out), NEW from \in Nat, NEW to \in Nat
  PROVE  /\ Len(history) + 1 \notin Passed(from, to)
         /\ Passed(from, to)' = IF out = "pass" /\ cpu[c].now \in from..to
                                THEN Passed(from, to) \cup {Len(history) + 1}
                                ELSE Passed(from, to)
<1>3. [now |-> cpu[c].now, out |-> out] \in Outcome
  BY LocalsOf DEF Outcome
<1>4. /\ DOMAIN history' = 1..(Len(history) + 1) /\ DOMAIN history = 1..Len(history)
      /\ Len(history) \in Nat
      /\ \A i \in DOMAIN history : i \in DOMAIN history' /\ history'[i] = history[i]
      /\ history'[Len(history) + 1] = [now |-> cpu[c].now, out |-> out]
  BY <1>3, Appended DEF Finishes, Typed
<1>5. Len(history) + 1 \notin DOMAIN history
  BY <1>4
<1>6. \A i : i \in Passed(from, to)' <=>
        \/ i \in Passed(from, to)
        \/ i = Len(history) + 1 /\ out = "pass" /\ cpu[c].now \in from..to
  <2>. TAKE i
  <2>1. CASE i \in DOMAIN history
    BY <1>4, <1>5, <2>1 DEF Passed
  <2>2. CASE i = Len(history) + 1
    BY <1>4, <1>5, <2>2 DEF Passed
  <2>3. CASE i \notin DOMAIN history /\ i # Len(history) + 1
    BY <1>4, <2>3 DEF Passed
  <2>. QED  BY <2>1, <2>2, <2>3
<1>. QED  BY <1>5, <1>6 DEF Passed

\* A packet that does not pass costs nothing.
LEMMA Refused ==
  ASSUME Typed, NEW c \in Cpus, NEW out \in {"blocked", "empty"},
         Finishes(c, out), UNCHANGED <<overlaps, evictions>>
  PROVE  SameFits
<1>. SUFFICES ASSUME NEW from \in Nat, NEW to \in Nat, NEW n \in Int
             PROVE  Fits(from, to, n)' <=> Fits(from, to, n)
  BY DEF SameFits
<1>1. Passed(from, to)' = Passed(from, to)
  BY PassedNext
<1>. QED  BY <1>1 DEF Fits, Room

\* One that passes costs one in the periods that hold its time.
LEMMA Spent ==
  ASSUME Typed, NEW c \in Cpus, Finishes(c, "pass"), UNCHANGED <<overlaps, evictions>>,
         NEW from \in Nat, NEW to \in Nat, from <= to, NEW n \in Int
  PROVE  /\ Fits(from, to, n + 1) => Fits(from, to, n)'
         /\ cpu[c].now \notin from..to => (Fits(from, to, n)' <=> Fits(from, to, n))
<1>1. CASE cpu[c].now \notin from..to
  <2>1. Passed(from, to)' = Passed(from, to)
    BY <1>1, PassedNext
  <2>2. Fits(from, to, n)' <=> Fits(from, to, n)
    BY <2>1 DEF Fits, Room
  <2>. QED  BY <2>2, FitsFewer
<1>2. CASE cpu[c].now \in from..to
  <2>1. /\ Passed(from, to)' = Passed(from, to) \cup {Len(history) + 1}
        /\ Len(history) + 1 \notin Passed(from, to)
    BY <1>2, PassedNext
  <2>2. Cardinality(Passed(from, to)') = Cardinality(Passed(from, to)) + 1
    BY <2>1, PassedFinite, FS_AddElement
  <2>3. Cardinality(Passed(from, to)) \in Nat /\ Room(from, to) \in Nat
    BY PassedFinite, RoomIsNat
  <2>4. Room(from, to)' = Room(from, to)
    BY DEF Room
  <2>. QED  BY <1>2, <2>2, <2>3, <2>4 DEF Fits
<1>. QED  BY <1>1, <1>2

\* An eviction makes room for a burst, a packet that overlaps another one for two.
LEMMA Gained ==
  ASSUME Typed, history' = history, NEW k \in Nat,
         overlaps' \in Nat, evictions' \in Nat,
         2 * overlaps' + evictions' = 2 * overlaps + evictions + k,
         NEW from \in Nat, NEW to \in Nat, from <= to, NEW n \in Int
  PROVE  Fits(from, to, n + k * Burst)' <=> Fits(from, to, n)
<1>1. Passed(from, to)' = Passed(from, to)
  BY DEF Passed
<1>2. Room(from, to)' = Room(from, to) + k * Burst
  <2>. DEFINE a == 2 * overlaps + evictions
              b == 2 * overlaps' + evictions'
  <2>0. overlaps \in Nat /\ evictions \in Nat /\ k \in Nat /\ Burst \in Nat
    BY BucketAssumption DEF Typed
  <2>1. a \in Nat /\ b = a + k /\ b \in Nat
    <3>0. \A x, y \in Nat : 2 * x + y \in Nat
      OBVIOUS
    <3>1. a \in Nat /\ b \in Nat
      BY <2>0, <3>0
    <3>2. b = a + k
      BY <2>0
    <3>. QED  BY <3>1, <3>2
  <2>2. 1 + 2 * overlaps + evictions = 1 + a /\ 1 + 2 * overlaps' + evictions' = 1 + b
    BY <2>0
  <2>3. Earned(to - from) \in Nat
    <3>1. to - from \in Nat
      OBVIOUS
    <3>. QED  BY <3>1, Earnings
  <2>. HIDE DEF a, b
  <2>4. Burst * (1 + b) = Burst * (1 + a) + k * Burst
    BY <2>0, <2>1
  <2>5. Burst * (1 + a) \in Nat /\ k * Burst \in Nat
    BY <2>0, <2>1
  <2>. QED  BY <2>2, <2>3, <2>4, <2>5 DEF Room
<1>3. Cardinality(Passed(from, to)) \in Nat /\ Room(from, to) \in Nat
  BY PassedFinite, RoomIsNat
<1>4. k * Burst \in Nat
  BY BucketAssumption
<1>. QED  BY <1>1, <1>2, <1>3, <1>4 DEF Fits

----------------------------------------------------------------------------
(* The account, as a whole.                                                *)

LEMMA EarnedInt == \A x \in Int : Earned(x) \in Int
BY BucketAssumption DEF Earned

LEMMA FewerPackets ==
  ASSUME Typed, NEW n \in Nat, NEW k \in Nat, k <= n, NEW tokens \in Nat, NEW updated \in Int
  PROVE  /\ Slack(n) => Slack(k)
         /\ Full(n) => Full(k)
         /\ Full(n) => Funded(tokens, updated, n)
         /\ Funded(tokens, updated, n) => Funded(tokens, updated, k)
         /\ \A from \in Nat : Rich(from, n) => Rich(from, k)
<1>0. Burst \in Nat
  BY BucketAssumption
<1>1. Slack(n) => Slack(k)
  BY FitsFewer DEF Slack
<1>2. ASSUME NEW from \in Nat, Rich(from, n) PROVE Rich(from, k)
  <2>. SUFFICES ASSUME NEW t \in Nat, Covers(t), from <= t PROVE Fits(from, t, Burst + k)
    BY DEF Rich
  <2>1. Fits(from, t, Burst + n)
    BY <1>2 DEF Rich
  <2>2. Burst + n \in Int /\ Burst + k \in Int /\ Burst + k <= Burst + n
    BY <1>0
  <2>. QED  BY <2>1, <2>2, FitsFewer
<1>3. ASSUME NEW from \in Nat, Flows(from, tokens, updated, n) PROVE Flows(from, tokens, updated, k)
  <2>. SUFFICES ASSUME NEW t \in Nat, Covers(t), from <= t
               PROVE  Fits(from, t, tokens + Earned(t - updated) + k)
    BY DEF Flows
  <2>1. Fits(from, t, tokens + Earned(t - updated) + n)
    BY <1>3 DEF Flows
  <2>2. Earned(t - updated) \in Int
    BY EarnedInt
  <2>3. /\ tokens + Earned(t - updated) + n \in Int /\ tokens + Earned(t - updated) + k \in Int
        /\ tokens + Earned(t - updated) + k <= tokens + Earned(t - updated) + n
    BY <2>2
  <2>. QED  BY <2>1, <2>3, FitsFewer
<1>. QED  BY <1>1, <1>2, <1>3 DEF Full, Funded

LEMMA AccountKept ==
  ASSUME SameCover, SameFits, NEW n \in Nat, NEW tokens \in Nat, NEW updated \in Int
  PROVE  /\ Slack(n)' <=> Slack(n)
         /\ Full(n)' <=> Full(n)
         /\ Funded(tokens, updated, n)' <=> Funded(tokens, updated, n)
<1>1. Slack(n)' <=> Slack(n)
  BY DEF Slack, SameFits
<1>2. ASSUME NEW from \in Nat PROVE Rich(from, n)' <=> Rich(from, n)
  <2>1. Burst + n \in Int
    BY BucketAssumption
  <2>. QED  BY <2>1 DEF Rich, SameFits, SameCover
<1>3. ASSUME NEW from \in Nat PROVE Flows(from, tokens, updated, n)' <=> Flows(from, tokens, updated, n)
  <2>1. ASSUME NEW t \in Nat
        PROVE  Fits(from, t, tokens + Earned(t - updated) + n)'
                 <=> Fits(from, t, tokens + Earned(t - updated) + n)
    <3>1. Earned(t - updated) \in Int
      BY EarnedInt
    <3>2. tokens + Earned(t - updated) + n \in Int
      BY <3>1
    <3>. DEFINE k == tokens + Earned(t - updated) + n
    <3>3. k \in Int /\ k' = k
      BY <3>2 DEF Earned
    <3>. HIDE DEF k
    <3>4. Fits(from, t, k)' <=> Fits(from, t, k)
      BY <3>3 DEF SameFits
    <3>. QED  BY <3>4 DEF k, Earned
  <2>. QED  BY <2>1 DEF Flows, SameCover
<1>. QED  BY <1>1, <1>2, <1>3 DEF Full, Funded

----------------------------------------------------------------------------
(* The rate is bounded: every step keeps the account.                      *)

SameFunds ==
  /\ element' = element /\ DOMAIN bucket' = DOMAIN bucket
  /\ \A e \in DOMAIN bucket :
       bucket'[e].tokens = bucket[e].tokens /\ bucket'[e].updated = bucket[e].updated

LEMMA DryStays ==
  ASSUME Typed, SameFunds, NEW c \in Cpus, cpu'[c] = cpu[c], Dry(c)
  PROVE  Dry(c)'
<1>1. cpu[c].step \in Holding => cpu[c].at \in DOMAIN bucket
  BY DEF Typed
<1>2. element # NoElement => element \in DOMAIN bucket
  BY DEF Typed
<1>. QED  BY <1>1, <1>2 DEF Dry, Empty, SameFunds, Holding

LEMMA CountOfCpus ==
  ASSUME IsFiniteSet(InProgress)
  PROVE  Cardinality(InProgress) \in Nat
BY FS_CardinalityType

\* A CPU goes on and leaves the funds as they are: what is owed to it may change only if it
\* is the only one at work.
LEMMA GoesOnRate ==
  ASSUME Typed, RateInv, NEW c \in Cpus, Busy(c), SameCover, SameFits, SameFunds,
         InProgress' = InProgress, \A d \in Cpus : Busy(d)' <=> Busy(d), ktime' = ktime,
         cpu'[c].now = cpu[c].now, \A d \in Cpus : d # c => cpu'[d] = cpu[d],
         Dry(c) => Dry(c)', Only(c) => Fares(c)'
  PROVE  RateInv'
<1>. DEFINE m == Cardinality(InProgress)
<1>1. m \in Nat /\ m' = m /\ IsFiniteSet(InProgress)'
  BY CountOfCpus DEF RateInv
<1>2. ktime \in Nat
  BY DEF Typed
<1>3. Covers(ktime)'
  BY <1>2 DEF RateInv, SameCover
<1>4. NoneAhead'
  BY DEF RateInv, NoneAhead, SameFunds, SameCover
<1>5. Slack(0)'
  BY AccountKept DEF RateInv
<1>. HIDE DEF m
<1>6. ASSUME Ready(m) PROVE Ready(m)'
  <2>1. Slack(m)' /\ (Full(m) => Full(m)')
    BY <1>1, <1>6, AccountKept DEF Ready
  <2>2. ASSUME Parched(m) PROVE Parched(m)'
    <3>1. element \in DOMAIN bucket
      BY <2>2 DEF Parched, Typed
    <3>2. bucket[element].tokens \in Nat /\ bucket[element].updated \in Int
      BY <3>1, FieldsOf
    <3>3. Funded(bucket[element].tokens, bucket[element].updated, m)'
      <4>1. /\ bucket'[element'].tokens = bucket[element].tokens
            /\ bucket'[element'].updated = bucket[element].updated
        BY <3>1 DEF SameFunds
      <4>2. PICK tokens \in Nat, updated \in Int :
              tokens = bucket[element].tokens /\ updated = bucket[element].updated
        BY <3>2
      <4>3. Funded(tokens, updated, m)'
        BY <1>1, <2>2, <4>2, AccountKept DEF Parched
      <4>. QED  BY <1>1, <4>1, <4>2, <4>3
    <3>4. \A d \in Cpus : Busy(d)' => Dry(d)'
      BY <2>2, DryStays DEF Parched
    <3>. QED  BY <2>2, <3>3, <3>4 DEF Parched, SameFunds
  <2>. QED  BY <1>6, <2>1, <2>2 DEF Ready
<1>7. ASSUME NEW d \in Cpus, Only(d) PROVE Only(d)'
  <2>1. d = c
    BY <1>7 DEF Only
  <2>2. Covers(cpu[c].now)'
    <3>1. cpu[c].now \in Nat
      BY LocalsOf
    <3>2. PICK now \in Nat : now = cpu[c].now
      BY <3>1
    <3>3. Covers(now)'
      BY <1>7, <2>1, <3>2 DEF Only, SameCover
    <3>. QED  BY <3>2, <3>3
  <2>. QED  BY <1>7, <2>1, <2>2 DEF Only
<1>. QED  BY <1>1, <1>3, <1>4, <1>5, <1>6, <1>7 DEF RateInv, m

LEMMA HoldsElement ==
  ASSUME Typed, NEW c \in Cpus
  PROVE  /\ element # NoElement =>
              /\ element \in DOMAIN bucket
              /\ bucket[element].tokens \in Nat /\ bucket[element].updated \in Nat
              /\ bucket[element].tokens < Burst
         /\ cpu[c].step \in Holding =>
              /\ cpu[c].at \in DOMAIN bucket
              /\ bucket[cpu[c].at].tokens \in Nat /\ bucket[cpu[c].at].updated \in Nat
BY FieldsOf DEF Typed

\* The only CPU at work goes on to a step that leaves it the same funds.
LEMMA FaresOn ==
  ASSUME Typed, SameCover, SameFits, NEW c \in Cpus, SameFunds,
         element # NoElement, Funded(Tokens(c), Updated(c), 0), Follows(c)',
         Tokens(c)' = Tokens(c), Updated(c)' = Updated(c)
  PROVE  Fares(c)'
<1>1. Tokens(c) \in Nat /\ Updated(c) \in Int
  BY HoldsElement, LocalsOf DEF Tokens, Updated
<1>2. PICK tokens \in Nat, updated \in Int : tokens = Tokens(c) /\ updated = Updated(c)
  BY <1>1
<1>3. Funded(tokens, updated, 0)'
  BY <1>2, AccountKept
<1>4. Funded(Tokens(c), Updated(c), 0)'
  BY <1>2, <1>3
<1>. QED  BY <1>4 DEF Fares, SameFunds

LEMMA LookupRate ==
  ASSUME Typed, RateInv, NEW c \in Cpus, Lookup(c)
  PROVE  RateInv'
<1>. DEFINE step == IF element = NoElement THEN "insert" ELSE "check"
<1>1. /\ cpu[c].step = "lookup"
      /\ CpuMoves(c, step, cpu[c].now, element, cpu[c].tokens, cpu[c].refill)
      /\ SameMap /\ UNCHANGED <<ktime, history, overlaps, evictions>>
  BY LookupEffect
<1>2. Busy(c) /\ step # "idle"
  BY <1>1 DEF Busy
<1>3. /\ SameCover /\ SameFits
      /\ InProgress' = InProgress /\ \A d \in Cpus : Busy(d)' <=> Busy(d)
  BY <1>1, <1>2, GoesOn
<1>4. SameFunds
  BY <1>1 DEF SameMap, SameFunds
<1>5. ASSUME Dry(c) PROVE Dry(c)'
  BY <1>1, <1>5 DEF Dry, Empty, CpuMoves, SameMap
<1>6. ASSUME Only(c) PROVE Fares(c)'
  <2>1. CASE element = NoElement
    <3>1. Full(0)
      BY <1>6, <2>1 DEF Only, Fares
    <3>2. Full(0)'
      BY <1>3, <3>1, AccountKept
    <3>. QED  BY <1>1, <2>1, <3>2 DEF Fares, CpuMoves, SameMap
  <2>2. CASE element # NoElement
    <3>1. Funded(Tokens(c), Updated(c), 0)
      BY <1>6, <2>2 DEF Only, Fares
    <3>2. Follows(c)'
      BY <1>1, <2>2 DEF Follows, CpuMoves, SameMap
    <3>3. Tokens(c)' = Tokens(c) /\ Updated(c)' = Updated(c)
      BY <1>1, <2>2 DEF Tokens, Updated, Refilled, CpuMoves, SameMap
    <3>. QED  BY <1>3, <1>4, <2>2, <3>1, <3>2, <3>3, FaresOn
  <2>. QED  BY <2>1, <2>2
<1>. QED  BY <1>1, <1>2, <1>3, <1>4, <1>5, <1>6, GoesOnRate DEF CpuMoves

LEMMA CheckPassesRate ==
  ASSUME Typed, RateInv, NEW c \in Cpus, cpu[c].step = "check", SameMap,
         CpuMoves(c, "read_updated", cpu[c].now, cpu[c].at, cpu[c].tokens, cpu[c].refill),
         UNCHANGED <<ktime, history, overlaps, evictions>>
  PROVE  RateInv'
<1>2. Busy(c) /\ "read_updated" # "idle"
  BY DEF Busy
<1>3. /\ SameCover /\ SameFits
      /\ InProgress' = InProgress /\ \A d \in Cpus : Busy(d)' <=> Busy(d)
  BY <1>2, GoesOn
<1>4. SameFunds
  BY DEF SameMap, SameFunds
<1>5. ASSUME Dry(c) PROVE Dry(c)'
  BY <1>5 DEF Dry, Empty, CpuMoves, SameMap
<1>6. ASSUME Only(c) PROVE Fares(c)'
  <2>1. CASE element = NoElement
    <3>1. Full(0) /\ Dry(c)
      BY <1>6, <2>1 DEF Only, Fares
    <3>2. Full(0)'
      BY <1>3, <3>1, AccountKept
    <3>. QED  BY <1>5, <2>1, <3>1, <3>2 DEF Fares, SameMap
  <2>2. CASE element # NoElement
    <3>1. Funded(Tokens(c), Updated(c), 0) /\ cpu[c].at = element
      BY <1>6, <2>2 DEF Only, Fares, Follows
    <3>2. Follows(c)'
      BY <3>1 DEF Follows, CpuMoves, SameMap
    <3>3. Tokens(c)' = Tokens(c) /\ Updated(c)' = Updated(c)
      BY <2>2 DEF Tokens, Updated, Refilled, CpuMoves, SameMap
    <3>. QED  BY <1>3, <1>4, <2>2, <3>1, <3>2, <3>3, FaresOn
  <2>. QED  BY <2>1, <2>2
<1>. QED  BY <1>2, <1>3, <1>4, <1>5, <1>6, GoesOnRate DEF CpuMoves

\* The refill of a bucket whose time is not ahead is what it has earned.
LEMMA RefillIsEarned ==
  ASSUME Typed, NEW c \in Cpus, NEW updated \in Nat, updated <= cpu[c].now
  PROVE  ((((cpu[c].now - updated) % Modulus) * Rate) % Modulus) \div Second
           = Earned(cpu[c].now - updated)
<1>. DEFINE t == cpu[c].now - updated
<1>1. t \in Nat /\ t <= MaxTicks
  BY LocalsOf, BucketAssumption DEF Typed
<1>2. t % Modulus = t /\ (t * Rate) % Modulus = t * Rate
  BY <1>1, NoWrap
<1>. QED  BY <1>2 DEF Earned

LEMMA ReadUpdatedRate ==
  ASSUME Typed, RateInv, NEW c \in Cpus, ReadUpdated(c)
  PROVE  RateInv'
<1>. DEFINE refill == ((((cpu[c].now - Bucket(c).updated) % Modulus) * Rate) % Modulus) \div Second
<1>1. /\ cpu[c].step = "read_updated"
      /\ CpuMoves(c, "read_tokens", cpu[c].now, cpu[c].at, cpu[c].tokens, refill)
      /\ SameMap /\ UNCHANGED <<ktime, history, overlaps, evictions>>
  BY ReadUpdatedEffect
<1>2. Busy(c) /\ "read_tokens" # "idle" /\ cpu[c].at \in DOMAIN bucket
      /\ Bucket(c).updated \in Nat /\ cpu[c].now \in Nat
  BY <1>1, HoldsElement, LocalsOf DEF Busy, Holding, Bucket
<1>0. Bucket(c).updated <= cpu[c].now => refill = Earned(cpu[c].now - Bucket(c).updated)
  BY <1>2, RefillIsEarned
<1>. HIDE DEF refill
<1>3. /\ SameCover /\ SameFits
      /\ InProgress' = InProgress /\ \A d \in Cpus : Busy(d)' <=> Busy(d)
  BY <1>1, <1>2, GoesOn
<1>4. SameFunds
  BY <1>1 DEF SameMap, SameFunds
<1>5. ASSUME Dry(c) PROVE Dry(c)'
  <2>1. Empty(cpu[c].at, cpu[c].now)
    BY <1>1, <1>5 DEF Dry
  <2>2. Earned(cpu[c].now - Bucket(c).updated) = 0
    <3>1. cpu[c].now - Bucket(c).updated \in Nat
      BY <1>2, <2>1 DEF Empty, Bucket
    <3>. QED  BY <2>1, <3>1, Earnings DEF Empty, Bucket
  <2>3. refill = 0
    BY <1>0, <2>1, <2>2 DEF Empty, Bucket
  <2>4. Empty(cpu[c].at, cpu[c].now)'
    BY <1>1, <2>1 DEF Empty, SameMap, CpuMoves
  <2>. QED  BY <1>1, <2>3, <2>4 DEF Dry, CpuMoves
<1>6. ASSUME Only(c) PROVE Fares(c)'
  <2>1. CASE element = NoElement
    <3>1. Full(0) /\ Dry(c)
      BY <1>1, <1>6, <2>1 DEF Only, Fares
    <3>2. Full(0)'
      BY <1>3, <3>1, AccountKept
    <3>. QED  BY <1>1, <1>5, <2>1, <3>1, <3>2 DEF Fares, SameMap
  <2>2. CASE element # NoElement
    <3>1. Funded(Tokens(c), Updated(c), 0) /\ cpu[c].at = element
      BY <1>1, <1>6, <2>2 DEF Only, Fares, Follows
    <3>2. bucket[element].updated <= cpu[c].now
      BY <1>2, <1>6, <3>1 DEF RateInv, NoneAhead, Only
    <3>3. refill = Earned(cpu[c].now - bucket[element].updated)
      BY <1>0, <3>1, <3>2 DEF Bucket
    <3>4. Follows(c)'
      <4>1. /\ cpu'[c].step = "read_tokens" /\ cpu'[c].at = element'
            /\ cpu'[c].refill = Earned(cpu'[c].now - bucket'[element'].updated)
        BY <1>1, <3>1, <3>3 DEF CpuMoves, SameMap
      <4>. QED  BY <4>1 DEF Follows, Earned
    <3>5. Tokens(c)' = Tokens(c) /\ Updated(c)' = Updated(c)
      BY <1>1, <2>2 DEF Tokens, Updated, Refilled, CpuMoves, SameMap
    <3>. QED  BY <1>3, <1>4, <2>2, <3>1, <3>4, <3>5, FaresOn
  <2>. QED  BY <2>1, <2>2
<1>. QED  BY <1>1, <1>2, <1>3, <1>4, <1>5, <1>6, GoesOnRate DEF CpuMoves

\* A refill that is due keeps the funds: what was yet to be earned is in the bucket.
LEMMA Refund ==
  ASSUME Typed, NEW now \in Nat, \A t \in Nat : Covers(t) => now <= t,
         NEW had \in Nat, NEW updated \in Nat, updated <= now, NEW tokens \in Nat,
         tokens <= had + Earned(now - updated), Funded(had, updated, 0)
  PROVE  Funded(tokens, now, 0)
<1>. SUFFICES ASSUME NEW from \in Nat, Flows(from, had, updated, 0)
             PROVE  Flows(from, tokens, now, 0)
  BY DEF Funded
<1>. SUFFICES ASSUME NEW t \in Nat, Covers(t), from <= t
             PROVE  Fits(from, t, tokens + Earned(t - now) + 0)
  BY DEF Flows
<1>1. Fits(from, t, had + Earned(t - updated) + 0)
  BY DEF Flows
<1>2. t - now \in Nat /\ now - updated \in Nat /\ (now - updated) + (t - now) = t - updated
  OBVIOUS
<1>3. /\ Earned(t - now) \in Nat /\ Earned(now - updated) \in Nat
      /\ Earned(now - updated) + Earned(t - now) <= Earned(t - updated)
  BY <1>2, Earnings
<1>4. Earned(t - updated) \in Int
  BY EarnedInt
<1>5. /\ had + Earned(t - updated) + 0 \in Int /\ tokens + Earned(t - now) + 0 \in Int
      /\ tokens + Earned(t - now) + 0 <= had + Earned(t - updated) + 0
  BY <1>3, <1>4
<1>. QED  BY <1>1, <1>5, FitsFewer

LEMMA ReadTokensValue ==
  ASSUME Typed, NEW c \in Cpus, ReadTokens(c)
  PROVE  cpu'[c].tokens = IF cpu[c].refill > 0
                          THEN Least(Bucket(c).tokens + cpu[c].refill, Burst)
                          ELSE Bucket(c).tokens
BY DEF ReadTokens, Typed, CpuState

LEMMA ReadTokensRate ==
  ASSUME Typed, RateInv, NEW c \in Cpus, ReadTokens(c)
  PROVE  RateInv'
<1>. DEFINE step == IF cpu[c].refill > 0 THEN "write_updated" ELSE "write"
<1>1. PICK tokens \in 0..Burst :
        /\ CpuMoves(c, step, cpu[c].now, cpu[c].at, tokens, cpu[c].refill)
        /\ cpu[c].refill > 0 => tokens > 0
  BY ReadTokensEffect
<1>2. /\ cpu[c].step = "read_tokens" /\ SameMap
      /\ UNCHANGED <<ktime, history, overlaps, evictions>>
  BY ReadTokensEffect
<1>3. /\ Busy(c) /\ step # "idle" /\ cpu[c].at \in DOMAIN bucket
      /\ Bucket(c).tokens \in Nat /\ cpu[c].now \in Nat /\ cpu[c].refill \in Nat
  BY <1>2, HoldsElement, LocalsOf DEF Busy, Holding, Bucket
<1>4. /\ cpu[c].refill > 0 => tokens <= Bucket(c).tokens + cpu[c].refill
      /\ cpu[c].refill = 0 => tokens = Bucket(c).tokens
      /\ tokens \in Nat
  <2>1. tokens = cpu'[c].tokens
    BY <1>1 DEF CpuMoves
  <2>2. Burst \in Nat
    BY BucketAssumption
  <2>3. \A a, b \in Nat : Least(a, b) <= a
    BY DEF Least
  <2>. QED  BY <1>3, <2>1, <2>2, <2>3, ReadTokensValue
<1>5. /\ SameCover /\ SameFits
      /\ InProgress' = InProgress /\ \A d \in Cpus : Busy(d)' <=> Busy(d)
  BY <1>1, <1>2, <1>3, GoesOn
<1>6. SameFunds
  BY <1>2 DEF SameMap, SameFunds
<1>7. ASSUME Dry(c) PROVE Dry(c)'
  <2>1. cpu[c].refill = 0 /\ Bucket(c).tokens = 0
    BY <1>2, <1>7 DEF Dry, Empty, Bucket
  <2>2. cpu'[c].step = "write" /\ cpu'[c].tokens = 0
    BY <1>1, <1>4, <2>1 DEF CpuMoves
  <2>. QED  BY <2>2 DEF Dry
<1>8. ASSUME Only(c) PROVE Fares(c)'
  <2>1. CASE element = NoElement
    <3>1. Full(0) /\ Dry(c)
      BY <1>2, <1>8, <2>1 DEF Only, Fares
    <3>2. Full(0)'
      BY <1>5, <3>1, AccountKept
    <3>. QED  BY <1>2, <1>7, <2>1, <3>1, <3>2 DEF Fares, SameMap
  <2>2. CASE element # NoElement
    <3>1. /\ Funded(bucket[element].tokens, bucket[element].updated, 0) /\ cpu[c].at = element
          /\ cpu[c].refill = Earned(cpu[c].now - bucket[element].updated)
      BY <1>2, <1>8, <2>2 DEF Only, Fares, Follows, Tokens, Updated, Refilled
    <3>2. /\ bucket[element].updated <= cpu[c].now
          /\ bucket[element].tokens \in Nat /\ bucket[element].updated \in Nat
      BY <1>3, <1>8, <3>1, HoldsElement, <2>2 DEF RateInv, NoneAhead, Only
    <3>3. CASE cpu[c].refill > 0
      <4>1. Follows(c)'
        BY <1>1, <1>2, <3>1, <3>3 DEF Follows, CpuMoves, SameMap
      <4>2. Tokens(c)' = tokens /\ Updated(c)' = cpu[c].now
        BY <1>1, <1>2, <3>3 DEF Tokens, Updated, Refilled, CpuMoves
      <4>3. \A t \in Nat : Covers(t) => cpu[c].now <= t
        BY <1>3, BusyCover
      <4>4. tokens <= bucket[element].tokens + Earned(cpu[c].now - bucket[element].updated)
        BY <1>4, <3>1, <3>3 DEF Bucket
      <4>5. Funded(tokens, cpu[c].now, 0)
        BY <1>3, <1>4, <3>1, <3>2, <4>3, <4>4, Refund
      <4>6. PICK now \in Nat : now = cpu[c].now
        BY <1>3
      <4>7. Funded(tokens, now, 0)'
        BY <1>4, <1>5, <4>5, <4>6, AccountKept
      <4>. QED  BY <1>2, <2>2, <4>1, <4>2, <4>6, <4>7 DEF Fares, SameMap
    <3>4. CASE cpu[c].refill = 0
      <4>1. (cpu[c].now - bucket[element].updated) * Rate < Second
        <5>1. cpu[c].now - bucket[element].updated \in Nat
          BY <1>3, <3>2
        <5>. QED  BY <3>1, <3>4, <5>1, Earnings
      <4>2. Follows(c)'
        BY <1>1, <1>2, <1>4, <3>1, <3>4, <4>1 DEF Follows, CpuMoves, SameMap, Bucket
      <4>3. Tokens(c)' = Tokens(c) /\ Updated(c)' = Updated(c)
        BY <1>1, <1>2, <3>4 DEF Tokens, Updated, Refilled, CpuMoves, SameMap
      <4>4. Funded(Tokens(c), Updated(c), 0)
        BY <1>8, <2>2 DEF Only, Fares
      <4>. QED  BY <1>5, <1>6, <2>2, <4>2, <4>3, <4>4, FaresOn
    <3>. QED  BY <1>3, <3>3, <3>4
  <2>. QED  BY <2>1, <2>2
<1>. QED  BY <1>1, <1>2, <1>3, <1>5, <1>6, <1>7, <1>8, GoesOnRate DEF CpuMoves

LEMMA WriteUpdatedRate ==
  ASSUME Typed, RateInv, NEW c \in Cpus, WriteUpdated(c)
  PROVE  RateInv'
<1>1. /\ cpu[c].step = "write_updated" /\ cpu[c].at \in DOMAIN bucket
      /\ CpuMoves(c, "write", cpu[c].now, cpu[c].at, cpu[c].tokens, cpu[c].refill)
      /\ BucketWrites(cpu[c].at, Bucket(c).tokens, cpu[c].now, Bucket(c).blocked)
      /\ UNCHANGED <<ktime, block, element, next, history, overlaps, evictions>>
  BY WriteUpdatedEffect
<1>2. Busy(c) /\ "write" # "idle" /\ ~Dry(c) /\ cpu[c].now \in Nat /\ ktime \in Nat
  BY <1>1, LocalsOf DEF Busy, Dry, Typed
<1>3. /\ SameCover /\ SameFits
      /\ InProgress' = InProgress /\ \A d \in Cpus : Busy(d)' <=> Busy(d)
  BY <1>1, <1>2, GoesOn
<1>. DEFINE m == Cardinality(InProgress)
<1>4. m \in Nat /\ m' = m /\ IsFiniteSet(InProgress)'
  BY <1>3, CountOfCpus DEF RateInv
<1>5. Covers(ktime)'
  BY <1>1, <1>2, <1>3 DEF RateInv, SameCover
<1>6. NoneAhead'
  <2>1. ASSUME NEW e \in DOMAIN bucket, NEW t \in Nat, Covers(t) PROVE bucket'[e].updated <= t
    <3>1. CASE e = cpu[c].at
      BY <1>1, <1>2, <2>1, <3>1, BusyCover DEF BucketWrites
    <3>2. CASE e # cpu[c].at
      BY <1>1, <2>1, <3>2 DEF BucketWrites, RateInv, NoneAhead
    <3>. QED  BY <3>1, <3>2
  <2>. QED  BY <1>1, <1>3, <2>1 DEF NoneAhead, SameCover, BucketWrites
<1>7. Slack(0)'
  BY <1>3, AccountKept DEF RateInv
<1>. HIDE DEF m
<1>8. ASSUME Ready(m) PROVE Ready(m)'
  BY <1>2, <1>3, <1>4, <1>8, AccountKept DEF Ready, Parched
<1>9. ASSUME NEW d \in Cpus, Only(d) PROVE Only(d)'
  <2>1. d = c
    BY <1>2, <1>9 DEF Only
  <2>2. element # NoElement /\ Follows(c) /\ Funded(Tokens(c), Updated(c), 0)
    BY <1>1, <1>2, <1>9, <2>1 DEF Only, Fares
  <2>3. cpu[c].at = element /\ cpu[c].refill > 0 /\ cpu[c].tokens > 0
    BY <1>1, <2>2 DEF Follows
  <2>4. Follows(c)'
    BY <1>1, <2>3 DEF Follows, CpuMoves, BucketWrites
  <2>5. /\ Tokens(c) = cpu[c].tokens /\ Updated(c) = cpu[c].now
        /\ Tokens(c)' = cpu[c].tokens /\ Updated(c)' = cpu[c].now
    BY <1>1, <2>3 DEF Tokens, Updated, Refilled, CpuMoves
  <2>6. PICK tokens \in Nat, now \in Nat : tokens = cpu[c].tokens /\ now = cpu[c].now
    BY LocalsOf
  <2>7. Funded(tokens, now, 0)'
    BY <1>3, <2>2, <2>5, <2>6, AccountKept
  <2>8. Fares(c)'
    BY <1>1, <2>2, <2>4, <2>5, <2>6, <2>7 DEF Fares
  <2>9. Covers(cpu[c].now)'
    <3>1. Covers(now)'
      BY <1>3, <1>9, <2>1, <2>6 DEF Only, SameCover
    <3>2. cpu'[c].now = now
      BY <1>1, <2>6 DEF CpuMoves
    <3>. QED  BY <3>1, <3>2
  <2>. QED  BY <1>3, <1>9, <2>1, <2>8, <2>9 DEF Only
<1>. QED  BY <1>4, <1>5, <1>6, <1>7, <1>8, <1>9 DEF RateInv, m

\* The clock moves, or nothing does.
LEMMA TickRate ==
  ASSUME Typed, RateInv, BucketTick \/ UNCHANGED bucketVars
  PROVE  RateInv'
<1>1. /\ ktime \in Nat /\ ktime' \in Nat /\ ktime <= ktime'
      /\ UNCHANGED <<block, element, next, bucket, cpu, history, overlaps, evictions>>
  BY DEF BucketTick, bucketVars, Typed
<1>2. SameCover /\ SameFits /\ InProgress' = InProgress
  BY <1>1 DEF SameCover, Covers, Busy, SameFits, Fits, Passed, Room, InProgress
<1>3. Covers(ktime)'
  <2>1. \A c \in Cpus : cpu[c].now \in Nat
    BY LocalsOf
  <2>2. \A i \in DOMAIN history : history[i].now \in Nat
    BY OutcomeOf
  <2>. QED  BY <1>1, <2>1, <2>2 DEF RateInv, Covers, Busy
<1>4. (\A n \in Nat : Ready(n)' <=> Ready(n)) /\ (\A c \in Cpus : Only(c)' <=> Only(c))
  BY <1>1 DEF Ready, Slack, Full, Parched, Funded, Flows, Rich, Fits, Passed, Room, Covers, Busy,
              Dry, Empty, Only, Fares, Follows, Tokens, Updated, Refilled
<1>5. Slack(0)' /\ NoneAhead'
  BY <1>1 DEF RateInv, Slack, Fits, Passed, Room, NoneAhead, Covers, Busy
<1>. DEFINE m == Cardinality(InProgress)
<1>6. m \in Nat /\ m' = m /\ IsFiniteSet(InProgress)'
  BY <1>2, CountOfCpus DEF RateInv
<1>. HIDE DEF m
<1>7. Ready(m) => Ready(m)'
  BY <1>4, <1>6
<1>. QED  BY <1>3, <1>4, <1>5, <1>6, <1>7 DEF RateInv, m

\* Funds cover what has passed, and one token more once they hold one.
LEMMA FundsCover ==
  ASSUME Typed, NEW n \in Nat, NEW j \in {0, 1}, NEW tokens \in Nat, NEW updated \in Nat,
         Funded(tokens, updated, n), NEW from \in Nat, NEW t \in Nat, Covers(t), from <= t,
         tokens + Earned(t - updated) >= j
  PROVE  Fits(from, t, n + j)
<1>1. CASE Flows(from, tokens, updated, n)
  <2>1. Fits(from, t, tokens + Earned(t - updated) + n)
    BY <1>1 DEF Flows
  <2>2. Earned(t - updated) \in Int
    BY EarnedInt
  <2>3. n + j \in Int /\ n + j <= tokens + Earned(t - updated) + n
    BY <2>2
  <2>. QED  BY <2>1, <2>2, <2>3, FitsFewer
<1>2. CASE Rich(from, n)
  <2>1. Fits(from, t, Burst + n)
    BY <1>2 DEF Rich
  <2>2. n + j \in Int /\ n + j <= Burst + n /\ Burst + n \in Int
    BY BucketAssumption
  <2>. QED  BY <2>1, <2>2, FitsFewer
<1>. QED  BY <1>1, <1>2 DEF Funded

\* The only CPU at work: its funds date from before now, and unless it will find the bucket
\* empty they hold a token.
LEMMA FundsOfOnly ==
  ASSUME Typed, RateInv, NEW c \in Cpus, Only(c), element # NoElement, NEW t \in Nat, Covers(t)
  PROVE  /\ Tokens(c) \in Nat /\ Updated(c) \in Nat
         /\ Updated(c) <= t /\ cpu[c].now <= t /\ Earned(t - Updated(c)) \in Nat
         /\ cpu[c].step # "lookup" /\ ~Dry(c) => Tokens(c) + Earned(t - Updated(c)) >= 1
<1>1. Busy(c) /\ cpu[c].now \in Nat /\ Follows(c) /\ cpu[c].tokens \in Nat
  BY LocalsOf DEF Only, Fares
<1>2. cpu[c].now <= t
  BY <1>1, BusyCover
<1>3. /\ element \in DOMAIN bucket /\ bucket[element].updated \in Nat
      /\ bucket[element].tokens \in Nat
  BY HoldsElement
<1>4. bucket[element].updated <= t /\ bucket[element].updated <= cpu[c].now
  BY <1>1, <1>3 DEF RateInv, NoneAhead, Only
<1>5. Tokens(c) \in Nat /\ Updated(c) \in Nat /\ Updated(c) <= t
  BY <1>1, <1>2, <1>3, <1>4 DEF Tokens, Updated
<1>6. Earned(t - Updated(c)) \in Nat
  <2>1. t - Updated(c) \in Nat
    BY <1>5
  <2>. QED  BY <2>1, Earnings
<1>7. ASSUME cpu[c].step # "lookup", ~Dry(c)
      PROVE  Tokens(c) + Earned(t - Updated(c)) >= 1
  <2>1. CASE Refilled(c)
    <3>1. cpu[c].tokens > 0
      BY <1>1, <2>1 DEF Refilled, Follows
    <3>. QED  BY <1>1, <1>6, <2>1, <3>1 DEF Tokens
  <2>2. CASE cpu[c].step = "write" /\ ~Refilled(c)
    <3>1. cpu[c].tokens > 0 /\ cpu[c].tokens = bucket[element].tokens
      BY <1>1, <1>7, <2>2 DEF Dry, Follows, Refilled
    <3>. QED  BY <1>1, <1>6, <2>2, <3>1 DEF Tokens
  <2>3. CASE cpu[c].step # "write" /\ ~Refilled(c)
    <3>. DEFINE gone == cpu[c].now - bucket[element].updated
    <3>1. /\ cpu[c].at = element /\ cpu[c].step \in {"check", "read_updated", "read_tokens"}
          /\ cpu[c].step = "read_tokens" => cpu[c].refill = Earned(gone)
      BY <1>1, <1>7, <2>3 DEF Follows, Refilled
    <3>2. gone \in Nat
      BY <1>1, <1>3, <1>4
    <3>3. gone * Rate < Second => Earned(gone) = 0
      BY <3>2, Earnings
    <3>4. bucket[element].tokens > 0 \/ ~(gone * Rate < Second)
      BY <1>3, <1>4, <1>7, <3>1, <3>3 DEF Dry, Empty
    <3>5. CASE bucket[element].tokens > 0
      BY <1>3, <1>6, <2>3, <3>5 DEF Tokens
    <3>6. CASE ~(gone * Rate < Second)
      <4>1. Earned(gone) > 0 /\ Earned(gone) \in Nat
        BY <3>2, <3>6, Earnings
      <4>2. gone <= t - bucket[element].updated /\ t - bucket[element].updated \in Nat
        BY <1>1, <1>2, <1>3, <1>4
      <4>3. Earned(gone) <= Earned(t - bucket[element].updated)
        BY <3>2, <4>2, EarnedLater
      <4>. HIDE DEF gone
      <4>. QED  BY <1>5, <1>6, <2>3, <4>1, <4>3 DEF Updated
    <3>. QED  BY <3>4, <3>5, <3>6
  <2>. QED  BY <2>1, <2>2, <2>3
<1>. QED  BY <1>2, <1>5, <1>6, <1>7

LEMMA GainedRoom ==
  ASSUME Typed, history' = history, NEW k \in {0, 1, 2},
         overlaps' \in Nat, evictions' \in Nat,
         2 * overlaps' + evictions' = 2 * overlaps + evictions + k,
         NEW from \in Nat, NEW to \in Nat, from <= to, NEW n \in Int, NEW more \in Int,
         more <= n + k * Burst, Fits(from, to, n)
  PROVE  Fits(from, to, more)'
<1>0. k \in Nat
  OBVIOUS
<1>1. k * Burst \in Nat
  BY <1>0, BucketAssumption
<1>. DEFINE rest == more - k * Burst
<1>2. rest \in Int /\ rest <= n /\ rest + k * Burst = more
  BY <1>1
<1>. HIDE DEF rest
<1>3. Fits(from, to, rest)
  BY <1>2, FitsFewer
<1>4. Fits(from, to, rest + k * Burst)'
  BY <1>0, <1>2, <1>3, Gained
<1>. QED  BY <1>2, <1>4

LEMMA EvictRate ==
  ASSUME Typed, RateInv, Evict
  PROVE  RateInv'
<1>1. /\ element # NoElement /\ element' = NoElement
      /\ UNCHANGED <<ktime, block, next, bucket, cpu, history, overlaps>>
      /\ overlaps' \in Nat /\ evictions' \in Nat /\ evictions' = evictions + 1
      /\ 2 * overlaps' + evictions' = 2 * overlaps + evictions + 1
  BY DEF Evict, Typed
<1>2. Burst \in Nat /\ Burst >= 1
  BY BucketAssumption
<1>3. SameCover /\ InProgress' = InProgress
  BY <1>1 DEF SameCover, Covers, Busy, InProgress
<1>. DEFINE m == Cardinality(InProgress)
<1>4. m \in Nat /\ m' = m /\ IsFiniteSet(InProgress)'
  BY <1>3, CountOfCpus DEF RateInv
<1>5. Covers(ktime)' /\ NoneAhead'
  BY <1>1 DEF RateInv, Covers, Busy, NoneAhead
<1>6. ASSUME NEW from \in Nat, NEW to \in Nat, from <= to, NEW n \in Int, NEW more \in Int,
             more <= n + Burst, Fits(from, to, n)
      PROVE  Fits(from, to, more)'
  <2>1. 1 * Burst = Burst
    BY <1>2
  <2>. QED  BY <1>1, <1>6, <2>1, GainedRoom
<1>7. ASSUME NEW n \in Nat, Slack(n) PROVE Slack(n)' /\ (n = 0 => Slack(1)')
  BY <1>2, <1>6, <1>7 DEF Slack
<1>8. ASSUME NEW n \in Nat, NEW j \in {0, 1}, NEW tokens \in Nat, NEW updated \in Nat,
             \A t \in Nat : Covers(t) => updated <= t /\ tokens + Earned(t - updated) >= j,
             Funded(tokens, updated, n)
      PROVE  Full(n + j)'
  <2>1. ASSUME NEW from \in Nat, NEW t \in Nat, Covers(t), from <= t
        PROVE  Fits(from, t, Burst + (n + j))'
    <3>1. Fits(from, t, n + j)
      BY <1>8, <2>1, FundsCover
    <3>2. n + j \in Int /\ Burst + (n + j) \in Int /\ Burst + (n + j) <= (n + j) + Burst
      BY <1>2
    <3>. QED  BY <1>6, <2>1, <3>1, <3>2
  <2>. QED  BY <1>3, <2>1 DEF Full, Rich, SameCover
<1>9. ASSUME NEW n \in Nat, Full(n) PROVE Full(n)'
  <2>1. ASSUME NEW from \in Nat, NEW t \in Nat, Covers(t), from <= t
        PROVE  Fits(from, t, Burst + n)'
    <3>1. Fits(from, t, Burst + n)
      BY <1>9, <2>1 DEF Full, Rich
    <3>2. Burst + n \in Int /\ Burst + n <= (Burst + n) + Burst
      BY <1>2
    <3>. QED  BY <1>6, <2>1, <3>1, <3>2
  <2>. QED  BY <1>3, <2>1 DEF Full, Rich, SameCover
<1>. HIDE DEF m
<1>10. ASSUME Ready(m) PROVE Ready(m)'
  <2>1. Slack(m)'
    BY <1>4, <1>7, <1>10 DEF Ready
  <2>2. CASE Full(m)
    BY <1>4, <1>9, <2>1, <2>2 DEF Ready
  <2>3. CASE Parched(m)
    <3>1. /\ element \in DOMAIN bucket /\ bucket[element].tokens \in Nat
          /\ bucket[element].updated \in Nat
      BY <1>1, FieldsOf DEF Typed
    <3>2. ASSUME NEW t \in Nat, Covers(t)
          PROVE  /\ bucket[element].updated <= t
                 /\ bucket[element].tokens + Earned(t - bucket[element].updated) >= 0
      <4>1. bucket[element].updated <= t
        BY <3>1, <3>2 DEF RateInv, NoneAhead
      <4>2. t - bucket[element].updated \in Nat
        BY <3>1, <4>1
      <4>3. Earned(t - bucket[element].updated) \in Nat
        BY <4>2, Earnings
      <4>. QED  BY <3>1, <4>1, <4>3
    <3>3. Funded(bucket[element].tokens, bucket[element].updated, m)
      BY <2>3 DEF Parched
    <3>4. Full(m + 0)'
      BY <1>4, <1>8, <3>1, <3>2, <3>3
    <3>5. m + 0 = m
      BY <1>4
    <3>. QED  BY <1>4, <2>1, <3>4, <3>5 DEF Ready
  <2>. QED  BY <1>10, <2>2, <2>3 DEF Ready
<1>11. ASSUME NEW c \in Cpus, Only(c) PROVE Ready(m)' \/ Only(c)'
  <2>1. /\ Follows(c) /\ Funded(Tokens(c), Updated(c), 0) /\ Tokens(c) \in Nat
        /\ Updated(c) \in Nat
    <3>1. ktime \in Nat /\ Covers(ktime)
      BY DEF Typed, RateInv
    <3>. QED  BY <1>1, <1>11, <3>1, FundsOfOnly DEF Only, Fares
  <2>2. \A t \in Nat : Covers(t) =>
          /\ Updated(c) <= t /\ Tokens(c) + Earned(t - Updated(c)) >= 0
          /\ cpu[c].step # "lookup" /\ ~Dry(c) => Tokens(c) + Earned(t - Updated(c)) >= 1
    BY <1>1, <1>11, FundsOfOnly
  <2>3. (\A d \in Cpus : Busy(d)' <=> d = c) /\ Covers(cpu[c].now)'
    BY <1>1, <1>11 DEF Only, Covers, Busy
  <2>4. Full(0)'
    <3>1. Full(0 + 0)'
      BY <1>8, <2>1, <2>2
    <3>. QED  BY <3>1
  <2>5. CASE cpu[c].step = "lookup"
    BY <1>1, <2>3, <2>4, <2>5 DEF Only, Fares
  <2>6. CASE cpu[c].step # "lookup" /\ Dry(c)
    <3>1. Dry(c)'
      BY <1>1, <2>6 DEF Dry, Empty
    <3>. QED  BY <1>1, <2>3, <2>4, <3>1 DEF Only, Fares
  <2>7. CASE cpu[c].step # "lookup" /\ ~Dry(c)
    <3>1. Full(0 + 1)'
      BY <1>8, <2>1, <2>2, <2>7
    <3>2. Slack(1)'
      BY <1>7 DEF RateInv
    <3>3. m = 1
      <4>1. InProgress = {c}
        BY <1>11 DEF Only, Busy, InProgress
      <4>. QED  BY <4>1, FS_Singleton DEF m
    <3>4. Full(1)' /\ m' = 1
      BY <1>4, <3>1, <3>3
    <3>. QED  BY <3>2, <3>4 DEF Ready
  <2>. QED  BY <2>5, <2>6, <2>7
<1>. QED  BY <1>4, <1>5, <1>7, <1>10, <1>11 DEF RateInv, m

\* The account when j more packets have been made room for, or -j less.
LEMMA AccountMoves ==
  ASSUME \A t \in Nat : Covers(t)' => Covers(t), NEW j \in Int,
         \A from, to \in Nat, n \in Int :
           from <= to /\ Fits(from, to, n) => Fits(from, to, n + j)',
         NEW n \in Int, NEW tokens \in Nat, NEW updated \in Int
  PROVE  /\ Slack(n) => Slack(n + j)'
         /\ Full(n) => Full(n + j)'
         /\ Funded(tokens, updated, n) => Funded(tokens, updated, n + j)'
<1>1. Slack(n) => Slack(n + j)'
  BY DEF Slack
<1>2. ASSUME NEW from \in Nat, Rich(from, n) PROVE Rich(from, n + j)'
  <2>. SUFFICES ASSUME NEW t \in Nat, Covers(t)', from <= t PROVE Fits(from, t, Burst + (n + j))'
    BY DEF Rich
  <2>1. Burst + n \in Int /\ (Burst + n) + j = Burst + (n + j)
    BY BucketAssumption
  <2>2. Fits(from, t, Burst + n)
    BY <1>2 DEF Rich
  <2>3. Fits(from, t, (Burst + n) + j)'
    BY <2>1, <2>2
  <2>. QED  BY <2>1, <2>3
<1>3. ASSUME NEW from \in Nat, Flows(from, tokens, updated, n)
      PROVE  Flows(from, tokens, updated, n + j)'
  <2>1. ASSUME NEW t \in Nat, Covers(t)', from <= t
        PROVE  Fits(from, t, tokens + Earned(t - updated) + (n + j))'
    <3>1. Earned(t - updated) \in Int
      BY EarnedInt
    <3>2. PICK e \in Int : e = Earned(t - updated)
      BY <3>1
    <3>3. Fits(from, t, tokens + e + n)
      BY <1>3, <2>1, <3>2 DEF Flows
    <3>4. tokens + e + n \in Int /\ (tokens + e + n) + j = tokens + e + (n + j)
      BY <3>2
    <3>5. Fits(from, t, (tokens + e + n) + j)'
      BY <2>1, <3>3, <3>4
    <3>6. Fits(from, t, tokens + e + (n + j))'
      BY <3>4, <3>5
    <3>7. e = Earned(t - updated)'
      BY <3>2 DEF Earned
    <3>. QED  BY <3>6, <3>7
  <2>. QED  BY <2>1 DEF Flows
<1>. QED  BY <1>1, <1>2, <1>3 DEF Full, Funded

LEMMA BeginRate ==
  ASSUME Typed, RateInv, NEW c \in Cpus, Begin(c)
  PROVE  RateInv'
<1>1. /\ cpu[c].step = "idle" /\ CpuMoves(c, "lookup", ktime, NoElement, 0, 0)
      /\ SameMap /\ UNCHANGED <<ktime, history, evictions>> /\ overlaps' \in Nat
  BY BeginEffect
<1>2. /\ ktime \in Nat /\ Burst \in Nat /\ Burst >= 1 /\ overlaps \in Nat /\ evictions' \in Nat
  BY <1>1, BucketAssumption DEF Typed
<1>3. /\ \A d \in Cpus : Busy(d)' <=> Busy(d) \/ d = c
      /\ \A d \in Cpus : d # c => cpu'[d] = cpu[d]
      /\ cpu'[c].now = ktime /\ cpu'[c].step = "lookup"
  BY <1>1 DEF CpuMoves, Busy
<1>. DEFINE m == Cardinality(InProgress)
<1>4. m \in Nat /\ m' = m + 1 /\ IsFiniteSet(InProgress)'
  <2>1. InProgress' = InProgress \cup {c} /\ c \notin InProgress
    BY <1>1, <1>3 DEF InProgress, Busy
  <2>. QED  BY <2>1, CountOfCpus, FS_AddElement DEF RateInv
<1>5. \A t \in Nat : Covers(t)' <=> Covers(t) /\ ktime <= t
  BY <1>1, <1>3 DEF Covers, Busy
<1>6. Covers(ktime)' /\ NoneAhead'
  <2>1. Covers(ktime)'
    <3>1. PICK now \in Nat : now = ktime /\ now = ktime'
      BY <1>1, <1>2
    <3>2. Covers(now)'
      BY <1>5, <3>1 DEF RateInv
    <3>. QED  BY <3>1, <3>2
  <2>2. NoneAhead'
    BY <1>1, <1>5 DEF RateInv, NoneAhead, SameMap
  <2>. QED  BY <1>1, <2>1, <2>2
<1>7. ASSUME NEW from \in Nat, NEW to \in Nat, from <= to, NEW n \in Int, NEW more \in Int,
             Fits(from, to, n),
             more <= n \/ (InProgress # {} /\ more <= n + 2 * Burst)
      PROVE  Fits(from, to, more)'
  <2>1. CASE InProgress = {}
    <3>1. 2 * overlaps' + evictions' = 2 * overlaps + evictions + 0
      BY <1>1, <1>2, <2>1 DEF Begin
    <3>2. more <= n + 0 * Burst
      BY <1>2, <1>7, <2>1
    <3>. QED  BY <1>1, <1>2, <1>7, <3>1, <3>2, GainedRoom
  <2>2. CASE InProgress # {}
    <3>1. 2 * overlaps' + evictions' = 2 * overlaps + evictions + 2
      <4>1. overlaps' = overlaps + 1 /\ evictions' = evictions
        BY <2>2 DEF Begin
      <4>. QED  BY <1>2, <4>1
    <3>2. more <= n + 2 * Burst
      BY <1>2, <1>7, <2>2
    <3>. QED  BY <1>1, <1>2, <1>7, <3>1, <3>2, GainedRoom
  <2>. QED  BY <2>1, <2>2
<1>8. ASSUME NEW j \in {0, 1, 2}, j = 0 \/ InProgress # {}
      PROVE  \A from, to \in Nat, n \in Int :
               from <= to /\ Fits(from, to, n) => Fits(from, to, n + j)'
  <2>. TAKE from, to \in Nat, n \in Int
  <2>. HAVE from <= to /\ Fits(from, to, n)
  <2>1. n + j \in Int /\ (j = 0 => n + j <= n) /\ n + j <= n + 2 * Burst
    BY <1>2
  <2>. QED  BY <1>7, <1>8, <2>1
<1>9. ASSUME NEW j \in {0, 1, 2}, j = 0 \/ InProgress # {},
             NEW n \in Nat, NEW tokens \in Nat, NEW updated \in Nat
      PROVE  /\ Slack(n) => Slack(n + j)'
             /\ Full(n) => Full(n + j)'
             /\ Funded(tokens, updated, n) => Funded(tokens, updated, n + j)'
  <2>1. \A t \in Nat : Covers(t)' => Covers(t)
    BY <1>5
  <2>2. j \in Int /\ n \in Int /\ updated \in Int
    BY <1>9
  <2>3. \A from, to \in Nat, k \in Int : from <= to /\ Fits(from, to, k) => Fits(from, to, k + j)'
    BY <1>8, <1>9
  <2>. QED  BY <1>9, <2>1, <2>2, <2>3, AccountMoves
<1>10. Slack(0)'
  <2>1. Slack(0 + 0)'
    BY <1>9 DEF RateInv
  <2>. QED  BY <2>1
<1>. HIDE DEF m
<1>11. CASE InProgress = {}
  <2>1. ~\E d \in Cpus : Busy(d)
    BY <1>11 DEF InProgress, Busy
  <2>2. m = 0
    BY <1>11, FS_EmptySet DEF m
  <2>3. Full(0) \/ Parched(0)
    BY <2>1, <2>2 DEF RateInv, Ready, Only, m
  <2>4. (\A d \in Cpus : Busy(d)' <=> d = c) /\ Covers(cpu[c].now)'
    BY <1>1, <1>3, <1>6, <2>1
  <2>5. ASSUME Full(0) PROVE Full(0)'
    <3>1. Full(0 + 0)'
      BY <1>9, <2>5
    <3>. QED  BY <3>1
  <2>6. ASSUME element = NoElement PROVE Fares(c)'
    BY <1>1, <1>3, <2>3, <2>5, <2>6 DEF Fares, Parched, SameMap
  <2>7. ASSUME element # NoElement PROVE Fares(c)'
    <3>1. /\ element \in DOMAIN bucket /\ bucket[element].tokens \in Nat
          /\ bucket[element].updated \in Nat
      BY <2>7, FieldsOf DEF Typed
    <3>2. PICK tokens \in Nat, updated \in Nat :
            tokens = bucket[element].tokens /\ updated = bucket[element].updated
      BY <3>1
    <3>3. Funded(tokens, updated, 0)
      BY <2>3, <3>2, FewerPackets DEF Parched
    <3>4. Funded(tokens, updated, 0 + 0)'
      BY <1>9, <3>3
    <3>5. 0 + 0 = 0
      OBVIOUS
    <3>6. Follows(c)' /\ Tokens(c)' = tokens /\ Updated(c)' = updated
      BY <1>1, <1>3, <3>2 DEF Follows, Tokens, Updated, Refilled, SameMap
    <3>. QED  BY <1>1, <2>7, <3>4, <3>5, <3>6 DEF Fares, SameMap
  <2>8. Only(c)'
    BY <2>4, <2>6, <2>7 DEF Only
  <2>. QED  BY <1>4, <1>6, <1>10, <2>8 DEF RateInv
\* One that overlaps others: the room it makes covers two more packets and a burst but for
\* the token that a bucket holds.
<1>12. CASE InProgress # {}
  <2>0. PICK k \in Nat : k = m
    BY <1>4
  <2>1. ASSUME NEW n \in Nat, NEW from \in Nat, NEW t \in Nat, from <= t, Covers(t)',
               Fits(from, t, Burst + n) \/ Fits(from, t, n)
        PROVE  Fits(from, t, Burst + (n + 1))'
    <3>1. Burst + (n + 1) <= n + 2 * Burst /\ Burst + (n + 1) <= (Burst + n) + 2 * Burst
          /\ Burst + (n + 1) \in Int /\ Burst + n \in Int
      BY <1>2
    <3>. QED  BY <1>7, <1>12, <2>1, <3>1
  <2>2. ASSUME Ready(k) PROVE Ready(k + 1)'
    <3>1. Slack(k + 1)'
      BY <1>9, <1>12, <2>2 DEF Ready
    <3>2. CASE Full(k)
      BY <1>9, <1>12, <3>1, <3>2 DEF Ready
    <3>3. CASE Parched(k)
      <4>1. /\ element \in DOMAIN bucket /\ bucket[element].tokens \in Nat
            /\ bucket[element].updated \in Nat
        BY <3>3, FieldsOf DEF Parched, Typed
      <4>2. ASSUME NEW from \in Nat, NEW t \in Nat, from <= t, Covers(t)'
            PROVE  Fits(from, t, Burst + (k + 1))'
        <5>1. Covers(t) /\ bucket[element].updated <= t
          BY <1>5, <4>1, <4>2 DEF RateInv, NoneAhead
        <5>2. t - bucket[element].updated \in Nat
          BY <4>1, <5>1
        <5>3. Earned(t - bucket[element].updated) \in Nat
          BY <5>2, Earnings
        <5>4. bucket[element].tokens + Earned(t - bucket[element].updated) >= 0
          BY <4>1, <5>3
        <5>5. Fits(from, t, k + 0)
          BY <3>3, <4>1, <4>2, <5>1, <5>4, FundsCover DEF Parched
        <5>6. k + 0 = k
          OBVIOUS
        <5>. QED  BY <2>1, <4>2, <5>5, <5>6
      <4>3. Full(k + 1)'
        BY <4>2 DEF Full, Rich
      <4>. QED  BY <3>1, <4>3 DEF Ready
    <3>. QED  BY <2>2, <3>2, <3>3 DEF Ready
  <2>3. ASSUME NEW d \in Cpus, Only(d) PROVE Ready(k + 1)'
    <3>1. k + 1 = 2
      <4>1. InProgress = {d}
        BY <2>3 DEF Only, Busy, InProgress
      <4>2. m = 1
        BY <4>1, FS_Singleton DEF m
      <4>. QED  BY <2>0, <4>2
    <3>2. Slack(2)'
      <4>1. Slack(0 + 2)'
        BY <1>9, <1>12 DEF RateInv
      <4>. QED  BY <4>1
    <3>3. CASE element = NoElement
      <4>1. Full(0 + 2)'
        BY <1>9, <1>12, <2>3, <3>3 DEF Only, Fares
      <4>2. Full(2)'
        BY <4>1
      <4>. QED  BY <3>1, <3>2, <4>2 DEF Ready
    <3>4. CASE element # NoElement
      <4>1. /\ Funded(Tokens(d), Updated(d), 0) /\ Follows(d)
            /\ Tokens(d) \in Nat /\ Updated(d) \in Nat
            /\ Updated(d) <= ktime /\ cpu[d].now <= ktime /\ Earned(ktime - Updated(d)) \in Nat
        <5>1. Covers(ktime)
          BY DEF RateInv
        <5>. QED  BY <1>2, <2>3, <3>4, <5>1, FundsOfOnly DEF Only, Fares
      <4>2. CASE Tokens(d) + Earned(ktime - Updated(d)) >= 1
        <5>1. ASSUME NEW from \in Nat, NEW t \in Nat, from <= t, Covers(t)'
              PROVE  Fits(from, t, Burst + 2)'
          <6>1. Covers(t) /\ ktime <= t
            BY <1>5, <5>1
          <6>2. /\ ktime - Updated(d) \in Nat /\ t - Updated(d) \in Nat
                /\ ktime - Updated(d) <= t - Updated(d)
            BY <1>2, <4>1, <6>1
          <6>3. Earned(ktime - Updated(d)) <= Earned(t - Updated(d))
                /\ Earned(t - Updated(d)) \in Nat
            BY <6>2, EarnedLater, Earnings
          <6>4. Tokens(d) + Earned(t - Updated(d)) >= 1
            BY <4>1, <4>2, <6>3
          <6>5. Fits(from, t, 0 + 1)
            BY <4>1, <5>1, <6>1, <6>4, FundsCover
          <6>6. Fits(from, t, 1)
            BY <6>5
          <6>7. Fits(from, t, Burst + (1 + 1))'
            BY <2>1, <5>1, <6>6
          <6>8. Burst + (1 + 1) = Burst + 2
            BY <1>2
          <6>. QED  BY <6>7, <6>8
        <5>2. Full(2)'
          BY <5>1 DEF Full, Rich
        <5>. QED  BY <3>1, <3>2, <5>2 DEF Ready
      <4>3. CASE ~(Tokens(d) + Earned(ktime - Updated(d)) >= 1)
        <5>1. Tokens(d) = 0 /\ Earned(ktime - Updated(d)) = 0
          BY <4>1, <4>3
        <5>2. /\ ~Refilled(d) /\ Tokens(d) = bucket[element].tokens
              /\ Updated(d) = bucket[element].updated
          BY <4>1, <5>1 DEF Refilled, Tokens, Updated, Follows
        <5>3. /\ bucket[element].updated \in Nat /\ bucket[element].tokens = 0
              /\ cpu[d].now \in Nat /\ element \in DOMAIN bucket
              /\ bucket[element].updated <= ktime
          BY <3>4, <4>1, <5>1, <5>2, HoldsElement, LocalsOf
        <5>4. bucket[element].updated <= cpu[d].now
          BY <2>3, <5>3 DEF RateInv, NoneAhead, Only
        <5>5. ASSUME NEW now \in Nat, bucket[element].updated <= now, now <= ktime
              PROVE  Empty(element, now) /\ Earned(now - bucket[element].updated) = 0
          <6>. DEFINE x == now - bucket[element].updated
                      y == ktime - bucket[element].updated
          <6>1. x \in Nat /\ y \in Nat /\ x <= y
            BY <1>2, <5>3, <5>5
          <6>2. Earned(y) = 0
            BY <5>1, <5>2
          <6>3. Earned(x) <= Earned(y) /\ Earned(x) \in Nat
            BY <6>1, EarnedLater, Earnings
          <6>4. Earned(x) = 0
            BY <6>2, <6>3
          <6>5. x * Rate < Second
            <7>. HIDE DEF x, y
            <7>. QED  BY <6>1, <6>4, Earnings
          <6>. QED  BY <5>3, <5>5, <6>4, <6>5 DEF Empty
        <5>6. Dry(d)
          BY <4>1, <5>1, <5>2, <5>3, <5>4, <5>5, <3>4 DEF Dry, Follows, Refilled
        <5>7. SameFunds /\ d # c
          BY <1>1, <2>3 DEF SameMap, SameFunds, Only, Busy
        <5>8. Dry(d)'
          BY <1>3, <5>6, <5>7, DryStays
        <5>9. Dry(c)'
          <6>1. Empty(element, ktime)
            BY <1>2, <5>3, <5>5
          <6>2. Empty(element, cpu[c].now)'
            BY <1>1, <1>3, <6>1 DEF Empty, SameMap
          <6>. QED  BY <1>1, <1>3, <3>4, <6>2 DEF Dry, SameMap
        <5>10. \A e \in Cpus : Busy(e)' => Dry(e)'
          BY <1>3, <2>3, <5>8, <5>9 DEF Only
        <5>11. Funded(bucket[element].tokens, bucket[element].updated, 2)'
          <6>1. PICK tokens \in Nat, updated \in Nat :
                  tokens = bucket[element].tokens /\ updated = bucket[element].updated
            BY <5>3
          <6>2. Funded(tokens, updated, 0)
            BY <4>1, <5>2, <6>1
          <6>3. Funded(tokens, updated, 0 + 2)'
            BY <1>9, <1>12, <6>2
          <6>4. 0 + 2 = 2
            OBVIOUS
          <6>5. bucket'[element'].tokens = tokens /\ bucket'[element'].updated = updated
            BY <1>1, <6>1 DEF SameMap
          <6>. QED  BY <6>3, <6>4, <6>5
        <5>12. Parched(2)'
          BY <1>1, <3>4, <5>10, <5>11 DEF Parched, SameMap
        <5>. QED  BY <3>1, <3>2, <5>12 DEF Ready
      <4>. QED  BY <4>2, <4>3
    <3>. QED  BY <3>3, <3>4
  <2>4. Ready(k + 1)'
    BY <2>0, <2>2, <2>3 DEF RateInv, m
  <2>5. m' = k + 1
    BY <1>4, <2>0
  <2>6. Ready(m)'
    BY <2>4, <2>5
  <2>. QED  BY <1>4, <1>6, <1>10, <2>6 DEF RateInv, m
<1>. QED  BY <1>11, <1>12

LEMMA LastLeaves ==
  ASSUME Typed, RateInv, NEW c \in Cpus, Busy(c), InProgress' = InProgress \ {c}
  PROVE  \E n \in Nat \ {0} :
           /\ n = Cardinality(InProgress) /\ Cardinality(InProgress)' = n - 1
           /\ IsFiniteSet(InProgress)'
<1>1. c \in InProgress /\ IsFiniteSet(InProgress) /\ Cardinality(InProgress) \in Nat
  BY CountOfCpus DEF RateInv, InProgress, Busy
<1>2. IsFiniteSet(InProgress \ {c}) /\ Cardinality(InProgress \ {c}) = Cardinality(InProgress) - 1
  BY <1>1, FS_RemoveElement
<1>3. Cardinality(InProgress \ {c}) \in Nat
  BY <1>2, FS_CardinalityType
<1>4. PICK n \in Nat : n = Cardinality(InProgress)
  BY <1>1
<1>5. n # 0
  BY <1>2, <1>3, <1>4
<1>. QED  BY <1>2, <1>4, <1>5

\* A packet that is refused.
LEMMA RefusedRate ==
  ASSUME Typed, RateInv, NEW c \in Cpus, NEW out \in {"blocked", "empty"}, Finishes(c, out),
         cpu[c].step = "check" \/ (cpu[c].step = "write" /\ cpu[c].tokens = 0),
         SameFunds, UNCHANGED <<ktime, overlaps, evictions>>
  PROVE  RateInv'
<1>1. Busy(c) /\ out \in {"pass", "blocked", "empty"} /\ ktime \in Nat
  BY DEF Busy, Typed
<1>2. /\ SameCover /\ InProgress' = InProgress \ {c}
      /\ \A d \in Cpus : Busy(d)' <=> Busy(d) /\ d # c
      /\ \A d \in Cpus : d # c => cpu'[d] = cpu[d]
  BY <1>1, Leaves
<1>3. SameFits
  BY Refused
<1>4. PICK n \in Nat \ {0} : /\ n = Cardinality(InProgress)
                             /\ Cardinality(InProgress)' = n - 1 /\ IsFiniteSet(InProgress)'
  BY <1>1, <1>2, LastLeaves
<1>5. Covers(ktime)' /\ NoneAhead' /\ Slack(0)'
  <2>1. Covers(ktime)'
    <3>1. PICK now \in Nat : now = ktime /\ now = ktime'
      BY <1>1
    <3>2. Covers(now)'
      BY <1>2, <3>1 DEF RateInv, SameCover
    <3>. QED  BY <3>1, <3>2
  <2>2. NoneAhead'
    BY <1>2 DEF RateInv, NoneAhead, SameFunds, SameCover
  <2>3. Slack(0)'
    BY <1>2, <1>3, AccountKept DEF RateInv
  <2>. QED  BY <2>1, <2>2, <2>3
<1>6. n - 1 \in Nat /\ n - 1 <= n /\ n \in Nat
  OBVIOUS
<1>7. ASSUME element # NoElement, NEW k \in Nat, Funded(bucket[element].tokens, bucket[element].updated, k)
      PROVE  Funded(bucket[element].tokens, bucket[element].updated, k)'
  <2>1. /\ element \in DOMAIN bucket /\ bucket[element].tokens \in Nat
        /\ bucket[element].updated \in Nat
    BY <1>7, HoldsElement
  <2>2. PICK tokens \in Nat, updated \in Nat :
          tokens = bucket[element].tokens /\ updated = bucket[element].updated
    BY <2>1
  <2>3. Funded(tokens, updated, k)'
    BY <1>2, <1>3, <1>7, <2>2, AccountKept
  <2>4. bucket'[element'].tokens = tokens /\ bucket'[element'].updated = updated
    BY <2>1, <2>2 DEF SameFunds
  <2>. QED  BY <2>3, <2>4
<1>8. ASSUME Ready(n) PROVE Ready(n - 1)'
  <2>1. Slack(n - 1)' /\ (Full(n) => Full(n - 1)')
    BY <1>2, <1>3, <1>6, <1>8, FewerPackets, AccountKept DEF Ready
  <2>2. ASSUME Parched(n) PROVE Parched(n - 1)'
    <3>1. element # NoElement /\ bucket[element].tokens \in Nat /\ bucket[element].updated \in Int
      BY <2>2, HoldsElement DEF Parched
    <3>2. Funded(bucket[element].tokens, bucket[element].updated, n - 1)
      BY <1>6, <2>2, <3>1, FewerPackets DEF Parched
    <3>3. Funded(bucket[element].tokens, bucket[element].updated, n - 1)'
      BY <1>6, <1>7, <3>1, <3>2
    <3>4. \A d \in Cpus : Busy(d)' => Dry(d)'
      BY <1>2, <2>2, DryStays DEF Parched
    <3>. QED  BY <3>1, <3>3, <3>4 DEF Parched, SameFunds
  <2>. QED  BY <1>8, <2>1, <2>2 DEF Ready
<1>9. ASSUME NEW d \in Cpus, Only(d) PROVE Ready(n - 1)'
  <2>1. d = c
    BY <1>1, <1>9 DEF Only
  <2>2. n - 1 = 0
    <3>1. InProgress = {d}
      BY <1>9 DEF Only, Busy, InProgress
    <3>2. Cardinality(InProgress) = 1
      BY <3>1, FS_Singleton
    <3>. QED  BY <1>4, <3>2
  <2>3. CASE element = NoElement
    <3>1. Full(0)'
      BY <1>2, <1>3, <1>9, <2>3, AccountKept DEF Only, Fares
    <3>. QED  BY <1>5, <2>2, <3>1 DEF Ready
  <2>4. CASE element # NoElement
    <3>1. ~Refilled(c) /\ Funded(Tokens(c), Updated(c), 0)
      BY <1>9, <2>1, <2>4 DEF Only, Fares, Follows, Refilled
    <3>2. Funded(bucket[element].tokens, bucket[element].updated, 0)'
      BY <1>7, <2>4, <3>1 DEF Tokens, Updated
    <3>3. \A e \in Cpus : ~Busy(e)'
      BY <1>2, <1>9, <2>1 DEF Only
    <3>4. Parched(0)'
      BY <2>4, <3>2, <3>3 DEF Parched, SameFunds
    <3>. QED  BY <1>5, <2>2, <3>4 DEF Ready
  <2>. QED  BY <2>3, <2>4
<1>. QED  BY <1>4, <1>5, <1>8, <1>9 DEF RateInv

\* A token is taken by the only packet in progress.
LEMMA TokenTaken ==
  ASSUME Typed, RateInv, NEW c \in Cpus, Finishes(c, "pass"), UNCHANGED <<overlaps, evictions>>,
         Busy(c), Covers(cpu[c].now), \A t \in Nat : Covers(t)' => Covers(t),
         NEW tokens \in Nat, tokens >= 1, tokens <= Burst,
         NEW updated \in Nat, updated <= cpu[c].now,
         \/ updated = cpu[c].now
         \/ tokens < Burst /\ (cpu[c].now - updated) * Rate < Second,
         Funded(tokens, updated, 0)
  PROVE  Slack(0)' /\ Funded(tokens - 1, updated, 0)'
<1>1. PICK now \in Nat : now = cpu[c].now
  BY LocalsOf
<1>2. Burst \in Nat
  BY BucketAssumption
<1>3. \A t \in Nat : now <= t => Covers(t)
  <2>1. \A i \in DOMAIN history : history[i].now \in Nat /\ history[i].now <= now
    BY <1>1, OutcomeOf DEF Covers
  <2>2. \A d \in Cpus : cpu[d].now \in Nat /\ (Busy(d) => cpu[d].now <= now)
    BY <1>1, LocalsOf DEF Covers
  <2>. QED  BY <1>1, <2>1, <2>2 DEF Covers
<1>4. \A t \in Nat : Covers(t) => now <= t
  BY <1>1, BusyCover
<1>5. ASSUME NEW from \in Nat, NEW to \in Nat, from <= to PROVE Fits(from, to, 0)'
  <2>1. CASE now \in from..to
    <3>1. to - updated \in Nat /\ now <= to
      BY <1>1, <1>5, <2>1
    <3>2. Earned(to - updated) \in Nat
      BY <3>1, Earnings
    <3>3. tokens + Earned(to - updated) >= 1
      BY <3>2
    <3>4. Fits(from, to, 0 + 1)
      BY <1>3, <1>5, <3>1, <3>3, FundsCover
    <3>5. PICK n \in Int : n = 0
      OBVIOUS
    <3>6. Fits(from, to, n + 1)
      BY <3>4, <3>5
    <3>7. Fits(from, to, n)'
      BY <1>5, <3>6, Spent
    <3>. QED  BY <3>5, <3>7
  <2>2. CASE now \notin from..to
    <3>1. PICK n \in Int : n = 0
      OBVIOUS
    <3>2. Fits(from, to, n)
      BY <1>5, <3>1 DEF RateInv, Slack
    <3>3. Fits(from, to, n)'
      BY <1>1, <1>5, <2>2, <3>2, Spent
    <3>. QED  BY <3>1, <3>3
  <2>. QED  BY <2>1, <2>2
<1>6. ASSUME NEW from \in Nat
      PROVE  Flows(from, tokens - 1, updated, 0)' \/ Rich(from, 0)'
  <2>1. CASE now < from
    <3>1. ASSUME NEW t \in Nat, from <= t, NEW n \in Int, Fits(from, t, n)
          PROVE  Fits(from, t, n)'
      <4>1. cpu[c].now \notin from..t
        BY <1>1, <2>1
      <4>. QED  BY <3>1, <4>1, Spent
    <3>2. ASSUME Rich(from, 0) PROVE Rich(from, 0)'
      <4>1. Burst + 0 \in Int
        BY <1>2
      <4>. QED  BY <3>1, <3>2, <4>1 DEF Rich
    <3>3. ASSUME Flows(from, tokens, updated, 0) PROVE Flows(from, tokens - 1, updated, 0)'
      <4>1. ASSUME NEW t \in Nat, Covers(t)', from <= t
            PROVE  Fits(from, t, (tokens - 1) + Earned(t - updated) + 0)'
        <5>1. PICK e \in Int : e = Earned(t - updated)
          BY EarnedInt
        <5>2. Fits(from, t, tokens + e + 0)
          BY <3>3, <4>1, <5>1 DEF Flows
        <5>3. /\ tokens + e + 0 \in Int /\ (tokens - 1) + e + 0 \in Int
              /\ (tokens - 1) + e + 0 <= tokens + e + 0
          BY <5>1
        <5>4. Fits(from, t, (tokens - 1) + e + 0)
          BY <4>1, <5>2, <5>3, FitsFewer
        <5>5. Fits(from, t, (tokens - 1) + e + 0)'
          BY <3>1, <4>1, <5>3, <5>4
        <5>6. e = Earned(t - updated)'
          BY <5>1 DEF Earned
        <5>. QED  BY <5>5, <5>6
      <4>. QED  BY <4>1 DEF Flows
    <3>. QED  BY <3>2, <3>3 DEF Funded
  <2>2. CASE from <= now
    <3>1. ASSUME NEW t \in Nat, Covers(t)', from <= t
          PROVE  Fits(from, t, (tokens - 1) + Earned(t - updated) + 0)'
      <4>1. Covers(t) /\ now <= t
        BY <1>4, <3>1
      <4>2. t - updated \in Nat /\ t - now \in Nat /\ now - updated \in Nat
            /\ (now - updated) + (t - now) = t - updated
        BY <1>1, <4>1
      <4>3. Earned(t - updated) \in Nat /\ Earned(t - now) \in Nat
        BY <4>2, Earnings
      <4>4. PICK e \in Nat : e = Earned(t - updated)
        BY <4>3
      <4>5. Fits(from, t, tokens + e)
        <5>1. CASE Flows(from, tokens, updated, 0)
          <6>1. Fits(from, t, tokens + e + 0)
            BY <3>1, <4>1, <4>4, <5>1 DEF Flows
          <6>2. tokens + e + 0 = tokens + e
            BY <4>4
          <6>. QED  BY <6>1, <6>2
        <5>2. CASE Rich(from, 0)
          <6>1. Fits(from, now, Burst + 0)
            BY <1>1, <2>2, <5>2 DEF Rich
          <6>2. Fits(from, t, (Burst + 0) + Earned(t - now))
            BY <1>1, <1>2, <2>2, <4>1, <6>1, FitsLater
          <6>3. tokens + e <= (Burst + 0) + Earned(t - now)
            <7>1. CASE updated = now
              BY <1>2, <4>3, <4>4, <7>1
            <7>2. CASE tokens < Burst /\ (now - updated) * Rate < Second
              <8>1. e <= Earned(t - now) + 1
                BY <4>2, <4>4, <7>2, Earnings
              <8>. QED  BY <1>2, <4>3, <4>4, <7>2, <8>1
            <7>. QED  BY <1>1, <7>1, <7>2
          <6>4. tokens + e \in Int /\ (Burst + 0) + Earned(t - now) \in Int
            BY <1>2, <4>3, <4>4
          <6>. QED  BY <3>1, <6>2, <6>3, <6>4, FitsFewer
        <5>. QED  BY <5>1, <5>2 DEF Funded
      <4>6. /\ (tokens - 1) + e + 0 \in Int /\ ((tokens - 1) + e + 0) + 1 = tokens + e
        BY <4>4
      <4>7. Fits(from, t, (tokens - 1) + e + 0)'
        BY <3>1, <4>5, <4>6, Spent
      <4>8. e = Earned(t - updated)'
        BY <4>4 DEF Earned
      <4>. QED  BY <4>7, <4>8
    <3>. QED  BY <3>1 DEF Flows
  <2>3. from <= now \/ now < from
    BY <1>1
  <2>. QED  BY <2>1, <2>2, <2>3
<1>. QED  BY <1>5, <1>6 DEF Slack, Funded

\* A packet that passes: it has put a bucket into the map or taken a token from one.
LEMMA PassedRate ==
  ASSUME Typed, RateInv, NEW c \in Cpus, Busy(c), ~Dry(c), Finishes(c, "pass"),
         NEW left \in Nat, NEW updated \in Nat,
         \A e \in DOMAIN bucket' :
           \/ e \in DOMAIN bucket /\ bucket'[e].updated = bucket[e].updated
           \/ bucket'[e].updated = cpu[c].now,
         Only(c) => /\ element' # NoElement /\ Funded(left + 1, updated, 0)
                    /\ bucket'[element'].tokens = left /\ bucket'[element'].updated = updated
                    /\ left + 1 <= Burst /\ updated <= cpu[c].now
                    /\ \/ updated = cpu[c].now
                       \/ left + 1 < Burst /\ (cpu[c].now - updated) * Rate < Second,
         UNCHANGED <<ktime, overlaps, evictions>>
  PROVE  RateInv'
<1>1. /\ SameCover /\ InProgress' = InProgress \ {c}
      /\ \A d \in Cpus : Busy(d)' <=> Busy(d) /\ d # c
      /\ \A d \in Cpus : d # c => cpu'[d] = cpu[d]
  BY Leaves
<1>2. PICK n \in Nat \ {0} : /\ n = Cardinality(InProgress)
                             /\ Cardinality(InProgress)' = n - 1 /\ IsFiniteSet(InProgress)'
  BY <1>1, LastLeaves
<1>3. Covers(ktime)'
  <2>1. PICK now \in Nat : now = ktime /\ now = ktime'
    BY DEF Typed
  <2>2. Covers(now)'
    BY <1>1, <2>1 DEF RateInv, SameCover
  <2>. QED  BY <2>1, <2>2
<1>4. NoneAhead'
  BY <1>1, BusyCover DEF RateInv, NoneAhead, SameCover
<1>5. ASSUME Ready(n) PROVE Ready(n - 1)' /\ Slack(0)'
  <2>1. Full(n) /\ Slack(n)
    BY <1>5 DEF Ready, Parched
  <2>2. \A from, to \in Nat, k \in Int : from <= to /\ Fits(from, to, k) => Fits(from, to, k + (-1))'
    <3>. TAKE from, to \in Nat, k \in Int
    <3>. HAVE from <= to /\ Fits(from, to, k)
    <3>1. (k + (-1)) + 1 = k /\ k + (-1) \in Int
      OBVIOUS
    <3>. QED  BY <3>1, Spent
  <2>3. \A t \in Nat : Covers(t)' => Covers(t)
    BY <1>1 DEF SameCover
  <2>4. n \in Int /\ -1 \in Int /\ n + (-1) = n - 1 /\ 0 \in Nat /\ 1 \in Int
    OBVIOUS
  <2>5. Full(n + (-1))' /\ Slack(n + (-1))'
    BY <2>1, <2>2, <2>3, <2>4, AccountMoves
  <2>6. Slack(1)
    <3>1. 1 <= n /\ n \in Nat
      OBVIOUS
    <3>. QED  BY <2>1, <3>1, FewerPackets
  <2>7. Slack(1 + (-1))'
    BY <2>2, <2>3, <2>4, <2>6, AccountMoves
  <2>8. 1 + (-1) = 0
    OBVIOUS
  <2>. QED  BY <2>4, <2>5, <2>7, <2>8 DEF Ready
<1>6. ASSUME NEW d \in Cpus, Only(d) PROVE Ready(n - 1)' /\ Slack(0)'
  <2>1. d = c
    BY <1>6 DEF Only
  <2>2. n - 1 = 0
    <3>1. InProgress = {d}
      BY <1>6 DEF Only, Busy, InProgress
    <3>2. Cardinality(InProgress) = 1
      BY <3>1, FS_Singleton
    <3>. QED  BY <1>2, <3>2
  <2>3. Covers(cpu[c].now) /\ \A t \in Nat : Covers(t)' => Covers(t)
    BY <1>1, <1>6, <2>1 DEF Only, SameCover
  <2>4. left + 1 \in Nat /\ left + 1 >= 1 /\ (left + 1) - 1 = left
    OBVIOUS
  <2>5. Slack(0)' /\ Funded((left + 1) - 1, updated, 0)'
    BY <1>6, <2>1, <2>3, <2>4, TokenTaken
  <2>6. Funded(left, updated, 0)'
    BY <2>4, <2>5
  <2>7. \A e \in Cpus : ~Busy(e)'
    BY <1>1, <1>6, <2>1 DEF Only
  <2>8. Parched(0)'
    BY <1>6, <2>1, <2>6, <2>7 DEF Parched
  <2>. QED  BY <2>2, <2>5, <2>8 DEF Ready
<1>. QED  BY <1>2, <1>3, <1>4, <1>5, <1>6 DEF RateInv

LEMMA InsertRate ==
  ASSUME Typed, RateInv, NEW c \in Cpus, Insert(c)
  PROVE  RateInv'
<1>1. /\ cpu[c].step = "insert" /\ Finishes(c, "pass")
      /\ element' = Len(bucket) + 1
      /\ DOMAIN bucket' = 1..(Len(bucket) + 1) /\ DOMAIN bucket = 1..Len(bucket)
      /\ bucket'[element'].tokens = Burst - 1 /\ bucket'[element'].updated = cpu[c].now
      /\ \A d \in DOMAIN bucket : d # element' /\ d \in DOMAIN bucket' /\ bucket'[d] = bucket[d]
      /\ UNCHANGED <<ktime, block, overlaps, evictions>>
  BY InsertEffect
<1>2. Busy(c) /\ ~Dry(c) /\ cpu[c].now \in Nat
  BY <1>1, LocalsOf DEF Busy, Dry
<1>3. Burst - 1 \in Nat /\ (Burst - 1) + 1 = Burst /\ Burst \in Nat
  BY BucketAssumption
<1>4. Len(bucket) \in Nat
  BY DEF Typed
<1>5. element' # NoElement
  BY <1>1, <1>4, BucketAssumption
<1>6. \A e \in DOMAIN bucket' :
        \/ e \in DOMAIN bucket /\ bucket'[e].updated = bucket[e].updated
        \/ bucket'[e].updated = cpu[c].now
  BY <1>1, <1>4
<1>7. Only(c) => Funded((Burst - 1) + 1, cpu[c].now, 0)
  BY <1>1, <1>2, <1>3, FewerPackets DEF Only, Fares, Follows
<1>8. PICK left \in Nat, updated \in Nat : left = Burst - 1 /\ updated = cpu[c].now
  BY <1>2, <1>3
<1>9. left + 1 <= Burst
  BY <1>3, <1>8
<1>. QED  BY <1>1, <1>2, <1>5, <1>6, <1>7, <1>8, <1>9, PassedRate

LEMMA WriteTokensRate ==
  ASSUME Typed, RateInv, NEW c \in Cpus, WriteTokens(c)
  PROVE  RateInv'
<1>1. /\ cpu[c].step = "write" /\ cpu[c].tokens > 0 /\ cpu[c].at \in DOMAIN bucket
      /\ Finishes(c, "pass")
      /\ BucketWrites(cpu[c].at, cpu[c].tokens - 1, Bucket(c).updated, Bucket(c).blocked)
      /\ UNCHANGED <<ktime, block, element, next, overlaps, evictions>>
  BY WriteTokensEffect
<1>2. /\ Busy(c) /\ ~Dry(c) /\ cpu[c].now \in Nat /\ cpu[c].tokens \in Nat
      /\ cpu[c].tokens <= Burst /\ Burst \in Nat
      /\ Bucket(c).updated \in Nat /\ Bucket(c).tokens < Burst
  <2>1. Busy(c) /\ ~Dry(c)
    BY <1>1 DEF Busy, Dry
  <2>2. cpu[c].now \in Nat /\ cpu[c].tokens \in Nat
    BY LocalsOf
  <2>3. Bucket(c).updated \in Nat
    BY <1>1, FieldsOf DEF Bucket
  <2>4. cpu[c].tokens <= Burst /\ Bucket(c).tokens < Burst
    BY <1>1 DEF Bucket, Typed
  <2>5. Burst \in Nat
    BY BucketAssumption
  <2>. QED  BY <2>1, <2>2, <2>3, <2>4, <2>5
<1>3. \A e \in DOMAIN bucket' :
        \/ e \in DOMAIN bucket /\ bucket'[e].updated = bucket[e].updated
        \/ bucket'[e].updated = cpu[c].now
  BY <1>1 DEF BucketWrites, Bucket
<1>4. PICK left \in Nat, updated \in Nat : left = cpu[c].tokens - 1 /\ updated = Bucket(c).updated
  BY <1>1, <1>2
<1>5. left + 1 = cpu[c].tokens /\ left + 1 <= Burst
  BY <1>2, <1>4
<1>6. ASSUME Only(c)
      PROVE  /\ element' # NoElement /\ Funded(left + 1, updated, 0)
             /\ bucket'[element'].tokens = left /\ bucket'[element'].updated = updated
             /\ updated <= cpu[c].now
             /\ \/ updated = cpu[c].now
                \/ left + 1 < Burst /\ (cpu[c].now - updated) * Rate < Second
  <2>1. element # NoElement /\ Follows(c) /\ Funded(Tokens(c), Updated(c), 0)
    BY <1>1, <1>2, <1>6 DEF Only, Fares
  <2>5. element # NoElement /\ cpu[c].at = element
    BY <1>1, <2>1 DEF Follows
  <2>2. bucket'[element'].tokens = left /\ bucket'[element'].updated = updated
    BY <1>1, <1>4, <2>5 DEF BucketWrites, Bucket
  <2>3. CASE cpu[c].refill > 0
    <3>1. bucket[element].updated = cpu[c].now
      BY <1>1, <2>1, <2>3, LocalsOf DEF Follows
    <3>2. Tokens(c) = cpu[c].tokens /\ Updated(c) = cpu[c].now /\ updated = cpu[c].now
      BY <1>1, <1>4, <2>5, <2>3, <3>1 DEF Tokens, Updated, Refilled, Bucket
    <3>. QED  BY <1>1, <1>2, <1>5, <2>1, <2>2, <3>2
  <2>4. CASE ~(cpu[c].refill > 0)
    <3>1. /\ cpu[c].tokens = bucket[element].tokens
          /\ (cpu[c].now - bucket[element].updated) * Rate < Second
      BY <1>1, <2>1, <2>4 DEF Follows
    <3>2. Tokens(c) = cpu[c].tokens /\ Updated(c) = updated
      BY <1>1, <1>4, <2>5, <2>4, <3>1 DEF Tokens, Updated, Refilled, Bucket
    <3>3. updated <= cpu[c].now
      BY <1>1, <1>2, <1>4, <1>6 DEF RateInv, NoneAhead, Only, Bucket
    <3>4. left + 1 < Burst /\ (cpu[c].now - updated) * Rate < Second
      BY <1>2, <1>4, <1>5, <2>5, <3>1 DEF Bucket
    <3>. QED  BY <1>1, <1>5, <2>1, <2>2, <3>2, <3>3, <3>4
  <2>. QED  BY <2>3, <2>4
<1>. QED  BY <1>1, <1>2, <1>3, <1>5, <1>6, PassedRate

LEMMA WriteBlockedRate ==
  ASSUME Typed, RateInv, NEW c \in Cpus, WriteBlocked(c)
  PROVE  RateInv'
<1>1. /\ cpu[c].step = "write" /\ cpu[c].tokens = 0 /\ cpu[c].at \in DOMAIN bucket
      /\ Finishes(c, "empty")
      /\ IF block > 0
         THEN BucketWrites(cpu[c].at, Bucket(c).tokens, Bucket(c).updated, cpu[c].now + block)
         ELSE bucket' = bucket
      /\ UNCHANGED <<ktime, block, element, next, overlaps, evictions>>
  BY WriteBlockedEffect
<1>2. SameFunds
  BY <1>1 DEF SameFunds, BucketWrites, Bucket
<1>. QED  BY <1>1, <1>2, RefusedRate

LEMMA CheckBlockedRate ==
  ASSUME Typed, RateInv, NEW c \in Cpus, CheckBlocked(c)
  PROVE  RateInv'
<1>1. cpu[c].step = "check" /\ SameMap /\ UNCHANGED <<ktime, overlaps, evictions>>
  BY CheckEffect
<1>2. SameFunds
  BY <1>1 DEF SameMap, SameFunds
<1>3. CASE Finishes(c, "blocked")
  BY <1>1, <1>2, <1>3, RefusedRate
<1>4. CASE /\ CpuMoves(c, "read_updated", cpu[c].now, cpu[c].at, cpu[c].tokens, cpu[c].refill)
           /\ history' = history
  BY <1>1, <1>4, CheckPassesRate
<1>. QED  BY <1>3, <1>4, CheckEffect

LEMMA RateStep == Typed /\ RateInv /\ [BucketNext]_bucketVars => RateInv'
BY TickRate, EvictRate, BeginRate, LookupRate, InsertRate, CheckBlockedRate, ReadUpdatedRate,
   ReadTokensRate, WriteUpdatedRate, WriteBlockedRate, WriteTokensRate DEF BucketNext

LEMMA RateInit == BucketInit => RateInv
<1>. SUFFICES ASSUME BucketInit PROVE RateInv
  OBVIOUS
<1>1. Typed /\ InProgress = {} /\ ktime = 0 /\ element = NoElement /\ history = <<>> /\ bucket = <<>>
  BY TypedInit DEF BucketInit, InProgress, Idle
<1>2. IsFiniteSet(InProgress) /\ Cardinality(InProgress) = 0
  BY <1>1, FS_EmptySet
<1>3. Covers(ktime) /\ NoneAhead
  BY <1>1 DEF Covers, NoneAhead, Busy, InProgress
<1>4. ASSUME NEW from \in Nat, NEW to \in Nat, from <= to
      PROVE  Fits(from, to, 0) /\ Fits(from, to, Burst + 0)
  <2>1. Cardinality(Passed(from, to)) = 0
    <3>1. Passed(from, to) = {}
      BY <1>1 DEF Passed
    <3>. QED  BY <3>1, FS_EmptySet
  <2>2. Earned(to - from) \in Nat
    <3>1. to - from \in Nat
      BY <1>4
    <3>. QED  BY <3>1, Earnings
  <2>3. Burst * (1 + 2 * overlaps + evictions) = Burst /\ Burst \in Nat
    BY BucketAssumption DEF BucketInit
  <2>. QED  BY <2>1, <2>2, <2>3 DEF Fits, Room
<1>5. Slack(0) /\ Full(0)
  BY <1>4 DEF Slack, Full, Rich
<1>. QED  BY <1>2, <1>3, <1>5 DEF RateInv, Ready

(* A limiter lets no more through in any period than its burst and what    *)
(* the rate has earned, two bursts more for every packet that overlaps     *)
(* another one and one for every eviction: this is all that lost updates,  *)
(* a clock set ahead by another CPU, the wrap to a full refill and a       *)
(* replaced bucket cost (token_bucket_limited), with any number of CPUs.   *)
THEOREM RateIsBounded == BucketSpec => []RateBounded
<1>1. Typed /\ RateInv => RateBounded
  <2>. SUFFICES ASSUME Typed, RateInv, NEW from \in 0..ktime, NEW to \in from..ktime
               PROVE  Cardinality(Passed(from, to)) <=
                        Burst * (1 + 2 * overlaps + evictions) + ((to - from) * Rate) \div Second
    BY DEF RateBounded
  <2>1. from \in Nat /\ to \in Nat /\ from <= to
    BY DEF Typed
  <2>2. Fits(from, to, 0)
    BY <2>1 DEF RateInv, Slack
  <2>. QED  BY <2>1, <2>2, PassedFinite DEF Fits, Room, Earned
<1>2. BucketSpec => [](Typed /\ RateInv)
  <2>1. BucketInit => Typed /\ RateInv
    BY TypedInit, RateInit
  <2>2. (Typed /\ RateInv) /\ [BucketNext]_bucketVars => (Typed /\ RateInv)'
    BY TypedStep, RateStep
  <2>. QED  BY <2>1, <2>2, PTL DEF BucketSpec
<1>. QED  BY <1>1, <1>2, PTL
=============================================================================
