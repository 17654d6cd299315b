----------------------------- MODULE MapsProofs -----------------------------
(***************************************************************************)
(* The BPF maps: what becomes of a packet under the maps in place, and     *)
(* what holds while other ones are written.                                *)
(*                                                                         *)
(* For every set of rows, however they are compacted, ordered and looked   *)
(* up: trusted sources pass, bans are enforced as long as they last, the   *)
(* best rule decides, and no host is cut off by its own policy.  All of it *)
(* follows from one invariant, that the maps are what the rows compile to  *)
(* at some earlier time (InPlace), and from what compilation and the       *)
(* longest-prefix match guarantee of each other.                           *)
(*                                                                         *)
(* Then, for every set of keys, policies, sources and capacities: what a   *)
(* source gets while one policy is written over another (PolicyApply, whose *)
(* variable `held` is what PacketPath calls `maps`).  The order of the      *)
(* writes within and between maps plays no part, only that all of them     *)
(* come before all removals.  And once an apply is recorded, the maps hold *)
(* that policy exactly.                                                    *)
(***************************************************************************)
EXTENDS PacketPath, PolicyApply, FiniteSetTheorems, WellFoundedInduction, TLAPS

InPlace ==
  /\ rows \subseteq Candidates /\ IsFiniteSet(rows)
  /\ clock \in Int
  /\ \E t \in Int : t <= clock /\ maps \in Pending(rows, t)

----------------------------------------------------------------------------
(* Prefixes.                                                               *)

LEMMA PrefixLength ==
  ASSUME NEW p \in Prefixes
  PROVE  p.len \in 0..W /\ p.len \in Nat
BY PathAssumption DEF Prefixes

LEMMA PrefixShape ==
  ASSUME NEW p \in Prefixes
  PROVE  /\ p = [fam |-> p.fam, len |-> p.len, net |-> p.net]
         /\ p.net = [i \in 1..p.len |-> p.net[i]]
<1>1. PICK n \in 0..W : p \in [fam: Families, len: {n}, net: [1..n -> {0, 1}]]
  BY DEF Prefixes
<1>. QED  BY <1>1

LEMMA CoversReflexive ==
  ASSUME NEW p \in Prefixes
  PROVE  Covers(p, p)
BY PrefixLength DEF Covers

LEMMA CoversTransitive ==
  ASSUME NEW p \in Prefixes, NEW q \in Prefixes, NEW r \in Prefixes,
         Covers(p, q), Covers(q, r)
  PROVE  Covers(p, r)
BY PrefixLength DEF Covers

LEMMA CoversContains ==
  ASSUME NEW p \in Prefixes, NEW q \in Prefixes, Covers(p, q), NEW a, Contains(q, a)
  PROVE  Contains(p, a)
BY PrefixLength DEF Covers, Contains

\* Prefixes that contain one address cover each other, the shorter the longer.
LEMMA ContainsNest ==
  ASSUME NEW p \in Prefixes, NEW q \in Prefixes, p.len <= q.len,
         NEW a, Contains(p, a), Contains(q, a)
  PROVE  Covers(p, q)
BY PrefixLength DEF Covers, Contains

LEMMA CoversSameLength ==
  ASSUME NEW p \in Prefixes, NEW q \in Prefixes, Covers(p, q), p.len >= q.len
  PROVE  p = q
<1>1. p.len = q.len /\ p.fam = q.fam
  BY PrefixLength DEF Covers
<1>2. \A i \in 1..p.len : p.net[i] = q.net[i]
  BY DEF Covers
<1>3. p.net = q.net
  <2>1. p.net = [i \in 1..p.len |-> p.net[i]] /\ q.net = [i \in 1..p.len |-> q.net[i]]
    BY <1>1, PrefixShape
  <2>. QED  BY <1>2, <2>1
<1>. QED  BY <1>1, <1>3, PrefixShape

\* Numbers have a least one, prefixes a shortest and a longest one.
LEMMA LeastNumber ==
  ASSUME NEW S, S \subseteq Nat, S # {}
  PROVE  \E n \in S : \A m \in S : n <= m
<1>1. PICK n \in S : \A m \in S : ~(<<m, n>> \in OpToRel(<, Nat))
  BY NatLessThanWellFounded, WFMin
<1>2. ASSUME NEW m \in S PROVE ~(m < n)
  BY <1>1 DEF OpToRel
<1>. QED  BY <1>2

LEMMA Shortest ==
  ASSUME NEW S \in SUBSET Prefixes, S # {}
  PROVE  \E p \in S : \A q \in S : p.len <= q.len
<1>. DEFINE lengths == {p.len : p \in S}
<1>1. lengths \subseteq Nat /\ lengths # {}
  BY PrefixLength, PathAssumption
<1>2. PICK n \in lengths : \A m \in lengths : n <= m
  <2>. HIDE DEF lengths
  <2>. QED  BY <1>1, LeastNumber
<1>. QED  BY <1>2

LEMMA LongestOne ==
  ASSUME NEW S \in SUBSET Prefixes, S # {}
  PROVE  \E p \in S : \A q \in S : q.len <= p.len
<1>. DEFINE lacking == {W - p.len : p \in S}
<1>1. lacking \subseteq Nat /\ lacking # {}
  BY PrefixLength, PathAssumption
<1>2. PICK n \in lacking : \A m \in lacking : n <= m
  <2>. HIDE DEF lacking
  <2>. QED  BY <1>1, LeastNumber
<1>3. PICK p \in S : n = W - p.len
  OBVIOUS
<1>4. ASSUME NEW q \in S PROVE q.len <= p.len
  <2>1. W - p.len <= W - q.len
    BY <1>2, <1>3
  <2>. QED  BY <2>1, PrefixLength, PathAssumption
<1>. QED  BY <1>4

(* A longest-prefix match finds something if anything matches, and then    *)
(* what every other match covers.                                          *)
LEMMA LongestMatch ==
  ASSUME NEW P \in SUBSET Prefixes, None \notin P, NEW a
  PROVE  /\ Longest(P, a) # None =>
              /\ Longest(P, a) \in P /\ Contains(Longest(P, a), a)
              /\ \A p \in P : Contains(p, a) => Covers(p, Longest(P, a))
         /\ \A p \in P : Contains(p, a) => Longest(P, a) # None
<1>. DEFINE hits == {p \in P : Contains(p, a)}
<1>1. CASE hits = {}
  BY <1>1 DEF Longest
<1>2. CASE hits # {}
  <2>1. \E p \in hits : \A q \in hits : q.len <= p.len
    <3>1. hits \in SUBSET Prefixes
      OBVIOUS
    <3>. HIDE DEF hits
    <3>. QED  BY <1>2, <3>1, LongestOne
  <2>2. Longest(P, a) = CHOOSE p \in hits : \A q \in hits : q.len <= p.len
    BY <1>2 DEF Longest
  <2>3. Longest(P, a) \in hits /\ \A q \in hits : q.len <= Longest(P, a).len
    <3>. HIDE DEF hits
    <3>. QED  BY <2>1, <2>2
  <2>. QED  BY <2>3, ContainsNest
<1>. QED  BY <1>1, <1>2

----------------------------------------------------------------------------
(* From rows to maps.                                                      *)

KeyOk(k) ==
  /\ k.cidr \in Prefixes
  /\ k = [cidr |-> k.cidr, proto |-> k.proto, port |-> k.port]
  /\ k # None /\ k.cidr # None

KeysOk(keys) == \A k \in keys : KeyOk(k)

LEMMA CompiledRow ==
  ASSUME NEW R, R \subseteq Candidates, NEW r \in CompileRules(R)
  PROVE  /\ KeyOk(Key(r)) /\ Key(r).cidr = r.cidr /\ r # None
         /\ Key(r).proto = r.proto /\ Key(r).port = r.port
         /\ r.priority \in Int /\ MinPriority <= r.priority
         /\ r.table = "threat" => r.priority = MinPriority
<1>1. r \in CompileRules(Candidates)
  BY DEF CompileRules, Table
<1>2. r # None /\ Key(r) # None /\ r.cidr # None
  BY <1>1, NoneAssumption
<1>3. CASE r \in Table(R, "rule")
  BY <1>2, <1>3, PathAssumption DEF Table, KeyOk, Key
<1>4. CASE \E t \in Table(R, "threat") : r = ThreatRule(t)
  <2>1. PICK t \in R : t.table = "threat" /\ r = ThreatRule(t)
    BY <1>4 DEF Table
  <2>2. t.cidr \in Prefixes /\ r.cidr = t.cidr /\ r.priority = MinPriority
    BY <2>1, PathAssumption DEF ThreatRule
  <2>. QED  BY <1>2, <2>2 DEF KeyOk, Key, MinPriority
<1>. QED  BY <1>3, <1>4 DEF CompileRules

(* Of the rules and threat prefixes that are not refused one is kept for   *)
(* each key, and none precedes it.                                         *)
LEMMA RulesKept ==
  ASSUME NEW R, R \subseteq Candidates, NEW f \in PendingRules(R)
  PROVE  /\ KeysOk(DOMAIN f)
         /\ \A k \in DOMAIN f :
              Key(f[k]) = k /\ f[k] \in CompileRules(R) /\ ~Refused(f[k]) /\ f[k] # None
         /\ \A r \in CompileRules(R) :
              ~Refused(r) => Key(r) \in DOMAIN f /\ ~Precedes(r, f[Key(r)])
<1>. DEFINE S == {r \in CompileRules(R) : ~Refused(r)}
<1>1. /\ f \in [{Key(s) : s \in S} -> S]
      /\ \A k \in DOMAIN f : Key(f[k]) = k /\ \A s \in S : Key(s) = k => ~Precedes(s, f[k])
  BY DEF PendingRules, FirstMatches
<1>2. ASSUME NEW k \in DOMAIN f
      PROVE  Key(f[k]) = k /\ f[k] \in CompileRules(R) /\ ~Refused(f[k])
  BY <1>1
<1>3. ASSUME NEW k \in DOMAIN f PROVE KeyOk(k) /\ f[k] # None
  BY <1>2, CompiledRow
<1>4. ASSUME NEW r \in CompileRules(R), ~Refused(r)
      PROVE  Key(r) \in DOMAIN f /\ ~Precedes(r, f[Key(r)])
  BY <1>1, <1>4
<1>. QED  BY <1>2, <1>3, <1>4 DEF KeysOk

(* Every trusted prefix is covered by one that compaction leaves.          *)
LEMMA TrustedKept ==
  ASSUME NEW R, R \subseteq Candidates, NEW t \in Table(R, "trusted")
  PROVE  \E p \in CompactTrusted(R) : p \in Prefixes /\ Covers(p, t.cidr)
<1>. DEFINE T == {u.cidr : u \in Table(R, "trusted")}
            S == {p \in T : Covers(p, t.cidr)}
<1>1. T \subseteq Prefixes
  BY PathAssumption DEF Table
<1>2. t.cidr \in T
  OBVIOUS
<1>. HIDE DEF T
<1>3. S \in SUBSET Prefixes /\ S # {}
  BY <1>1, <1>2, CoversReflexive
<1>4. PICK p \in S : \A q \in S : p.len <= q.len
  <2>. HIDE DEF S
  <2>. QED  BY <1>3, Shortest
<1>5. ASSUME NEW q \in T \ {p}, Covers(q, p) PROVE FALSE
  <2>1. q \in S
    BY <1>1, <1>2, <1>4, <1>5, CoversTransitive
  <2>2. p.len <= q.len /\ p \in Prefixes /\ q \in Prefixes
    BY <1>1, <1>4, <2>1
  <2>3. q.len >= p.len
    BY <2>2, PrefixLength
  <2>. QED  BY <1>5, <2>2, <2>3, CoversSameLength
<1>6. p \in CompactTrusted(R)
  BY <1>4, <1>5 DEF CompactTrusted, T
<1>. QED  BY <1>1, <1>4, <1>6

\* One of finitely many bans lasts the longest.
LEMMA LastToExpire ==
  ASSUME NEW S, IsFiniteSet(S), S # {}, \A b \in S : b.expires \in Int
  PROVE  \E c \in S : \A b \in S : b.expires <= c.expires
<1>. DEFINE later(c) == {b \in S : b.expires > c.expires}
            counts == {Cardinality(later(c)) : c \in S}
<1>1. ASSUME NEW c \in S
      PROVE  IsFiniteSet(later(c)) /\ Cardinality(later(c)) \in Nat
  BY FS_Subset, FS_CardinalityType
<1>2. counts \subseteq Nat /\ counts # {}
  BY <1>1
<1>3. PICK n \in counts : \A m \in counts : n <= m
  <2>. HIDE DEF counts
  <2>. QED  BY <1>2, LeastNumber
<1>4. PICK c \in S : n = Cardinality(later(c))
  OBVIOUS
<1>5. ASSUME NEW b \in S, b.expires > c.expires PROVE FALSE
  <2>1. later(b) \subseteq later(c) /\ b \in later(c) /\ b \notin later(b)
    BY <1>5
  <2>2. Cardinality(later(b)) < Cardinality(later(c))
    <3>. HIDE DEF later
    <3>. QED  BY <1>1, <2>1, FS_Subset
  <2>3. Cardinality(later(c)) <= Cardinality(later(b))
    BY <1>3, <1>4
  <2>. HIDE DEF later
  <2>. QED  BY <1>1, <2>2, <2>3
<1>. QED  BY <1>4, <1>5

Compacted(R, time) ==
  {b \in ActiveBans(R, time) : \A c \in ActiveBans(R, time) \ {b} : ~BanSupersedes(c, b)}

LEMMA BanRow ==
  ASSUME NEW R, R \subseteq Candidates, NEW time, NEW b \in ActiveBans(R, time)
  PROVE  /\ b \in R /\ b.table = "ban"
         /\ b.cidr \in Prefixes /\ b.expires \in Int /\ b.expires > time
         /\ KeyOk(Key(b)) /\ Key(b).cidr = b.cidr
         /\ Key(b).proto = b.proto /\ Key(b).port = b.port
<1>1. b \in R /\ b.table = "ban" /\ b.expires > time
  BY DEF ActiveBans, Table
<1>2. Key(b) # None /\ b.cidr # None
  BY <1>1, NoneAssumption DEF Table
<1>. QED  BY <1>1, <1>2, PathAssumption DEF Key, KeyOk

(* Every active ban is covered by one that compaction leaves and that      *)
(* lasts as long.                                                          *)
LEMMA BanKept ==
  ASSUME NEW R, R \subseteq Candidates, IsFiniteSet(R), NEW time \in Int,
         NEW b \in ActiveBans(R, time)
  PROVE  \E c \in Compacted(R, time) :
           /\ c.proto = b.proto /\ c.port = b.port
           /\ Covers(c.cidr, b.cidr) /\ c.expires >= b.expires
<1>. DEFINE B == ActiveBans(R, time)
            S == {c \in B : /\ c.proto = b.proto /\ c.port = b.port
                            /\ Covers(c.cidr, b.cidr) /\ c.expires >= b.expires}
            nets == {c.cidr : c \in S}
<1>1. \A c \in B : c \in R /\ c.cidr \in Prefixes /\ c.expires \in Int
  BY BanRow
<1>. HIDE DEF B
<1>2. b \in S
  BY <1>1, CoversReflexive DEF B
<1>3. nets \in SUBSET Prefixes /\ nets # {}
  BY <1>1, <1>2
<1>4. PICK p \in nets : \A q \in nets : p.len <= q.len
  <2>. HIDE DEF nets
  <2>. QED  BY <1>3, Shortest
<1>. DEFINE widest == {c \in S : c.cidr = p}
<1>5. IsFiniteSet(widest) /\ widest # {}
  BY <1>1, <1>4, FS_Subset
<1>6. PICK c \in widest : \A d \in widest : d.expires <= c.expires
  <2>1. \A d \in widest : d.expires \in Int
    BY <1>1
  <2>. HIDE DEF widest
  <2>. QED  BY <1>5, <2>1, LastToExpire
<1>7. ASSUME NEW d \in B \ {c}, BanSupersedes(d, c) PROVE FALSE
  <2>1. d.proto = b.proto /\ d.port = b.port /\ c.cidr = p
    BY <1>7 DEF BanSupersedes
  <2>2. /\ p \in Prefixes /\ d.cidr \in Prefixes /\ b.cidr \in Prefixes
        /\ d.expires \in Int /\ c.expires \in Int /\ b.expires \in Int
    BY <1>1, <1>2, <1>3
  <2>3. Covers(p, b.cidr) /\ c.expires >= b.expires
    BY <2>1
  <2>4. CASE d.cidr = p /\ d.expires > c.expires
    <3>1. d \in widest
      BY <2>1, <2>2, <2>3, <2>4
    <3>. HIDE DEF widest
    <3>. QED  BY <1>6, <2>2, <2>4, <3>1
  <2>5. CASE d.cidr # p /\ Covers(d.cidr, p) /\ d.expires >= c.expires
    <3>1. Covers(d.cidr, b.cidr) /\ d.expires >= b.expires
      BY <2>2, <2>3, <2>5, CoversTransitive
    <3>2. d.cidr \in nets
      BY <2>1, <3>1
    <3>3. p.len <= d.cidr.len
      <4>. HIDE DEF nets
      <4>. QED  BY <1>4, <3>2
    <3>4. d.cidr.len >= p.len
      BY <2>2, <3>3, PrefixLength
    <3>. QED  BY <2>2, <2>5, <3>4, CoversSameLength
  <2>. QED  BY <1>7, <2>1, <2>4, <2>5 DEF BanSupersedes
<1>8. c \in Compacted(R, time)
  BY <1>6, <1>7 DEF Compacted, B
<1>. QED  BY <1>8

(* The map of bans: the keys of those that are kept and not refused, with  *)
(* the longest time of a ban that has the key.                             *)
LEMMA BansInMap ==
  ASSUME NEW R, R \subseteq Candidates, NEW time
  PROVE  /\ KeysOk(DOMAIN BanMap(R, time))
         /\ \A k \in DOMAIN BanMap(R, time) :
              \E d \in Compacted(R, time) :
                Key(d) = k /\ ~MatchesLocal(d.cidr) /\ BanMap(R, time)[k] = d.expires
         /\ \A c \in Compacted(R, time) : ~MatchesLocal(c.cidr) => Key(c) \in DOMAIN BanMap(R, time)
<1>1. PendingBans(R, time) = {b \in Compacted(R, time) : ~MatchesLocal(b.cidr)}
  BY DEF PendingBans, Compacted
<1>2. DOMAIN BanMap(R, time) = {Key(b) : b \in PendingBans(R, time)}
  BY DEF BanMap
<1>3. ASSUME NEW k \in DOMAIN BanMap(R, time)
      PROVE  /\ KeyOk(k)
             /\ \E d \in Compacted(R, time) :
                  Key(d) = k /\ ~MatchesLocal(d.cidr) /\ BanMap(R, time)[k] = d.expires
  <2>. DEFINE d == CHOOSE b \in PendingBans(R, time) : Key(b) = k
  <2>1. d \in PendingBans(R, time) /\ Key(d) = k
    BY <1>2
  <2>2. BanMap(R, time)[k] = d.expires
    BY <1>2 DEF BanMap
  <2>. HIDE DEF d
  <2>3. d \in ActiveBans(R, time)
    BY <1>1, <2>1 DEF Compacted
  <2>. QED  BY <1>1, <2>1, <2>2, <2>3, BanRow
<1>. QED  BY <1>1, <1>2, <1>3 DEF KeysOk

----------------------------------------------------------------------------
(* From maps to a verdict.                                                 *)

LEMMA FirstIsLeast ==
  ASSUME NEW S \in SUBSET (1..4), S # {}
  PROVE  FirstOf(S) \in S /\ \A j \in S : FirstOf(S) <= j
<1>1. \E i \in S : \A j \in S : i <= j
  <2>1. S \subseteq Nat
    OBVIOUS
  <2>. QED  BY <2>1, LeastNumber
<1>. QED  BY <1>1 DEF FirstOf

\* What matches a packet belongs to one of the four classes, and conversely.
LEMMA MatchesClass ==
  ASSUME NEW r, NEW p
  PROVE  Matches(r, p) <=>
           /\ Contains(r.cidr, p.src)
           /\ \E i \in 1..4 : Class(p, i).proto = r.proto /\ Class(p, i).port = r.port
<1>1. /\ Class(p, 1) = [proto |-> p.proto, port |-> p.dport]
      /\ Class(p, 2) = [proto |-> p.proto, port |-> 0]
      /\ Class(p, 3) = [proto |-> "any", port |-> p.dport]
      /\ Class(p, 4) = [proto |-> "any", port |-> 0]
  BY DEF Class
<1>2. ASSUME NEW i \in 1..4
      PROVE  Class(p, i).proto \in {"any", p.proto} /\ Class(p, i).port \in {0, p.dport}
  <2>1. i = 1 \/ i = 2 \/ i = 3 \/ i = 4
    OBVIOUS
  <2>. QED  BY <1>1, <2>1
<1>. QED  BY <1>1, <1>2 DEF Matches

(* A trie returns the longest of its keys of a class that contains the     *)
(* source: every other one covers it.                                      *)
LEMMA HitFound ==
  ASSUME NEW trie, KeysOk(DOMAIN trie), NEW p, NEW i \in 1..4
  PROVE  /\ Hit(trie, p, i) # None =>
              /\ Hit(trie, p, i) \in DOMAIN trie
              /\ Contains(Hit(trie, p, i).cidr, p.src)
              /\ Hit(trie, p, i).proto = Class(p, i).proto
              /\ Hit(trie, p, i).port = Class(p, i).port
              /\ \A k \in DOMAIN trie :
                   /\ k.proto = Class(p, i).proto /\ k.port = Class(p, i).port
                   /\ Contains(k.cidr, p.src)
                   => Covers(k.cidr, Hit(trie, p, i).cidr)
         /\ \A k \in DOMAIN trie :
              /\ k.proto = Class(p, i).proto /\ k.port = Class(p, i).port
              /\ Contains(k.cidr, p.src)
              => Hit(trie, p, i) # None
<1>. DEFINE c == Class(p, i)
            K == {k \in DOMAIN trie : k.proto = c.proto /\ k.port = c.port}
            P == {k.cidr : k \in K}
            net == Longest(P, p.src)
            key == [cidr |-> net, proto |-> c.proto, port |-> c.port]
<1>1. Hit(trie, p, i) = IF net = None THEN None ELSE key
  BY DEF Hit
<1>2. P \in SUBSET Prefixes /\ None \notin P
  BY DEF KeysOk, KeyOk
<1>3. /\ net # None => /\ net \in P /\ Contains(net, p.src)
                       /\ \A q \in P : Contains(q, p.src) => Covers(q, net)
      /\ \A q \in P : Contains(q, p.src) => net # None
  <2>. HIDE DEF P
  <2>. QED  BY <1>2, LongestMatch
<1>. HIDE DEF net
<1>4. ASSUME net # None PROVE key \in DOMAIN trie /\ key # None
  <2>1. PICK k \in K : k.cidr = net
    BY <1>3, <1>4
  <2>2. k \in DOMAIN trie /\ k.proto = c.proto /\ k.port = c.port
    OBVIOUS
  <2>3. KeyOk(k)
    BY <2>2 DEF KeysOk
  <2>4. k = key
    <3>. HIDE DEF c
    <3>. QED  BY <2>1, <2>2, <2>3 DEF KeyOk
  <2>. QED  BY <2>2, <2>3, <2>4 DEF KeyOk
<1>5. key.cidr = net /\ key.proto = c.proto /\ key.port = c.port
  OBVIOUS
<1>6. \A k \in DOMAIN trie : k.proto = c.proto /\ k.port = c.port => k.cidr \in P
  OBVIOUS
<1>. HIDE DEF key, P, K, c
<1>7. CASE net = None
  <2>1. Hit(trie, p, i) = None
    BY <1>1, <1>7
  <2>. QED  BY <1>3, <1>6, <1>7, <2>1 DEF c
<1>8. CASE net # None
  <2>1. Hit(trie, p, i) = key
    BY <1>1, <1>8
  <2>. QED  BY <1>3, <1>4, <1>5, <1>6, <1>8, <2>1 DEF c
<1>. QED  BY <1>7, <1>8

(* What is in place, of the maps the program reads. *)
LEMMA MapsInPlace ==
  ASSUME InPlace
  PROVE  \E t \in Int : /\ t <= clock
                        /\ maps.trusted = CompactTrusted(rows)
                        /\ maps.bans = BanMap(rows, t)
                        /\ maps.rules \in PendingRules(rows)
BY DEF InPlace, Pending

(* Compaction changes nothing about who is trusted. *)
LEMMA TrustedFound ==
  ASSUME InPlace, NEW p
  PROVE  LookupTrusted(p) <=> IsTrusted(p)
<1>. DEFINE T == Table(rows, "trusted")
<1>1. maps.trusted = CompactTrusted(rows) /\ rows \subseteq Candidates
  BY MapsInPlace DEF InPlace
<1>2. ASSUME LookupTrusted(p) PROVE IsTrusted(p)
  BY <1>1, <1>2 DEF LookupTrusted, CompactTrusted, IsTrusted
<1>3. ASSUME NEW t \in T, Contains(t.cidr, p.src) PROVE LookupTrusted(p)
  <2>1. PICK q \in CompactTrusted(rows) : q \in Prefixes /\ Covers(q, t.cidr)
    BY <1>1, TrustedKept
  <2>2. t.cidr \in Prefixes
    BY <1>1, PathAssumption DEF Table
  <2>3. Contains(q, p.src)
    BY <1>3, <2>1, <2>2, CoversContains
  <2>. QED  BY <1>1, <2>1, <2>3 DEF LookupTrusted
<1>. QED  BY <1>2, <1>3 DEF IsTrusted

(* A ban that is found is one that matches and lasts; and one that matches *)
(* and lasts is found, or one instead of it, unless a refused one absorbed *)
(* it.                                                                     *)
LEMMA BanFound ==
  ASSUME InPlace, NEW p
  PROVE  /\ TempBanActive(p) => \E b \in BansOn(p) : b.expires > clock
         /\ (\E b \in BansOn(p) : b.expires > clock /\ ~AbsorbedByRefused(b)) => TempBanActive(p)
<1>1. PICK t \in Int : t <= clock /\ maps.bans = BanMap(rows, t)
  BY MapsInPlace
<1>2. rows \subseteq Candidates /\ IsFiniteSet(rows) /\ clock \in Int
  BY DEF InPlace
<1>3. KeysOk(DOMAIN maps.bans)
  BY <1>1, <1>2, BansInMap
<1>4. ASSUME TempBanActive(p) PROVE \E b \in BansOn(p) : b.expires > clock
  <2>1. PICK i \in 1..4 : Hit(maps.bans, p, i) # None /\ maps.bans[Hit(maps.bans, p, i)] > clock
    BY <1>4 DEF TempBanActive
  <2>. DEFINE k == Hit(maps.bans, p, i)
  <2>2. /\ k \in DOMAIN maps.bans /\ Contains(k.cidr, p.src)
        /\ k.proto = Class(p, i).proto /\ k.port = Class(p, i).port
    BY <1>3, <2>1, HitFound
  <2>. HIDE DEF k
  <2>3. PICK d \in Compacted(rows, t) : Key(d) = k /\ maps.bans[k] = d.expires
    BY <1>1, <1>2, <2>2, BansInMap
  <2>4. d \in ActiveBans(rows, t)
    BY DEF Compacted
  <2>5. /\ d \in rows /\ d.table = "ban"
        /\ d.cidr = k.cidr /\ d.proto = k.proto /\ d.port = k.port
    BY <1>2, <2>3, <2>4, BanRow
  <2>6. Matches(d, p)
    BY <2>2, <2>5, MatchesClass
  <2>7. d.expires > clock
    BY <2>1, <2>3 DEF k
  <2>. QED  BY <2>5, <2>6, <2>7 DEF BansOn, Table
<1>5. ASSUME NEW b \in BansOn(p), b.expires > clock, ~AbsorbedByRefused(b)
      PROVE  TempBanActive(p)
  <2>1. b \in rows /\ b.table = "ban" /\ Matches(b, p) /\ b.expires \in Int
    BY <1>2, PathAssumption DEF BansOn, Table
  <2>2. b \in ActiveBans(rows, t)
    BY <1>1, <1>2, <1>5, <2>1 DEF ActiveBans, Table
  <2>3. PICK c \in Compacted(rows, t) :
          /\ c.proto = b.proto /\ c.port = b.port
          /\ Covers(c.cidr, b.cidr) /\ c.expires >= b.expires
    BY <1>2, <2>2, BanKept
  <2>4. c \in ActiveBans(rows, t)
    BY DEF Compacted
  <2>5. /\ c \in rows /\ c.table = "ban" /\ c.cidr \in Prefixes /\ c.expires \in Int
        /\ Key(c).cidr = c.cidr /\ Key(c).proto = c.proto /\ Key(c).port = c.port
    BY <1>2, <2>4, BanRow
  <2>6. ~MatchesLocal(c.cidr)
    BY <1>5, <2>3, <2>5 DEF AbsorbedByRefused, Table
  <2>7. Key(c) \in DOMAIN maps.bans
    BY <1>1, <1>2, <2>6, BansInMap
  <2>8. Contains(c.cidr, p.src)
    BY <1>2, <2>1, <2>2, <2>3, <2>5, BanRow, CoversContains DEF Matches
  <2>9. PICK i \in 1..4 : Class(p, i).proto = c.proto /\ Class(p, i).port = c.port
    BY <2>1, <2>3, MatchesClass
  <2>. DEFINE k == Hit(maps.bans, p, i)
  <2>10. /\ k # None /\ k \in DOMAIN maps.bans
         /\ k.proto = c.proto /\ k.port = c.port /\ Covers(c.cidr, k.cidr)
    BY <1>3, <2>5, <2>7, <2>8, <2>9, HitFound
  <2>. HIDE DEF k
  <2>11. PICK d \in Compacted(rows, t) : Key(d) = k /\ maps.bans[k] = d.expires
    BY <1>1, <1>2, <2>10, BansInMap
  <2>12. /\ d \in ActiveBans(rows, t) /\ d.expires \in Int
         /\ d.cidr = k.cidr /\ d.proto = c.proto /\ d.port = c.port
    BY <1>2, <2>10, <2>11, BanRow DEF Compacted
  <2>13. d.expires >= c.expires
    <3>1. CASE d = c
      BY <2>5, <3>1
    <3>2. CASE d # c
      <4>1. ~BanSupersedes(c, d)
        BY <2>4, <3>2 DEF Compacted
      <4>2. c.cidr = d.cidr => ~(c.expires > d.expires)
        BY <2>12, <4>1 DEF BanSupersedes
      <4>3. c.cidr # d.cidr => ~(c.expires >= d.expires)
        BY <2>10, <2>12, <4>1 DEF BanSupersedes
      <4>. QED  BY <2>5, <2>12, <4>2, <4>3
    <3>. QED  BY <3>1, <3>2
  <2>14. maps.bans[k] > clock
    BY <1>2, <1>5, <2>1, <2>3, <2>5, <2>11, <2>12, <2>13
  <2>. QED  BY <2>10, <2>14 DEF TempBanActive, k
<1>. QED  BY <1>4, <1>5

(* The rule that is found is none if nothing fits, and otherwise one that  *)
(* fits and that no other beats.                                           *)
LEMMA RuleFound ==
  ASSUME InPlace, NEW p
  PROVE  IF FittingRules(p) = {} THEN LookupRule(p) = None
         ELSE /\ LookupRule(p) # None /\ LookupRule(p) \in FittingRules(p)
              /\ \A r \in FittingRules(p) : ~GoesBefore(r, LookupRule(p), p)
<1>. DEFINE hits == {i \in 1..4 : Hit(maps.rules, p, i) # None}
            f == maps.rules
<1>1. f \in PendingRules(rows) /\ rows \subseteq Candidates
  BY MapsInPlace DEF InPlace
<1>2. /\ KeysOk(DOMAIN f)
      /\ \A k \in DOMAIN f :
           Key(f[k]) = k /\ f[k] \in CompileRules(rows) /\ ~Refused(f[k]) /\ f[k] # None
      /\ \A r \in CompileRules(rows) :
           ~Refused(r) => Key(r) \in DOMAIN f /\ ~Precedes(r, f[Key(r)])
  BY <1>1, RulesKept
<1>3. \A r \in CompileRules(rows) :
        /\ Key(r).cidr = r.cidr /\ Key(r).proto = r.proto /\ Key(r).port = r.port
        /\ r.cidr \in Prefixes /\ r.priority \in Int /\ MinPriority <= r.priority
        /\ r.table = "threat" => r.priority = MinPriority
        /\ Key(r) = [cidr |-> r.cidr, proto |-> r.proto, port |-> r.port]
  BY <1>1, CompiledRow DEF KeyOk, Key
<1>4. ASSUME NEW r \in FittingRules(p), NEW i \in 1..4,
             Class(p, i).proto = r.proto, Class(p, i).port = r.port
      PROVE  i \in hits /\ Covers(r.cidr, Hit(f, p, i).cidr)
  <2>1. /\ r \in CompileRules(rows) /\ ~Refused(r) /\ Contains(r.cidr, p.src)
        /\ Key(r) \in DOMAIN f
    BY <1>2 DEF FittingRules, Matches
  <2>. QED  BY <1>2, <1>3, <1>4, <2>1, HitFound
<1>5. ASSUME hits = {} PROVE FittingRules(p) = {} /\ LookupRule(p) = None
  <2>1. ASSUME NEW r \in FittingRules(p) PROVE FALSE
    <3>1. PICK i \in 1..4 : Class(p, i).proto = r.proto /\ Class(p, i).port = r.port
      BY MatchesClass DEF FittingRules
    <3>. QED  BY <1>4, <1>5, <3>1
  <2>. QED  BY <1>5, <2>1 DEF LookupRule
<1>6. ASSUME hits # {}
      PROVE  /\ LookupRule(p) # None /\ LookupRule(p) \in FittingRules(p)
             /\ \A r \in FittingRules(p) : ~GoesBefore(r, LookupRule(p), p)
  <2>. DEFINE first == FirstOf(hits)
              k == Hit(f, p, first)
              best == f[k]
  <2>1. first \in hits /\ \A j \in hits : first <= j
    <3>1. hits \in SUBSET (1..4)
      OBVIOUS
    <3>. HIDE DEF hits
    <3>. QED  BY <1>6, <3>1, FirstIsLeast
  <2>2. LookupRule(p) = best
    BY <1>6 DEF LookupRule
  <2>. HIDE DEF first
  <2>3. /\ first \in 1..4 /\ k \in DOMAIN f /\ Contains(k.cidr, p.src)
        /\ k.proto = Class(p, first).proto /\ k.port = Class(p, first).port
    BY <1>2, <2>1, HitFound
  <2>. HIDE DEF k
  <2>4. /\ Key(best) = k /\ best \in CompileRules(rows) /\ ~Refused(best) /\ best # None
        /\ best.cidr = k.cidr /\ best.proto = k.proto /\ best.port = k.port
    BY <1>2, <1>3, <2>3
  <2>. HIDE DEF best
  <2>5. best \in FittingRules(p)
    BY <2>3, <2>4, MatchesClass DEF FittingRules
  <2>6. ASSUME NEW r \in FittingRules(p)
        PROVE  ClassOf(r, p) \in hits /\ Class(p, ClassOf(r, p)) = [proto |-> r.proto, port |-> r.port]
    <3>. DEFINE classes == {i \in 1..4 : Class(p, i) = [proto |-> r.proto, port |-> r.port]}
    <3>1. PICK i \in 1..4 : Class(p, i).proto = r.proto /\ Class(p, i).port = r.port
      BY MatchesClass DEF FittingRules
    <3>2. i \in classes
      BY <3>1 DEF Class
    <3>3. FirstOf(classes) \in classes
      <4>1. classes \in SUBSET (1..4)
        OBVIOUS
      <4>. HIDE DEF classes
      <4>. QED  BY <3>2, <4>1, FirstIsLeast
    <3>4. ClassOf(r, p) = FirstOf(classes)
      BY DEF ClassOf
    <3>. HIDE DEF FirstOf
    <3>5. ClassOf(r, p) \in 1..4 /\ Class(p, ClassOf(r, p)) = [proto |-> r.proto, port |-> r.port]
      BY <3>3, <3>4
    <3>. QED  BY <1>4, <3>5
  <2>7. ClassOf(best, p) = first
    <3>1. Class(p, first) = [proto |-> best.proto, port |-> best.port]
      BY <2>3, <2>4 DEF Class
    <3>2. \A j \in 1..4 : Class(p, j) = [proto |-> best.proto, port |-> best.port]
                            => Hit(f, p, j) = Hit(f, p, first)
      BY <3>1 DEF Hit
    <3>. DEFINE classes == {i \in 1..4 : Class(p, i) = [proto |-> best.proto, port |-> best.port]}
    <3>3. FirstOf(classes) \in classes /\ \A j \in classes : FirstOf(classes) <= j
      <4>1. classes \in SUBSET (1..4) /\ first \in classes
        BY <2>3, <3>1
      <4>. HIDE DEF classes
      <4>. QED  BY <4>1, FirstIsLeast
    <3>4. ClassOf(best, p) = FirstOf(classes)
      BY DEF ClassOf
    <3>5. ClassOf(best, p) \in hits /\ ClassOf(best, p) \in 1..4 /\ ClassOf(best, p) <= first
      BY <2>1, <2>3, <3>1, <3>2, <3>3, <3>4
    <3>. HIDE DEF hits, classes
    <3>. QED  BY <2>1, <2>3, <3>5
  <2>8. ASSUME NEW r \in FittingRules(p), GoesBefore(r, best, p) PROVE FALSE
    <3>1. first <= ClassOf(r, p) /\ ClassOf(r, p) \in 1..4
      BY <2>1, <2>6
    <3>2. ClassOf(r, p) = first
      BY <2>3, <2>7, <2>8, <3>1 DEF GoesBefore, MoreExact
    <3>3. r.proto = best.proto /\ r.port = best.port
      BY <2>3, <2>4, <2>6, <3>2
    <3>4. /\ r \in CompileRules(rows) /\ ~Refused(r) /\ Contains(r.cidr, p.src)
          /\ r.cidr \in Prefixes /\ best.cidr \in Prefixes
      BY <1>3, <2>4 DEF FittingRules, Matches
    <3>5. Covers(r.cidr, best.cidr)
      BY <1>4, <2>3, <2>4, <3>3 DEF k
    <3>. DEFINE higher == r.priority < best.priority \/ (r.table = "threat" /\ best.table = "rule")
    <3>6. r.cidr.len > best.cidr.len \/ (Key(r) = Key(best) /\ higher)
      <4>1. first \in 1..4 /\ ClassOf(r, p) = first /\ ClassOf(best, p) = first
        BY <2>3, <2>7, <3>2
      <4>2. ~(first < first)
        BY <4>1
      <4>. QED  BY <2>8, <4>1, <4>2, Zenon DEF GoesBefore, MoreExact, DocumentedBefore
    <3>7. r.cidr.len <= best.cidr.len /\ r.cidr.len \in Nat /\ best.cidr.len \in Nat
      BY <3>4, <3>5, PrefixLength DEF Covers
    <3>8. ~(r.cidr.len > best.cidr.len)
      BY <3>7
    <3>9. Key(r) = k
      BY <2>4, <3>6, <3>8
    <3>10. ~Precedes(r, best)
      BY <1>2, <3>4, <3>9 DEF best
    <3>11. higher
      BY <3>6, <3>8
    <3>. QED  BY <1>3, <2>4, <3>4, <3>10, <3>11 DEF Precedes
  <2>. HIDE DEF hits
  <2>. QED  BY <2>2, <2>4, <2>5, <2>8
<1>. QED  BY <1>5, <1>6

LEMMA LocalSpared ==
  ASSUME InPlace, NEW p, p.src \in Local
  PROVE  /\ ~TempBanActive(p)
         /\ LookupRule(p) # None => LookupRule(p).action # "deny"
<1>1. PICK t \in Int : maps.bans = BanMap(rows, t)
  BY MapsInPlace
<1>. rows \subseteq Candidates
  BY DEF InPlace
<1>2. ASSUME NEW i \in 1..4, Hit(maps.bans, p, i) # None PROVE FALSE
  <2>. DEFINE k == Hit(maps.bans, p, i)
  <2>1. k \in DOMAIN maps.bans /\ Contains(k.cidr, p.src)
    BY <1>1, <1>2, BansInMap, HitFound
  <2>. HIDE DEF k
  <2>2. PICK d \in Compacted(rows, t) :
          Key(d) = k /\ ~MatchesLocal(d.cidr) /\ BanMap(rows, t)[k] = d.expires
    <3>1. k \in DOMAIN BanMap(rows, t)
      BY <1>1, <2>1
    <3>. QED  BY <3>1, BansInMap
  <2>3. d.cidr = k.cidr
    BY <1>1, <2>2, BanRow DEF Compacted
  <2>. QED  BY <2>1, <2>2, <2>3 DEF MatchesLocal
<1>3. ASSUME LookupRule(p) # None PROVE LookupRule(p).action # "deny"
  <2>1. LookupRule(p) \in FittingRules(p)
    BY <1>3, RuleFound
  <2>. QED  BY <2>1 DEF FittingRules, Matches, Refused, MatchesLocal
<1>. QED  BY <1>2, <1>3 DEF TempBanActive

----------------------------------------------------------------------------
(* Every step.                                                             *)

LEMMA InPlaceStep == InPlace /\ [Next]_vars => InPlace'
<1>. SUFFICES ASSUME InPlace, [Next]_vars PROVE InPlace'
  OBVIOUS
<1>1. ASSUME NEW r \in Candidates, Change(r) PROVE InPlace'
  <2>1. rows' \subseteq Candidates /\ IsFiniteSet(rows')
    BY <1>1, FS_AddElement, FS_RemoveElement DEF Change, InPlace
  <2>2. clock' = clock /\ clock \in Int /\ maps' \in Pending(rows', clock)
    BY <1>1 DEF Change, InPlace
  <2>. QED  BY <2>1, <2>2 DEF InPlace
<1>2. CASE Tick
  <2>1. rows' = rows /\ maps' = maps /\ clock' = clock + 1 /\ clock \in Int
    BY <1>2 DEF Tick, InPlace
  <2>2. PICK t \in Int : t <= clock /\ maps \in Pending(rows, t)
    BY DEF InPlace
  <2>3. t <= clock' /\ maps' \in Pending(rows', t) /\ clock' \in Int
    BY <2>1, <2>2
  <2>. QED  BY <2>1, <2>3 DEF InPlace
<1>3. CASE UNCHANGED <<rows, maps, clock>>
  BY <1>3 DEF InPlace
<1>4. ASSUME NEW p \in Packets, Packet(p) PROVE UNCHANGED <<rows, maps, clock>>
  BY <1>4 DEF Packet, NotIp, ParseDrop, PassTrusted, DropBanned, ByRule, DropCountry, Defend, Out
<1>. QED  BY <1>1, <1>2, <1>3, <1>4 DEF Next, vars

AsPromised == TrustedPasses /\ BansEnforced /\ LocalNotDenied /\ BestRuleDecides

(* What each way out of the program says of the packet. *)
LEMMA Verdicts ==
  ASSUME InPlace, NEW p \in Packets, Packet(p)
  PROVE  AsPromised'
<1>. DEFINE out == last'.out
            by == last'.by
            banned == \E b \in BansOn(p) : b.expires > clock /\ ~AbsorbedByRefused(b)
<1>1. rows' = rows /\ maps' = maps /\ clock' = clock /\ last'.pkt = p
  BY DEF Packet, NotIp, ParseDrop, PassTrusted, DropBanned, ByRule, DropCountry, Defend, Out
<1>2. /\ p.shape = "ok" /\ IsTrusted(p) => out = "pass" /\ by = None
      /\ p.shape = "ok" /\ ~IsTrusted(p) /\ banned => out = "ban"
      /\ out = "ban" => \E b \in BansOn(p) : b.expires > clock
      /\ p.shape = "ok" /\ p.src \in Local => out \notin {"ban", "rule"}
      /\ p.shape = "ok" /\ ~IsTrusted(p) /\ out # "ban" =>
           IF FittingRules(p) = {} THEN out # "rule"
           ELSE /\ by \in FittingRules(p)
                /\ \A r \in FittingRules(p) : ~GoesBefore(r, by, p)
                /\ out = (IF by.action = "deny" THEN "rule" ELSE "pass")
  <2>1. CASE NotIp(p) \/ ParseDrop(p)
    BY <2>1 DEF NotIp, ParseDrop, Out
  <2>2. CASE PassTrusted(p)
    BY <2>2, TrustedFound DEF PassTrusted, Trusted, Out
  <2>3. CASE DropBanned(p)
    BY <2>3, TrustedFound, BanFound, LocalSpared DEF DropBanned, Unknown, Out
  <2>4. CASE ByRule(p)
    <3>1. /\ ~IsTrusted(p) /\ ~banned /\ LookupRule(p) # None /\ by = LookupRule(p)
          /\ out = IF LookupRule(p).action = "deny" THEN "rule" ELSE "pass"
      BY <2>4, TrustedFound, BanFound DEF ByRule, Unknown, Out
    <3>. QED  BY <3>1, RuleFound, LocalSpared
  <2>5. CASE DropCountry(p) \/ Defend(p)
    <3>1. /\ ~IsTrusted(p) /\ ~banned /\ LookupRule(p) = None
      BY <2>5, TrustedFound, BanFound DEF DropCountry, Defend, NoRule, Unknown
    <3>2. out \in {"pass", "geo", "custom", "flood", "ip"}
      BY <2>5 DEF DropCountry, Defend, Out, LimitedBy
    <3>. QED  BY <3>1, <3>2, RuleFound
  <2>. QED  BY <2>1, <2>2, <2>3, <2>4, <2>5 DEF Packet
<1>3. TrustedPasses'
  BY <1>1, <1>2 DEF TrustedPasses, Parsed, IsTrusted
<1>4. BansEnforced'
  BY <1>1, <1>2 DEF BansEnforced, Parsed, IsTrusted, BansOn, AbsorbedByRefused
<1>5. LocalNotDenied'
  BY <1>1, <1>2 DEF LocalNotDenied, Parsed
<1>6. BestRuleDecides'
  BY <1>1, <1>2 DEF BestRuleDecides, RulesWereAsked, Parsed, IsTrusted, FittingRules
<1>. QED  BY <1>3, <1>4, <1>5, <1>6 DEF AsPromised

LEMMA QuietPromises == last = Quiet => AsPromised
BY DEF AsPromised, TrustedPasses, BansEnforced, LocalNotDenied, BestRuleDecides, RulesWereAsked,
  Parsed, Quiet

LEMMA PromisesKept == InPlace /\ AsPromised /\ [Next]_vars => AsPromised'
<1>. SUFFICES ASSUME InPlace, AsPromised, [Next]_vars PROVE AsPromised'
  OBVIOUS
<1>1. CASE UNCHANGED vars
  BY <1>1 DEF vars, AsPromised, TrustedPasses, BansEnforced, LocalNotDenied, BestRuleDecides,
    RulesWereAsked, FittingRules, Parsed, IsTrusted, BansOn, AbsorbedByRefused
<1>2. ASSUME last' = Quiet PROVE AsPromised'
  BY <1>2 DEF AsPromised, TrustedPasses, BansEnforced, LocalNotDenied, BestRuleDecides,
    RulesWereAsked, Parsed, Quiet
<1>3. ASSUME NEW r \in Candidates, Change(r) PROVE last' = Quiet
  BY <1>3 DEF Change
<1>4. Tick => last' = Quiet
  BY DEF Tick
<1>. QED  BY <1>1, <1>2, <1>3, <1>4, Verdicts DEF Next

LEMMA AlwaysAsPromised == Spec => []AsPromised
<1>1. Init => InPlace
  BY FS_EmptySet DEF Init, InPlace
<1>2. Init => AsPromised
  BY QuietPromises DEF Init
<1>. QED  BY <1>1, <1>2, InPlaceStep, PromisesKept, PTL DEF Spec

(* No policy, however it is compacted, ordered and looked up, drops a      *)
(* packet from an address of the agent's own interface by a ban or a rule  *)
(* (pending/safety.rs).                                                    *)
THEOREM HostIsNotCutOff == Spec => []LocalNotDenied
<1>1. AsPromised => LocalNotDenied
  BY DEF AsPromised
<1>. QED  BY <1>1, AlwaysAsPromised, PTL

(* Whoever a trusted prefix covers passes, although compaction removes     *)
(* every prefix that another one covers: a shortest one remains            *)
(* (compact_trusted_prefixes, lookup_trusted).                             *)
THEOREM TrustedSourcesPass == Spec => []TrustedPasses
<1>1. AsPromised => TrustedPasses
  BY DEF AsPromised
<1>. QED  BY <1>1, AlwaysAsPromised, PTL

(* A ban drops what it matches while it lasts and not longer, whatever     *)
(* other bans compaction prefers to it and whichever prefix the trie finds *)
(* first, except for a ban absorbed by one that the agent refused          *)
(* (compact_temp_bans, collect_temp_ban, temp_ban_active).                 *)
THEOREM BansAreEnforced == Spec => []BansEnforced
<1>1. AsPromised => BansEnforced
  BY DEF AsPromised
<1>. QED  BY <1>1, AlwaysAsPromised, PTL

(* The verdict is that of the rule or threat prefix that goes first: the   *)
(* one that fits protocol and port most exactly and, among those that fit  *)
(* them alike, the first in the documented order.  Four lookups by longest *)
(* prefix, over keys each of which holds the first entry in order, find it *)
(* (ordered_policy_rules, lookup_rule).                                    *)
THEOREM TheBestRuleDecides == Spec => []BestRuleDecides
<1>1. AsPromised => BestRuleDecides
  BY DEF AsPromised
<1>. QED  BY <1>1, AlwaysAsPromised, PTL

-----------------------------------------------------------------------------
(* Writing one policy over another: types.                                 *)

\* A policy is a content that fits the maps, and gives each key a value.
LEMMA PolicyType ==
    ASSUME NEW p \in Policies
    PROVE  IsContent(p) /\ Fits(p)
BY ApplyAssumption

\* The entries of a content are a finite set: the keys of a map are.
LEMMA EntriesFinite ==
    ASSUME NEW c, NEW m \in Maps
    PROVE  IsFiniteSet(Entries(c, m)) /\ Cardinality(Entries(c, m)) \in Nat
<1>1. IsFiniteSet(Keys[m]) /\ Entries(c, m) \subseteq Keys[m]
  BY ApplyAssumption DEF Entries
<1>2. IsFiniteSet(Entries(c, m))
  BY <1>1, FS_Subset
<1> QED BY <1>2, FS_CardinalityType

\* Content d is content c but for key j of map n, which has value v.
Sets(c, d, n, j, v) ==
    /\ d[n][j] = v
    /\ \A m \in Maps : \A k \in Keys[m] : <<m, k>> # <<n, j>> => d[m][k] = c[m][k]

\* Writing one key of one map leaves a content, and changes that key only.
LEMMA WriteOne ==
    ASSUME NEW c, IsContent(c), NEW n \in Maps, NEW j \in Keys[n], NEW v \in Values
    PROVE  /\ IsContent([c EXCEPT ![n][j] = v])
           /\ Sets(c, [c EXCEPT ![n][j] = v], n, j, v)
<1> DEFINE d == [c EXCEPT ![n][j] = v]
<1>1. DOMAIN c = Maps /\ \A m \in Maps : c[m] \in [Keys[m] -> Values]
  BY DEF IsContent
<1>2. DOMAIN d = Maps /\ \A m \in Maps : m # n => d[m] = c[m]
  BY <1>1
<1>3. d[n] = [c[n] EXCEPT ![j] = v]
  BY <1>1
<1>4. d[n] \in [Keys[n] -> Values]
  BY <1>1, <1>3
<1>5. IsContent(d)
  BY <1>1, <1>2, <1>4 DEF IsContent
<1>6. d[n][j] = v /\ \A k \in Keys[n] : k # j => d[n][k] = c[n][k]
  BY <1>1, <1>3
<1> QED BY <1>2, <1>5, <1>6 DEF Sets

LEMMA TypeInit == ApplyInit => ApplyTypeOK
<1> SUFFICES ASSUME ApplyInit PROVE ApplyTypeOK
  OBVIOUS
<1>1. IsContent(held) /\ Fits(held)
  BY PolicyType, ApplyAssumption DEF ApplyInit
<1>2. {wanted, target} \cup since \subseteq Policies
  BY ApplyAssumption DEF ApplyInit
<1>3. applied \in BOOLEAN /\ phase \in {"idle", "put", "clean"}
  BY DEF ApplyInit
<1>4. \A w \in todo : w[1] \in Maps /\ w[2] \in Keys[w[1]]
  BY DEF ApplyInit
<1>5. {changes, faults} \subseteq Nat
  BY DEF ApplyInit
<1> QED BY <1>1, <1>2, <1>3, <1>4, <1>5 DEF ApplyTypeOK

LEMMA PairType ==
    ASSUME NEW c, NEW w \in Pairs(c)
    PROVE  w[1] \in Maps /\ w[2] \in Entries(c, w[1]) /\ w = <<w[1], w[2]>>
BY DEF Pairs

LEMMA StaleType ==
    ASSUME NEW c, NEW w \in Stale(c)
    PROVE  /\ w[1] \in Maps
           /\ w[2] \in Entries(held, w[1])
           /\ c[w[1]][w[2]] = Absent
           /\ w = <<w[1], w[2]>>
BY DEF Stale

LEMMA TypeStep == ApplyTypeOK /\ [ApplyNext]_applyVars => ApplyTypeOK'
<1> SUFFICES ASSUME ApplyTypeOK, [ApplyNext]_applyVars PROVE ApplyTypeOK'
  OBVIOUS
<1>1. ASSUME NEW p \in Policies, PolicyChanges(p) PROVE ApplyTypeOK'
  <2>1. (IsContent(held) /\ Fits(held))'
    BY <1>1 DEF ApplyTypeOK, PolicyChanges
  <2>2. ({changes, faults} \subseteq Nat)'
    BY <1>1 DEF ApplyTypeOK, PolicyChanges
  <2>3. ({wanted, target} \cup since \subseteq Policies)'
    BY <1>1 DEF ApplyTypeOK, PolicyChanges, writeVars
  <2>4. (\A w \in todo : w[1] \in Maps /\ w[2] \in Keys[w[1]])'
    BY <1>1 DEF ApplyTypeOK, PolicyChanges, writeVars
  <2>5. (applied \in BOOLEAN /\ phase \in {"idle", "put", "clean"})'
    BY <1>1, Zenon DEF ApplyTypeOK, PolicyChanges, writeVars
  <2> QED BY <2>1, <2>2, <2>3, <2>4, <2>5 DEF ApplyTypeOK
<1>2. CASE StartApply
  <2>1. \A w \in todo' : w[1] \in Maps /\ w[2] \in Keys[w[1]]
    BY <1>2, PairType DEF StartApply, Entries
  <2> QED BY <1>2, <2>1 DEF ApplyTypeOK, StartApply, IsContent, Fits, Entries
<1>3. ASSUME NEW m \in Maps, NEW k \in Keys[m], Put(m, k) PROVE ApplyTypeOK'
  <2>1. target[m][k] \in Values
    BY PolicyType DEF ApplyTypeOK, IsContent
  <2>2. IsContent(held') /\ Sets(held, held', m, k, target[m][k])
    <3>1. IsContent(held) /\ held' = [held EXCEPT ![m][k] = target[m][k]]
      BY <1>3 DEF ApplyTypeOK, Put
    <3> QED BY <2>1, <3>1, WriteOne, Zenon
  <2>3. ASSUME NEW n \in Maps PROVE Cardinality(Entries(held', n)) <= Capacity[n]
    <3>1. CASE n = m /\ held[m][k] = Absent
      <4>1. Entries(held', m) \subseteq Entries(held, m) \cup {k} /\ k \notin Entries(held, m)
        BY <2>2, <3>1 DEF Entries, Sets
      <4>2. Cardinality(Entries(held, m) \cup {k}) = Cardinality(Entries(held, m)) + 1
        BY <4>1, EntriesFinite, FS_AddElement
      <4>3. Cardinality(Entries(held', m)) <= Cardinality(Entries(held, m) \cup {k})
        BY <4>1, EntriesFinite, FS_AddElement, FS_Subset
      <4>4. Cardinality(Entries(held, m)) < Capacity[m]
        BY <1>3, <3>1 DEF Put
      <4> QED BY <3>1, <4>2, <4>3, <4>4, EntriesFinite, ApplyAssumption
    <3>2. CASE n # m \/ held[m][k] # Absent
      <4>1. Entries(held', n) \subseteq Entries(held, n)
        BY <2>2, <3>2 DEF Entries, Sets
      <4>2. Cardinality(Entries(held', n)) <= Cardinality(Entries(held, n))
        BY <4>1, EntriesFinite, FS_Subset
      <4> QED BY <4>2, EntriesFinite, ApplyAssumption DEF ApplyTypeOK, Fits
    <3> QED BY <3>1, <3>2
  <2> QED BY <1>3, <2>2, <2>3 DEF ApplyTypeOK, Put, Fits
<1>4. ASSUME NEW m \in Maps, NEW k \in Keys[m], PutRefused(m, k) PROVE ApplyTypeOK'
  BY <1>4 DEF ApplyTypeOK, PutRefused, IsContent, Fits, Entries
<1>5. ASSUME NEW m \in Maps, NEW k \in Keys[m], Remove(m, k) PROVE ApplyTypeOK'
  <2>1. IsContent(held') /\ Sets(held, held', m, k, Absent)
    <3>1. Absent \in Values
      BY DEF Values
    <3>2. IsContent(held) /\ held' = [held EXCEPT ![m][k] = Absent]
      BY <1>5 DEF ApplyTypeOK, Remove
    <3> QED BY <3>1, <3>2, WriteOne, Zenon
  <2>2. ASSUME NEW n \in Maps PROVE Cardinality(Entries(held', n)) <= Capacity[n]
    <3>1. Entries(held', n) \subseteq Entries(held, n)
      BY <2>1 DEF Entries, Sets
    <3>2. Cardinality(Entries(held', n)) <= Cardinality(Entries(held, n))
      BY <3>1, EntriesFinite, FS_Subset
    <3> QED BY <3>2, EntriesFinite, ApplyAssumption DEF ApplyTypeOK, Fits
  <2> QED BY <1>5, <2>1, <2>2 DEF ApplyTypeOK, Remove, Fits
<1>6. CASE StartClean
  <2>1. \A w \in todo' : w[1] \in Maps /\ w[2] \in Keys[w[1]]
    BY <1>6, StaleType DEF StartClean, Entries
  <2> QED BY <1>6, <2>1 DEF ApplyTypeOK, StartClean, IsContent, Fits, Entries
<1>7. CASE Finish
  BY <1>7 DEF ApplyTypeOK, Finish, IsContent, Fits, Entries
<1>8. CASE Interrupt
  BY <1>8 DEF ApplyTypeOK, Interrupt, IsContent, Fits, Entries
<1>9. CASE UNCHANGED applyVars
  BY <1>9 DEF ApplyTypeOK, applyVars, writeVars, IsContent, Fits, Entries
<1> QED BY <1>1, <1>2, <1>3, <1>4, <1>5, <1>6, <1>7, <1>8, <1>9 DEF ApplyNext, Agent, Write

(***************************************************************************)
(* The maps hold values for their own keys and never more entries than     *)
(* they have room for, whatever is written in whatever order (put_* and    *)
(* remove_stale_*_keys).                                                   *)
(***************************************************************************)
THEOREM WritesTyped == ApplySpec => []ApplyTypeOK
<1>1. ApplyInit => ApplyTypeOK
  BY TypeInit
<1>2. ApplyTypeOK /\ [ApplyNext]_applyVars => ApplyTypeOK'
  BY TypeStep
<1> QED BY <1>1, <1>2, PTL DEF ApplySpec

-----------------------------------------------------------------------------
(* The inductive invariant.                                                 *)

LEMMA InvInit == ApplyInit => IInv
<1> SUFFICES ASSUME ApplyInit PROVE IInv
  OBVIOUS
<1>1. SomeoneIsHeld
  BY DEF ApplyInit, SomeoneIsHeld, Holds
<1>2. Written /\ Removed
  BY DEF ApplyInit, Written, Removed
<1>3. OnlyRecentEntries
  BY DEF ApplyInit, OnlyRecentEntries
<1> QED BY <1>1, <1>2, <1>3 DEF IInv

\* A write of the target's value: what was held is held still.
LEMMA PutKeeps ==
    ASSUME ApplyTypeOK, IInv, NEW m \in Maps, NEW k \in Keys[m], Put(m, k)
    PROVE  IInv'
<1>1. /\ phase = "put" /\ phase' = "put" /\ target' = target /\ since' = since
      /\ <<m, k>> \in todo /\ todo' = todo \ {<<m, k>>}
      /\ held' = [held EXCEPT ![m][k] = target[m][k]]
  BY DEF Put
<1>2. target[m][k] \in Values /\ IsContent(held)
  BY PolicyType DEF ApplyTypeOK, IsContent
<1>3. Sets(held, held', m, k, target[m][k])
  BY <1>1, <1>2, WriteOne, Zenon
<1>4. target[m][k] # Absent
  <2>1. <<m, k>>[2] \in Entries(target, <<m, k>>[1])
    BY <1>1, PairType DEF IInv, Written
  <2> QED BY <2>1 DEF Entries
<1>5. \A n \in Maps : Entries(held, n) \subseteq Entries(held', n)
  BY <1>3, <1>4 DEF Sets, Entries
<1>6. SomeoneIsHeld'
  BY <1>1, <1>5 DEF IInv, SomeoneIsHeld, Holds
<1>7. Written'
  BY <1>1, <1>3 DEF IInv, Written, Sets, Entries
<1>8. Removed'
  BY <1>1 DEF Removed
<1>9. OnlyRecentEntries'
  BY <1>1, <1>3, <1>7 DEF IInv, OnlyRecentEntries, Written, Sets, Entries
<1> QED BY <1>6, <1>7, <1>8, <1>9 DEF IInv

\* A removal: the target is written, and the key is not the target's.
LEMMA RemoveKeeps ==
    ASSUME ApplyTypeOK, IInv, NEW m \in Maps, NEW k \in Keys[m], Remove(m, k)
    PROVE  IInv'
<1>1. /\ phase = "clean" /\ phase' = "clean" /\ target' = target /\ since' = since
      /\ <<m, k>> \in todo /\ todo' = todo \ {<<m, k>>}
      /\ held' = [held EXCEPT ![m][k] = Absent]
  BY DEF Remove
<1>2. Absent \in Values /\ IsContent(held)
  BY DEF ApplyTypeOK, Values
<1>3. Sets(held, held', m, k, Absent)
  BY <1>1, <1>2, WriteOne, Zenon
<1>4. target \in since /\ \A w \in todo : target[w[1]][w[2]] = Absent
  BY <1>1 DEF IInv, Written, Removed
<1>5. target[m][k] = Absent
  BY <1>1, <1>4
<1>6. \A n \in Maps : \A j \in Entries(target, n) :
         <<n, j>> # <<m, k>> /\ held[n][j] = target[n][j]
  BY <1>1, <1>4, <1>5 DEF IInv, Written, Entries
<1>7. \A n \in Maps : \A j \in Entries(target, n) : held'[n][j] = target[n][j]
  BY <1>3, <1>6 DEF Sets, Entries
<1>8. SomeoneIsHeld'
  BY <1>1, <1>4, <1>7 DEF SomeoneIsHeld, Holds, Entries
<1>9. Written'
  BY <1>1, <1>4, <1>7 DEF Written
<1>10. Removed'
  BY <1>1, <1>3, <1>4 DEF IInv, Removed, Sets, Entries
<1>11. OnlyRecentEntries'
  BY <1>1, <1>3 DEF IInv, OnlyRecentEntries, Sets, Entries
<1> QED BY <1>8, <1>9, <1>10, <1>11 DEF IInv

LEMMA InvStep == ApplyTypeOK /\ IInv /\ [ApplyNext]_applyVars => IInv'
<1> SUFFICES ASSUME ApplyTypeOK, IInv, [ApplyNext]_applyVars PROVE IInv'
  OBVIOUS
<1> USE DEF IInv
<1>1. ASSUME NEW p \in Policies, PolicyChanges(p) PROVE IInv'
  BY <1>1 DEF PolicyChanges, writeVars, SomeoneIsHeld, Written, Removed, OnlyRecentEntries
<1>2. CASE StartApply
  <2>1. /\ held' = held /\ since \subseteq since' /\ target' \in since'
        /\ todo' = Pairs(target') /\ phase' = "put"
    BY <1>2 DEF StartApply
  <2>2. SomeoneIsHeld' /\ OnlyRecentEntries'
    BY <2>1 DEF SomeoneIsHeld, OnlyRecentEntries
  <2>3. \A m \in Maps : \A k \in Entries(target', m) : <<m, k>> \in todo'
    BY <2>1 DEF Pairs
  <2> QED BY <2>1, <2>2, <2>3 DEF Written, Removed
<1>3. ASSUME NEW m \in Maps, NEW k \in Keys[m], Put(m, k) PROVE IInv'
  BY <1>3, PutKeeps
<1>4. ASSUME NEW m \in Maps, NEW k \in Keys[m], PutRefused(m, k) PROVE IInv'
  BY <1>4 DEF PutRefused, SomeoneIsHeld, Written, Removed, OnlyRecentEntries
<1>5. ASSUME NEW m \in Maps, NEW k \in Keys[m], Remove(m, k) PROVE IInv'
  BY <1>5, RemoveKeeps
<1>6. CASE StartClean
  <2>1. /\ held' = held /\ since' = since /\ target' = target
        /\ phase = "put" /\ phase' = "clean" /\ todo = {} /\ todo' = Stale(target)
    BY <1>6 DEF StartClean
  <2>2. SomeoneIsHeld' /\ OnlyRecentEntries' /\ Written'
    BY <2>1 DEF SomeoneIsHeld, OnlyRecentEntries, Written
  <2>3. \A w \in todo' : target[w[1]][w[2]] = Absent
    BY <2>1, StaleType
  <2>4. \A m \in Maps : \A k \in Entries(held, m) :
           <<m, k>> \in todo' \/ k \in Entries(target, m)
    BY <2>1 DEF Stale, Entries
  <2> QED BY <2>1, <2>2, <2>3, <2>4 DEF Removed
<1>7. CASE Finish
  <2>1. /\ held' = held /\ since' = {target} /\ phase = "clean" /\ phase' = "idle"
        /\ todo = {}
    BY <1>7 DEF Finish
  <2>2. \A m \in Maps : \A k \in Entries(target, m) : held[m][k] = target[m][k]
    BY <2>1 DEF Written
  <2>3. \A m \in Maps : \A k \in Entries(held, m) : k \in Entries(target, m)
    BY <2>1 DEF Removed
  <2>4. SomeoneIsHeld'
    BY <2>1, <2>2 DEF SomeoneIsHeld, Holds, Entries
  <2>5. OnlyRecentEntries'
    BY <2>1, <2>2, <2>3 DEF OnlyRecentEntries
  <2> QED BY <2>1, <2>4, <2>5 DEF Written, Removed
<1>8. CASE Interrupt
  BY <1>8 DEF Interrupt, SomeoneIsHeld, Written, Removed, OnlyRecentEntries
<1>9. CASE UNCHANGED applyVars
  BY <1>9 DEF applyVars, writeVars, SomeoneIsHeld, Written, Removed, OnlyRecentEntries
<1> QED BY <1>1, <1>2, <1>3, <1>4, <1>5, <1>6, <1>7, <1>8, <1>9 DEF ApplyNext, Agent, Write

(***************************************************************************)
(* The maps hold every key of some policy involved, and only what policies *)
(* involved have put there, through every write, removal, failure and      *)
(* restart of apply_to_current_maps.                                       *)
(***************************************************************************)
THEOREM WritesInvariant == ApplySpec => []IInv
<1>1. ApplyInit => IInv
  BY InvInit
<1>2. ApplyTypeOK /\ IInv /\ [ApplyNext]_applyVars => IInv'
  BY InvStep
<1> QED BY <1>1, <1>2, WritesTyped, PTL DEF ApplySpec

(***************************************************************************)
(* An entry outlives the policies that had it only until the next complete *)
(* apply (remove_stale_policy_keys).                                       *)
(***************************************************************************)
THEOREM NoOldEntries == ApplySpec => []OnlyRecentEntries
<1>1. IInv => OnlyRecentEntries
  BY DEF IInv
<1> QED BY <1>1, WritesInvariant, PTL

\* Two contents that agree on the entries of both are alike in every map.
LEMMA SameEntries ==
    ASSUME NEW c, NEW d, IsContent(c), IsContent(d),
           \A m \in Maps : \A k \in Entries(d, m) : c[m][k] = d[m][k],
           \A m \in Maps : Entries(c, m) \subseteq Entries(d, m)
    PROVE  \A m \in Maps : c[m] = d[m]
<1> SUFFICES ASSUME NEW m \in Maps PROVE c[m] = d[m]
  OBVIOUS
<1>1. c[m] \in [Keys[m] -> Values] /\ d[m] \in [Keys[m] -> Values]
  BY DEF IsContent
<1>2. ASSUME NEW k \in Keys[m] PROVE c[m][k] = d[m][k]
  <2>1. CASE k \in Entries(d, m)
    BY <2>1
  <2>2. CASE k \notin Entries(d, m)
    BY <2>2 DEF Entries
  <2> QED BY <2>1, <2>2
<1> QED BY <1>1, <1>2

LEMMA AppliedStep ==
    ApplyTypeOK /\ IInv /\ AppliedIsHeld /\ [ApplyNext]_applyVars => AppliedIsHeld'
<1> SUFFICES ASSUME ApplyTypeOK, IInv, AppliedIsHeld, [ApplyNext]_applyVars
             PROVE  AppliedIsHeld'
  OBVIOUS
<1>1. ASSUME NEW p \in Policies, PolicyChanges(p) PROVE AppliedIsHeld'
  BY <1>1 DEF PolicyChanges, AppliedIsHeld
<1>2. CASE StartApply
  BY <1>2 DEF StartApply, AppliedIsHeld
<1>3. ASSUME NEW m \in Maps, NEW k \in Keys[m], Put(m, k) \/ PutRefused(m, k) \/ Remove(m, k)
      PROVE  AppliedIsHeld'
  BY <1>3 DEF Put, PutRefused, Remove, AppliedIsHeld
<1>4. CASE StartClean
  BY <1>4 DEF StartClean, AppliedIsHeld
<1>5. CASE Finish
  <2>1. /\ held' = held /\ wanted' = wanted /\ phase = "clean" /\ phase' = "idle" /\ todo = {}
        /\ applied' = (target = wanted)
    BY <1>5 DEF Finish
  <2>2. \A m \in Maps : \A k \in Entries(target, m) : held[m][k] = target[m][k]
    BY <2>1 DEF IInv, Written
  <2>3. \A m \in Maps : Entries(held, m) \subseteq Entries(target, m)
    BY <2>1 DEF IInv, Removed
  <2>4. IsContent(held) /\ IsContent(target)
    BY PolicyType DEF ApplyTypeOK
  <2>5. \A m \in Maps : held[m] = target[m]
    BY <2>2, <2>3, <2>4, SameEntries
  <2> QED BY <2>1, <2>5 DEF AppliedIsHeld
<1>6. CASE Interrupt
  BY <1>6 DEF Interrupt, AppliedIsHeld
<1>7. CASE UNCHANGED applyVars
  BY <1>7 DEF applyVars, writeVars, AppliedIsHeld
<1> QED BY <1>1, <1>2, <1>3, <1>4, <1>5, <1>6, <1>7 DEF ApplyNext, Agent, Write

(***************************************************************************)
(* When the agent has recorded a policy as applied, the maps hold it and   *)
(* nothing else, although any number of applies of this policy and of      *)
(* others were refused or broken off before (apply_to_current_maps).       *)
(***************************************************************************)
THEOREM RecordedIsExact == ApplySpec => []AppliedIsHeld
<1>1. ApplyInit => AppliedIsHeld
  BY DEF ApplyInit, AppliedIsHeld
<1>2. ApplyTypeOK /\ IInv /\ AppliedIsHeld /\ [ApplyNext]_applyVars => AppliedIsHeld'
  BY AppliedStep
<1> QED BY <1>1, <1>2, WritesTyped, WritesInvariant, PTL DEF ApplySpec

-----------------------------------------------------------------------------
(* What a source gets, from the invariant.                                  *)

\* The keys a lookup tries are keys of the map.
LEMMA MatchingKey ==
    ASSUME NEW s \in Sources, NEW m \in Maps, NEW i \in DOMAIN Matching[s][m]
    PROVE  Matching[s][m][i] \in Keys[m] /\ i \in Nat
<1>1. Matching[s][m] \in Seq(Keys[m])
  BY ApplyAssumption
<1> QED BY <1>1

\* Whatever a policy that is held has for a source, the maps have too.
LEMMA HitsHeld ==
    ASSUME NEW p, Holds(held, p), NEW s \in Sources, NEW m \in Maps
    PROVE  Hits(p, s, m) \subseteq Hits(held, s, m)
BY MatchingKey DEF Hits, Holds, Entries

\* What the maps have for a source, some policy involved has with that value.
LEMMA HitsRecent ==
    ASSUME OnlyRecentEntries, NEW s \in Sources, NEW m \in Maps, NEW i \in Hits(held, s, m)
    PROVE  \E p \in since : /\ i \in Hits(p, s, m)
                            /\ p[m][Matching[s][m][i]] = held[m][Matching[s][m][i]]
BY MatchingKey DEF OnlyRecentEntries, Hits, Entries

\* A lookup that hits finds the value of an entry that it matches.
LEMMA FoundIsHit ==
    ASSUME NEW c, NEW s \in Sources, NEW m \in Maps, Hits(c, s, m) # {}
    PROVE  \E i \in Hits(c, s, m) : Found(c, s, m) = c[m][Matching[s][m][i]]
<1>1. Hits(c, s, m) \subseteq Nat
  BY MatchingKey DEF Hits
<1>2. \E i \in Hits(c, s, m) : \A j \in Hits(c, s, m) : i <= j
  <2>1. PICK i \in Hits(c, s, m) : \A j \in Hits(c, s, m) : <<j, i>> \notin OpToRel(<, Nat)
    BY <1>1, NatLessThanWellFounded, WFMin
  <2>2. \A j, k \in Nat : j < k => <<j, k>> \in OpToRel(<, Nat)
    BY DEF OpToRel
  <2>3. \A j \in Hits(c, s, m) : ~(j < i)
    BY <1>1, <2>1, <2>2
  <2> QED BY <1>1, <2>3
<1> DEFINE first == CHOOSE i \in Hits(c, s, m) : \A j \in Hits(c, s, m) : i <= j
<1>3. first \in Hits(c, s, m)
  BY <1>2
<1> QED BY <1>3 DEF Found

(***************************************************************************)
(* A source that every policy involved trusts stays trusted in the middle  *)
(* of any apply and after any failed one (put_trusted_key before           *)
(* remove_stale_trusted_keys).                                             *)
(***************************************************************************)
THEOREM TrustIsKept == ApplySpec => []TrustedThroughout
<1>1. IInv => TrustedThroughout
  <2> SUFFICES ASSUME IInv, NEW s \in Sources, \A p \in since : TrustedBy(p, s)
               PROVE  TrustedBy(held, s)
    BY DEF TrustedThroughout
  <2>1. PICK p \in since : Holds(held, p)
    BY DEF IInv, SomeoneIsHeld
  <2>2. TrustedBy(p, s) /\ "trusted" \in Maps
    BY DEF Maps
  <2> QED BY <2>1, <2>2, HitsHeld DEF TrustedBy
<1> QED BY <1>1, WritesInvariant, PTL

(***************************************************************************)
(* A source that every policy involved drops without exceptions is dropped *)
(* in the middle of any apply and after any failed one, by whichever map   *)
(* (apply_to_current_maps).                                                *)
(***************************************************************************)
THEOREM DropIsKept == ApplySpec => []DroppedThroughout
<1>1. IInv => DroppedThroughout
  <2> SUFFICES ASSUME IInv, NEW s \in Sources, \A p \in since : DropsFirmly(p, s)
               PROVE  Drops(held, s)
    BY DEF DroppedThroughout
  <2>1. OnlyRecentEntries /\ {"trusted", "bans", "rules"} \subseteq Maps
    BY DEF IInv, Maps
  <2>2. PICK p \in since : Holds(held, p)
    BY DEF IInv, SomeoneIsHeld
  <2>3. ~TrustedBy(held, s)
    <3>1. \A q \in since : Hits(q, s, "trusted") = {}
      BY DEF DropsFirmly, TrustedBy
    <3>2. Hits(held, s, "trusted") = {}
      BY <2>1, <3>1, HitsRecent
    <3> QED BY <3>2 DEF TrustedBy
  <2>4. CASE Banned(p, s)
    <3>1. Banned(held, s)
      BY <2>1, <2>2, <2>4, HitsHeld DEF Banned
    <3> QED BY <2>3, <3>1 DEF Drops
  <2>5. CASE Found(p, s, "rules") = "deny"
    <3>1. Hits(p, s, "rules") # {}
      BY <2>5 DEF Found, Absent
    <3>2. Hits(held, s, "rules") # {}
      BY <2>1, <2>2, <3>1, HitsHeld
    <3>3. PICK i \in Hits(held, s, "rules") :
             Found(held, s, "rules") = held["rules"][Matching[s]["rules"][i]]
      BY <2>1, <3>2, FoundIsHit
    <3>4. PICK q \in since :
             /\ i \in Hits(q, s, "rules")
             /\ q["rules"][Matching[s]["rules"][i]] = held["rules"][Matching[s]["rules"][i]]
      BY <2>1, HitsRecent
    <3>5. q["rules"][Matching[s]["rules"][i]] = "deny"
      BY <3>4 DEF DropsFirmly
    <3>6. Found(held, s, "rules") = "deny"
      BY <3>3, <3>4, <3>5
    <3> QED BY <2>3, <3>6 DEF Drops
  <2> QED BY <2>4, <2>5 DEF DropsFirmly
<1> QED BY <1>1, WritesInvariant, PTL

(***************************************************************************)
(* No write and no failure of an apply changes the treatment of a source   *)
(* that all policies involved treat alike (apply_to_current_maps).         *)
(***************************************************************************)
THEOREM AgreementIsKept == ApplySpec => []AgreedThroughout
<1>1. TrustedThroughout /\ DroppedThroughout => AgreedThroughout
  BY DEF AgreedThroughout
<1> QED BY <1>1, TrustIsKept, DropIsKept, PTL
=============================================================================
