----------------------------- MODULE PacketPath -----------------------------
(***************************************************************************)
(* What one agent does with a packet: the rows of the active policy are    *)
(* loaded, compiled, compacted and written to the BPF maps, and the XDP    *)
(* program looks every packet up in those maps.  The writes themselves,    *)
(* one map after the other, are the subject of PolicyApply; here a policy  *)
(* is in place or it is not.  Whether a token bucket is empty is a free    *)
(* choice (TokenBucket is about that).                                     *)
(*                                                                         *)
(* An address is W bits of a family; a prefix is its first len bits, so    *)
(* that host bits are gone as after IpNet::trunc.                          *)
(***************************************************************************)
EXTENDS Integers, FiniteSets

CONSTANTS
  W,                \* bits of an address
  Families,         \* address families: {4, 6} or fewer
  Local,            \* addresses of the agent's interface
  Candidates,       \* rows that may be in the policy
  MaxRows,          \* bound: rows in the policy at a time
  Packets,          \* packets that may arrive
  MaxTime,          \* bound: the clock
  None              \* no rule, no limit

Prefixes == UNION {[fam: Families, len: {n}, net: [1..n -> {0, 1}]] : n \in 0..W}

MinPriority == 0    \* i32::MIN

\* Prefixes are parsed by IpNet before they are stored; times and priorities are
\* integers.
ASSUME PathAssumption ==
  /\ W \in Nat
  /\ \A r \in Candidates :
       /\ r.table \in {"rule", "threat", "ban", "trusted"} => r.cidr \in Prefixes
       /\ r.table = "ban" => r.expires \in Int
       /\ r.table = "rule" => r.priority \in Int /\ r.priority >= MinPriority

VARIABLES
  rows,             \* enabled rows of the policy in place
  maps,             \* the BPF maps
  clock,            \* time, for the control plane, the agent and BPF alike
  last              \* the last packet, what became of it, and by which entry

vars == <<rows, maps, clock, last>>

Contains(p, a) == p.fam = a.fam /\ \A i \in 1..p.len : a.bits[i] = p.net[i]
Covers(p, q) ==
  p.fam = q.fam /\ p.len <= q.len /\ \A i \in 1..p.len : q.net[i] = p.net[i]
\* The interface's addresses are compared with the network address alone.
MatchesLocalNetwork(p) == \E a \in Local : p.fam = a.fam /\ p.len = W /\ p.net = a.bits

MatchesLocal(p) == \E a \in Local : Contains(p, a)

----------------------------------------------------------------------------
(* From rows to maps                                                       *)

Table(R, t) == {r \in R : r.table = t}

\* Firewall rules and threat prefixes go into one map.
ThreatRule(t) ==
  [table |-> "threat", cidr |-> t.cidr, action |-> "deny", proto |-> "any",
   port |-> 0, priority |-> MinPriority]
CompileRules(R) == Table(R, "rule") \cup {ThreatRule(t) : t \in Table(R, "threat")}

\* Threat prefixes are put after the user's rules.
PrecedesThreatLast(r, s) ==
  \/ r.table = "rule" /\ s.table = "threat"
  \/ r.table = s.table /\ r.priority < s.priority

\* Strictly before in the order of priorities, threat prefixes first.
Precedes(r, s) ==
  \/ r.priority < s.priority
  \/ r.priority = s.priority /\ r.table = "threat" /\ s.table = "rule"

Key(r) == [cidr |-> r.cidr, proto |-> r.proto, port |-> r.port]
LimitKey(l) == [proto |-> l.proto, port |-> l.port]
Refused(r) == r.action = "deny" /\ MatchesLocal(r.cidr)

(* Of the entries with one key the first in order is written, the others  *)
(* are skipped; rows that are equal in order come as the database returns *)
(* them.                                                                   *)
FirstMatches(S, KeyOf(_), Before(_, _)) ==
  {f \in [{KeyOf(s) : s \in S} -> S] : \A k \in DOMAIN f :
      /\ KeyOf(f[k]) = k
      /\ \A s \in S : KeyOf(s) = k => ~Before(s, f[k])}

NoOrder(r, s) == FALSE
ByPriority(r, s) == r.priority < s.priority

PendingRules(R) == FirstMatches({r \in CompileRules(R) : ~Refused(r)}, Key, Precedes)

PendingLimits(R) == FirstMatches(Table(R, "limit"), LimitKey, ByPriority)
GeoKey(g) == g.cidr
CountryKey(c) == c.country
PendingGeo(R) == FirstMatches(Table(R, "geo"), GeoKey, NoOrder)
PendingCountries(R) == FirstMatches(Table(R, "country"), CountryKey, NoOrder)

\* Compaction that forgets which of two prefixes is the longer one.
CoversEither(p, q) == Covers(p, q) \/ Covers(q, p)
CompactTrustedBothWays(R) ==
  LET T == {t.cidr : t \in Table(R, "trusted")}
  IN  {p \in T : \A q \in T \ {p} : ~CoversEither(q, p)}

CompactTrusted(R) ==
  LET T == {t.cidr : t \in Table(R, "trusted")}
  IN  {p \in T : \A q \in T \ {p} : ~Covers(q, p)}

ActiveBans(R, now) == {b \in Table(R, "ban") : b.expires > now}

\* A wider ban absorbs a narrower one that lasts longer.
BanSupersedesAnyTime(c, b) ==
  /\ c.proto = b.proto /\ c.port = b.port
  /\ \/ c.cidr = b.cidr /\ c.expires > b.expires
     \/ c.cidr # b.cidr /\ Covers(c.cidr, b.cidr)

BanSupersedes(c, b) ==
  /\ c.proto = b.proto /\ c.port = b.port
  /\ \/ c.cidr = b.cidr /\ c.expires > b.expires
     \/ c.cidr # b.cidr /\ Covers(c.cidr, b.cidr) /\ c.expires >= b.expires

\* Compaction first, the refusal of what matches the interface after it.
PendingBans(R, now) ==
  LET B == ActiveBans(R, now)
      compacted == {b \in B : \A c \in B \ {b} : ~BanSupersedes(c, b)}
  IN  {b \in compacted : ~MatchesLocal(b.cidr)}

BanMap(R, now) == [k \in {Key(b) : b \in PendingBans(R, now)} |->
                     (CHOOSE b \in PendingBans(R, now) : Key(b) = k).expires]

\* The limiters that are on; without a row the defaults hold.
Defense(R) ==
  IF Table(R, "defense") = {} THEN {"enabled", "ip", "flood"}
  ELSE (CHOOSE d \in Table(R, "defense") : TRUE).flags

Pending(R, now) ==
  {[trusted |-> CompactTrusted(R), bans |-> BanMap(R, now), rules |-> rs,
    geo |-> gs, countries |-> cs, limits |-> ls, defense |-> Defense(R)] :
      rs \in PendingRules(R), gs \in PendingGeo(R),
      cs \in PendingCountries(R), ls \in PendingLimits(R)}

----------------------------------------------------------------------------
(* From maps to a verdict                                                  *)

\* Longest-prefix match over a set of prefixes.
Longest(P, a) ==
  LET hits == {p \in P : Contains(p, a)}
  IN  IF hits = {} THEN None ELSE CHOOSE p \in hits : \A q \in hits : q.len <= p.len

\* Protocol and port, then less and less of them.
Class(p, i) ==
  [proto |-> IF i <= 2 THEN p.proto ELSE "any",
   port |-> IF i \in {1, 3} THEN p.dport ELSE 0]

\* The key a trie returns for the i-th class of p, or None.
Hit(trie, p, i) ==
  LET c == Class(p, i)
      net == Longest({k.cidr : k \in {k \in DOMAIN trie : k.proto = c.proto /\ k.port = c.port}},
                     p.src)
  IN  IF net = None THEN None ELSE [cidr |-> net, proto |-> c.proto, port |-> c.port]

FirstOf(S) == CHOOSE i \in S : \A j \in S : i <= j

LookupTrusted(p) == \E t \in maps.trusted : Contains(t, p.src)

\* Only the longest prefix of each class is looked at, expired or not.
TempBanActive(p) ==
  \E i \in 1..4 : Hit(maps.bans, p, i) # None /\ maps.bans[Hit(maps.bans, p, i)] > clock

LookupRule(p) ==
  LET hits == {i \in 1..4 : Hit(maps.rules, p, i) # None}
  IN  IF hits = {} THEN None ELSE maps.rules[Hit(maps.rules, p, FirstOf(hits))]

CountryDenies(p) ==
  LET net == Longest(DOMAIN maps.geo, p.src)
  IN  /\ net # None
      /\ maps.geo[net].country \in DOMAIN maps.countries
      /\ maps.countries[maps.geo[net].country].action = "deny"

LookupLimit(p) ==
  LET hits == {i \in 1..4 : Class(p, i) \in DOMAIN maps.limits}
  IN  IF hits = {} THEN None ELSE maps.limits[Class(p, FirstOf(hits))]

\* The limiter that drops p when the buckets of the limiters in empty are empty.
LimitedBy(p, empty) ==
  IF "enabled" \notin maps.defense THEN None
  ELSE IF LookupLimit(p) # None /\ "custom" \in empty THEN "custom"
  ELSE IF "flood" \in maps.defense \cap empty THEN "flood"
  ELSE IF "ip" \in maps.defense \cap empty THEN "ip"
  ELSE None

----------------------------------------------------------------------------
\* None stands for the absence of an entry, a key or a packet, and is none.
ASSUME NoneAssumption ==
  /\ None \notin Packets
  /\ \A r \in CompileRules(Candidates) \cup Table(Candidates, "ban") :
       None \notin {r, Key(r), r.cidr}

Quiet == [pkt |-> None, out |-> "none", by |-> None]

Init ==
  /\ rows = {}
  /\ clock = 0
  /\ last = Quiet
  /\ maps \in Pending({}, 0)

(* One row is added or removed, the new snapshot reaches the agent and is  *)
(* applied.                                                                *)
Change(r) ==
  /\ \/ r \notin rows /\ Cardinality(rows) < MaxRows /\ rows' = rows \cup {r}
     \/ r \in rows /\ rows' = rows \ {r}
  /\ maps' \in Pending(rows', clock)
  /\ last' = Quiet
  /\ UNCHANGED clock

Tick ==
  /\ clock < MaxTime
  /\ clock' = clock + 1
  /\ last' = Quiet
  /\ UNCHANGED <<rows, maps>>

Out(p, out, by) ==
  /\ last' = [pkt |-> p, out |-> out, by |-> by]
  /\ UNCHANGED <<rows, maps, clock>>

NotIp(p) == p.shape = "not_ip" /\ Out(p, "pass", None)
ParseDrop(p) == p.shape = "cut" /\ Out(p, "parse", None)

Trusted(p) == p.shape = "ok" /\ LookupTrusted(p)
PassTrusted(p) == Trusted(p) /\ Out(p, "pass", None)

Unknown(p) == p.shape = "ok" /\ ~LookupTrusted(p)
DropBanned(p) == Unknown(p) /\ TempBanActive(p) /\ Out(p, "ban", None)

ByRule(p) ==
  /\ Unknown(p) /\ ~TempBanActive(p)
  /\ LookupRule(p) # None
  /\ Out(p, IF LookupRule(p).action = "deny" THEN "rule" ELSE "pass", LookupRule(p))

NoRule(p) == Unknown(p) /\ ~TempBanActive(p) /\ LookupRule(p) = None
DropCountry(p) == NoRule(p) /\ CountryDenies(p) /\ Out(p, "geo", None)

Defend(p) ==
  /\ NoRule(p) /\ ~CountryDenies(p)
  /\ \E empty \in SUBSET {"custom", "flood", "ip"} :
       LET limiter == LimitedBy(p, empty)
       IN  Out(p, IF limiter = None THEN "pass" ELSE limiter,
               IF limiter = "custom" THEN LookupLimit(p) ELSE None)

Packet(p) ==
  \/ NotIp(p) \/ ParseDrop(p) \/ PassTrusted(p) \/ DropBanned(p)
  \/ ByRule(p) \/ DropCountry(p) \/ Defend(p)

Next ==
  \/ \E r \in Candidates : Change(r)
  \/ Tick
  \/ \E p \in Packets : Packet(p)

Spec == Init /\ [][Next]_vars

----------------------------------------------------------------------------
(* Properties                                                              *)

(* The maps hold at most one entry per key, keyed by what the entry says,  *)
(* and the last verdict is one the program can return.                     *)
TypeOK ==
  /\ rows \subseteq Candidates /\ Cardinality(rows) <= MaxRows
  /\ clock \in 0..MaxTime
  /\ maps.trusted \subseteq Prefixes
  /\ \A k \in DOMAIN maps.bans : k.cidr \in Prefixes /\ maps.bans[k] \in 1..(MaxTime + 1)
  /\ \A k \in DOMAIN maps.rules : Key(maps.rules[k]) = k
  /\ last.pkt \in Packets \cup {None}
  /\ last.out \in {"none", "pass", "parse", "ban", "rule", "geo", "custom", "flood", "ip"}

Matches(r, p) ==
  Contains(r.cidr, p.src) /\ r.proto \in {"any", p.proto} /\ r.port \in {0, p.dport}

Parsed == last.pkt # None /\ last.pkt.shape = "ok"
IsTrusted(p) == \E t \in Table(rows, "trusted") : Contains(t.cidr, p.src)
BansOn(p) == {b \in Table(rows, "ban") : Matches(b, p)}

(* A packet from a trusted prefix passes before anything else is asked,    *)
(* however compaction has thinned the trusted prefixes out                 *)
(* (compact_trusted_prefixes, lookup_trusted).                             *)
TrustedPasses ==
  Parsed /\ IsTrusted(last.pkt) => last.out = "pass" /\ last.by = None

\* A ban that covers b, lasts at least as long and would be refused.
AbsorbedByRefused(b) ==
  \E c \in Table(rows, "ban") :
    /\ c.proto = b.proto /\ c.port = b.port
    /\ Covers(c.cidr, b.cidr) /\ c.expires >= b.expires /\ MatchesLocal(c.cidr)

(* While a ban lasts it drops what it matches, and not longer: neither     *)
(* compaction nor an expired ban with a longer prefix in the trie lets     *)
(* packets through, and a ban ends at its time although no new policy      *)
(* arrives.  Left out is a ban absorbed by one that the agent refused      *)
(* (compact_temp_bans, collect_temp_ban, temp_ban_active).                 *)
BansEnforced ==
  /\ Parsed /\ ~IsTrusted(last.pkt)
       /\ (\E b \in BansOn(last.pkt) : b.expires > clock /\ ~AbsorbedByRefused(b))
     => last.out = "ban"
  /\ last.out = "ban" => \E b \in BansOn(last.pkt) : b.expires > clock

(* README.md, "Enforcement Priority": matching source IPs are dropped until *)
(* their expiration time.  Only bans that match the interface are refused  *)
(* (pending/safety.rs), so a ban that does not must be enforced.           *)
EveryBanEnforced ==
  Parsed /\ ~IsTrusted(last.pkt)
    /\ (\E b \in BansOn(last.pkt) : b.expires > clock /\ ~MatchesLocal(b.cidr))
  => last.out = "ban"

(* Whatever the policy says, no ban and no deny rule drops a packet from an *)
(* address of the agent's own interface (pending/safety.rs), although they *)
(* are refused prefix by prefix and looked up by address.                  *)
LocalNotDenied ==
  Parsed /\ last.pkt.src \in Local => last.out \notin {"ban", "rule"}

\* How well an entry fits p: exact protocol, then exact port.
ClassOf(r, p) ==
  FirstOf({i \in 1..4 : Class(p, i) = [proto |-> r.proto, port |-> r.port]})

MoreExact(r, s, p) == ClassOf(r, p) < ClassOf(s, p)

(* README.md, "Enforcement Priority": "longest-prefix matching first; when *)
(* two entries produce the same effective key", the lower priority value,  *)
(* and a threat prefix before a rule.                                      *)
DocumentedBefore(r, s) ==
  \/ r.cidr.len > s.cidr.len
  \/ /\ Key(r) = Key(s)
     /\ \/ r.priority < s.priority
        \/ r.table = "threat" /\ s.table = "rule"

\* r goes before s for p: it fits p more exactly, or as well and is documented to.
GoesBefore(r, s, p) ==
  \/ MoreExact(r, s, p)
  \/ ~MoreExact(s, r, p) /\ DocumentedBefore(r, s)

\* Rules and threat prefixes that apply to p: what was refused does not.
FittingRules(p) == {r \in CompileRules(rows) : Matches(r, p) /\ ~Refused(r)}

RulesWereAsked == Parsed /\ ~IsTrusted(last.pkt) /\ last.out # "ban"

(* Which of the rules and threat prefixes that fit a packet decides: none  *)
(* that fits protocol and port more exactly, and among those that fit them *)
(* alike the first in the documented order.  A rule that was refused       *)
(* neither decides nor shadows another (ordered_policy_rules,              *)
(* collect_rule, lookup_rule).  That protocol and port go before the       *)
(* length of the prefix is the program's order (lookup_rule tries one      *)
(* class after the other) and not the documented one: LongestPrefixFirst.  *)
BestRuleDecides ==
  RulesWereAsked =>
    LET p == last.pkt
    IN  IF FittingRules(p) = {}
        THEN last.out # "rule"
        ELSE /\ last.by \in FittingRules(p)
             /\ \A r \in FittingRules(p) : ~GoesBefore(r, last.by, p)
             /\ last.out = (IF last.by.action = "deny" THEN "rule" ELSE "pass")

(* The documented order as it is written, which knows of no classes: "the  *)
(* XDP map uses longest-prefix matching first" (README.md, "Enforcement    *)
(* Priority").  No rule that fits has a longer prefix than the one that    *)
(* decides.  It does not hold: lookup_rule finds the wide rule for a port  *)
(* before the narrow one for any port.                                     *)
LongestPrefixFirst ==
  RulesWereAsked =>
    \A r \in FittingRules(last.pkt) : r.cidr.len <= last.by.cidr.len

=============================================================================
