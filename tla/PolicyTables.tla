---------------------------- MODULE PolicyTables ----------------------------
(***************************************************************************)
(* The tables an operator edits through the API (firewall rules, trusted   *)
(* CIDRs, dynamic rate limits, country policies, the dynamic defense row)  *)
(* and the two seeds that write them too.  Every request is a transaction  *)
(* that first selects rows and then writes what the selection calls for;   *)
(* the version moves only if active rows did.                              *)
(*                                                                         *)
(* A row has a key (rule_key, cidr, country, the protocol of a limit),     *)
(* the enabled flag, and all its other fields as one value.  Threat        *)
(* sources are in ThreatFeeds, bans in TempBans, the two statements that   *)
(* increment the version in PolicyStore.                                   *)
(***************************************************************************)
EXTENDS Integers, Sequences, FiniteSets, SequencesExt

CONSTANTS
  Clients,          \* connections that handle requests, and start-ups
  Keys, Data,
  NodeKeys,         \* keys of CIDRs that cover a registered node's address
  Denies,           \* values of Data whose action is deny
  ExampleRules,     \* items of POST /policy/seed-example
  ExampleCountries,
  DefaultDefense,
  TxnOverlap,       \* TRUE: others commit between the select and the write
                    \* of a transaction (PostgreSQL, MySQL); FALSE: SQLite
  MaxRequests,      \* bound: requests
  MaxBatch          \* bound: items of a batch

VARIABLES
  db,               \* the committed database
  txn,              \* [Clients -> request and the snapshot its selects see]
  requests          \* requests so far

vars == <<db, txn, requests>>

Keyed == {"rules", "trusted", "limits", "countries"}
Item == [key : Keys, enabled : BOOLEAN, data : Data]
Row == [table : Keyed, id : Nat, key : Keys, enabled : BOOLEAN, data : Data]

ASSUME TablesAssumption ==
  /\ IsFiniteSet(Keys) /\ DefaultDefense \in Data /\ {MaxRequests, MaxBatch} \subseteq Nat
  /\ ExampleRules \in Seq(Item) /\ ExampleCountries \in Seq(Item)
  /\ \A i, j \in DOMAIN ExampleRules : ExampleRules[i].key = ExampleRules[j].key => i = j
  /\ \A i, j \in DOMAIN ExampleCountries : ExampleCountries[i] = ExampleCountries[j] => i = j

Fields(row) == [key |-> row.key, enabled |-> row.enabled, data |-> row.data]
Of(rows, t) == {r \in rows : r.table = t}

\* What an agent is sent: disabled rows are not loaded.
Active(d) == [rows |-> {<<r.table, r.key, r.data>> : r \in {x \in d.rows : x.enabled}},
              defense |-> d.defense]

\* ensure_builtin_policy ran before the server answered.
Init ==
  /\ db = [rows |-> {}, defense |-> DefaultDefense, last |-> 0, version |-> 1]
  /\ txn = [c \in Clients |-> <<>>]
  /\ requests = 0

----------------------------------------------------------------------------
(* Statements of one transaction.  seen is what its selects return, rows   *)
(* what its writes apply to; without overlap the two are the same.         *)

Start(seen) == [seen |-> seen.rows, rows |-> db.rows, defense |-> db.defense, last |-> db.last,
                active |-> FALSE, ok |-> TRUE]

Refuse(s) == [s EXCEPT !.ok = FALSE]

InsertRows(s, t, items) ==
  LET new == {[table |-> t, id |-> s.last + i, key |-> items[i].key, enabled |-> items[i].enabled,
               data |-> items[i].data] : i \in DOMAIN items}
  IN  [s EXCEPT !.seen = @ \cup new, !.rows = @ \cup new, !.last = @ + Len(items),
                !.active = @ \/ \E row \in new : row.enabled]

InsertRow(s, t, item) == InsertRows(s, t, <<item>>)

\* A unique index covers the key of the table.
InsertUnique(s, t, item) ==
  IF \E r \in Of(s.rows, t) : r.key = item.key THEN Refuse(s) ELSE InsertRow(s, t, item)

\* By key; the same fields are no change, other fields a conflict.
CreateRule(s, item) ==
  LET old == {r \in Of(s.seen, "rules") : r.key = item.key}
  IN  IF old = {} THEN InsertUnique(s, "rules", item)
      ELSE IF \E r \in old : Fields(r) = item THEN s ELSE Refuse(s)

\* Only the new row decides whether active rows changed.
UpdateRowNew(s, old, item) ==
  LET new == [old EXCEPT !.enabled = item.enabled, !.data = item.data]
      Replaced(rows) == {IF r.id = old.id THEN new ELSE r : r \in rows}
  IN  IF \E r \in s.rows : r.id = old.id
      THEN [s EXCEPT !.seen = Replaced(@), !.rows = Replaced(@), !.active = @ \/ item.enabled]
      ELSE Refuse(s)

\* An update of the row that was found: no row left is an error.
UpdateRow(s, old, item) ==
  LET new == [old EXCEPT !.enabled = item.enabled, !.data = item.data]
      Replaced(rows) == {IF r.id = old.id THEN new ELSE r : r \in rows}
  IN  IF \E r \in s.rows : r.id = old.id
      THEN [s EXCEPT !.seen = Replaced(@), !.rows = Replaced(@),
                     !.active = @ \/ old.enabled # item.enabled \/ item.enabled]
      ELSE Refuse(s)

\* By CIDR; other fields replace the old ones.
UpsertTrusted(s, item) ==
  LET old == {r \in Of(s.seen, "trusted") : r.key = item.key}
  IN  IF old = {} THEN InsertUnique(s, "trusted", item)
      ELSE IF \E r \in old : Fields(r) = item THEN s
      ELSE UpdateRow(s, CHOOSE r \in old : TRUE, item)

\* Disabled rows are overlooked.
CreateByFieldsEnabled(s, t, item) ==
  LET old == {r \in Of(s.seen, t) : r.enabled /\ Fields(r) = item}
  IN  IF old = {} THEN InsertRow(s, t, item)
      ELSE IF Cardinality(old) = 1 THEN s ELSE Refuse(s)

\* By all fields, with no index; several equal rows are a conflict.
CreateByFields(s, t, item) ==
  LET old == {r \in Of(s.seen, t) : Fields(r) = item}
  IN  IF old = {} THEN InsertRow(s, t, item)
      ELSE IF Cardinality(old) = 1 THEN s ELSE Refuse(s)

CreateLimit(s, item) == CreateByFields(s, "limits", item)
CreateCountry(s, item) == CreateByFields(s, "countries", item)

Create(s, t, item) ==
  CASE t = "rules" -> CreateRule(s, item)
    [] t = "trusted" -> UpsertTrusted(s, item)
    [] t = "limits" -> CreateLimit(s, item)
    [] t = "countries" -> CreateCountry(s, item)

\* A batch stops at its first refused item, and nothing of it is kept.
CreateNext(s, t, item) == IF s.ok THEN Create(s, t, item) ELSE s

\* The transaction after so many items.
AfterItems(s, t, items) ==
  LET after[i \in 0..Len(items)] ==
        IF i = 0 THEN s ELSE CreateNext(after[i - 1], t, items[i])
  IN  after

CreateAll(s, t, items) == AfterItems(s, t, items)[Len(items)]

\* A deny rule that covers a registered node's address is refused before.
RefusedBeforehand(t, items) ==
  t = "rules" /\ \E i \in DOMAIN items : items[i].key \in NodeKeys /\ items[i].data \in Denies

\* The rows in doomed go; active is judged by the rows that were selected.
DeleteRows(s, targets, doomed) ==
  [s EXCEPT !.rows = @ \ doomed, !.active = \E r \in targets : r.enabled]

\* By ids: all of them or nothing, found and deleted.
DeleteIds(s, t, ids) ==
  LET targets == {r \in Of(s.seen, t) : r.id \in ids}
      doomed == {r \in Of(s.rows, t) : r.id \in ids}
  IN  IF Cardinality(targets) = Cardinality(ids) /\ Cardinality(doomed) = Cardinality(ids)
      THEN DeleteRows(s, targets, doomed) ELSE Refuse(s)

\* Several rules by ids or keys, one by key or fields: those that are found.
DeleteFoundRules(s, targets) ==
  LET doomed == {r \in s.rows : \E x \in targets : x.id = r.id}
  IN  IF targets # {} /\ Cardinality(doomed) = Cardinality(targets)
      THEN DeleteRows(s, targets, doomed) ELSE Refuse(s)

\* By CIDR, whatever the row's other fields are when it is deleted.
DeleteTrusted(s, key) ==
  LET Named(rows) == {r \in Of(rows, "trusted") : r.key = key}
  IN  IF Named(s.seen) # {} /\ Named(s.rows) # {}
      THEN DeleteRows(s, Named(s.seen), Named(s.rows)) ELSE Refuse(s)

\* By all fields, if exactly one row has them.
DeleteByFields(s, t, item) ==
  LET Alike(rows) == {r \in Of(rows, t) : Fields(r) = item}
  IN  IF Cardinality(Alike(s.seen)) = 1 /\ Alike(s.rows) # {}
      THEN DeleteRows(s, Alike(s.seen), Alike(s.rows)) ELSE Refuse(s)

\* The same settings roll back; others always move the version.
UpdateDefense(s, seen, value) ==
  IF seen.defense = value THEN s ELSE [s EXCEPT !.defense = value, !.active = TRUE]

\* Rules and countries are replaced, the version always moves.
SeedExample(s) ==
  LET cleared == [s EXCEPT !.rows = {r \in @ : r.table \notin {"rules", "countries"}},
                           !.seen = {r \in @ : r.table \notin {"rules", "countries"}}]
      rules == InsertRows(cleared, "rules", ExampleRules)
  IN  [InsertRows(rules, "countries", ExampleCountries) EXCEPT !.active = TRUE]

(* Start-up with configured trusted CIDRs: those are enabled or inserted,  *)
(* all others are disabled; a row to switch that is gone is an error.      *)
Configure(s, wanted, data) ==
  LET present == Of(s.seen, "trusted")
      Switched(r) == [r EXCEPT !.enabled = (r.key \in wanted)]
      missing == wanted \ {r.key : r \in present}
      switch == {r.id : r \in {x \in present : Switched(x) # x}}
      kept == [s EXCEPT !.rows = {IF r.id \in switch THEN Switched(r) ELSE r : r \in @},
                        !.active = switch # {}]
      order == SetToSeq(missing)
      items == [i \in DOMAIN order |-> [key |-> order[i], enabled |-> TRUE, data |-> data]]
  IN  IF \/ ~(switch \subseteq {r.id : r \in s.rows})
         \/ \E r \in Of(s.rows, "trusted") : r.key \in missing
      THEN Refuse(s) ELSE InsertRows(kept, "trusted", items)

----------------------------------------------------------------------------
(* Requests                                                                *)

Batches == UNION {[1..n -> Item] : n \in 1..MaxBatch}

Requests ==
  [op : {"create"}, table : Keyed, items : Batches]
    \cup [op : {"delete_ids"}, table : Keyed, ids : {ids \in SUBSET (1..db.last) : ids # {}}]
    \cup [op : {"delete_rule_keys"}, keys : SUBSET Keys \ {{}}]
    \cup [op : {"delete_query"}, table : Keyed, item : Item]
    \cup [op : {"update_defense"}, value : Data]
    \cup [op : {"seed_example"}]
    \cup [op : {"configure"}, keys : SUBSET Keys, data : Data]

Effect(r, seen) ==
  LET s == Start(seen)
      rules == Of(s.seen, "rules")
  IN  CASE r.op = "create" -> CreateAll(s, r.table, r.items)
        [] r.op = "delete_ids" /\ r.table = "rules" -> DeleteFoundRules(s, {x \in rules : x.id \in r.ids})
        [] r.op = "delete_ids" /\ r.table # "rules" -> DeleteIds(s, r.table, r.ids)
        [] r.op = "delete_rule_keys" -> DeleteFoundRules(s, {x \in rules : x.key \in r.keys})
        [] r.op = "delete_query" /\ r.table = "rules" ->
             DeleteFoundRules(s, {x \in rules : x.key = r.item.key /\ x.data = r.item.data})
        [] r.op = "delete_query" /\ r.table = "trusted" -> DeleteTrusted(s, r.item.key)
        [] r.op = "delete_query" /\ r.table \in {"limits", "countries"} -> DeleteByFields(s, r.table, r.item)
        [] r.op = "update_defense" -> UpdateDefense(s, seen, r.value)
        [] r.op = "seed_example" -> SeedExample(s)
        [] r.op = "configure" -> Configure(s, r.keys, r.data)

\* Begin and the selects.
Begin(c, r) ==
  /\ txn[c] = <<>> /\ requests < MaxRequests
  /\ ~(r.op = "create" /\ RefusedBeforehand(r.table, r.items))
  /\ txn' = [txn EXCEPT ![c] = <<[request |-> r, seen |-> db]>>]
  /\ requests' = requests + 1
  /\ UNCHANGED db

Close(c) == txn' = [txn EXCEPT ![c] = <<>>] /\ UNCHANGED requests

\* The writes, the version if active rows changed, and the commit.
Commit(c) ==
  /\ txn[c] # <<>>
  /\ TxnOverlap \/ txn[c][1].seen = db
  /\ LET s == Effect(txn[c][1].request, txn[c][1].seen)
     IN  /\ s.ok
         /\ db' = [rows |-> s.rows, defense |-> s.defense, last |-> s.last,
                   version |-> IF s.active THEN db.version + 1 ELSE db.version]
  /\ Close(c)

\* A refused request, a write on a stale snapshot, any failed statement.
Rollback(c) ==
  /\ txn[c] # <<>>
  /\ Close(c)
  /\ UNCHANGED db

Next ==
  \E c \in Clients :
    \/ \E r \in Requests : Begin(c, r)
    \/ Commit(c)
    \/ Rollback(c)

Spec == Init /\ [][Next]_vars

----------------------------------------------------------------------------
(* Properties                                                              *)

Request(c) == txn[c][1].request

TypeOK ==
  /\ db.rows \subseteq Row /\ db.last \in Nat /\ db.version \in Nat \ {0} /\ db.defense \in Data
  /\ \A r, x \in db.rows : r.id = x.id => r = x
  /\ \A r \in db.rows : r.id <= db.last
  /\ requests \in 0..MaxRequests

(* "Every mutating endpoint that immediately changes the active firewall   *)
(* policy increments the policy version" (README.md:108): the set of       *)
(* enabled rows never changes under an unchanged version, although what    *)
(* counts as a change is computed from the rows selected before.  And      *)
(* "creating, deleting, or editing only disabled rows does not increment   *)
(* the policy version": it moves only if the active policy did.  The       *)
(* example seed always moves it, and so does a batch that enables and      *)
(* disables one CIDR.                                                      *)
ActiveChangesBump ==
  [][/\ Active(db') # Active(db) => db'.version > db.version
     /\ \A c \in Clients :
          txn[c] # <<>> /\ txn'[c] = <<>> /\ db'.version # db.version =>
            \/ Active(db') # Active(db)
            \/ Request(c).op = "seed_example"
            \/ /\ Request(c).op = "create" /\ Request(c).table = "trusted"
               /\ \E i, j \in DOMAIN Request(c).items :
                    i # j /\ Request(c).items[i].key = Request(c).items[j].key]_vars

(* A key names one rule and one trusted CIDR, and no two limits or         *)
(* countries are alike, which no index sees to: otherwise they could be    *)
(* neither created again nor deleted by their fields                       *)
(* (create_dynamic_rate_limit, create_geo_country).                        *)
NoTwoAlike ==
  \A r, x \in db.rows :
    r # x /\ r.table = x.table =>
      IF r.table \in {"rules", "trusted"} THEN r.key # x.key ELSE Fields(r) # Fields(x)

=============================================================================
