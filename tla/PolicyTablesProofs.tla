------------------------- MODULE PolicyTablesProofs -------------------------
(***************************************************************************)
(* What the tables promise, for every set of keys and fields, every number *)
(* of clients and of requests and every batch.                             *)
(*                                                                         *)
(* First SQLite, where a transaction that writes on a stale snapshot fails *)
(* (~TxnOverlap): Inv says that no two rows are alike and that no id is    *)
(* above the last one.  Each statement is shown to keep that of the        *)
(* transaction (Good) and to note in `active` exactly the changes of what  *)
(* an agent would be sent (Creates for one item, Batch along a batch,      *)
(* Honest for deletes, the defense row and start-up).                      *)
(*                                                                         *)
(* Then every database: OverlapInv relates the rows to those that open     *)
(* transactions have selected: a row with the same id has the same key.    *)
(***************************************************************************)
EXTENDS PolicyTables, FiniteSetTheorems, WellFoundedInduction, TLAPS

(* A transaction while its statements run.                                 *)
State == [seen : SUBSET Row, rows : SUBSET Row, defense : Data, last : Nat,
          active : BOOLEAN, ok : BOOLEAN]

Same(t, a, b) == IF t \in {"rules", "trusted"} THEN a.key = b.key ELSE a = b
Alike(r, x) == r.table = x.table /\ Same(r.table, Fields(r), Fields(x))

Sound(rows, last) ==
  /\ \A r, x \in rows : r.id = x.id \/ Alike(r, x) => r = x
  /\ \A r \in rows : r.id <= last

\* What a transaction leaves, and what it keeps while it reads its own writes.
Settled(s) == s \in State /\ Sound(s.rows, s.last)
Good(s) == Settled(s) /\ s.seen = s.rows

\* What an agent would be sent of a table's entry.
Sent(e, s) == \E r \in s.rows : r.enabled /\ e = <<r.table, r.key, r.data>>

----------------------------------------------------------------------------
(* Induction over the items of a batch.                                    *)

LEMMA LeastNumber ==
  ASSUME NEW T \in SUBSET Nat, T # {}
  PROVE  \E n \in T : \A m \in T : n <= m
<1>1. PICK n \in T : \A m \in T : ~(<<m, n>> \in OpToRel(<, Nat))
  BY NatLessThanWellFounded, WFMin
<1>2. ASSUME NEW m \in T PROVE ~(m < n)
  BY <1>1 DEF OpToRel
<1>. QED  BY <1>2

\* The states of a batch up to an item.
IsRun(f, s, t, items, n) ==
  f = [i \in 0..n |-> IF i = 0 THEN s ELSE CreateNext(f[i - 1], t, items[i])]

LEMMA RunsExist ==
  ASSUME NEW s, NEW t, NEW items, NEW n \in Nat
  PROVE  \E f : IsRun(f, s, t, items, n)
<1> DEFINE T == {m \in Nat : ~ \E f : IsRun(f, s, t, items, m)}
<1>. SUFFICES ASSUME T # {} PROVE FALSE
  OBVIOUS
<1>1. PICK m \in T : \A k \in T : m <= k
  BY LeastNumber
<1>2. CASE m = 0
  <2> DEFINE g == [i \in 0..0 |-> s]
  <2>1. IsRun(g, s, t, items, 0)
    BY DEF IsRun
  <2>. QED  BY <1>1, <1>2, <2>1
<1>3. CASE m > 0
  <2>1. m \in Nat /\ m - 1 \in Nat /\ m - 1 < m
    BY <1>3
  <2>2. PICK f : IsRun(f, s, t, items, m - 1)
    BY <1>1, <2>1
  <2> DEFINE g == [i \in 0..m |-> IF i = m THEN CreateNext(f[m - 1], t, items[m]) ELSE f[i]]
  <2>3. \A i \in 0..(m - 1) : f[i] = IF i = 0 THEN s ELSE CreateNext(f[i - 1], t, items[i])
    BY <2>2 DEF IsRun
  <2>4. \A i \in 0..(m - 1) : g[i] = f[i]
    BY <2>1
  <2>5. \A i \in 0..m : g[i] = IF i = 0 THEN s ELSE CreateNext(g[i - 1], t, items[i])
    <3>. SUFFICES ASSUME NEW i \in 0..m
                  PROVE  g[i] = IF i = 0 THEN s ELSE CreateNext(g[i - 1], t, items[i])
      OBVIOUS
    <3>1. CASE i = m
      BY <2>1, <2>4, <3>1
    <3>2. CASE i < m
      <4>1. i \in 0..(m - 1) /\ (i # 0 => i - 1 \in 0..(m - 1))
        BY <2>1, <3>2
      <4>. QED  BY <2>3, <2>4, <4>1
    <3>. QED  BY <2>1, <3>1, <3>2
  <2>6. IsRun(g, s, t, items, m)
    BY <2>5 DEF IsRun
  <2>. QED  BY <1>1, <2>6
<1>. QED  BY <1>1, <1>2, <1>3

LEMMA Items ==
  ASSUME NEW s, NEW t, NEW items, Len(items) \in Nat
  PROVE  /\ AfterItems(s, t, items)[0] = s
         /\ \A i \in 1..Len(items) :
              AfterItems(s, t, items)[i] = CreateNext(AfterItems(s, t, items)[i - 1], t, items[i])
<1> DEFINE f == AfterItems(s, t, items)
<1>1. f = [i \in 0..Len(items) |-> IF i = 0 THEN s ELSE CreateNext(f[i - 1], t, items[i])]
  <2>1. f = CHOOSE g : g = [i \in 0..Len(items) |-> IF i = 0 THEN s ELSE CreateNext(g[i - 1], t, items[i])]
    BY DEF AfterItems
  <2>2. \E g : g = [i \in 0..Len(items) |-> IF i = 0 THEN s ELSE CreateNext(g[i - 1], t, items[i])]
    <3>1. PICK g : IsRun(g, s, t, items, Len(items))
      BY RunsExist
    <3>. QED  BY <3>1, Zenon DEF IsRun
  <2>. QED  BY <2>1, <2>2, Zenon
<1>. QED  BY <1>1

----------------------------------------------------------------------------
(* Statements                                                              *)

Changed(e, s, n) == ~(Sent(e, s) <=> Sent(e, n))

NewRow(t, id, item) ==
  [table |-> t, id |-> id, key |-> item.key, enabled |-> item.enabled, data |-> item.data]

LEMMA NewRowType ==
  ASSUME NEW t \in Keyed, NEW id \in Nat, NEW item \in Item
  PROVE  /\ NewRow(t, id, item) \in Row /\ Fields(NewRow(t, id, item)) = item
         /\ NewRow(t, id, item).id = id /\ NewRow(t, id, item).table = t
         /\ NewRow(t, id, item).key = item.key /\ NewRow(t, id, item).data = item.data
         /\ (NewRow(t, id, item).enabled <=> item.enabled)
BY DEF NewRow, Row, Item, Fields

(* Items that are not alike, and not like any row, are added.              *)
LEMMA InsertRowsAdds ==
  ASSUME NEW s, Settled(s), NEW t \in Keyed, NEW items \in Seq(Item),
         \A i, j \in DOMAIN items : Same(t, items[i], items[j]) => i = j,
         \A r \in s.rows, i \in DOMAIN items : r.table = t => ~Same(t, Fields(r), items[i])
  PROVE  /\ Settled(InsertRows(s, t, items))
         /\ s.seen = s.rows => Good(InsertRows(s, t, items))
         /\ InsertRows(s, t, items).defense = s.defense
         /\ (InsertRows(s, t, items).active <=> s.active \/ \E i \in DOMAIN items : items[i].enabled)
         /\ \A e : Sent(e, InsertRows(s, t, items)) <=>
              \/ Sent(e, s)
              \/ \E i \in DOMAIN items : items[i].enabled /\ e = <<t, items[i].key, items[i].data>>
<1> DEFINE n == InsertRows(s, t, items)
           R(i) == NewRow(t, s.last + i, items[i])
           new == {R(i) : i \in DOMAIN items}
<1>1. /\ s \in State /\ s.last \in Nat /\ s.rows \subseteq Row /\ s.seen \subseteq Row
      /\ s.active \in BOOLEAN
      /\ \A r, x \in s.rows : r.id = x.id \/ Alike(r, x) => r = x
      /\ \A r \in s.rows : r.id <= s.last
  BY DEF Settled, Sound, State
<1>2. /\ Len(items) \in Nat /\ DOMAIN items = 1..Len(items)
      /\ \A i \in DOMAIN items : items[i] \in Item
  OBVIOUS
<1>3. \A i \in DOMAIN items :
        /\ R(i) \in Row /\ Fields(R(i)) = items[i] /\ R(i).id = s.last + i /\ R(i).table = t
        /\ R(i).key = items[i].key /\ R(i).data = items[i].data
        /\ (R(i).enabled <=> items[i].enabled)
  BY <1>1, <1>2, NewRowType
<1>4. n = [s EXCEPT !.seen = s.seen \cup new, !.rows = s.rows \cup new, !.last = s.last + Len(items),
                    !.active = s.active \/ \E row \in new : row.enabled]
  BY Zenon DEF InsertRows, NewRow
<1>. HIDE DEF n, R
<1>5. /\ n.seen = s.seen \cup new /\ n.rows = s.rows \cup new /\ n.last = s.last + Len(items)
      /\ n.defense = s.defense /\ n.ok = s.ok
      /\ n.active = (s.active \/ \E row \in new : row.enabled)
  BY <1>1, <1>4 DEF State
<1>6. (\E row \in new : row.enabled) <=> \E i \in DOMAIN items : items[i].enabled
  BY <1>3
<1>7. n \in State
  <2>1. new \subseteq Row
    BY <1>3
  <2> DEFINE enabled == s.active \/ \E row \in new : row.enabled
  <2>2. enabled \in BOOLEAN
    OBVIOUS
  <2>. HIDE DEF new
  <2>3. n = [s EXCEPT !.seen = s.seen \cup new, !.rows = s.rows \cup new,
                      !.last = s.last + Len(items), !.active = enabled]
    BY <1>4
  <2>4. /\ [s EXCEPT !.seen = s.seen \cup new] \in State
        /\ \A x \in State : /\ [x EXCEPT !.rows = s.rows \cup new] \in State
                           /\ [x EXCEPT !.last = s.last + Len(items)] \in State
    BY <1>1, <1>2, <2>1 DEF State
  <2>. HIDE DEF enabled
  <2>5. \A x \in State : [x EXCEPT !.active = enabled] \in State
    BY <2>2 DEF State
  <2>. QED  BY <2>3, <2>4, <2>5
<1>8. \A r \in n.rows : r.id <= n.last
  BY <1>1, <1>2, <1>3, <1>5 DEF Row
<1>9. ASSUME NEW r \in s.rows, NEW x \in new
      PROVE  r.id # x.id /\ ~Alike(r, x) /\ ~Alike(x, r)
  <2>1. PICK i \in DOMAIN items : x = R(i)
    OBVIOUS
  <2>2. r.id # x.id
    BY <1>1, <1>2, <1>3, <2>1 DEF Row
  <2>3. r.table = t => ~Same(t, Fields(r), items[i])
    OBVIOUS
  <2>4. Same(t, items[i], Fields(r)) => Same(t, Fields(r), items[i])
    BY DEF Same
  <2>. QED  BY <1>3, <2>1, <2>2, <2>3, <2>4 DEF Alike
<1>10. ASSUME NEW r \in new, NEW x \in new, r.id = x.id \/ Alike(r, x)
       PROVE  r = x
  <2>1. PICK i \in DOMAIN items, j \in DOMAIN items : r = R(i) /\ x = R(j)
    OBVIOUS
  <2>2. CASE r.id = x.id
    BY <1>1, <1>2, <1>3, <2>1, <2>2
  <2>3. CASE Alike(r, x)
    BY <1>3, <2>1, <2>3 DEF Alike
  <2>. QED  BY <1>10, <2>2, <2>3
<1>11. \A r, x \in n.rows : r.id = x.id \/ Alike(r, x) => r = x
  <2>. HIDE DEF new
  <2>. QED  BY <1>1, <1>5, <1>9, <1>10
<1>12. Settled(n) /\ (s.seen = s.rows => Good(n))
  BY <1>5, <1>7, <1>8, <1>11 DEF Settled, Good, Sound
<1>13. \A e : Sent(e, n) <=>
              \/ Sent(e, s)
              \/ \E i \in DOMAIN items : items[i].enabled /\ e = <<t, items[i].key, items[i].data>>
  BY <1>3, <1>5 DEF Sent
<1>. QED  BY <1>5, <1>6, <1>12, <1>13 DEF n

(* What a statement that creates one item does to what is sent: a change   *)
(* of it is noted, is about the item's key, and was there if it is noted.  *)
Creates(s, n, t, item) ==
  /\ Good(n) /\ n.defense = s.defense
  /\ s.active => n.active
  /\ \A e : Changed(e, s, n) => n.active /\ e[1] = t /\ e[2] = item.key
  /\ n.active /\ ~s.active => \E e : Changed(e, s, n)
  /\ t # "trusted" => \A e : Sent(e, s) => Sent(e, n)

LEMMA RefuseKeeps ==
  ASSUME NEW s, Good(s)
  PROVE  /\ Good(Refuse(s)) /\ Refuse(s).defense = s.defense /\ Refuse(s).active = s.active
         /\ Refuse(s).rows = s.rows /\ \A e : ~Changed(e, s, Refuse(s))
         /\ Refuse(s).ok = FALSE
<1>1. Refuse(s) \in State
  BY DEF Good, Settled, State, Refuse
<1>2. /\ Refuse(s).rows = s.rows /\ Refuse(s).seen = s.seen /\ Refuse(s).last = s.last
      /\ Refuse(s).defense = s.defense /\ Refuse(s).active = s.active /\ Refuse(s).ok = FALSE
  BY DEF Good, Settled, State, Refuse
<1>. QED  BY <1>1, <1>2, Zenon DEF Good, Settled, Changed, Sent

LEMMA RefuseCreates ==
  ASSUME NEW s, Good(s), NEW t, NEW item
  PROVE  Creates(s, Refuse(s), t, item) /\ Creates(s, s, t, item)
<1>1. \A e : ~Changed(e, s, s)
  BY DEF Changed
<1>2. \A e : Sent(e, s) => Sent(e, Refuse(s))
  BY RefuseKeeps, Zenon DEF Changed
<1>. QED  BY RefuseKeeps, <1>1, <1>2, Zenon DEF Creates

(* One item that is not like any row.                                      *)
LEMMA InsertRowCreates ==
  ASSUME NEW s, Good(s), NEW t \in Keyed, NEW item \in Item,
         \A r \in s.rows : r.table = t => ~Same(t, Fields(r), item)
  PROVE  Creates(s, InsertRow(s, t, item), t, item)
<1> DEFINE items == <<item>>
           n == InsertRows(s, t, items)
           new == <<t, item.key, item.data>>
<1>1. /\ items \in Seq(Item) /\ Len(items) = 1 /\ DOMAIN items = {1} /\ items[1] = item
  OBVIOUS
<1>2. \A r \in s.rows, i \in DOMAIN items : r.table = t => ~Same(t, Fields(r), items[i])
  BY <1>1
<1>. HIDE DEF items
<1>3. /\ Good(n) /\ n.defense = s.defense
      /\ (n.active <=> s.active \/ \E i \in DOMAIN items : items[i].enabled)
      /\ \A e : Sent(e, n) <=>
           \/ Sent(e, s)
           \/ \E i \in DOMAIN items : items[i].enabled /\ e = <<t, items[i].key, items[i].data>>
  BY <1>1, <1>2, InsertRowsAdds DEF Good
<1>4. (n.active <=> s.active \/ item.enabled) /\ \A e : Sent(e, n) <=> Sent(e, s) \/ (item.enabled /\ e = new)
  BY <1>1, <1>3
<1>5. item.enabled => ~Sent(new, s)
  <2>. SUFFICES ASSUME item.enabled, NEW r \in s.rows, r.enabled, new = <<r.table, r.key, r.data>>
                PROVE  FALSE
    BY DEF Sent
  <2>1. r.table = t /\ r.key = item.key /\ r.data = item.data
    OBVIOUS
  <2>2. Fields(r) = item
    <3>1. r \in Row
      BY DEF Good, Settled, State
    <3>. QED  BY <2>1, <3>1 DEF Fields, Item, Row
  <2>. QED  BY <2>1, <2>2 DEF Same
<1>6. \A e : Changed(e, s, n) <=> item.enabled /\ e = new
  BY <1>4, <1>5, Zenon DEF Changed
<1>7. new[1] = t /\ new[2] = item.key
  OBVIOUS
<1>. HIDE DEF new
<1>8. n = InsertRow(s, t, item)
  BY DEF InsertRow, items
<1>. HIDE DEF n
<1>9. n.active <=> s.active \/ item.enabled
  BY <1>4
<1>10. \A e : Sent(e, s) => Sent(e, n)
  BY <1>4
<1>11. Creates(s, n, t, item)
  BY <1>3, <1>6, <1>7, <1>9, <1>10, Zenon DEF Creates
<1>. QED  BY <1>8, <1>11

LEMMA InsertUniqueCreates ==
  ASSUME NEW s, Good(s), NEW t \in {"rules", "trusted"}, NEW item \in Item
  PROVE  Creates(s, InsertUnique(s, t, item), t, item)
<1>1. CASE \E r \in Of(s.rows, t) : r.key = item.key
  BY <1>1, RefuseCreates DEF InsertUnique
<1>2. CASE ~ \E r \in Of(s.rows, t) : r.key = item.key
  <2>1. \A r \in s.rows : r.table = t => ~Same(t, Fields(r), item)
    BY <1>2 DEF Of, Same, Fields
  <2>2. t \in Keyed
    BY DEF Keyed
  <2>3. Creates(s, InsertRow(s, t, item), t, item)
    BY <2>1, <2>2, InsertRowCreates
  <2>. QED  BY <1>2, <2>3 DEF InsertUnique
<1>. QED  BY <1>1, <1>2

LEMMA CreateRuleCreates ==
  ASSUME NEW s, Good(s), NEW item \in Item
  PROVE  Creates(s, CreateRule(s, item), "rules", item)
<1>1. Creates(s, InsertUnique(s, "rules", item), "rules", item)
  BY InsertUniqueCreates
<1>. QED  BY <1>1, RefuseCreates, Zenon DEF CreateRule

LEMMA CreateByFieldsCreates ==
  ASSUME NEW s, Good(s), NEW t \in {"limits", "countries"}, NEW item \in Item
  PROVE  Creates(s, CreateByFields(s, t, item), t, item)
<1> DEFINE old == {r \in Of(s.seen, t) : Fields(r) = item}
<1>1. CASE old = {}
  <2>1. \A r \in s.rows : r.table = t => ~Same(t, Fields(r), item)
    BY <1>1 DEF Good, Of, Same
  <2>2. t \in Keyed
    BY DEF Keyed
  <2>3. Creates(s, InsertRow(s, t, item), t, item)
    BY <2>1, <2>2, InsertRowCreates
  <2>. QED  BY <1>1, <2>3, Zenon DEF CreateByFields
<1>2. CASE old # {}
  BY <1>2, RefuseCreates, Zenon DEF CreateByFields
<1>. QED  BY <1>1, <1>2

(* One row gets other fields, under the same key.                          *)
LEMMA UpdateRowCreates ==
  ASSUME NEW s, Good(s), NEW item \in Item, NEW old \in s.rows,
         old.table = "trusted", old.key = item.key, Fields(old) # item
  PROVE  Creates(s, UpdateRow(s, old, item), "trusted", item)
<1> DEFINE new == [old EXCEPT !.enabled = item.enabled, !.data = item.data]
           Replaced == {IF r.id = old.id THEN new ELSE r : r \in s.rows}
           noted == s.active \/ old.enabled # item.enabled \/ item.enabled
           n == UpdateRow(s, old, item)
           before == <<"trusted", item.key, old.data>>
           after == <<"trusted", item.key, item.data>>
<1>1. /\ s \in State /\ s.last \in Nat /\ s.rows \subseteq Row /\ s.seen = s.rows
      /\ s.active \in BOOLEAN
      /\ \A r, x \in s.rows : r.id = x.id \/ Alike(r, x) => r = x
      /\ \A r \in s.rows : r.id <= s.last
  BY DEF Good, Settled, Sound, State
<1>2. n = [s EXCEPT !.seen = Replaced, !.rows = Replaced, !.active = noted]
  BY <1>1, Zenon DEF UpdateRow
<1>3. /\ old \in Row /\ new \in Row /\ new.id = old.id /\ new.table = "trusted" /\ new.key = item.key
      /\ new.data = item.data /\ (new.enabled <=> item.enabled)
      /\ item.key \in Keys /\ item.enabled \in BOOLEAN /\ item.data \in Data
  BY <1>1 DEF Row, Item
<1>4. Replaced = (s.rows \ {old}) \cup {new}
  BY <1>1, <1>3
<1>5. noted \in BOOLEAN
  OBVIOUS
<1>. HIDE DEF Replaced, noted, new
<1>6. n \in State
  <2>1. Replaced \in SUBSET Row
    BY <1>1, <1>3, <1>4
  <2>. QED  BY <1>1, <1>2, <1>5, <2>1 DEF State
<1>7. n.seen = Replaced /\ n.rows = Replaced /\ n.last = s.last /\ n.defense = s.defense
  BY <1>1, <1>2 DEF State
<1>8. n.active <=> noted
  BY <1>1, <1>2 DEF State
<1>. HIDE DEF n
<1>9. \A r \in s.rows : r.table = "trusted" /\ r.key = item.key => r = old
  BY <1>1 DEF Alike, Same, Fields
<1>10. \A r \in s.rows \ {old} : r.id # new.id /\ ~Alike(r, new) /\ ~Alike(new, r)
  <2>. SUFFICES ASSUME NEW r \in s.rows \ {old}
                PROVE  r.id # new.id /\ ~Alike(r, new) /\ ~Alike(new, r)
    OBVIOUS
  <2>1. r.id # new.id /\ ~(r.table = "trusted" /\ r.key = item.key)
    BY <1>1, <1>3, <1>9
  <2>. QED  BY <1>3, <2>1 DEF Alike, Same, Fields
<1>11. Good(n)
  <2>1. \A r, x \in n.rows : r.id = x.id \/ Alike(r, x) => r = x
    BY <1>1, <1>4, <1>7, <1>10
  <2>2. \A r \in n.rows : r.id <= n.last
    BY <1>1, <1>3, <1>4, <1>7
  <2>. QED  BY <1>6, <1>7, <2>1, <2>2 DEF Good, Settled, Sound
<1>12. \A e : Sent(e, s) <=> (\E r \in s.rows \ {old} : r.enabled /\ e = <<r.table, r.key, r.data>>)
                             \/ (old.enabled /\ e = before)
  BY DEF Sent
<1>13. \A e : Sent(e, n) <=> (\E r \in s.rows \ {old} : r.enabled /\ e = <<r.table, r.key, r.data>>)
                             \/ (item.enabled /\ e = after)
  BY <1>3, <1>4, <1>7 DEF Sent
<1>14. ~ \E r \in s.rows \ {old} : r.enabled /\ before = <<r.table, r.key, r.data>>
  BY <1>9
<1>15. ~ \E r \in s.rows \ {old} : r.enabled /\ after = <<r.table, r.key, r.data>>
  BY <1>9
<1>16. old.data = item.data => ~(old.enabled <=> item.enabled)
  BY <1>3 DEF Fields, Row, Item
<1>17. before[1] = "trusted" /\ before[2] = item.key /\ after[1] = "trusted" /\ after[2] = item.key
       /\ (before = after => old.data = item.data)
  OBVIOUS
<1>18. old.enabled \in BOOLEAN /\ item.enabled \in BOOLEAN
  BY <1>1 DEF Row, Item
<1>19. noted <=> s.active \/ old.enabled \/ item.enabled
  BY <1>18 DEF noted
<1>. HIDE DEF before, after
<1>20. \A e : Changed(e, s, n) => n.active /\ e[1] = "trusted" /\ e[2] = item.key
  BY <1>8, <1>12, <1>13, <1>17, <1>19, Zenon DEF Changed
<1>21. ASSUME n.active, ~s.active
       PROVE  \E e : Changed(e, s, n)
  <2>1. CASE item.enabled /\ ~(old.enabled /\ before = after)
    BY <1>12, <1>13, <1>15, <2>1, Zenon DEF Changed
  <2>2. CASE item.enabled /\ old.enabled /\ before = after
    BY <1>16, <1>17, <2>2
  <2>3. CASE ~item.enabled
    <3>1. old.enabled
      BY <1>8, <1>19, <1>21, <2>3
    <3>. QED  BY <1>12, <1>13, <1>14, <2>3, <3>1, Zenon DEF Changed
  <2>. QED  BY <2>1, <2>2, <2>3
<1>22. s.active => n.active
  BY <1>8, <1>19
<1>23. n.defense = s.defense
  BY <1>7
<1>24. Creates(s, n, "trusted", item)
  BY <1>11, <1>20, <1>21, <1>22, <1>23, Zenon DEF Creates
<1>. QED  BY <1>24 DEF n

LEMMA UpsertTrustedCreates ==
  ASSUME NEW s, Good(s), NEW item \in Item
  PROVE  Creates(s, UpsertTrusted(s, item), "trusted", item)
<1> DEFINE old == {r \in Of(s.seen, "trusted") : r.key = item.key}
           row == CHOOSE r \in old : TRUE
<1>1. CASE old = {}
  <2>1. Creates(s, InsertUnique(s, "trusted", item), "trusted", item)
    BY InsertUniqueCreates
  <2>. QED  BY <1>1, <2>1, Zenon DEF UpsertTrusted
<1>2. CASE old # {} /\ \E r \in old : Fields(r) = item
  BY <1>2, RefuseCreates, Zenon DEF UpsertTrusted
<1>3. CASE old # {} /\ ~ \E r \in old : Fields(r) = item
  <2>1. row \in old
    BY <1>3
  <2>2. row \in s.rows /\ row.table = "trusted" /\ row.key = item.key /\ Fields(row) # item
    BY <1>3, <2>1 DEF Good, Of
  <2>3. Creates(s, UpdateRow(s, row, item), "trusted", item)
    BY <2>2, UpdateRowCreates
  <2>. QED  BY <1>3, <2>3, Zenon DEF UpsertTrusted
<1>. QED  BY <1>1, <1>2, <1>3

LEMMA CreateNextCreates ==
  ASSUME NEW s, Good(s), NEW t \in Keyed, NEW item \in Item
  PROVE  Creates(s, CreateNext(s, t, item), t, item)
<1>1. CASE ~s.ok
  BY <1>1, RefuseCreates DEF CreateNext
<1>2. CASE s.ok
  <2>1. CreateNext(s, t, item) = Create(s, t, item)
    BY <1>2 DEF CreateNext
  <2>2. CASE t = "rules"
    BY <2>1, <2>2, CreateRuleCreates DEF Create
  <2>3. CASE t = "trusted"
    BY <2>1, <2>3, UpsertTrustedCreates DEF Create
  <2>4. CASE t = "limits"
    BY <2>1, <2>4, CreateByFieldsCreates DEF Create, CreateLimit
  <2>5. CASE t = "countries"
    BY <2>1, <2>5, CreateByFieldsCreates DEF Create, CreateCountry
  <2>. QED  BY <2>2, <2>3, <2>4, <2>5 DEF Keyed
<1>. QED  BY <1>1, <1>2

----------------------------------------------------------------------------
(* Batches                                                                 *)

TwoForOneKey(items) == \E i, j \in DOMAIN items : i # j /\ items[i].key = items[j].key

\* After so many items: a change since the start is noted and about one of
\* their keys, and there is one if one is noted.
Batch(s, n, t, items, i) ==
  /\ Good(n) /\ n.defense = s.defense
  /\ \A e : Changed(e, s, n) =>
       n.active /\ e[1] = t /\ \E j \in DOMAIN items : j <= i /\ e[2] = items[j].key
  /\ n.active => (\E e : Changed(e, s, n)) \/ (t = "trusted" /\ TwoForOneKey(items))
  /\ t # "trusted" => \A e : Sent(e, s) => Sent(e, n)

LEMMA BatchStep ==
  ASSUME NEW s, NEW m, NEW n, NEW t, NEW items, NEW i \in Nat, i \in DOMAIN items, i # 0,
         DOMAIN items \subseteq Nat,
         Batch(s, m, t, items, i - 1), Creates(m, n, t, items[i])
  PROVE  Batch(s, n, t, items, i)
<1> DEFINE key == items[i].key
<1>1. \A j \in DOMAIN items : j <= i - 1 => j <= i /\ j # i
  OBVIOUS
<1>2. i <= i
  OBVIOUS
<1>3. \A e : Changed(e, s, n) => Changed(e, s, m) \/ Changed(e, m, n)
  BY Zenon DEF Changed
<1>4. ASSUME NEW e, Changed(e, s, n)
      PROVE  n.active /\ e[1] = t /\ \E j \in DOMAIN items : j <= i /\ e[2] = items[j].key
  <2>1. CASE Changed(e, m, n)
    BY <1>2, <2>1, Zenon DEF Creates
  <2>2. CASE Changed(e, s, m)
    BY <1>1, <2>2, Zenon DEF Batch, Creates
  <2>. QED  BY <1>3, <1>4, <2>1, <2>2
<1>5. t # "trusted" => \A e : Sent(e, s) => Sent(e, n)
  BY Zenon DEF Batch, Creates
<1>6. ASSUME n.active, ~(t = "trusted" /\ TwoForOneKey(items))
      PROVE  \E e : Changed(e, s, n)
  <2>1. CASE ~m.active
    <3>1. PICK e : Changed(e, m, n)
      BY <1>6, <2>1, Zenon DEF Creates
    <3>2. ~Changed(e, s, m)
      BY <2>1, Zenon DEF Batch
    <3>. QED  BY <3>1, <3>2, Zenon DEF Changed
  <2>2. CASE m.active
    <3>1. PICK e : Changed(e, s, m)
      BY <1>6, <2>2, Zenon DEF Batch
    <3>2. CASE t # "trusted"
      <4>1. ~Sent(e, s) /\ Sent(e, m)
        BY <3>1, <3>2, Zenon DEF Batch, Changed
      <4>2. Sent(e, n)
        BY <3>2, <4>1, Zenon DEF Creates
      <4>. QED  BY <4>1, <4>2, Zenon DEF Changed
    <3>3. CASE t = "trusted"
      <4>1. PICK j \in DOMAIN items : j <= i - 1 /\ e[2] = items[j].key
        BY <3>1, Zenon DEF Batch
      <4>2. e[2] # items[i].key
        BY <1>1, <1>6, <3>3, <4>1, Zenon DEF TwoForOneKey
      <4>3. ~Changed(e, m, n)
        BY <4>2, Zenon DEF Creates
      <4>. QED  BY <3>1, <4>3, Zenon DEF Changed
    <3>. QED  BY <3>2, <3>3
  <2>. QED  BY <2>1, <2>2
<1>7. Good(n) /\ n.defense = s.defense
  BY Zenon DEF Batch, Creates
<1>. QED  BY <1>4, <1>5, <1>6, <1>7, Zenon DEF Batch

LEMMA BatchHolds ==
  ASSUME NEW s, Good(s), ~s.active, NEW t \in Keyed, NEW items \in Seq(Item)
  PROVE  Batch(s, CreateAll(s, t, items), t, items, Len(items))
<1> DEFINE f == AfterItems(s, t, items)
           T == {i \in 0..Len(items) : ~Batch(s, f[i], t, items, i)}
<1>1. Len(items) \in Nat /\ DOMAIN items = 1..Len(items) /\ \A i \in 1..Len(items) : items[i] \in Item
  OBVIOUS
<1>2. f[0] = s /\ \A i \in 1..Len(items) : f[i] = CreateNext(f[i - 1], t, items[i])
  BY <1>1, Items
<1>. HIDE DEF f
<1>3. Batch(s, f[0], t, items, 0)
  <2>1. \A e : ~Changed(e, s, s)
    BY DEF Changed
  <2>. QED  BY <1>2, <2>1, Zenon DEF Batch
<1>4. T = {}
  <2>. SUFFICES ASSUME T # {} PROVE FALSE
    OBVIOUS
  <2>1. T \in SUBSET Nat
    BY <1>1
  <2>2. PICK i \in T : \A j \in T : i <= j
    BY <2>1, LeastNumber
  <2>3. i \in 1..Len(items) /\ i - 1 \in 0..Len(items) /\ i - 1 < i /\ i \in Nat /\ i # 0
    BY <1>1, <1>3, <2>2
  <2>4. Batch(s, f[i - 1], t, items, i - 1)
    BY <1>1, <2>2, <2>3
  <2>5. Good(f[i - 1]) /\ items[i] \in Item
    BY <1>1, <2>3, <2>4 DEF Batch
  <2>6. Creates(f[i - 1], f[i], t, items[i])
    <3>1. Creates(f[i - 1], CreateNext(f[i - 1], t, items[i]), t, items[i])
      BY <2>5, CreateNextCreates
    <3>. QED  BY <1>2, <2>3, <3>1
  <2>7. i \in DOMAIN items /\ DOMAIN items \subseteq Nat
    BY <1>1, <2>3
  <2>8. Batch(s, f[i], t, items, i)
    BY <2>3, <2>4, <2>6, <2>7, BatchStep
  <2>. QED  BY <2>2, <2>8
<1>5. Batch(s, f[Len(items)], t, items, Len(items))
  BY <1>1, <1>4
<1>. QED  BY <1>5 DEF CreateAll, f

----------------------------------------------------------------------------
(* Deletions, the defense row, the seeds.                                  *)

\* What else a request leaves, if it is not refused: a change is noted,
\* and nothing else is.
Honest(s, n) ==
  /\ Settled(n)
  /\ n.active <=> n.defense # s.defense \/ \E e : Changed(e, s, n)

\* An enabled row is the only one an agent knows by its key and fields.
LEMMA OneEnabled ==
  ASSUME NEW s, Settled(s), NEW r \in s.rows, NEW x \in s.rows, r.enabled, x.enabled,
         r.table = x.table, r.key = x.key, r.data = x.data
  PROVE  r = x
<1>1. r \in Row /\ x \in Row
  BY DEF Settled, State
<1>2. r.enabled = x.enabled
  BY <1>1 DEF Row
<1>3. Alike(r, x)
  BY <1>2 DEF Alike, Same, Fields
<1>. QED  BY <1>3 DEF Settled, Sound

LEMMA DeleteRowsHonest ==
  ASSUME NEW s, Good(s), NEW doomed \in SUBSET s.rows
  PROVE  Honest(s, DeleteRows(s, doomed, doomed))
<1> DEFINE n == DeleteRows(s, doomed, doomed)
           noted == \E r \in doomed : r.enabled
<1>1. s \in State /\ Sound(s.rows, s.last) /\ Settled(s)
  BY DEF Good, Settled
<1>2. n = [s EXCEPT !.rows = s.rows \ doomed, !.active = noted]
  BY <1>1, Zenon DEF DeleteRows
<1>3. noted \in BOOLEAN
  OBVIOUS
<1>. HIDE DEF noted, n
<1>4. n \in State /\ n.rows = s.rows \ doomed /\ n.last = s.last /\ n.defense = s.defense
      /\ (n.active <=> noted)
  BY <1>1, <1>2, <1>3 DEF State
<1>5. Settled(n)
  BY <1>1, <1>4 DEF Settled, Sound
<1>6. ASSUME NEW e, Changed(e, s, n) PROVE noted
  BY <1>4, <1>6 DEF Changed, Sent, noted
<1>7. ASSUME noted PROVE \E e : Changed(e, s, n)
  <2>1. PICK r \in doomed : r.enabled
    BY <1>7 DEF noted
  <2> DEFINE e == <<r.table, r.key, r.data>>
  <2>2. Sent(e, s)
    BY <2>1 DEF Sent
  <2>3. ~Sent(e, n)
    <3>. SUFFICES ASSUME NEW x \in s.rows \ doomed, x.enabled, e = <<x.table, x.key, x.data>>
                  PROVE  FALSE
      BY <1>4 DEF Sent
    <3>1. r.table = x.table /\ r.key = x.key /\ r.data = x.data
      OBVIOUS
    <3>2. r = x
      BY <1>1, <2>1, <3>1, OneEnabled
    <3>. QED  BY <3>2
  <2>. QED  BY <2>2, <2>3, Zenon DEF Changed
<1>8. Honest(s, n)
  BY <1>4, <1>5, <1>6, <1>7, Zenon DEF Honest
<1>. QED  BY <1>8 DEF n

LEMMA DeleteIdsHonest ==
  ASSUME NEW s, Good(s), NEW t, NEW ids, DeleteIds(s, t, ids).ok
  PROVE  Honest(s, DeleteIds(s, t, ids))
<1> DEFINE targets == {r \in Of(s.rows, t) : r.id \in ids}
<1>1. s.seen = s.rows /\ targets \in SUBSET s.rows
  BY DEF Good, Of
<1>2. DeleteIds(s, t, ids) \in {DeleteRows(s, targets, targets), Refuse(s)}
  BY <1>1, Zenon DEF DeleteIds
<1>. QED  BY <1>1, <1>2, RefuseKeeps, DeleteRowsHonest

LEMMA DeleteFoundRulesHonest ==
  ASSUME NEW s, Good(s), NEW targets \in SUBSET s.rows, DeleteFoundRules(s, targets).ok
  PROVE  Honest(s, DeleteFoundRules(s, targets))
<1> DEFINE doomed == {r \in s.rows : \E x \in targets : x.id = r.id}
<1>1. doomed = targets
  BY DEF Good, Settled, Sound
<1>. HIDE DEF doomed
<1>2. DeleteFoundRules(s, targets) \in {DeleteRows(s, targets, doomed), Refuse(s)}
  BY Zenon DEF DeleteFoundRules, doomed
<1>. QED  BY <1>1, <1>2, RefuseKeeps, DeleteRowsHonest

LEMMA DeleteTrustedHonest ==
  ASSUME NEW s, Good(s), NEW key, DeleteTrusted(s, key).ok
  PROVE  Honest(s, DeleteTrusted(s, key))
<1> DEFINE named == {r \in Of(s.rows, "trusted") : r.key = key}
<1>1. s.seen = s.rows /\ named \in SUBSET s.rows
  BY DEF Good, Of
<1>2. DeleteTrusted(s, key) \in {DeleteRows(s, named, named), Refuse(s)}
  BY <1>1, Zenon DEF DeleteTrusted
<1>. QED  BY <1>1, <1>2, RefuseKeeps, DeleteRowsHonest

LEMMA DeleteByFieldsHonest ==
  ASSUME NEW s, Good(s), NEW t, NEW item, DeleteByFields(s, t, item).ok
  PROVE  Honest(s, DeleteByFields(s, t, item))
<1> DEFINE alike == {r \in Of(s.rows, t) : Fields(r) = item}
<1>1. s.seen = s.rows /\ alike \in SUBSET s.rows
  BY DEF Good, Of
<1>2. DeleteByFields(s, t, item) \in {DeleteRows(s, alike, alike), Refuse(s)}
  BY <1>1, Zenon DEF DeleteByFields
<1>. QED  BY <1>1, <1>2, RefuseKeeps, DeleteRowsHonest

LEMMA UpdateDefenseHonest ==
  ASSUME NEW s, Good(s), ~s.active, NEW seen, seen.defense = s.defense, NEW value \in Data
  PROVE  Honest(s, UpdateDefense(s, seen, value))
<1>1. CASE s.defense = value
  <2>1. \A e : ~Changed(e, s, s)
    BY DEF Changed
  <2>2. UpdateDefense(s, seen, value) = s
    BY <1>1 DEF UpdateDefense
  <2>. QED  BY <2>1, <2>2, Zenon DEF Honest, Good
<1>2. CASE s.defense # value
  <2> DEFINE n == [s EXCEPT !.defense = value, !.active = TRUE]
  <2>1. UpdateDefense(s, seen, value) = n
    BY <1>2 DEF UpdateDefense
  <2>2. n \in State /\ n.rows = s.rows /\ n.last = s.last /\ n.defense = value /\ n.active
    BY DEF Good, Settled, State
  <2>. HIDE DEF n
  <2>3. Settled(n)
    BY <2>2 DEF Good, Settled, Sound
  <2>. QED  BY <1>2, <2>1, <2>2, <2>3, Zenon DEF Honest
<1>. QED  BY <1>1, <1>2

(* The example's rules and countries, where there are none.                *)
LEMMA SeedExampleSettles ==
  ASSUME NEW s, Good(s)
  PROVE  Settled(SeedExample(s)) /\ SeedExample(s).active /\ SeedExample(s).defense = s.defense
<1> DEFINE kept == {r \in s.rows : r.table \notin {"rules", "countries"}}
           cleared == [s EXCEPT !.rows = kept, !.seen = kept]
           rules == InsertRows(cleared, "rules", ExampleRules)
           both == InsertRows(rules, "countries", ExampleCountries)
<1>1. s \in State /\ Sound(s.rows, s.last) /\ s.seen = s.rows
  BY DEF Good, Settled
<1>2. SeedExample(s) = [both EXCEPT !.active = TRUE]
  BY <1>1, Zenon DEF SeedExample
<1>3. kept \in SUBSET s.rows /\ \A r \in kept : r.table # "rules" /\ r.table # "countries"
  OBVIOUS
<1>. HIDE DEF kept
<1>4. cleared \in State /\ cleared.rows = kept /\ cleared.last = s.last /\ cleared.defense = s.defense
  BY <1>1, <1>3 DEF State
<1>5. Settled(cleared)
  BY <1>1, <1>3, <1>4 DEF Settled, Sound
<1>. HIDE DEF cleared
<1>6. /\ "rules" \in Keyed /\ "countries" \in Keyed
      /\ ExampleRules \in Seq(Item) /\ ExampleCountries \in Seq(Item)
  BY TablesAssumption DEF Keyed
<1>7. /\ \A i, j \in DOMAIN ExampleRules :
           Same("rules", ExampleRules[i], ExampleRules[j]) => i = j
      /\ \A i, j \in DOMAIN ExampleCountries :
           Same("countries", ExampleCountries[i], ExampleCountries[j]) => i = j
  BY TablesAssumption DEF Same
<1>8. \A r \in cleared.rows, i \in DOMAIN ExampleRules :
        r.table = "rules" => ~Same("rules", Fields(r), ExampleRules[i])
  BY <1>3, <1>4
<1>9. Settled(rules) /\ rules.defense = s.defense
  BY <1>4, <1>5, <1>6, <1>7, <1>8, InsertRowsAdds
<1>10. \A r \in rules.rows : r.table # "countries"
  BY <1>3, <1>4, <1>5 DEF InsertRows, Settled, State
<1>. HIDE DEF rules
<1>11. \A r \in rules.rows, i \in DOMAIN ExampleCountries :
         r.table = "countries" => ~Same("countries", Fields(r), ExampleCountries[i])
  BY <1>10
<1>12. Settled(both) /\ both.defense = s.defense
  BY <1>6, <1>7, <1>9, <1>11, InsertRowsAdds
<1>. HIDE DEF both
<1>. QED  BY <1>2, <1>12 DEF Settled, State, Sound

(* The elements of a finite set in some order, each once.                  *)
LEMMA InOrder ==
  ASSUME NEW S, IsFiniteSet(S)
  PROVE  /\ SetToSeq(S) \in Seq(S)
         /\ \A i, j \in DOMAIN SetToSeq(S) : SetToSeq(S)[i] = SetToSeq(S)[j] => i = j
         /\ \A x \in S : \E i \in DOMAIN SetToSeq(S) : SetToSeq(S)[i] = x
<1> DEFINE n == Cardinality(S)
           f == SetToSeq(S)
<1>1. n \in Nat /\ ExistsBijection(1..n, S)
  BY FS_CardinalityType
<1>2. \E g \in [1..n -> S] : IsInjective(g)
  BY <1>1 DEF ExistsBijection, Bijection, Injection, IsInjective
<1>3. f \in [1..n -> S] /\ IsInjective(f)
  BY <1>2 DEF SetToSeq
<1>. HIDE DEF f
<1>4. f \in Injection(1..n, S)
  BY <1>3 DEF Injection
<1>5. Cardinality(1..n) = n
  BY <1>1, FS_Interval
<1>. HIDE DEF n
<1>6. f \in Surjection(1..n, S)
  BY <1>4, <1>5, FS_Injection DEF n
<1>7. f \in Seq(S) /\ DOMAIN f = 1..n
  BY <1>1, <1>3 DEF n
<1>8. \A x \in S : \E i \in 1..n : f[i] = x
  BY <1>6 DEF Surjection
<1>. QED  BY <1>3, <1>7, <1>8 DEF f, IsInjective

(* The CIDRs that are configured are enabled or inserted, all others are   *)
(* disabled, and one of the two is noted exactly if it happens.            *)
LEMMA ConfigureHonest ==
  ASSUME NEW s, Good(s), ~s.active, NEW wanted \in SUBSET Keys, NEW data \in Data,
         Configure(s, wanted, data).ok
  PROVE  Honest(s, Configure(s, wanted, data))
<1> DEFINE present == Of(s.seen, "trusted")
           Switched(r) == [r EXCEPT !.enabled = (r.key \in wanted)]
           missing == wanted \ {r.key : r \in present}
           switch == {r.id : r \in {x \in present : Switched(x) # x}}
           rows == {IF r.id \in switch THEN Switched(r) ELSE r : r \in s.rows}
           kept == [s EXCEPT !.rows = rows, !.active = (switch # {})]
           order == SetToSeq(missing)
           items == [i \in DOMAIN order |-> [key |-> order[i], enabled |-> TRUE, data |-> data]]
           n == InsertRows(kept, "trusted", items)
           Entry(key) == <<"trusted", key, data>>
<1>1. /\ s \in State /\ s.last \in Nat /\ s.rows \subseteq Row /\ s.seen = s.rows /\ s.ok \in BOOLEAN
      /\ \A r, x \in s.rows : r.id = x.id \/ Alike(r, x) => r = x
      /\ \A r \in s.rows : r.id <= s.last
      /\ Settled(s)
  BY DEF Good, Settled, Sound, State
<1>2. Configure(s, wanted, data) \in {Refuse(s), n}
  <2> DEFINE refused == \/ ~(switch \subseteq {r.id : r \in s.rows})
                        \/ \E r \in Of(s.rows, "trusted") : r.key \in missing
  <2>1. Configure(s, wanted, data) = IF refused THEN Refuse(s) ELSE n
    BY Zenon DEF Configure
  <2>. HIDE DEF refused, n
  <2>. QED  BY <2>1
<1>3. present \subseteq Row /\ present = {r \in s.rows : r.table = "trusted"}
  BY <1>1 DEF Of
<1>4. \A r \in present :
        /\ Switched(r) \in Row /\ Switched(r).id = r.id /\ Switched(r).table = "trusted"
        /\ Switched(r).key = r.key /\ Switched(r).data = r.data
        /\ (Switched(r).enabled <=> r.key \in wanted)
        /\ Switched(r) = r <=> (r.enabled <=> r.key \in wanted)
  <2>. SUFFICES ASSUME NEW r \in present
                PROVE  /\ Switched(r) \in Row /\ Switched(r).id = r.id /\ Switched(r).table = "trusted"
                       /\ Switched(r).key = r.key /\ Switched(r).data = r.data
                       /\ (Switched(r).enabled <=> r.key \in wanted)
                       /\ Switched(r) = r <=> (r.enabled <=> r.key \in wanted)
    OBVIOUS
  <2> DEFINE on == r.key \in wanted
  <2>1. r \in Row /\ r.table = "trusted" /\ on \in BOOLEAN
    BY <1>3
  <2>. HIDE DEF on
  <2>2. /\ Switched(r) \in Row /\ Switched(r).id = r.id /\ Switched(r).table = r.table
        /\ Switched(r).key = r.key /\ Switched(r).data = r.data /\ Switched(r).enabled = on
    BY <2>1 DEF Row, on
  <2>3. r.enabled = on => Switched(r) = r
    BY <2>1 DEF Row, on
  <2>. QED  BY <2>1, <2>2, <2>3 DEF on, Row
<1>. HIDE DEF Switched
<1> DEFINE After(r) == IF r.table = "trusted" THEN Switched(r) ELSE r
<1>5. \A r \in s.rows :
        /\ After(r) \in Row /\ After(r).id = r.id /\ After(r).table = r.table
        /\ After(r).key = r.key /\ After(r).data = r.data
        /\ (r.table = "trusted" => (After(r).enabled <=> r.key \in wanted))
        /\ (r.table # "trusted" => After(r) = r)
  BY <1>1, <1>3, <1>4
<1>6. rows = {After(r) : r \in s.rows}
  <2>1. \A r \in s.rows : r.id \in switch <=> r \in present /\ Switched(r) # r
    BY <1>1, <1>3
  <2>2. \A r \in s.rows : (IF r.id \in switch THEN Switched(r) ELSE r) = After(r)
    BY <1>3, <2>1
  <2>. HIDE DEF After, switch
  <2>. QED  BY <2>2, Zenon
<1>. HIDE DEF After, switch, rows
<1>7. /\ kept.rows = rows /\ kept.seen = s.seen /\ kept.last = s.last /\ kept.defense = s.defense
      /\ (kept.active <=> switch # {}) /\ kept \in State
  <2>1. rows \in SUBSET Row /\ (switch # {}) \in BOOLEAN
    BY <1>5, <1>6
  <2>. QED  BY <1>1, <2>1 DEF State
<1>. HIDE DEF kept
<1>8. Settled(kept)
  <2>1. \A y \in kept.rows : \E r \in s.rows : y = After(r)
    BY <1>6, <1>7
  <2>2. ASSUME NEW y \in kept.rows, NEW z \in kept.rows, y.id = z.id \/ Alike(y, z)
        PROVE  y = z
    <3>1. PICK r \in s.rows, x \in s.rows : y = After(r) /\ z = After(x)
      BY <2>1
    <3>2. CASE y.id = z.id
      BY <1>1, <1>5, <3>1, <3>2
    <3>3. CASE Alike(y, z)
      <4>1. r.table = x.table
        BY <1>5, <3>1, <3>3 DEF Alike
      <4>2. CASE r.table \in {"rules", "trusted"}
        <5>1. r.key = x.key
          BY <1>5, <3>1, <3>3, <4>2 DEF Alike, Same, Fields
        <5>2. Alike(r, x)
          BY <4>1, <4>2, <5>1 DEF Alike, Same, Fields
        <5>. QED  BY <1>1, <3>1, <5>2
      <4>3. CASE r.table \notin {"rules", "trusted"}
        BY <1>1, <1>5, <3>1, <3>3, <4>1, <4>3
      <4>. QED  BY <4>2, <4>3
    <3>. QED  BY <2>2, <3>2, <3>3
  <2>3. \A y \in kept.rows : y.id <= kept.last
    BY <1>1, <1>5, <1>7, <2>1
  <2>. QED  BY <1>7, <2>2, <2>3 DEF Settled, Sound
<1>9. missing \in SUBSET Keys /\ IsFiniteSet(missing)
  BY TablesAssumption, FS_Subset
<1>. HIDE DEF missing
<1>10. /\ order \in Seq(missing)
       /\ \A i, j \in DOMAIN order : order[i] = order[j] => i = j
       /\ \A k \in missing : \E i \in DOMAIN order : order[i] = k
  BY <1>9, InOrder
<1>. HIDE DEF order
<1>11. /\ DOMAIN items = DOMAIN order /\ Len(order) \in Nat /\ DOMAIN order = 1..Len(order)
       /\ \A i \in DOMAIN order : order[i] \in missing
       /\ \A i \in DOMAIN order : items[i] = [key |-> order[i], enabled |-> TRUE, data |-> data]
  BY <1>10
<1>12. items \in Seq(Item)
  <2>1. \A i \in DOMAIN order : items[i] \in Item
    BY <1>9, <1>11 DEF Item
  <2>. QED  BY <1>11, <2>1
<1>. HIDE DEF items
<1>13. \A i, j \in DOMAIN items : Same("trusted", items[i], items[j]) => i = j
  BY <1>10, <1>11 DEF Same
<1>14. \A k \in missing : \A y \in kept.rows : ~(y.table = "trusted" /\ y.key = k)
  BY <1>3, <1>5, <1>6, <1>7 DEF missing
<1>15. \A y \in kept.rows, i \in DOMAIN items : y.table = "trusted" => ~Same("trusted", Fields(y), items[i])
  BY <1>11, <1>14 DEF Same, Fields
<1>16. "trusted" \in Keyed
  BY DEF Keyed
<1>17. /\ Settled(n) /\ n.defense = s.defense
       /\ (n.active <=> kept.active \/ \E i \in DOMAIN items : items[i].enabled)
       /\ \A e : Sent(e, n) <=>
            \/ Sent(e, kept)
            \/ \E i \in DOMAIN items : items[i].enabled /\ e = <<"trusted", items[i].key, items[i].data>>
  BY <1>7, <1>8, <1>12, <1>13, <1>15, <1>16, InsertRowsAdds
<1>18. /\ n.active <=> switch # {} \/ missing # {}
       /\ \A e : Sent(e, n) <=> Sent(e, kept) \/ \E k \in missing : e = Entry(k)
  BY <1>7, <1>10, <1>11, <1>17
<1>. HIDE DEF n
<1>19. ASSUME switch = {}, missing = {}
       PROVE  \A e : ~Changed(e, s, n)
  <2>1. kept.rows = s.rows
    BY <1>7, <1>19, Zenon DEF rows
  <2>. QED  BY <1>18, <1>19, <2>1 DEF Changed, Sent
<1>20. ASSUME NEW k \in missing
       PROVE  Sent(Entry(k), n) /\ ~Sent(Entry(k), s)
  <2>1. \A r \in s.rows : ~(r.table = "trusted" /\ r.key = k)
    BY <1>3 DEF missing
  <2>2. ~Sent(Entry(k), s)
    BY <2>1 DEF Sent
  <2>. QED  BY <1>18, <2>2
<1>21. ASSUME NEW r \in present, r.id \in switch
       PROVE  Changed(<<"trusted", r.key, r.data>>, s, n)
  <2> DEFINE e == <<"trusted", r.key, r.data>>
  <2>1. r \in s.rows /\ r.table = "trusted" /\ r \in present /\ ~(r.enabled <=> r.key \in wanted)
    <3>1. PICK x \in present : Switched(x) # x /\ x.id = r.id
      BY <1>21 DEF switch
    <3>2. x = r
      BY <1>1, <1>3, <3>1
    <3>. QED  BY <1>3, <1>4, <3>1, <3>2
  <2>2. \A x \in s.rows : x.table = "trusted" /\ x.key = r.key => x = r
    BY <1>1, <2>1 DEF Alike, Same, Fields
  <2>3. Sent(e, s) <=> r.enabled
    BY <2>1, <2>2 DEF Sent
  <2>4. Sent(e, kept) <=> r.key \in wanted
    <3>1. After(r) \in kept.rows /\ (After(r).enabled <=> r.key \in wanted)
          /\ After(r).table = "trusted" /\ After(r).key = r.key /\ After(r).data = r.data
      BY <1>5, <1>6, <1>7, <2>1
    <3>2. \A y \in kept.rows : y.table = "trusted" /\ y.key = r.key => y = After(r)
      BY <1>5, <1>6, <1>7, <2>2
    <3>. QED  BY <3>1, <3>2 DEF Sent
  <2>5. ~ \E k \in missing : e = Entry(k)
    BY <2>1 DEF missing
  <2>. QED  BY <1>18, <2>1, <2>3, <2>4, <2>5 DEF Changed
<1>22. n.active <=> \E e : Changed(e, s, n)
  <2>1. ASSUME switch # {} PROVE \E e : Changed(e, s, n)
    <3>1. PICK r \in present : r.id \in switch
      BY <2>1, Zenon DEF switch
    <3>. QED  BY <1>21, <3>1, Zenon
  <2>2. ASSUME missing # {} PROVE \E e : Changed(e, s, n)
    BY <1>20, <2>2, Zenon DEF Changed
  <2>. QED  BY <1>18, <1>19, <2>1, <2>2, Zenon
<1>23. Honest(s, n)
  BY <1>17, <1>22, Zenon DEF Honest
<1>24. Refuse(s).ok = FALSE
  BY <1>1, RefuseKeeps
<1>. QED  BY <1>2, <1>23, <1>24

----------------------------------------------------------------------------
(* Requests                                                                *)

AnyRequest ==
  [op : {"create"}, table : Keyed, items : Batches]
    \cup [op : {"delete_ids"}, table : Keyed, ids : SUBSET Nat]
    \cup [op : {"delete_rule_keys"}, keys : SUBSET Keys]
    \cup [op : {"delete_query"}, table : Keyed, item : Item]
    \cup [op : {"update_defense"}, value : Data]
    \cup [op : {"seed_example"}]
    \cup [op : {"configure"}, keys : SUBSET Keys, data : Data]

TxnOK ==
  /\ DOMAIN txn = Clients
  /\ \A c \in Clients :
       txn[c] # <<>> => \E r \in AnyRequest : \E d : txn[c] = <<[request |-> r, seen |-> d]>>

Inv == TypeOK /\ Sound(db.rows, db.last) /\ TxnOK

(* What a request does that is not refused.                                *)
Outcome(r, s, n) ==
  /\ Settled(n)
  /\ n.defense # s.defense \/ (\E e : Changed(e, s, n)) => n.active
  /\ n.active =>
       \/ n.defense # s.defense \/ \E e : Changed(e, s, n)
       \/ r.op = "seed_example"
       \/ r.op = "create" /\ r.table = "trusted" /\ TwoForOneKey(r.items)

LEMMA HonestOutcome ==
  ASSUME NEW r, NEW s, NEW n, Honest(s, n)
  PROVE  Outcome(r, s, n)
BY Zenon DEF Honest, Outcome

LEMMA StartGood ==
  ASSUME Inv
  PROVE  /\ Good(Start(db)) /\ Start(db).active = FALSE /\ Start(db).rows = db.rows
         /\ Start(db).defense = db.defense
BY DEF Inv, TypeOK, Good, Settled, State, Start

LEMMA EffectOutcome ==
  ASSUME Inv, NEW r \in AnyRequest, Effect(r, db).ok
  PROVE  Outcome(r, Start(db), Effect(r, db))
<1> DEFINE s == Start(db)
           n == Effect(r, db)
           rules == Of(s.seen, "rules")
<1>1. Good(s) /\ ~s.active /\ s.defense = db.defense /\ s.seen = s.rows
  BY StartGood DEF Good
<1>2. \A t : Of(s.seen, t) \subseteq s.rows
  BY <1>1 DEF Of
<1>. HIDE DEF s
<1>3. CASE r \in [op : {"create"}, table : Keyed, items : Batches]
  <2>1. r.op = "create" /\ r.table \in Keyed /\ r.items \in Seq(Item)
    BY <1>3 DEF Batches
  <2>2. n = CreateAll(s, r.table, r.items)
    BY <2>1, Zenon DEF Effect, s
  <2>3. Batch(s, n, r.table, r.items, Len(r.items))
    BY <1>1, <2>1, <2>2, BatchHolds
  <2>. QED  BY <2>1, <2>3, Zenon DEF Batch, Outcome, Good, s
<1>4. CASE r \in [op : {"delete_ids"}, table : Keyed, ids : SUBSET Nat]
  <2>1. r.op = "delete_ids"
    BY <1>4
  <2>2. CASE r.table = "rules"
    <3>1. n = DeleteFoundRules(s, {x \in rules : x.id \in r.ids})
      BY <2>1, <2>2 DEF Effect, s
    <3>2. {x \in rules : x.id \in r.ids} \in SUBSET s.rows
      BY <1>2
    <3>. QED  BY <1>1, <3>1, <3>2, DeleteFoundRulesHonest, HonestOutcome DEF s
  <2>3. CASE r.table # "rules"
    <3>1. n = DeleteIds(s, r.table, r.ids)
      BY <2>1, <2>3 DEF Effect, s
    <3>. QED  BY <1>1, <3>1, DeleteIdsHonest, HonestOutcome DEF s
  <2>. QED  BY <2>2, <2>3
<1>5. CASE r \in [op : {"delete_rule_keys"}, keys : SUBSET Keys]
  <2>1. n = DeleteFoundRules(s, {x \in rules : x.key \in r.keys})
    BY <1>5 DEF Effect, s
  <2>2. {x \in rules : x.key \in r.keys} \in SUBSET s.rows
    BY <1>2
  <2>. QED  BY <1>1, <2>1, <2>2, DeleteFoundRulesHonest, HonestOutcome DEF s
<1>6. CASE r \in [op : {"delete_query"}, table : Keyed, item : Item]
  <2>1. r.op = "delete_query" /\ r.table \in Keyed
    BY <1>6
  <2>2. CASE r.table = "rules"
    <3>1. n = DeleteFoundRules(s, {x \in rules : x.key = r.item.key /\ x.data = r.item.data})
      BY <2>1, <2>2 DEF Effect, s
    <3>2. {x \in rules : x.key = r.item.key /\ x.data = r.item.data} \in SUBSET s.rows
      BY <1>2
    <3>. QED  BY <1>1, <3>1, <3>2, DeleteFoundRulesHonest, HonestOutcome DEF s
  <2>3. CASE r.table = "trusted"
    <3>1. n = DeleteTrusted(s, r.item.key)
      BY <2>1, <2>3 DEF Effect, s
    <3>. QED  BY <1>1, <3>1, DeleteTrustedHonest, HonestOutcome DEF s
  <2>4. CASE r.table \in {"limits", "countries"}
    <3>1. n = DeleteByFields(s, r.table, r.item)
      BY <2>1, <2>4 DEF Effect, s
    <3>. QED  BY <1>1, <3>1, DeleteByFieldsHonest, HonestOutcome DEF s
  <2>. QED  BY <2>1, <2>2, <2>3, <2>4 DEF Keyed
<1>7. CASE r \in [op : {"update_defense"}, value : Data]
  <2>1. n = UpdateDefense(s, db, r.value) /\ r.value \in Data
    BY <1>7 DEF Effect, s
  <2>. QED  BY <1>1, <2>1, UpdateDefenseHonest, HonestOutcome DEF s
<1>8. CASE r \in [op : {"seed_example"}]
  <2>1. n = SeedExample(s) /\ r.op = "seed_example"
    BY <1>8 DEF Effect, s
  <2>2. Settled(n) /\ n.active
    BY <1>1, <2>1, SeedExampleSettles
  <2>. QED  BY <2>1, <2>2, Zenon DEF Outcome
<1>9. CASE r \in [op : {"configure"}, keys : SUBSET Keys, data : Data]
  <2>1. n = Configure(s, r.keys, r.data) /\ r.keys \in SUBSET Keys /\ r.data \in Data
    BY <1>9 DEF Effect, s
  <2>. QED  BY <1>1, <2>1, ConfigureHonest, HonestOutcome DEF s
<1>. QED  BY <1>3, <1>4, <1>5, <1>6, <1>7, <1>8, <1>9 DEF AnyRequest

(* The set of rows an agent is sent changes with the defense row or with   *)
(* an entry.                                                               *)
LEMMA ActiveIsSent ==
  ASSUME NEW d, NEW e
  PROVE  Active(d) # Active(e) <=> d.defense # e.defense \/ \E x : Changed(x, d, e)
<1>1. \A x : Sent(x, d) <=> x \in Active(d).rows
  BY DEF Sent, Active
<1>2. \A x : Sent(x, e) <=> x \in Active(e).rows
  BY DEF Sent, Active
<1>3. Active(d).rows = Active(e).rows <=> \A x : x \in Active(d).rows <=> x \in Active(e).rows
  BY DEF Active
<1>4. Active(d) = Active(e) <=> Active(d).rows = Active(e).rows /\ d.defense = e.defense
  BY DEF Active
<1>. QED  BY <1>1, <1>2, <1>3, <1>4, Zenon DEF Changed

----------------------------------------------------------------------------
(* Steps                                                                   *)

LEMMA BeginKeeps ==
  ASSUME Inv, NEW c \in Clients, NEW r \in Requests, Begin(c, r)
  PROVE  Inv'
<1>1. r \in AnyRequest
  BY DEF Requests, AnyRequest, Inv, TypeOK
<1>2. txn' = [txn EXCEPT ![c] = <<[request |-> r, seen |-> db]>>] /\ UNCHANGED db
      /\ requests' = requests + 1 /\ requests < MaxRequests
  BY DEF Begin
<1>3. TxnOK'
  BY <1>1, <1>2 DEF Inv, TxnOK
<1>4. TypeOK' /\ Sound(db.rows, db.last)'
  <2>1. requests' \in 0..MaxRequests
    BY <1>2, TablesAssumption DEF Inv, TypeOK
  <2>. QED  BY <1>2, <2>1 DEF Inv, TypeOK, Sound
<1>. QED  BY <1>3, <1>4 DEF Inv

LEMMA CloseKeeps ==
  ASSUME TxnOK, NEW c \in Clients, Close(c)
  PROVE  TxnOK'
BY DEF TxnOK, Close

(* A request commits what it found when it began, if nobody else committed.*)
LEMMA CommitDoes ==
  ASSUME Inv, ~TxnOverlap, NEW c \in Clients, Commit(c)
  PROVE  \E n : /\ Outcome(Request(c), Start(db), n)
                /\ db' = [rows |-> n.rows, defense |-> n.defense, last |-> n.last,
                          version |-> IF n.active THEN db.version + 1 ELSE db.version]
<1>1. PICK r, d : r \in AnyRequest /\ txn[c] = <<[request |-> r, seen |-> d]>>
  BY DEF Inv, TxnOK, Commit
<1>2. txn[c][1].request = r /\ txn[c][1].seen = d
  BY <1>1
<1>3. d = db
  BY <1>2 DEF Commit
<1> DEFINE n == Effect(r, db)
<1>4. /\ n.ok
      /\ db' = [rows |-> n.rows, defense |-> n.defense, last |-> n.last,
                version |-> IF n.active THEN db.version + 1 ELSE db.version]
  BY <1>2, <1>3, Zenon DEF Commit
<1>5. Outcome(Request(c), Start(db), n)
  BY <1>1, <1>2, <1>4, EffectOutcome DEF Request
<1>. QED  BY <1>4, <1>5, Zenon

LEMMA CommitKeeps ==
  ASSUME Inv, ~TxnOverlap, NEW c \in Clients, Commit(c)
  PROVE  Inv'
<1>1. PICK n : /\ Outcome(Request(c), Start(db), n)
               /\ db' = [rows |-> n.rows, defense |-> n.defense, last |-> n.last,
                         version |-> IF n.active THEN db.version + 1 ELSE db.version]
  BY CommitDoes
<1>2. Settled(n)
  BY <1>1 DEF Outcome
<1>3. /\ db'.rows = n.rows /\ db'.last = n.last /\ db'.defense = n.defense
      /\ db'.version \in {db.version, db.version + 1}
  BY <1>1
<1>4. n.rows \subseteq Row /\ n.last \in Nat /\ n.defense \in Data /\ Sound(n.rows, n.last)
  BY <1>2 DEF Settled, State
<1>5. requests' = requests
  BY DEF Commit, Close
<1>6. TypeOK' /\ Sound(db.rows, db.last)'
  BY <1>3, <1>4, <1>5 DEF Inv, TypeOK, Sound
<1>7. TxnOK'
  BY CloseKeeps DEF Commit, Inv
<1>. QED  BY <1>6, <1>7 DEF Inv

LEMMA RollbackKeeps ==
  ASSUME Inv, NEW c \in Clients, Rollback(c)
  PROVE  Inv'
<1>1. TxnOK'
  BY CloseKeeps DEF Rollback, Inv
<1>2. TypeOK' /\ Sound(db.rows, db.last)'
  BY DEF Rollback, Close, Inv, TypeOK, Sound
<1>. QED  BY <1>1, <1>2 DEF Inv

LEMMA InvInit == Init => Inv
<1>. SUFFICES ASSUME Init PROVE Inv
  OBVIOUS
<1>1. TypeOK /\ Sound(db.rows, db.last)
  BY TablesAssumption DEF Init, TypeOK, Sound
<1>2. TxnOK
  BY DEF Init, TxnOK
<1>. QED  BY <1>1, <1>2 DEF Inv

LEMMA InvHolds ==
  ASSUME ~TxnOverlap
  PROVE  Spec => []Inv
<1>1. Inv /\ [Next]_vars => Inv'
  <2>. SUFFICES ASSUME Inv, [Next]_vars PROVE Inv'
    OBVIOUS
  <2>1. CASE UNCHANGED vars
    BY <2>1 DEF vars, Inv, TypeOK, Sound, TxnOK
  <2>2. CASE Next
    BY <2>2, BeginKeeps, CommitKeeps, RollbackKeeps DEF Next
  <2>. QED  BY <2>1, <2>2
<1>. QED  BY <1>1, InvInit, PTL DEF Spec

(* Without overlapping transactions the checks of create_dynamic_rate_limit *)
(* and create_geo_country do what no index does: however requests, batches *)
(* and the two seeds follow each other, no two rows are alike.             *)
THEOREM RowsDiffer ==
  ASSUME ~TxnOverlap
  PROVE  Spec => []NoTwoAlike
<1>1. Inv => NoTwoAlike
  BY DEF Inv, Sound, Alike, Same, Fields, NoTwoAlike
<1>. QED  BY <1>1, InvHolds, PTL

(* Without overlapping transactions every request that changes what an     *)
(* agent is sent moves the version, and none other does, but the two named *)
(* ones (active_changed).                                                  *)
THEOREM VersionTellsOfChanges ==
  ASSUME ~TxnOverlap
  PROVE  Spec => ActiveChangesBump
<1> DEFINE Honored ==
  /\ Active(db') # Active(db) => db'.version > db.version
  /\ \A c \in Clients :
       txn[c] # <<>> /\ txn'[c] = <<>> /\ db'.version # db.version =>
         \/ Active(db') # Active(db)
         \/ Request(c).op = "seed_example"
         \/ /\ Request(c).op = "create" /\ Request(c).table = "trusted"
            /\ \E i, j \in DOMAIN Request(c).items :
                 i # j /\ Request(c).items[i].key = Request(c).items[j].key
<1>1. ASSUME Inv, Next
      PROVE  Honored
  <2>1. CASE UNCHANGED db
    BY <2>1
  <2>2. ASSUME NEW c \in Clients, Commit(c)
        PROVE  Honored
    <3>1. PICK n : /\ Outcome(Request(c), Start(db), n)
                   /\ db' = [rows |-> n.rows, defense |-> n.defense, last |-> n.last,
                             version |-> IF n.active THEN db.version + 1 ELSE db.version]
      BY <1>1, <2>2, CommitDoes
    <3>2. /\ db'.rows = n.rows /\ db'.defense = n.defense
          /\ db'.version = IF n.active THEN db.version + 1 ELSE db.version
      BY <3>1
    <3>3. Start(db).rows = db.rows /\ Start(db).defense = db.defense
      BY DEF Start
    <3>4. \A e : Changed(e, db, db') <=> Changed(e, Start(db), n)
      BY <3>2, <3>3 DEF Changed, Sent
    <3>5. Active(db') # Active(db) <=>
            n.defense # Start(db).defense \/ \E e : Changed(e, Start(db), n)
      <4>1. Active(db) # Active(db') <=> db.defense # db'.defense \/ \E e : Changed(e, db, db')
        BY ActiveIsSent
      <4>. QED  BY <3>2, <3>3, <3>4, <4>1, Zenon
    <3>6. db.version \in Nat
      BY <1>1 DEF Inv, TypeOK
    <3>7. Active(db') # Active(db) => n.active
      BY <3>1, <3>5 DEF Outcome
    <3>8. n.active => \/ Active(db') # Active(db)
                      \/ Request(c).op = "seed_example"
                      \/ /\ Request(c).op = "create" /\ Request(c).table = "trusted"
                         /\ TwoForOneKey(Request(c).items)
      BY <3>1, <3>5, Zenon DEF Outcome
    <3>9. \A x \in Clients : txn[x] # <<>> /\ txn'[x] = <<>> => x = c
      BY <1>1, <2>2 DEF Inv, TxnOK, Commit, Close
    <3>10. /\ Active(db') # Active(db) => db'.version > db.version
           /\ db'.version # db.version => n.active
      BY <3>2, <3>6, <3>7
    <3>. QED  BY <3>8, <3>9, <3>10, Zenon DEF TwoForOneKey
  <2>. QED  BY <1>1, <2>1, <2>2 DEF Next, Begin, Rollback
<1>2. ASSUME UNCHANGED vars PROVE Honored
  BY <1>2 DEF vars
<1>. QED  BY <1>1, <1>2, InvHolds, PTL DEF Spec, ActiveChangesBump

----------------------------------------------------------------------------
(* Overlapping transactions.  What is written applies to rows that others  *)
(* have changed since they were selected; ids are not used again, and no   *)
(* statement changes the key of a row.                                     *)

Named(t, r, x) == r.table = t /\ x.table = t /\ r.key = x.key

KeysDiffer(rows) ==
  \A r, x \in rows : r.id = x.id \/ Named("rules", r, x) \/ Named("trusted", r, x) => r = x

\* Row x may be row r at another time.
MayBe(r, x) == r.id = x.id => r.table = x.table /\ r.key = x.key

\* past: what other open transactions have selected.
Tied(s, past) ==
  /\ s \in State /\ KeysDiffer(s.rows)
  /\ past \subseteq Row
  /\ \A r \in past \cup s.seen \cup s.rows : r.id <= s.last
  /\ \A r, x \in past \cup s.seen \cup s.rows : MayBe(r, x)

Renewed(y, r) == y.id = r.id /\ y.table = r.table /\ y.key = r.key

(* Rows go, or get other fields.                                           *)
LEMMA RowsRenewed ==
  ASSUME NEW past, NEW s, Tied(s, past), NEW n \in State, n.last = s.last,
         \A y \in n.rows : \E r \in s.rows : Renewed(y, r),
         \A y \in n.seen : \E r \in s.seen : Renewed(y, r),
         \A y, z \in n.rows : y.id = z.id => y = z
  PROVE  Tied(n, past)
<1>1. \A y \in past \cup n.seen \cup n.rows : \E r \in past \cup s.seen \cup s.rows : Renewed(y, r)
  BY DEF Renewed
<1>2. \A y \in past \cup n.seen \cup n.rows : y.id <= n.last
  BY <1>1 DEF Tied, Renewed
<1>3. \A y, z \in past \cup n.seen \cup n.rows : MayBe(y, z)
  <2>. SUFFICES ASSUME NEW y \in past \cup n.seen \cup n.rows, NEW z \in past \cup n.seen \cup n.rows
                PROVE  MayBe(y, z)
    OBVIOUS
  <2>1. PICK r \in past \cup s.seen \cup s.rows : Renewed(y, r)
    BY <1>1
  <2>2. PICK x \in past \cup s.seen \cup s.rows : Renewed(z, x)
    BY <1>1
  <2>3. MayBe(r, x)
    BY DEF Tied
  <2>. QED  BY <2>1, <2>2, <2>3 DEF MayBe, Renewed
<1>4. KeysDiffer(n.rows)
  <2>. SUFFICES ASSUME NEW y \in n.rows, NEW z \in n.rows,
                       y.id = z.id \/ Named("rules", y, z) \/ Named("trusted", y, z)
                PROVE  y = z
    BY DEF KeysDiffer
  <2>1. PICK r \in s.rows, x \in s.rows : Renewed(y, r) /\ Renewed(z, x)
    OBVIOUS
  <2>2. r.id = x.id \/ Named("rules", r, x) \/ Named("trusted", r, x)
    BY <2>1 DEF Renewed, Named
  <2>3. r = x
    BY <2>2 DEF Tied, KeysDiffer
  <2>. QED  BY <2>1, <2>3 DEF Renewed
<1>. QED  BY <1>2, <1>3, <1>4 DEF Tied

LEMMA RefuseTied ==
  ASSUME NEW past, NEW s, Tied(s, past)
  PROVE  Tied(Refuse(s), past)
<1>1. Refuse(s) \in State
  BY DEF Tied, State, Refuse
<1>2. Refuse(s).rows = s.rows /\ Refuse(s).seen = s.seen /\ Refuse(s).last = s.last
  BY DEF Tied, State, Refuse
<1>. QED  BY <1>1, <1>2, Zenon DEF Tied

LEMMA InsertRowsTied ==
  ASSUME NEW past, NEW s, Tied(s, past), NEW t \in Keyed, NEW items \in Seq(Item),
         t \in {"rules", "trusted"} =>
           /\ \A i, j \in DOMAIN items : items[i].key = items[j].key => i = j
           /\ \A r \in Of(s.rows, t), i \in DOMAIN items : r.key # items[i].key
  PROVE  Tied(InsertRows(s, t, items), past)
<1> DEFINE n == InsertRows(s, t, items)
           R(i) == NewRow(t, s.last + i, items[i])
           new == {R(i) : i \in DOMAIN items}
           enabled == s.active \/ \E row \in new : row.enabled
<1>1. /\ s \in State /\ s.last \in Nat /\ s.rows \subseteq Row /\ s.seen \subseteq Row
      /\ past \subseteq Row
      /\ KeysDiffer(s.rows)
      /\ \A r \in past \cup s.seen \cup s.rows : r.id <= s.last
      /\ \A r, x \in past \cup s.seen \cup s.rows : MayBe(r, x)
  BY DEF Tied, State
<1>2. /\ Len(items) \in Nat /\ DOMAIN items = 1..Len(items)
      /\ \A i \in DOMAIN items : items[i] \in Item
  OBVIOUS
<1>3. \A i \in DOMAIN items :
        R(i) \in Row /\ R(i).id = s.last + i /\ R(i).table = t /\ R(i).key = items[i].key
  BY <1>1, <1>2, NewRowType
<1>4. n = [s EXCEPT !.seen = s.seen \cup new, !.rows = s.rows \cup new, !.last = s.last + Len(items),
                    !.active = enabled]
  BY Zenon DEF InsertRows, NewRow
<1>5. enabled \in BOOLEAN
  OBVIOUS
<1>. HIDE DEF n, R, enabled
<1>6. /\ n.seen = s.seen \cup new /\ n.rows = s.rows \cup new /\ n.last = s.last + Len(items)
  BY <1>1, <1>4 DEF State
<1>7. n \in State
  <2>1. new \subseteq Row
    BY <1>3
  <2>. HIDE DEF new
  <2>2. /\ [s EXCEPT !.seen = s.seen \cup new] \in State
        /\ \A x \in State : /\ [x EXCEPT !.rows = s.rows \cup new] \in State
                            /\ [x EXCEPT !.last = s.last + Len(items)] \in State
    BY <1>1, <1>2, <2>1 DEF State
  <2>3. \A x \in State : [x EXCEPT !.active = enabled] \in State
    BY <1>5 DEF State
  <2>. QED  BY <1>4, <2>2, <2>3
<1>8. \A r \in new : r.id > s.last /\ r.id <= n.last /\ r.table = t
  BY <1>1, <1>2, <1>3, <1>6
<1>9. \A r \in past \cup s.seen \cup s.rows : r.id \in Nat /\ r.id <= s.last
  BY <1>1 DEF Row
<1>10. \A r, x \in new : r.id = x.id => r = x
  <2>. SUFFICES ASSUME NEW i \in DOMAIN items, NEW j \in DOMAIN items, R(i).id = R(j).id
                PROVE  R(i) = R(j)
    OBVIOUS
  <2>1. i = j
    BY <1>1, <1>2, <1>3
  <2>. QED  BY <2>1
<1>11. \A r, x \in new : t \in {"rules", "trusted"} /\ r.key = x.key => r = x
  <2>. SUFFICES ASSUME NEW i \in DOMAIN items, NEW j \in DOMAIN items,
                       t \in {"rules", "trusted"}, R(i).key = R(j).key
                PROVE  R(i) = R(j)
    OBVIOUS
  <2>1. i = j
    BY <1>3
  <2>. QED  BY <2>1
<1>12. \A r \in s.rows, x \in new : t \in {"rules", "trusted"} /\ r.table = t => r.key # x.key
  BY <1>3 DEF Of
<1>. HIDE DEF new
<1>13. \A r \in past \cup s.seen \cup s.rows, x \in new : r.id # x.id
  BY <1>1, <1>8, <1>9
<1>14. \A r \in past \cup n.seen \cup n.rows : r.id <= n.last
  BY <1>1, <1>2, <1>6, <1>8, <1>9
<1>15. \A r, x \in past \cup n.seen \cup n.rows : MayBe(r, x)
  BY <1>1, <1>6, <1>10, <1>13 DEF MayBe
<1>16. KeysDiffer(n.rows)
  <2>. SUFFICES ASSUME NEW r \in n.rows, NEW x \in n.rows,
                       r.id = x.id \/ Named("rules", r, x) \/ Named("trusted", r, x)
                PROVE  r = x
    BY DEF KeysDiffer
  <2>1. CASE r \in s.rows /\ x \in s.rows
    BY <1>1, <2>1 DEF KeysDiffer
  <2>2. CASE r \in new /\ x \in new
    BY <1>8, <1>10, <1>11, <2>2 DEF Named
  <2>3. CASE r \in s.rows /\ x \in new
    BY <1>8, <1>12, <1>13, <2>3 DEF Named
  <2>4. CASE r \in new /\ x \in s.rows
    BY <1>8, <1>12, <1>13, <2>4 DEF Named
  <2>. QED  BY <1>6, <2>1, <2>2, <2>3, <2>4
<1>17. Tied(n, past)
  BY <1>7, <1>14, <1>15, <1>16 DEF Tied
<1>. QED  BY <1>17 DEF n

LEMMA InsertRowTied ==
  ASSUME NEW past, NEW s, Tied(s, past), NEW t \in Keyed, NEW item \in Item,
         t \in {"rules", "trusted"} => \A r \in Of(s.rows, t) : r.key # item.key
  PROVE  Tied(InsertRow(s, t, item), past)
<1> DEFINE items == <<item>>
<1>1. items \in Seq(Item) /\ DOMAIN items = {1} /\ items[1] = item
  OBVIOUS
<1>. HIDE DEF items
<1>2. Tied(InsertRows(s, t, items), past)
  BY <1>1, InsertRowsTied
<1>. QED  BY <1>2 DEF InsertRow, items

LEMMA InsertUniqueTied ==
  ASSUME NEW past, NEW s, Tied(s, past), NEW t \in {"rules", "trusted"}, NEW item \in Item
  PROVE  Tied(InsertUnique(s, t, item), past)
<1>1. CASE \E r \in Of(s.rows, t) : r.key = item.key
  BY <1>1, RefuseTied DEF InsertUnique
<1>2. CASE ~ \E r \in Of(s.rows, t) : r.key = item.key
  <2>1. t \in Keyed
    BY DEF Keyed
  <2>2. Tied(InsertRow(s, t, item), past)
    BY <1>2, <2>1, InsertRowTied
  <2>. QED  BY <1>2, <2>2 DEF InsertUnique
<1>. QED  BY <1>1, <1>2

(* The row that is written has the id and the key of the one selected.     *)
LEMMA UpdateRowTied ==
  ASSUME NEW past, NEW s, Tied(s, past), NEW old \in s.seen, NEW item \in Item
  PROVE  Tied(UpdateRow(s, old, item), past)
<1> DEFINE new == [old EXCEPT !.enabled = item.enabled, !.data = item.data]
           Replaced(rows) == {IF r.id = old.id THEN new ELSE r : r \in rows}
           noted == s.active \/ old.enabled # item.enabled \/ item.enabled
           n == [s EXCEPT !.seen = Replaced(s.seen), !.rows = Replaced(s.rows), !.active = noted]
<1>1. s \in State /\ s.rows \subseteq Row /\ s.seen \subseteq Row
      /\ \A r \in s.seen \cup s.rows : MayBe(r, old)
  BY DEF Tied, State
<1>2. UpdateRow(s, old, item) \in {n, Refuse(s)}
  BY Zenon DEF UpdateRow
<1>3. new \in Row /\ new.id = old.id /\ new.table = old.table /\ new.key = old.key
  BY <1>1 DEF Row, Item
<1>4. noted \in BOOLEAN
  OBVIOUS
<1>. HIDE DEF new, noted
<1>5. Replaced(s.seen) \subseteq Row /\ Replaced(s.rows) \subseteq Row
  BY <1>1, <1>3
<1>6. /\ \A y \in Replaced(s.seen) : \E r \in s.seen : Renewed(y, r)
      /\ \A y \in Replaced(s.rows) : \E r \in s.rows : Renewed(y, r)
      /\ \A y, z \in Replaced(s.rows) : y.id = z.id => y = z
  <2>1. \A r \in s.seen \cup s.rows : Renewed(IF r.id = old.id THEN new ELSE r, r)
    BY <1>1, <1>3 DEF MayBe, Renewed
  <2>2. \A r, x \in s.rows : r.id = x.id => r = x
    BY DEF Tied, KeysDiffer
  <2>. QED  BY <1>3, <2>1, <2>2
<1>. HIDE DEF Replaced
<1>7. n \in State /\ n.seen = Replaced(s.seen) /\ n.rows = Replaced(s.rows) /\ n.last = s.last
  BY <1>1, <1>4, <1>5 DEF State
<1>. HIDE DEF n
<1>8. Tied(n, past)
  BY <1>6, <1>7, RowsRenewed
<1>. QED  BY <1>2, <1>8, RefuseTied

LEMMA CreateNextTied ==
  ASSUME NEW past, NEW s, Tied(s, past), NEW t \in Keyed, NEW item \in Item
  PROVE  Tied(CreateNext(s, t, item), past)
<1>1. Tied(CreateRule(s, item), past)
  <2>1. Tied(InsertUnique(s, "rules", item), past)
    BY InsertUniqueTied
  <2>. QED  BY <2>1, RefuseTied, Zenon DEF CreateRule
<1>2. Tied(UpsertTrusted(s, item), past)
  <2> DEFINE old == {r \in Of(s.seen, "trusted") : r.key = item.key}
             row == CHOOSE r \in old : TRUE
  <2>1. Tied(InsertUnique(s, "trusted", item), past)
    BY InsertUniqueTied
  <2>2. CASE old = {}
    BY <2>1, <2>2, Zenon DEF UpsertTrusted
  <2>3. CASE old # {} /\ \E r \in old : Fields(r) = item
    BY <2>3, Zenon DEF UpsertTrusted
  <2>4. CASE old # {} /\ ~ \E r \in old : Fields(r) = item
    <3>1. row \in s.seen
      BY <2>4 DEF Of
    <3>2. Tied(UpdateRow(s, row, item), past)
      BY <3>1, UpdateRowTied
    <3>. QED  BY <2>4, <3>2, Zenon DEF UpsertTrusted
  <2>. QED  BY <2>2, <2>3, <2>4
<1>3. ASSUME t \in {"limits", "countries"} PROVE Tied(CreateByFields(s, t, item), past)
  <2>1. Tied(InsertRow(s, t, item), past)
    BY <1>3, InsertRowTied
  <2>. QED  BY <2>1, RefuseTied, Zenon DEF CreateByFields
<1>4. Tied(Create(s, t, item), past)
  <2>1. CASE t = "rules"
    BY <1>1, <2>1 DEF Create
  <2>2. CASE t = "trusted"
    BY <1>2, <2>2 DEF Create
  <2>3. CASE t = "limits"
    BY <1>3, <2>3 DEF Create, CreateLimit
  <2>4. CASE t = "countries"
    BY <1>3, <2>4 DEF Create, CreateCountry
  <2>. QED  BY <2>1, <2>2, <2>3, <2>4 DEF Keyed
<1>. QED  BY <1>4, Zenon DEF CreateNext

LEMMA CreateAllTied ==
  ASSUME NEW past, NEW s, Tied(s, past), NEW t \in Keyed, NEW items \in Seq(Item)
  PROVE  Tied(CreateAll(s, t, items), past)
<1> DEFINE f == AfterItems(s, t, items)
           T == {i \in 0..Len(items) : ~Tied(f[i], past)}
<1>1. Len(items) \in Nat /\ \A i \in 1..Len(items) : items[i] \in Item
  OBVIOUS
<1>2. f[0] = s /\ \A i \in 1..Len(items) : f[i] = CreateNext(f[i - 1], t, items[i])
  BY <1>1, Items
<1>. HIDE DEF f
<1>3. T = {}
  <2>. SUFFICES ASSUME T # {} PROVE FALSE
    OBVIOUS
  <2>1. T \in SUBSET Nat
    BY <1>1
  <2>2. PICK i \in T : \A j \in T : i <= j
    BY <2>1, LeastNumber
  <2>3. i \in 1..Len(items) /\ i - 1 \in 0..Len(items) /\ i - 1 < i
    BY <1>1, <1>2, <2>2
  <2>4. Tied(f[i - 1], past) /\ items[i] \in Item
    BY <1>1, <2>2, <2>3
  <2>5. Tied(CreateNext(f[i - 1], t, items[i]), past)
    BY <2>4, CreateNextTied
  <2>. QED  BY <1>2, <2>2, <2>3, <2>5
<1>. QED  BY <1>1, <1>3 DEF CreateAll, f

LEMMA DeleteRowsTied ==
  ASSUME NEW past, NEW s, Tied(s, past), NEW targets, NEW doomed
  PROVE  Tied(DeleteRows(s, targets, doomed), past)
<1> DEFINE n == DeleteRows(s, targets, doomed)
           noted == \E r \in targets : r.enabled
<1>1. n = [s EXCEPT !.rows = s.rows \ doomed, !.active = noted]
  BY Zenon DEF DeleteRows
<1>2. noted \in BOOLEAN
  OBVIOUS
<1>. HIDE DEF noted, n
<1>3. n \in State /\ n.rows = s.rows \ doomed /\ n.seen = s.seen /\ n.last = s.last
  BY <1>1, <1>2 DEF Tied, State
<1>4. Tied(n, past)
  BY <1>3 DEF Tied, KeysDiffer
<1>. QED  BY <1>4 DEF n

LEMMA UpdateDefenseTied ==
  ASSUME NEW past, NEW s, Tied(s, past), NEW seen, NEW value \in Data
  PROVE  Tied(UpdateDefense(s, seen, value), past)
<1> DEFINE n == [s EXCEPT !.defense = value, !.active = TRUE]
<1>1. n \in State /\ n.rows = s.rows /\ n.seen = s.seen /\ n.last = s.last
  BY DEF Tied, State
<1>2. Tied(n, past)
  BY <1>1, Zenon DEF Tied
<1>. QED  BY <1>2, Zenon DEF UpdateDefense

LEMMA SeedExampleTied ==
  ASSUME NEW past, NEW s, Tied(s, past)
  PROVE  Tied(SeedExample(s), past)
<1> DEFINE Kept(rows) == {r \in rows : r.table \notin {"rules", "countries"}}
           cleared == [s EXCEPT !.rows = Kept(s.rows), !.seen = Kept(s.seen)]
           rules == InsertRows(cleared, "rules", ExampleRules)
           both == InsertRows(rules, "countries", ExampleCountries)
           n == [both EXCEPT !.active = TRUE]
<1>1. SeedExample(s) = n
  BY Zenon DEF SeedExample
<1>2. /\ Kept(s.rows) \subseteq s.rows /\ Kept(s.seen) \subseteq s.seen
      /\ \A r \in Kept(s.rows) : r.table # "rules"
  OBVIOUS
<1>. HIDE DEF Kept
<1>3. /\ cleared \in State /\ cleared.rows = Kept(s.rows) /\ cleared.seen = Kept(s.seen)
      /\ cleared.last = s.last
  BY <1>2 DEF Tied, State
<1>4. Tied(cleared, past)
  BY <1>2, <1>3 DEF Tied, KeysDiffer
<1>. HIDE DEF cleared
<1>5. /\ "rules" \in Keyed /\ "countries" \in Keyed
      /\ ExampleRules \in Seq(Item) /\ ExampleCountries \in Seq(Item)
      /\ \A i, j \in DOMAIN ExampleRules : ExampleRules[i].key = ExampleRules[j].key => i = j
  BY TablesAssumption DEF Keyed
<1>6. Of(cleared.rows, "rules") = {}
  BY <1>2, <1>3 DEF Of
<1>7. Tied(rules, past)
  BY <1>4, <1>5, <1>6, InsertRowsTied
<1>. HIDE DEF rules
<1>8. Tied(both, past)
  BY <1>5, <1>7, InsertRowsTied
<1>. HIDE DEF both
<1>9. n \in State /\ n.rows = both.rows /\ n.seen = both.seen /\ n.last = both.last
  BY <1>8 DEF Tied, State
<1>10. Tied(n, past)
  BY <1>8, <1>9, Zenon DEF Tied
<1>. QED  BY <1>1, <1>10

LEMMA ConfigureTied ==
  ASSUME NEW past, NEW s, Tied(s, past), NEW wanted \in SUBSET Keys, NEW data \in Data
  PROVE  Tied(Configure(s, wanted, data), past)
<1> DEFINE present == Of(s.seen, "trusted")
           Switched(r) == [r EXCEPT !.enabled = (r.key \in wanted)]
           missing == wanted \ {r.key : r \in present}
           switch == {r.id : r \in {x \in present : Switched(x) # x}}
           After(r) == IF r.id \in switch THEN Switched(r) ELSE r
           rows == {After(r) : r \in s.rows}
           kept == [s EXCEPT !.rows = rows, !.active = (switch # {})]
           order == SetToSeq(missing)
           items == [i \in DOMAIN order |-> [key |-> order[i], enabled |-> TRUE, data |-> data]]
           n == InsertRows(kept, "trusted", items)
           refused == \/ ~(switch \subseteq {r.id : r \in s.rows})
                      \/ \E r \in Of(s.rows, "trusted") : r.key \in missing
<1>1. s \in State /\ s.rows \subseteq Row /\ \A r, x \in s.rows : r.id = x.id => r = x
  BY DEF Tied, State, KeysDiffer
<1>2. Configure(s, wanted, data) = IF refused THEN Refuse(s) ELSE n
  BY Zenon DEF Configure
<1>3. \A r \in s.rows : Switched(r) \in Row /\ Renewed(Switched(r), r)
  <2>. SUFFICES ASSUME NEW r \in s.rows
                PROVE  Switched(r) \in Row /\ Renewed(Switched(r), r)
    OBVIOUS
  <2> DEFINE on == r.key \in wanted
  <2>1. r \in Row /\ on \in BOOLEAN
    BY <1>1
  <2>. HIDE DEF on
  <2>. QED  BY <2>1 DEF Row, Renewed, on
<1>. HIDE DEF Switched
<1>. HIDE DEF switch
<1>4. \A r \in s.rows : After(r) \in Row /\ Renewed(After(r), r)
  BY <1>1, <1>3 DEF Renewed
<1>. HIDE DEF After
<1>5. /\ rows \subseteq Row /\ \A y \in rows : \E r \in s.rows : Renewed(y, r)
      /\ \A y, z \in rows : y.id = z.id => y = z
  BY <1>1, <1>4 DEF Renewed
<1>. HIDE DEF rows
<1>6. kept \in State /\ kept.rows = rows /\ kept.seen = s.seen /\ kept.last = s.last
  <2> DEFINE noted == switch # {}
  <2>1. noted \in BOOLEAN /\ kept = [s EXCEPT !.rows = rows, !.active = noted]
    OBVIOUS
  <2>. HIDE DEF noted, kept
  <2>. QED  BY <1>1, <1>5, <2>1 DEF State
<1>. HIDE DEF kept
<1>7. Tied(kept, past)
  <2>1. \A y \in kept.seen : \E r \in s.seen : Renewed(y, r)
    BY <1>6 DEF Renewed
  <2>. QED  BY <1>5, <1>6, <2>1, RowsRenewed
<1>8. ASSUME ~refused PROVE Tied(n, past)
  <2>1. missing \in SUBSET Keys /\ IsFiniteSet(missing)
    BY TablesAssumption, FS_Subset
  <2>2. \A y \in kept.rows : y.table = "trusted" => y.key \notin missing
    BY <1>5, <1>6, <1>8 DEF Of, Renewed
  <2>. HIDE DEF missing, refused
  <2>3. /\ order \in Seq(missing)
        /\ \A i, j \in DOMAIN order : order[i] = order[j] => i = j
    BY <2>1, InOrder
  <2>. HIDE DEF order
  <2>4. /\ DOMAIN items = DOMAIN order /\ Len(order) \in Nat /\ DOMAIN order = 1..Len(order)
        /\ \A i \in DOMAIN order : order[i] \in missing
        /\ \A i \in DOMAIN order : items[i] = [key |-> order[i], enabled |-> TRUE, data |-> data]
    BY <2>3
  <2>5. \A i \in DOMAIN order : items[i] \in Item /\ items[i].key = order[i]
    BY <2>1, <2>4 DEF Item
  <2>. HIDE DEF items
  <2>6. items \in Seq(Item)
    <3>1. items = [i \in 1..Len(order) |-> items[i]]
      BY <2>4 DEF items
    <3>. QED  BY <2>4, <2>5, <3>1
  <2>7. /\ \A i, j \in DOMAIN items : items[i].key = items[j].key => i = j
        /\ \A r \in Of(kept.rows, "trusted"), i \in DOMAIN items : r.key # items[i].key
    BY <2>2, <2>3, <2>4, <2>5 DEF Of
  <2>8. "trusted" \in Keyed
    BY DEF Keyed
  <2>. QED  BY <1>7, <2>6, <2>7, <2>8, InsertRowsTied
<1>. HIDE DEF n, refused
<1>. QED  BY <1>2, <1>8, RefuseTied
LEMMA DeletesTied ==
  ASSUME NEW past, NEW s, Tied(s, past)
  PROVE  /\ \A t, ids : Tied(DeleteIds(s, t, ids), past)
         /\ \A targets : Tied(DeleteFoundRules(s, targets), past)
         /\ \A k : Tied(DeleteTrusted(s, k), past)
         /\ \A t, item : Tied(DeleteByFields(s, t, item), past)
<1>1. /\ \A targets, doomed : Tied(DeleteRows(s, targets, doomed), past)
      /\ Tied(Refuse(s), past)
  BY DeleteRowsTied, RefuseTied
<1>2. \A t, ids : Tied(DeleteIds(s, t, ids), past)
  BY <1>1, Zenon DEF DeleteIds
<1>3. \A targets : Tied(DeleteFoundRules(s, targets), past)
  BY <1>1, Zenon DEF DeleteFoundRules
<1>4. \A k : Tied(DeleteTrusted(s, k), past)
  BY <1>1, Zenon DEF DeleteTrusted
<1>5. \A t, item : Tied(DeleteByFields(s, t, item), past)
  BY <1>1, Zenon DEF DeleteByFields
<1>. QED  BY <1>2, <1>3, <1>4, <1>5

LEMMA EffectTied ==
  ASSUME NEW past, NEW d, NEW r \in AnyRequest, Tied(Start(d), past)
  PROVE  Tied(Effect(r, d), past)
<1> DEFINE s == Start(d)
           n == Effect(r, d)
           rules == Of(s.seen, "rules")
<1>1. Tied(s, past)
  OBVIOUS
<1>. HIDE DEF s
<1>2. CASE r \in [op : {"create"}, table : Keyed, items : Batches]
  <2>1. r.op = "create" /\ r.table \in Keyed /\ r.items \in Seq(Item)
    BY <1>2 DEF Batches
  <2>2. n = CreateAll(s, r.table, r.items)
    BY <2>1, Zenon DEF Effect, s
  <2>. QED  BY <1>1, <2>1, <2>2, CreateAllTied
<1>3. CASE r \in [op : {"delete_ids"}, table : Keyed, ids : SUBSET Nat]
  <2>1. CASE r.table = "rules"
    <3>1. n = DeleteFoundRules(s, {x \in rules : x.id \in r.ids})
      BY <1>3, <2>1 DEF Effect, s
    <3>. QED  BY <1>1, <3>1, DeletesTied
  <2>2. CASE r.table # "rules"
    <3>1. n = DeleteIds(s, r.table, r.ids)
      BY <1>3, <2>2 DEF Effect, s
    <3>. QED  BY <1>1, <3>1, DeletesTied
  <2>. QED  BY <2>1, <2>2
<1>4. CASE r \in [op : {"delete_rule_keys"}, keys : SUBSET Keys]
  <2>1. n = DeleteFoundRules(s, {x \in rules : x.key \in r.keys})
    BY <1>4 DEF Effect, s
  <2>. QED  BY <1>1, <2>1, DeletesTied
<1>5. CASE r \in [op : {"delete_query"}, table : Keyed, item : Item]
  <2>1. r.op = "delete_query" /\ r.table \in Keyed
    BY <1>5
  <2>2. CASE r.table = "rules"
    <3>1. n = DeleteFoundRules(s, {x \in rules : x.key = r.item.key /\ x.data = r.item.data})
      BY <2>1, <2>2 DEF Effect, s
    <3>. QED  BY <1>1, <3>1, DeletesTied
  <2>3. CASE r.table = "trusted"
    <3>1. n = DeleteTrusted(s, r.item.key)
      BY <2>1, <2>3 DEF Effect, s
    <3>. QED  BY <1>1, <3>1, DeletesTied
  <2>4. CASE r.table \in {"limits", "countries"}
    <3>1. n = DeleteByFields(s, r.table, r.item)
      BY <2>1, <2>4 DEF Effect, s
    <3>. QED  BY <1>1, <3>1, DeletesTied
  <2>. QED  BY <2>1, <2>2, <2>3, <2>4 DEF Keyed
<1>6. CASE r \in [op : {"update_defense"}, value : Data]
  <2>1. n = UpdateDefense(s, d, r.value) /\ r.value \in Data
    BY <1>6 DEF Effect, s
  <2>. QED  BY <1>1, <2>1, UpdateDefenseTied
<1>7. CASE r \in [op : {"seed_example"}]
  <2>1. n = SeedExample(s)
    BY <1>7 DEF Effect, s
  <2>. QED  BY <1>1, <2>1, SeedExampleTied
<1>8. CASE r \in [op : {"configure"}, keys : SUBSET Keys, data : Data]
  <2>1. n = Configure(s, r.keys, r.data) /\ r.keys \in SUBSET Keys /\ r.data \in Data
    BY <1>8 DEF Effect, s
  <2>. QED  BY <1>1, <2>1, ConfigureTied
<1>. QED  BY <1>2, <1>3, <1>4, <1>5, <1>6, <1>7, <1>8 DEF AnyRequest

\* The rows that open transactions have selected.
Selected == UNION {txn[c][1].seen.rows : c \in {x \in Clients : txn[x] # <<>>}}

\* What overlapping transactions keep.
OverlapInv ==
  /\ TypeOK /\ TxnOK /\ KeysDiffer(db.rows)
  /\ Selected \subseteq Row
  /\ \A r \in Selected : r.id <= db.last
  /\ \A r, x \in Selected \cup db.rows : MayBe(r, x)

LEMMA BeginOverlaps ==
  ASSUME OverlapInv, NEW c \in Clients, NEW r \in Requests, Begin(c, r)
  PROVE  OverlapInv'
<1>1. r \in AnyRequest
  BY DEF Requests, AnyRequest, OverlapInv, TypeOK
<1>2. /\ txn' = [txn EXCEPT ![c] = <<[request |-> r, seen |-> db]>>] /\ UNCHANGED db
      /\ requests' = requests + 1 /\ requests < MaxRequests
  BY DEF Begin
<1>3. TxnOK'
  BY <1>1, <1>2 DEF OverlapInv, TxnOK
<1>4. TypeOK'
  <2>1. requests' \in 0..MaxRequests
    BY <1>2, TablesAssumption DEF OverlapInv, TypeOK
  <2>. QED  BY <1>2, <2>1 DEF OverlapInv, TypeOK
<1>5. Selected' \subseteq Selected \cup db.rows
  <2>1. txn'[c][1].seen = db /\ \A x \in Clients : x # c => txn'[x] = txn[x]
    BY <1>2 DEF OverlapInv, TxnOK
  <2>. QED  BY <2>1 DEF Selected
<1>6. /\ Selected' \subseteq Row
      /\ \A x \in Selected' : x.id <= db.last
      /\ \A x, y \in Selected' \cup db.rows : MayBe(x, y)
  BY <1>5 DEF OverlapInv, TypeOK
<1>. QED  BY <1>2, <1>3, <1>4, <1>6 DEF OverlapInv

LEMMA CloseOverlaps ==
  ASSUME TxnOK, NEW c \in Clients, Close(c)
  PROVE  TxnOK' /\ Selected' \subseteq Selected
<1>1. txn'[c] = <<>> /\ \A x \in Clients : x # c => txn'[x] = txn[x]
  BY DEF TxnOK, Close
<1>2. Selected' \subseteq Selected
  BY <1>1 DEF Selected
<1>. QED  BY <1>2, CloseKeeps

LEMMA CommitOverlaps ==
  ASSUME OverlapInv, NEW c \in Clients, Commit(c)
  PROVE  OverlapInv'
<1>1. PICK r, d : r \in AnyRequest /\ txn[c] = <<[request |-> r, seen |-> d]>>
  BY DEF OverlapInv, TxnOK, Commit
<1>2. txn[c][1].request = r /\ txn[c][1].seen = d /\ txn[c] # <<>>
  BY <1>1 DEF Commit
<1> DEFINE n == Effect(r, d)
<1>3. db' = [rows |-> n.rows, defense |-> n.defense, last |-> n.last,
             version |-> IF n.active THEN db.version + 1 ELSE db.version]
  BY <1>2, Zenon DEF Commit
<1>4. d.rows \subseteq Selected
  BY <1>2 DEF Selected
<1>5. Tied(Start(d), Selected)
  <2>1. /\ Start(d).seen = d.rows /\ Start(d).rows = db.rows /\ Start(d).last = db.last
        /\ Start(d) \in State
    BY <1>4 DEF OverlapInv, TypeOK, State, Start
  <2>. QED  BY <1>4, <2>1 DEF OverlapInv, TypeOK, Tied
<1>6. Tied(n, Selected)
  BY <1>1, <1>5, EffectTied
<1>. HIDE DEF n
<1>7. /\ db'.rows = n.rows /\ db'.last = n.last /\ db'.defense = n.defense
      /\ db'.version \in {db.version, db.version + 1}
  BY <1>3
<1>8. requests' = requests /\ Close(c)
  BY DEF Commit, Close
<1>9. TxnOK' /\ Selected' \subseteq Selected
  BY <1>8, CloseOverlaps DEF OverlapInv
<1>10. TypeOK' /\ KeysDiffer(db'.rows)
  BY <1>6, <1>7, <1>8 DEF OverlapInv, TypeOK, Tied, State, KeysDiffer
<1>11. /\ Selected' \subseteq Row
       /\ \A x \in Selected' : x.id <= db'.last
       /\ \A x, y \in Selected' \cup db'.rows : MayBe(x, y)
  BY <1>6, <1>7, <1>9 DEF Tied
<1>. QED  BY <1>9, <1>10, <1>11 DEF OverlapInv

LEMMA RollbackOverlaps ==
  ASSUME OverlapInv, NEW c \in Clients, Rollback(c)
  PROVE  OverlapInv'
<1>1. TxnOK' /\ Selected' \subseteq Selected
  BY CloseOverlaps DEF Rollback, OverlapInv
<1>2. UNCHANGED <<db, requests>>
  BY DEF Rollback, Close
<1>3. TypeOK'
  BY <1>2 DEF OverlapInv, TypeOK
<1>. QED  BY <1>1, <1>2, <1>3 DEF OverlapInv

LEMMA OverlapInvHolds == Spec => []OverlapInv
<1>1. Init => OverlapInv
  <2>. SUFFICES ASSUME Init PROVE OverlapInv
    OBVIOUS
  <2>1. TypeOK /\ TxnOK
    BY InvInit DEF Inv
  <2>2. Selected = {} /\ db.rows = {}
    BY DEF Init, Selected
  <2>. QED  BY <2>1, <2>2 DEF OverlapInv, KeysDiffer
<1>2. OverlapInv /\ [Next]_vars => OverlapInv'
  <2>. SUFFICES ASSUME OverlapInv, [Next]_vars PROVE OverlapInv'
    OBVIOUS
  <2>1. CASE UNCHANGED vars
    BY <2>1 DEF vars, OverlapInv, TypeOK, TxnOK, Selected
  <2>2. CASE Next
    BY <2>2, BeginOverlaps, CommitOverlaps, RollbackOverlaps DEF Next
  <2>. QED  BY <2>1, <2>2
<1>. QED  BY <1>1, <1>2, PTL DEF Spec

(* Rows keep their types and ids stay unique and are not handed out again, *)
(* whether or not transactions overlap (insert_row and the auto-increment  *)
(* ids the requests by ids rely on).                                       *)
THEOREM TypeCorrect == Spec => []TypeOK
<1>1. OverlapInv => TypeOK
  BY DEF OverlapInv
<1>. QED  BY <1>1, OverlapInvHolds, PTL

(* On every database, however transactions overlap, a key names one rule   *)
(* and a CIDR one trusted row (the unique indexes, and updates and the     *)
(* start-up switch that go by id): only limits and countries, which no     *)
(* index covers, can double there.                                         *)
THEOREM KeysAreUnique ==
  Spec => [](\A r, x \in db.rows :
               r # x /\ r.table = x.table /\ r.table \in {"rules", "trusted"} => r.key # x.key)
<1>1. OverlapInv => \A r, x \in db.rows :
        r # x /\ r.table = x.table /\ r.table \in {"rules", "trusted"} => r.key # x.key
  BY DEF OverlapInv, KeysDiffer, Named
<1>. QED  BY <1>1, OverlapInvHolds, PTL
=============================================================================
