-------------------------- MODULE BtmpMonitorProofs --------------------------
(***************************************************************************)
(* What the btmp monitor and the clean-up of bans promise, for every       *)
(* number of addresses, failures, troubles and sweeps, any sizes of pages  *)
(* and chunks, threshold, window and ban duration.                         *)
(*                                                                         *)
(* FileInv separates the records that are counted from those that are      *)
(* still to be read; ListInv says how far a listing has come, by the rank  *)
(* of a row among those in force.  Ranks only fall when a row goes, so the *)
(* pages asked for so far cover every row of a lower rank.                 *)
(***************************************************************************)
EXTENDS BtmpMonitor, FiniteSetTheorems, TLAPS

(* Nothing that is still to be read has been counted, and what was read of *)
(* the file at hand and is in the window has been.                         *)
FileInv ==
  /\ \A i \in DOMAIN file : file[i].n <= written /\ (half # None => file[i].n < written)
  /\ \A r \in DOMAIN counts :
       counts[r] = 1 /\ r \in Record /\ r.n <= written /\ (half # None => r.n < written)
  /\ half # None => half.n = written /\ Len(file) < written
  /\ \A i \in DOMAIN file : i > Start => file[i] \notin DOMAIN counts
  /\ ~cutInPlace /\ cursor # None /\ cursor.inode = inode =>
       /\ cursor.offset <= Len(file)
       /\ \A i \in DOMAIN file :
            i <= cursor.offset /\ InWindow(file[i]) => file[i] \in DOMAIN counts

(* The rows of the monitor that come before the page to ask for are listed, *)
(* those that are in force are no candidates.                              *)
ListInv ==
  /\ page \in Nat \ {0} /\ (phase # "idle" => cursor # None)
  /\ phase = "idle" => page = 1 /\ listed = {}
  /\ phase = "list" /\ ~moved =>
       \A b \in Active : b.by = "monitor" /\ Rank(b) < (page - 1) * PageSize => b.ip \in listed
  /\ phase = "submit" /\ ~moved =>
       \A b \in Active : b.by = "monitor" => b.ip \notin candidates

BanInv ==
  /\ IsFiniteSet(bans) /\ sweepTime \in 0..clock
  /\ late \subseteq SUBSET Ips

Inv == TypeOK /\ BanInv /\ FileInv /\ ListInv

----------------------------------------------------------------------------
(* Rows                                                                    *)

(* The items of a request in some order, each once.                        *)
LEMMA Ordered ==
  ASSUME NEW S, IsFiniteSet(S)
  PROVE  /\ Cardinality(S) \in Nat
         /\ SetToSeq(S) \in [1..Cardinality(S) -> S]
         /\ Len(SetToSeq(S)) = Cardinality(S)
<1>1. Cardinality(S) \in Nat /\ ExistsBijection(1..Cardinality(S), S)
  BY FS_CardinalityType
<1>2. PICK f \in [1..Cardinality(S) -> S] : IsInjective(f)
  BY <1>1 DEF ExistsBijection, Bijection, Injection, IsInjective
<1>3. SetToSeq(S) \in [1..Cardinality(S) -> S]
  BY <1>2 DEF SetToSeq
<1>4. Len(SetToSeq(S)) = Cardinality(S)
  BY <1>1, <1>3
<1>. QED  BY <1>1, <1>3, <1>4

(* Inserted rows come after all others, in their ids and their expiry.     *)
LEMMA InsertAdds ==
  ASSUME TypeOK, BanInv, NEW items \in SUBSET Ips, NEW scope, NEW by, Insert(items, scope, by)
  PROVE  /\ bans \subseteq bans' /\ IsFiniteSet(bans')
         /\ inserted' \in inserted..MaxBans
         /\ \A b \in bans' \ bans :
              /\ b.ip \in items /\ b.by = by /\ b.expires = clock + Duration
              /\ b.id \in (inserted + 1)..inserted'
         /\ \A b, c \in bans' \ bans : b.id = c.id => b = c
<1> DEFINE order == SetToSeq(items)
           Row(i) == [id |-> inserted + i, ip |-> order[i], scope |-> scope, by |-> by,
                      expires |-> clock + Duration]
           new == {Row(i) : i \in 1..Len(order)}
<1>1. IsFiniteSet(items)
  BY BansAssumption, FS_Subset
<1>2. Len(order) \in Nat /\ \A i \in 1..Len(order) : order[i] \in items
  BY <1>1, Ordered
<1>3. bans' = bans \cup new /\ inserted' = inserted + Len(order) /\ inserted + Len(order) <= MaxBans
  BY DEF Insert
<1>4. inserted \in Nat /\ MaxBans \in Nat
  BY BansAssumption DEF TypeOK, BanTypeOK
<1>5. IsFiniteSet(new)
  <2>1. IsFiniteSet(1..Len(order))
    BY <1>2, FS_Interval
  <2>2. [i \in 1..Len(order) |-> Row(i)] \in Surjection(1..Len(order), new)
    BY DEF Surjection
  <2>. QED  BY <2>1, <2>2, FS_Surjection
<1>6. IsFiniteSet(bans')
  BY <1>3, <1>5, FS_Union DEF BanInv
<1>7. \A b \in new : /\ b.ip \in items /\ b.by = by /\ b.expires = clock + Duration
                     /\ b.id \in (inserted + 1)..inserted'
  BY <1>2, <1>3, <1>4
<1>8. \A b, c \in new : b.id = c.id => b = c
  BY <1>2, <1>4
<1>9. inserted' \in inserted..MaxBans
  BY <1>2, <1>3, <1>4
<1>. HIDE DEF new
<1>. QED  BY <1>3, <1>6, <1>7, <1>8, <1>9

(* With more rows, and none of the old ones changed, the types stay.       *)
LEMMA RowsTyped ==
  ASSUME TypeOK, BanInv, NEW items \in SUBSET Ips, NEW scope, NEW by, Insert(items, scope, by),
         UNCHANGED clock
  PROVE  /\ inserted' \in 0..MaxBans
         /\ \A b \in bans' : b.id \in 1..inserted' /\ b.expires \in Duration..(clock' + Duration)
         /\ \A b, c \in bans' : b.id = c.id => b = c
<1>0. /\ inserted' \in inserted..MaxBans
      /\ \A b \in bans' \ bans : b.id \in (inserted + 1)..inserted' /\ b.expires = clock + Duration
      /\ \A b, c \in bans' \ bans : b.id = c.id => b = c
  BY InsertAdds
<1>1. BanTypeOK
  BY DEF TypeOK
<1>. USE DEF BanTypeOK
<1>9. /\ inserted' \in inserted..MaxBans /\ inserted \in Nat /\ clock \in Nat
      /\ Duration \in Nat /\ MaxBans \in Nat
  BY <1>0, <1>1, BansAssumption
<1>2. \A b \in bans' : b \in bans \/ (b \in bans' \ bans)
  OBVIOUS
<1>3. \A b \in bans, c \in bans' \ bans : b.id # c.id
  BY <1>0, <1>1, <1>9
<1>4. \A b, c \in bans' : b.id = c.id => b = c
  BY <1>0, <1>1, <1>2, <1>3
<1>5. \A b \in bans' : b.id \in 1..inserted' /\ b.expires \in Duration..(clock' + Duration)
  BY <1>0, <1>1, <1>2, <1>9
<1>. QED  BY <1>4, <1>5, <1>9

(* What the control plane does without the monitor.                        *)
LEMMA ControlPlaneRows ==
  ASSUME TypeOK, BanInv, BanNext
  PROVE  /\ BanTypeOK' /\ IsFiniteSet(bans)' /\ (sweepTime \in 0..clock)'
         /\ clock' >= clock
         /\ \A b \in bans' \ bans : b.by = "operator"
<1>. USE DEF BanInv
<1>0. /\ clock \in Nat /\ sweepTime \in Nat /\ sweepTime <= clock /\ inserted \in Nat
      /\ operated \in Nat /\ MaxOperator \in Nat /\ MaxTime \in Nat /\ Duration \in Nat /\ MaxBans \in Nat
  BY BansAssumption DEF TypeOK, BanTypeOK
<1>4. BanTypeOK
  BY DEF TypeOK
<1>1. ASSUME NEW ip \in Ips, NEW scope \in Scopes, OperatorCreate(ip, scope)
      PROVE  /\ BanTypeOK' /\ IsFiniteSet(bans)' /\ (sweepTime \in 0..clock)'
             /\ clock' >= clock /\ \A b \in bans' \ bans : b.by = "operator"
  <2>1. {ip} \in SUBSET Ips /\ Insert({ip}, scope, "operator") /\ UNCHANGED <<clock, sweep, sweepTime, due>>
        /\ operated' \in 0..MaxOperator
    BY <1>0, <1>1 DEF OperatorCreate
  <2>2. IsFiniteSet(bans') /\ \A b \in bans' \ bans : b.by = "operator"
    BY <2>1, InsertAdds, Zenon
  <2>3. /\ inserted' \in 0..MaxBans
        /\ \A b \in bans' : b.id \in 1..inserted' /\ b.expires \in Duration..(clock' + Duration)
        /\ \A b, c \in bans' : b.id = c.id => b = c
    BY <2>1, RowsTyped, Zenon
  <2>4. BanTypeOK'
    BY <2>1, <2>3 DEF TypeOK, BanTypeOK
  <2>. QED  BY <1>0, <2>1, <2>2, <2>4
<1>2. ASSUME NEW rows \in SUBSET bans, OperatorDelete(rows) \/ \E s \in Streams : SweepDeletes(s)
      PROVE  /\ BanTypeOK' /\ IsFiniteSet(bans)' /\ (sweepTime \in 0..clock)'
             /\ clock' >= clock /\ \A b \in bans' \ bans : b.by = "operator"
  <2>1. bans' \subseteq bans /\ UNCHANGED <<clock, inserted>> /\ sweepTime' \in {0, sweepTime}
    BY <1>2 DEF OperatorDelete, SweepDeletes
  <2>2. IsFiniteSet(bans')
    BY <2>1, FS_Subset
  <2>3. BanTypeOK'
    <3>1. operated' \in 0..MaxOperator
      BY <1>0, <1>2, <1>4 DEF BanTypeOK, OperatorDelete, SweepDeletes
    <3>2. sweep' \in Streams \cup {None} /\ due' \in BOOLEAN
      BY <1>2, <1>4, Zenon DEF BanTypeOK, OperatorDelete, SweepDeletes
    <3>. QED  BY <1>4, <2>1, <3>1, <3>2 DEF BanTypeOK
  <2>. QED  BY <1>0, <2>1, <2>2, <2>3
<1>3. ASSUME \/ \E s \in Streams : SweepStart(s) \/ SweepFails(s)
             \/ IntervalPasses \/ Tick
      PROVE  /\ BanTypeOK' /\ IsFiniteSet(bans)' /\ (sweepTime \in 0..clock)'
             /\ clock' >= clock /\ \A b \in bans' \ bans : b.by = "operator"
  <2>1. UNCHANGED bans /\ clock' \in {clock, clock + 1} /\ clock' <= MaxTime
        /\ sweepTime' \in {0, clock, sweepTime} /\ UNCHANGED <<inserted, operated>>
    BY <1>0, <1>3, <1>4 DEF SweepStart, SweepFails, IntervalPasses, Tick, BanTypeOK
  <2>3. sweep' \in Streams \cup {None} /\ due' \in BOOLEAN
    BY <1>3, <1>4, Zenon DEF SweepStart, SweepFails, IntervalPasses, Tick, BanTypeOK
  <2>2. BanTypeOK'
    <3>1. \A b \in bans : b.expires \in Duration..(clock' + Duration)
      BY <1>0, <1>4, <2>1 DEF BanTypeOK
    <3>. QED  BY <1>0, <1>4, <2>1, <2>3, <3>1 DEF BanTypeOK
  <2>. QED  BY <1>0, <2>1, <2>2
<1>. QED  BY <1>1, <1>2, <1>3 DEF BanNext

----------------------------------------------------------------------------
(* The file                                                                *)

Unread == {file[i] : i \in (Start + 1)..Len(file)}

LEMMA MergedBag ==
  /\ DOMAIN Merged = {r \in DOMAIN counts \cup Unread : InWindow(r)}
  /\ \A r \in DOMAIN Merged :
       Merged[r] = (IF r \in DOMAIN counts THEN counts[r] ELSE 0) + (IF r \in Unread THEN 1 ELSE 0)
<1> DEFINE all == counts (+) SetToBag(Unread)
<1>1. DOMAIN all = DOMAIN counts \cup Unread
  BY DEF (+), SetToBag
<1>2. \A r \in DOMAIN all :
        all[r] = (IF r \in DOMAIN counts THEN counts[r] ELSE 0) + (IF r \in Unread THEN 1 ELSE 0)
  BY DEF (+), SetToBag
<1>3. Merged = [r \in {x \in DOMAIN all : InWindow(x)} |-> all[r]]
  BY DEF Merged, RestrictDomain, Restrict, Unread
<1>. HIDE DEF all
<1>. QED  BY <1>1, <1>2, <1>3

\* The parts of TypeOK that the file and the monitor's round concern.
FileTypes ==
  /\ file \in Seq(Record) /\ half \in Record \cup {None} /\ inode \in Nat
  /\ written \in 0..MaxRecords /\ Len(file) <= written
RoundTypes ==
  /\ phase \in {"idle", "list", "submit"}
  /\ cursor \in ReadCursor \cup {None} /\ (cursor # None => cursor.inode <= inode)
  /\ candidates \subseteq Ips \ (TrustedIps \cup listed)
  /\ (phase = "submit") <=> candidates # {}

LEMMA Types == TypeOK <=> BanTypeOK /\ FileTypes /\ RoundTypes
BY DEF TypeOK, FileTypes, RoundTypes

LEMMA Numbers ==
  ASSUME TypeOK
  PROVE  /\ clock \in Nat /\ written \in Nat /\ Window \in Nat /\ MaxRecords \in Nat
         /\ Start \in Nat /\ Len(file) \in Nat
         /\ file \in Seq(Record) /\ \A i \in DOMAIN file : file[i] \in Record
         /\ \A r \in Record : r.n \in Nat /\ r.at \in Nat /\ r.ip \in Ips
<1>1. clock \in Nat /\ written \in Nat /\ Window \in Nat /\ MaxRecords \in Nat
  BY BansAssumption, BtmpAssumption DEF TypeOK, BanTypeOK
<1>2. file \in Seq(Record) /\ Len(file) \in Nat /\ \A i \in DOMAIN file : file[i] \in Record
  BY DEF TypeOK
<1>3. Start \in Nat
  BY DEF TypeOK, Start, ReadCursor
<1>. QED  BY <1>1, <1>2, <1>3 DEF Record

(* The file, the cursor and the counts stay and time passes.               *)
LEMMA FileKept ==
  ASSUME TypeOK, FileInv, clock' \in Nat, clock' >= clock,
         UNCHANGED <<fileVars, cursor, counts, cutInPlace>>
  PROVE  FileInv'
<1>1. Start' = Start /\ DOMAIN file' = DOMAIN file
  BY DEF Start, fileVars
<1>2. \A i \in DOMAIN file : InWindow(file[i])' => InWindow(file[i])
  BY Numbers DEF InWindow, Cutoff, fileVars
<1>3. ~cutInPlace' /\ cursor' # None /\ cursor'.inode = inode' =>
        /\ cursor'.offset <= Len(file')
        /\ \A i \in DOMAIN file' :
             i <= cursor'.offset /\ InWindow(file[i])' => file'[i] \in DOMAIN counts'
  BY <1>1, <1>2 DEF FileInv, fileVars
<1>. QED  BY <1>1, <1>3 DEF FileInv, fileVars

(* A record that is appended has not been counted, and where the next read *)
(* starts does not move past it unseen.                                    *)
LEMMA AppendKeeps ==
  ASSUME TypeOK, FileInv, NEW r \in Record, file' = Append(file, r),
         \A x \in DOMAIN counts : x.n < r.n,
         r.n <= written', half' = None, written <= written', written' \in Nat,
         UNCHANGED <<inode, cursor, counts, clock, cutInPlace>>
  PROVE  FileInv'
<1>1. /\ Len(file') = Len(file) + 1 /\ Len(file) \in Nat /\ DOMAIN file' = 1..(Len(file) + 1)
      /\ DOMAIN file = 1..Len(file)
      /\ \A i \in DOMAIN file : file'[i] = file[i]
      /\ file'[Len(file) + 1] = r
  BY Numbers
<1>2. \A i \in DOMAIN file' : i \in DOMAIN file \/ i = Len(file) + 1
  BY <1>1
<1>3. \A i \in DOMAIN file' : file'[i].n <= written'
  BY <1>1, <1>2, Numbers DEF FileInv
<1>4. \A x \in DOMAIN counts : counts[x] = 1 /\ x \in Record /\ x.n <= written'
  BY Numbers DEF FileInv
<1>5. r \notin DOMAIN counts
  BY Numbers
<1>6. Start' >= Start \/ Start' > Len(file)
  BY <1>1 DEF Start, TypeOK, ReadCursor
<1>7. \A i \in DOMAIN file' : i > Start' => file'[i] \notin DOMAIN counts'
  <2>. SUFFICES ASSUME NEW i \in DOMAIN file', i > Start' PROVE file'[i] \notin DOMAIN counts
    OBVIOUS
  <2>1. CASE i = Len(file) + 1
    BY <2>1, <1>1, <1>5
  <2>2. CASE i \in DOMAIN file
    <3>1. Start \in Nat /\ Start' \in Nat
      BY <1>1, Numbers DEF Start, TypeOK, ReadCursor
    <3>2. i > Start
      BY <1>1, <1>6, <2>2, <3>1
    <3>. QED  BY <1>1, <2>2, <3>2 DEF FileInv
  <2>. QED  BY <1>2, <2>1, <2>2
<1>8. ASSUME ~cutInPlace', cursor' # None, cursor'.inode = inode'
      PROVE  /\ cursor'.offset <= Len(file')
             /\ \A i \in DOMAIN file' :
                  i <= cursor'.offset /\ InWindow(file[i])' => file'[i] \in DOMAIN counts'
  <2>1. cursor.offset <= Len(file) /\ cursor.offset \in Nat
    BY <1>8 DEF FileInv, TypeOK, ReadCursor
  <2>2. \A i \in DOMAIN file' : i <= cursor.offset => i \in DOMAIN file
    BY <1>1, <1>2, <2>1
  <2>3. \A i \in DOMAIN file : InWindow(file[i])' => InWindow(file[i])
    BY <1>1 DEF InWindow, Cutoff
  <2>4. \A i \in DOMAIN file : i <= cursor.offset /\ InWindow(file[i]) => file[i] \in DOMAIN counts
    BY <1>8 DEF FileInv
  <2>. QED  BY <1>1, <2>1, <2>2, <2>3, <2>4
<1>. QED  BY <1>3, <1>4, <1>7, <1>8 DEF FileInv

LEMMA FailedLoginKeeps ==
  ASSUME TypeOK, FileInv, NEW ip \in Ips, FailedLogin(ip)
  PROVE  FileInv' /\ FileTypes'
<1> DEFINE record == [n |-> written + 1, ip |-> ip, at |-> clock]
<1>1. /\ written' = written + 1 /\ written + 1 \in Nat /\ written' <= MaxRecords /\ record \in Record
      /\ record.n = written + 1 /\ UNCHANGED <<inode, cursor, counts, clock, cutInPlace>>
      /\ half = None
  BY Numbers DEF FailedLogin, Record, banVars, monitorVars
<1>2. \A x \in DOMAIN counts : x \in Record /\ x.n < record.n
  BY <1>1, Numbers DEF FileInv
<1>3. (file' = Append(file, record) /\ half' = half) \/ (half' = record /\ file' = file)
  BY DEF FailedLogin
<1>4. record # None
  BY <1>1, BtmpAssumption
<1>. HIDE DEF record
<1>5. CASE file' = Append(file, record) /\ half' = half
  <2>1. FileInv'
    BY <1>1, <1>2, <1>5, Numbers, AppendKeeps
  <2>2. Len(file') = Len(file) + 1 /\ file' \in Seq(Record)
    BY <1>1, <1>5, Numbers
  <2>. QED  BY <1>1, <1>5, <2>1, <2>2, Numbers DEF FileTypes, TypeOK
<1>6. CASE half' = record /\ file' = file
  <2>1. FileTypes'
    BY <1>1, <1>6, Numbers DEF FileTypes, TypeOK
  <2>2. Start' = Start
    BY <1>1, <1>6 DEF Start
  <2>3. \A i \in DOMAIN file : file[i].n < written'
    BY <1>1, Numbers DEF FileInv
  <2>4. \A x \in DOMAIN counts : counts[x] = 1 /\ x \in Record /\ x.n < written'
    BY <1>1, <1>2 DEF FileInv
  <2>5. half'.n = written' /\ Len(file') < written'
    BY <1>1, <1>6, Numbers DEF TypeOK
  <2>6. \A i \in DOMAIN file : InWindow(file[i])' <=> InWindow(file[i])
    BY <1>1, <1>6 DEF InWindow, Cutoff
  <2>7. \A i \in DOMAIN file : file[i].n <= written'
    BY <1>1, <2>3, Numbers
  <2>8. \A x \in DOMAIN counts : x.n <= written'
    BY <1>1, <2>4, Numbers
  <2>. QED  BY <1>1, <1>6, <2>1, <2>2, <2>3, <2>4, <2>5, <2>6, <2>7, <2>8 DEF FileInv
<1>. QED  BY <1>3, <1>5, <1>6

LEMMA WriteRestKeeps ==
  ASSUME TypeOK, FileInv, WriteRest
  PROVE  FileInv' /\ FileTypes'
<1>1. /\ half \in Record /\ half.n = written /\ Len(file) < written /\ half # None
      /\ file' = Append(file, half) /\ half' = None
      /\ UNCHANGED <<inode, written, cursor, counts, clock, cutInPlace>>
  BY DEF TypeOK, FileInv, WriteRest, banVars, monitorVars
<1>2. \A x \in DOMAIN counts : x.n < half.n
  BY <1>1 DEF FileInv
<1>3. FileInv'
  BY <1>1, <1>2, Numbers, AppendKeeps
<1>4. Len(file') = Len(file) + 1 /\ file' \in Seq(Record)
  BY <1>1, Numbers
<1>. QED  BY <1>1, <1>3, <1>4, Numbers DEF FileTypes, TypeOK

(* A new file has another inode, unless the old one was cut in place.      *)
LEMMA RotateKeeps ==
  ASSUME TypeOK, FileInv, Rotate
  PROVE  FileInv' /\ FileTypes' /\ RoundTypes'
<1>1. /\ file' = <<>> /\ half = None /\ half' = None /\ inode' \in {inode, inode + 1}
      /\ UNCHANGED <<written, cursor, counts, clock, monitorVars>>
      /\ (cutInPlace' <=> cutInPlace \/ inode' = inode)
  BY DEF Rotate, banVars, monitorVars
<1>2. inode \in Nat /\ inode' \in Nat /\ (cursor # None => cursor.inode <= inode /\ cursor.inode \in Nat)
  BY <1>1 DEF TypeOK, ReadCursor
<1>3. Len(file') = 0 /\ file' \in Seq(Record) /\ DOMAIN file' = {}
  BY <1>1
<1>4. ~cutInPlace' /\ cursor' # None => cursor'.inode # inode'
  BY <1>1, <1>2
<1>5. FileInv'
  BY <1>1, <1>3, <1>4 DEF FileInv
<1>6. FileTypes'
  BY <1>1, <1>2, <1>3, Numbers DEF FileTypes, TypeOK
<1>7. RoundTypes'
  BY <1>1, <1>2 DEF RoundTypes, TypeOK, monitorVars
<1>. QED  BY <1>5, <1>6, <1>7

(* A read counts what it had not read before, and forgets nothing that is  *)
(* still in the window.                                                    *)
LEMMA PollKeeps ==
  ASSUME TypeOK, FileInv, Poll
  PROVE  FileInv'
<1>1. /\ counts' = Merged /\ cursor' = [inode |-> inode, offset |-> Len(file)]
      /\ UNCHANGED <<fileVars, clock, cutInPlace>>
  BY DEF Poll, banVars
<1>2. cursor' \in ReadCursor /\ cursor' # None
  BY <1>1, Numbers, BtmpAssumption DEF ReadCursor, TypeOK
<1>3. Start' = Len(file)
  BY <1>1, <1>2, Numbers DEF Start, fileVars
<1>4. \A r \in Unread : r \in Record /\ r \notin DOMAIN counts /\ r.n <= written
                        /\ (half # None => r.n < written)
  BY Numbers DEF Unread, FileInv
<1>5. \A r \in DOMAIN Merged :
        Merged[r] = 1 /\ r \in Record /\ r.n <= written /\ (half # None => r.n < written)
  BY <1>4, MergedBag DEF FileInv
<1>6. \A i \in DOMAIN file : InWindow(file[i])' <=> InWindow(file[i])
  BY <1>1 DEF InWindow, Cutoff, fileVars
<1>7. ASSUME ~cutInPlace, NEW i \in DOMAIN file, InWindow(file[i])
      PROVE  file[i] \in DOMAIN Merged
  <2>1. CASE i > Start
    BY <2>1, <1>7, MergedBag, Numbers DEF Unread
  <2>2. CASE i <= Start
    <3>1. cursor # None /\ cursor.inode = inode /\ cursor.offset = Start
      BY <2>2, Numbers DEF Start
    <3>2. file[i] \in DOMAIN counts
      BY <1>7, <2>2, <3>1 DEF FileInv
    <3>. QED  BY <1>7, <3>2, MergedBag
  <2>. QED  BY <2>1, <2>2, Numbers
<1>8. \A i \in DOMAIN file : ~(i > Len(file))
  BY Numbers
<1>. QED  BY <1>1, <1>3, <1>5, <1>6, <1>7, <1>8, Numbers DEF FileInv, fileVars

----------------------------------------------------------------------------
(* Pages                                                                   *)

LEMMA Times ==
  ASSUME NEW m \in Nat, NEW n \in Nat, NEW d \in Nat, m <= n
  PROVE  m * d \in Nat /\ m * d <= n * d
<1>1. n * d = m * d + (n - m) * d /\ (n - m) * d >= 0
  OBVIOUS
<1>. QED  BY <1>1

LEMMA Quotient ==
  ASSUME NEW n \in Nat, NEW d \in Nat \ {0}
  PROVE  /\ n \div d \in Nat
         /\ (n \div d) * d <= n
         /\ n < (n \div d + 1) * d
OBVIOUS

LEMMA InPage ==
  ASSUME NEW n \in Nat, NEW d \in Nat \ {0}, NEW q \in Nat, q * d <= n, n < (q + 1) * d
  PROVE  n \div d = q
<1> DEFINE e == n \div d
<1>1. e \in Nat /\ e * d <= n /\ n < (e + 1) * d
  BY Quotient
<1>. HIDE DEF e
<1>2. e + 1 \in Nat /\ q + 1 \in Nat /\ d \in Nat
  BY <1>1
<1>3. ~(e + 1 <= q)
  <2>. SUFFICES ASSUME e + 1 <= q PROVE FALSE
    OBVIOUS
  <2>1. (e + 1) * d <= q * d /\ (e + 1) * d \in Nat
    BY <1>2, Times
  <2>. HIDE DEF e
  <2>2. q * d \in Nat
    BY <1>2, Times
  <2>. QED  BY <1>1, <2>1, <2>2
<1>4. ~(q + 1 <= e)
  <2>. SUFFICES ASSUME q + 1 <= e PROVE FALSE
    OBVIOUS
  <2>1. (q + 1) * d <= e * d /\ (q + 1) * d \in Nat
    BY <1>1, <1>2, Times
  <2>2. e * d \in Nat
    BY <1>1, <1>2, Times
  <2>. QED  BY <1>1, <2>1, <2>2
<1>. QED  BY <1>1, <1>3, <1>4 DEF e

LEMMA AllPages ==
  ASSUME NEW n \in Nat, NEW d \in Nat \ {0}, NEW q \in Nat, (n + d - 1) \div d <= q
  PROVE  n <= q * d
<1> DEFINE m == n + d - 1
           e == m \div d
<1>1. m \in Nat /\ d \in Nat
  OBVIOUS
<1>2. e \in Nat /\ m < (e + 1) * d
  BY <1>1, Quotient
<1>3. e <= q
  OBVIOUS
<1>. HIDE DEF e
<1>4. e * d <= q * d /\ e * d \in Nat /\ q * d \in Nat
  BY <1>1, <1>2, <1>3, Times
<1>5. (e + 1) * d = e * d + d
  BY <1>1, <1>2
<1>. QED  BY <1>2, <1>4, <1>5

(* While no row goes, no row moves to an earlier page.                     *)
LEMMA RankGrows ==
  ASSUME IsFiniteSet(bans'), Active \subseteq Active', NEW b
  PROVE  Rank(b) \in Nat /\ Rank(b)' \in Nat /\ Rank(b) <= Rank(b)'
<1> DEFINE before == {c \in Active : ByExpiry(c, b)}
           after == {c \in Active' : ByExpiry(c, b)}
<1>1. before \in SUBSET after /\ after \in SUBSET bans'
  BY DEF Active
<1>2. IsFiniteSet(after)
  BY <1>1, FS_Subset
<1>3. IsFiniteSet(before) /\ Cardinality(before) <= Cardinality(after)
  BY <1>1, <1>2, FS_Subset
<1>4. Cardinality(before) \in Nat /\ Cardinality(after) \in Nat
  BY <1>2, <1>3, FS_CardinalityType
<1>. QED  BY <1>3, <1>4 DEF Rank, ByExpiry

LEMMA RankBelow ==
  ASSUME IsFiniteSet(bans), NEW b \in Active, b.expires \in Nat, b.id \in Nat
  PROVE  Rank(b) \in Nat /\ Cardinality(Active) \in Nat /\ Rank(b) < Cardinality(Active)
<1> DEFINE before == {c \in Active : ByExpiry(c, b)}
<1>1. IsFiniteSet(Active)
  BY FS_Subset DEF Active
<1>2. before \in SUBSET Active /\ b \notin before
  BY DEF ByExpiry
<1>3. IsFiniteSet(before) /\ Cardinality(before) <= Cardinality(Active)
      /\ (Cardinality(Active) = Cardinality(before) => Active = before)
  BY <1>1, <1>2, FS_Subset
<1>4. Cardinality(before) \in Nat /\ Cardinality(Active) \in Nat
  BY <1>1, <1>3, FS_CardinalityType
<1>. HIDE DEF before
<1>5. Cardinality(before) # Cardinality(Active)
  BY <1>2, <1>3
<1>6. Rank(b) = Cardinality(before)
  BY DEF Rank, before
<1>. QED  BY <1>3, <1>4, <1>5, <1>6

(* A page, and with the last one the list, covers what it should.          *)
LEMMA ListPageKeeps ==
  ASSUME TypeOK, BanInv, ListInv, ListPage
  PROVE  ListInv' /\ RoundTypes'
<1> DEFINE all == listed \cup Page(page)
           mine == {b \in Active : b.by = "monitor"}
<1>1. /\ phase = "list" /\ UNCHANGED <<clock, bans, inode, cursor>>
      /\ page \in Nat /\ page > 0 /\ page - 1 \in Nat /\ (page - 1) + 1 = page
      /\ PageSize \in Nat \ {0}
  BY BtmpAssumption DEF ListPage, banVars, fileVars, ListInv
<1>2. Active' = Active /\ \A b : Rank(b)' = Rank(b)
  BY <1>1 DEF Active, Rank
<1>3. \A b \in mine : Rank(b) \in Nat /\ Cardinality(Active) \in Nat /\ Rank(b) < Cardinality(Active)
  <2>. SUFFICES ASSUME NEW b \in mine
                PROVE  Rank(b) \in Nat /\ Cardinality(Active) \in Nat /\ Rank(b) < Cardinality(Active)
    OBVIOUS
  <2>1. b.expires \in Nat /\ b.id \in Nat
    BY BansAssumption DEF Active, TypeOK, BanTypeOK
  <2>. QED  BY <2>1, RankBelow DEF BanInv
<1>4. ASSUME ~moved, NEW b \in mine, Rank(b) < page * PageSize
      PROVE  b.ip \in all
  <2>1. CASE Rank(b) < (page - 1) * PageSize
    BY <1>1, <1>4, <2>1 DEF ListInv
  <2>2. CASE (page - 1) * PageSize <= Rank(b)
    <3>1. Rank(b) \div PageSize = page - 1
      BY <1>1, <1>3, <1>4, <2>2, InPage
    <3>. QED  BY <3>1 DEF Page
  <2>3. (page - 1) * PageSize \in Nat
    BY <1>1, Times
  <2>. QED  BY <1>3, <2>1, <2>2, <2>3
<1>5. ASSUME ~moved, page >= LastPage, NEW b \in mine
      PROVE  b.ip \in all
  <2>1. Cardinality(Active) <= page * PageSize
    BY <1>1, <1>3, <1>5, AllPages DEF LastPage
  <2>2. page * PageSize \in Nat
    BY <1>1, Times
  <2>3. Rank(b) < page * PageSize
    BY <1>3, <2>1, <2>2
  <2>. QED  BY <1>4, <1>5, <2>3
<1>6. AtThreshold \subseteq Ips \ TrustedIps
  BY DEF AtThreshold
<1>7. /\ candidates = {} /\ (cursor \in ReadCursor \cup {None} /\ (cursor # None => cursor.inode <= inode))'
  BY <1>1 DEF TypeOK
<1>. HIDE DEF all
<1>8. CASE page < LastPage /\ page' = page + 1 /\ listed' = all /\ UNCHANGED <<phase, candidates, moved>>
  <2>1. (page' - 1) * PageSize = page * PageSize
    BY <1>1, <1>8
  <2>2. ListInv'
    BY <1>1, <1>2, <1>4, <1>8, <2>1 DEF ListInv
  <2>. QED  BY <1>1, <1>7, <1>8, <2>2 DEF RoundTypes
<1>9. CASE /\ page >= LastPage /\ AtThreshold \ all # {}
           /\ listed' = all /\ candidates' = AtThreshold \ all /\ phase' = "submit"
           /\ UNCHANGED <<page, moved>>
  <2>1. ListInv'
    BY <1>1, <1>2, <1>5, <1>9 DEF ListInv
  <2>. QED  BY <1>6, <1>7, <1>9, <2>1 DEF RoundTypes
<1>10. CASE EndRound
  BY <1>7, <1>10 DEF EndRound, ListInv, RoundTypes
<1>. QED  BY <1>8, <1>9, <1>10 DEF ListPage, all

LEMMA EndRoundKeeps ==
  ASSUME EndRound, cursor' \in ReadCursor \cup {None}, cursor' # None => cursor'.inode <= inode'
  PROVE  ListInv' /\ RoundTypes'
BY DEF EndRound, ListInv, RoundTypes

\* The parts of the invariant that concern the table.
RowInv == BanTypeOK /\ BanInv

LEMMA RowsKept ==
  ASSUME RowInv, UNCHANGED <<banVars, late>>
  PROVE  RowInv'
<1>1. BanTypeOK'
  BY DEF RowInv, BanTypeOK, banVars
<1>2. BanInv'
  BY DEF RowInv, BanInv, banVars
<1>. QED  BY <1>1, <1>2 DEF RowInv

LEMMA PollRound ==
  ASSUME TypeOK, BanInv, ListInv, Poll
  PROVE  ListInv' /\ RoundTypes'
<1>1. /\ phase = "idle" /\ phase' = "list" /\ UNCHANGED <<inode, listed, page, candidates, moved>>
      /\ cursor' = [inode |-> inode, offset |-> Len(file)] /\ inode \in Nat /\ Len(file) \in Nat
  BY Numbers DEF Poll, fileVars, TypeOK
<1>2. cursor' \in ReadCursor /\ cursor'.inode <= inode' /\ cursor' # None
  BY <1>1, BtmpAssumption DEF ReadCursor
<1>3. page = 1 /\ candidates = {}
  BY <1>1 DEF ListInv, TypeOK
<1>4. Active' = Active /\ \A b : Rank(b)' = Rank(b)
  BY DEF Poll, banVars, Active, Rank
<1>5. \A b \in Active : Rank(b) \in Nat
  <2>. SUFFICES ASSUME NEW b \in Active PROVE Rank(b) \in Nat
    OBVIOUS
  <2>1. b.expires \in Nat /\ b.id \in Nat
    BY BansAssumption DEF Active, TypeOK, BanTypeOK
  <2>. QED  BY <2>1, RankBelow DEF BanInv
<1>6. (page' - 1) * PageSize = 0
  BY <1>1, <1>3, BtmpAssumption
<1>7. ListInv'
  BY <1>1, <1>2, <1>3, <1>4, <1>5, <1>6 DEF ListInv
<1>. QED  BY <1>1, <1>2, <1>3, <1>7 DEF RoundTypes, TypeOK

(* The control plane adds rows of the operator only, and if it takes one   *)
(* away while the pages are listed the monitor's list is no promise.       *)
LEMMA ControlPlaneKeeps ==
  ASSUME TypeOK, BanInv, FileInv, ListInv, ControlPlane
  PROVE  RowInv' /\ FileInv' /\ ListInv'
<1>1. /\ BanTypeOK' /\ IsFiniteSet(bans)' /\ (sweepTime \in 0..clock)' /\ clock' >= clock
      /\ \A b \in bans' \ bans : b.by = "operator"
  BY ControlPlaneRows DEF ControlPlane
<1>2. /\ UNCHANGED <<fileVars, monitorVars, late, cutInPlace>>
      /\ moved' = (moved \/ (phase = "list" /\ ~(Active \subseteq Active')))
  BY DEF ControlPlane
<1>3. clock \in Nat /\ clock' \in Nat
  BY <1>1, BansAssumption DEF BanTypeOK, TypeOK
<1>4. FileInv'
  BY <1>1, <1>2, <1>3, FileKept DEF monitorVars
<1>5. RowInv'
  BY <1>1, <1>2 DEF RowInv, BanInv
<1>6. \A b \in Active' : b.by = "monitor" => b \in Active
  <2>. SUFFICES ASSUME NEW b \in Active', b.by = "monitor" PROVE b \in Active
    OBVIOUS
  <2>1. b \in bans' /\ b.expires > clock'
    BY DEF Active
  <2>2. b \in bans
    BY <1>1, <2>1
  <2>3. b.expires \in Nat
    BY <2>2, BansAssumption DEF TypeOK, BanTypeOK
  <2>. QED  BY <1>1, <1>3, <2>1, <2>2, <2>3 DEF Active
<1>7. ASSUME phase = "list", ~moved', NEW b \in Active', b.by = "monitor",
             Rank(b)' < (page - 1) * PageSize
      PROVE  b.ip \in listed
  <2>1. Active \subseteq Active' /\ ~moved
    BY <1>2, <1>7, Zenon
  <2>2. Rank(b) \in Nat /\ Rank(b)' \in Nat /\ Rank(b) <= Rank(b)'
    BY <1>1, <2>1, RankGrows
  <2>3. (page - 1) * PageSize \in Nat
    <3>1. page - 1 \in Nat /\ PageSize \in Nat
      BY BtmpAssumption DEF ListInv
    <3>. QED  BY <3>1, Times
  <2>4. Rank(b) < (page - 1) * PageSize
    BY <1>7, <2>2, <2>3
  <2>. QED  BY <1>6, <1>7, <2>1, <2>4 DEF ListInv
<1>8. ASSUME phase = "submit", ~moved', NEW b \in Active', b.by = "monitor"
      PROVE  b.ip \notin candidates
  <2>1. ~moved
    BY <1>2, <1>8, Zenon
  <2>. QED  BY <1>6, <1>8, <2>1 DEF ListInv
<1>9. UNCHANGED <<phase, page, listed, candidates, cursor>>
  BY <1>2 DEF monitorVars
<1>10. ListInv'
  BY <1>7, <1>8, <1>9 DEF ListInv
<1>. QED  BY <1>4, <1>5, <1>10

LEMMA ChunksOfCandidates ==
  ASSUME TypeOK, NEW c \in Chunks
  PROVE  c \subseteq candidates /\ c \in SUBSET Ips
BY DEF Chunks, TypeOK

LEMMA SubmittedRows ==
  ASSUME TypeOK, BanInv, NEW c \in SUBSET Ips, Insert(c, "any", "monitor"),
         UNCHANGED <<clock, operated, sweep, sweepTime, due>>, late' \subseteq late \cup {c}
  PROVE  /\ RowInv'
         /\ \A b \in Active' : b \in Active \/ (b \in bans' \ bans /\ b.ip \in c)
<1>1. /\ IsFiniteSet(bans') /\ \A b \in bans' \ bans : b.ip \in c
      /\ inserted' \in 0..MaxBans
      /\ \A b \in bans' : b.id \in 1..inserted' /\ b.expires \in Duration..(clock' + Duration)
      /\ \A b, x \in bans' : b.id = x.id => b = x
  BY InsertAdds, RowsTyped, Zenon
<1>2. BanTypeOK'
  BY <1>1 DEF TypeOK, BanTypeOK
<1>3. BanInv'
  BY <1>1 DEF BanInv
<1>4. \A b \in Active' : b \in Active \/ b \in bans' \ bans
  BY DEF Active
<1>. QED  BY <1>1, <1>2, <1>3, <1>4 DEF RowInv

LEMMA SubmitChunkKeeps ==
  ASSUME TypeOK, BanInv, FileInv, ListInv, SubmitChunk
  PROVE  RowInv' /\ FileInv' /\ ListInv' /\ RoundTypes'
<1>1. PICK c \in Chunks :
        /\ Insert(c, "any", "monitor")
        /\ \/ c # candidates /\ candidates' = candidates \ c /\ UNCHANGED <<phase, listed, page, moved>>
           \/ c = candidates /\ EndRound
  BY DEF SubmitChunk
<1>2. /\ UNCHANGED <<clock, operated, sweep, sweepTime, due, fileVars, cursor, counts, late, cutInPlace>>
      /\ phase = "submit"
  BY DEF SubmitChunk
<1>3. c \subseteq candidates /\ c \in SUBSET Ips
  BY ChunksOfCandidates
<1>4. RowInv' /\ \A b \in Active' : b \in Active \/ (b \in bans' \ bans /\ b.ip \in c)
  BY <1>1, <1>2, <1>3, SubmittedRows
<1>5. clock \in Nat
  BY Numbers
<1>6. FileInv'
  BY <1>2, <1>5, FileKept
<1>7. inode' = inode
  BY <1>2 DEF fileVars
<1>8. CASE c # candidates /\ candidates' = candidates \ c /\ UNCHANGED <<phase, listed, page, moved>>
  <2>1. ListInv'
    BY <1>2, <1>4, <1>8 DEF ListInv
  <2>2. candidates' # {} /\ candidates' \subseteq candidates
    BY <1>3, <1>8
  <2>3. RoundTypes'
    BY <1>2, <1>7, <1>8, <2>2 DEF RoundTypes, TypeOK
  <2>. QED  BY <1>4, <1>6, <2>1, <2>3
<1>9. CASE EndRound
  BY <1>2, <1>4, <1>6, <1>7, <1>9, EndRoundKeeps DEF TypeOK
<1>. QED  BY <1>1, <1>8, <1>9

LEMMA SubmitFailsKeeps ==
  ASSUME TypeOK, BanInv, FileInv, ListInv, SubmitFails
  PROVE  RowInv' /\ FileInv' /\ ListInv' /\ RoundTypes'
<1>1. PICK c \in Chunks :
        \/ UNCHANGED <<bans, inserted, late>>
        \/ Insert(c, "any", "monitor") /\ UNCHANGED late
        \/ late' = late \cup {c} /\ UNCHANGED <<bans, inserted>>
  BY DEF SubmitFails
<1>2. /\ UNCHANGED <<clock, operated, sweep, sweepTime, due, fileVars, cursor, counts, cutInPlace>>
      /\ EndRound
  BY DEF SubmitFails
<1>3. c \in SUBSET Ips
  BY ChunksOfCandidates
<1>4. RowInv'
  <2>1. CASE Insert(c, "any", "monitor") /\ UNCHANGED late
    BY <1>2, <1>3, <2>1, SubmittedRows
  <2>2. CASE UNCHANGED <<bans, inserted>> /\ late' \subseteq late \cup {c}
    <3>1. BanTypeOK'
      BY <1>2, <2>2 DEF TypeOK, BanTypeOK
    <3>2. BanInv'
      BY <1>2, <1>3, <2>2 DEF BanInv
    <3>. QED  BY <3>1, <3>2 DEF RowInv
  <2>. QED  BY <1>1, <2>1, <2>2
<1>5. clock \in Nat
  BY Numbers
<1>6. FileInv'
  BY <1>2, <1>5, FileKept
<1>7. inode' = inode
  BY <1>2 DEF fileVars
<1>. QED  BY <1>2, <1>4, <1>6, <1>7, EndRoundKeeps DEF TypeOK

LEMMA LateCommitKeeps ==
  ASSUME TypeOK, BanInv, FileInv, ListInv, NEW c \in late, LateCommit(c)
  PROVE  RowInv' /\ FileInv' /\ ListInv' /\ RoundTypes'
<1>1. /\ UNCHANGED <<clock, operated, sweep, sweepTime, due, fileVars, monitorVars, cutInPlace>>
      /\ late' \subseteq late /\ Insert(c, "any", "monitor") /\ moved' = (phase # "idle")
  BY DEF LateCommit
<1>2. c \in SUBSET Ips
  BY DEF BanInv
<1>3. RowInv'
  BY <1>1, <1>2, SubmittedRows
<1>4. clock \in Nat
  BY Numbers
<1>5. FileInv'
  BY <1>1, <1>4, FileKept DEF monitorVars
<1>6. UNCHANGED <<phase, cursor, page, listed, candidates, inode>>
  BY <1>1 DEF monitorVars, fileVars
<1>7. ListInv'
  BY <1>1, <1>6 DEF ListInv
<1>8. RoundTypes'
  BY <1>6 DEF RoundTypes, TypeOK
<1>. QED  BY <1>3, <1>5, <1>7, <1>8

(* Rounds that end early, and the restart, which begins the file again.    *)
LEMMA GivenUpKeeps ==
  ASSUME TypeOK, BanInv, FileInv, ListInv, ListFails \/ SubmitRejected \/ Restart
  PROVE  RowInv' /\ FileInv' /\ ListInv' /\ RoundTypes'
<1>1. EndRound /\ UNCHANGED <<banVars, fileVars, late, cutInPlace>>
  BY DEF ListFails, SubmitRejected, Restart
<1>2. UNCHANGED <<cursor, counts>> \/ (cursor' = None /\ counts' = EmptyBag)
  BY DEF ListFails, SubmitRejected, Restart
<1>3. inode' = inode /\ clock' = clock /\ clock \in Nat
  BY <1>1, Numbers DEF fileVars, banVars
<1>4. RowInv'
  BY <1>1, RowsKept DEF RowInv, TypeOK
<1>5. ListInv' /\ RoundTypes'
  BY <1>1, <1>2, <1>3, EndRoundKeeps DEF TypeOK
<1>6. FileInv'
  <2>1. CASE UNCHANGED <<cursor, counts>>
    BY <1>1, <1>3, <2>1, FileKept
  <2>2. CASE cursor' = None /\ counts' = EmptyBag
    <3>1. DOMAIN counts' = {}
      BY <2>2 DEF EmptyBag, SetToBag
    <3>. QED  BY <1>1, <2>2, <3>1 DEF FileInv, fileVars
  <2>. QED  BY <1>2, <2>1, <2>2
<1>. QED  BY <1>4, <1>5, <1>6

----------------------------------------------------------------------------
(* Theorems                                                                *)

LEMMA InvInit == Init => Inv
<1>. SUFFICES ASSUME Init PROVE Inv
  OBVIOUS
<1>1. /\ file = <<>> /\ Len(file) = 0 /\ DOMAIN file = {} /\ file \in Seq(Record)
      /\ half = None /\ cursor = None /\ DOMAIN counts = {} /\ bans = {}
  BY DEF Init, BanInit, EmptyBag, SetToBag
<1>2. TypeOK
  <2>1. BanTypeOK
    BY <1>1, BansAssumption DEF Init, BanInit, BanTypeOK
  <2>2. FileTypes
    BY <1>1, BtmpAssumption DEF Init, FileTypes
  <2>3. RoundTypes
    BY <1>1 DEF Init, RoundTypes
  <2>. QED  BY <2>1, <2>2, <2>3, Types
<1>3. BanInv
  BY <1>1, FS_EmptySet DEF Init, BanInit, BanInv
<1>4. FileInv
  BY <1>1 DEF FileInv
<1>5. ListInv
  BY DEF Init, ListInv
<1>. QED  BY <1>2, <1>3, <1>4, <1>5 DEF Inv

LEMMA InvStep == Inv /\ [Next]_vars => Inv'
<1>. SUFFICES ASSUME TypeOK, BanInv, FileInv, ListInv, [Next]_vars
              PROVE  RowInv' /\ FileTypes' /\ RoundTypes' /\ FileInv' /\ ListInv'
  <2>1. TypeOK' <=> BanTypeOK' /\ FileTypes' /\ RoundTypes'
    BY DEF TypeOK, FileTypes, RoundTypes
  <2>. QED  BY <2>1 DEF Inv, RowInv
<1>1. FileTypes /\ RoundTypes /\ RowInv
  BY Types DEF RowInv
<1>2. UNCHANGED fileVars => FileTypes'
  BY <1>1 DEF FileTypes, fileVars
<1>3. UNCHANGED <<monitorVars, inode>> => RoundTypes'
  BY <1>1 DEF RoundTypes, monitorVars
<1>4. ASSUME UNCHANGED <<banVars, late, monitorVars, moved>>
      PROVE  RowInv' /\ ListInv'
  <2>1. Active' = Active /\ \A b : Rank(b)' = Rank(b)
    BY <1>4 DEF Active, Rank, banVars
  <2>2. ListInv'
    BY <1>4, <2>1 DEF ListInv, monitorVars
  <2>. QED  BY <1>1, <1>4, <2>2, RowsKept
<1>5. clock \in Nat
  BY Numbers
<1>6. ASSUME UNCHANGED vars
      PROVE  RowInv' /\ FileTypes' /\ RoundTypes' /\ FileInv' /\ ListInv'
  BY <1>2, <1>3, <1>4, <1>5, <1>6, FileKept DEF vars, fileVars, banVars, monitorVars
<1>7. ASSUME NEW ip \in Ips, FailedLogin(ip)
      PROVE  RowInv' /\ FileTypes' /\ RoundTypes' /\ FileInv' /\ ListInv'
  BY <1>3, <1>4, <1>7, FailedLoginKeeps DEF FailedLogin
<1>8. ASSUME WriteRest
      PROVE  RowInv' /\ FileTypes' /\ RoundTypes' /\ FileInv' /\ ListInv'
  BY <1>3, <1>4, <1>8, WriteRestKeeps DEF WriteRest
<1>9. ASSUME Rotate
      PROVE  RowInv' /\ FileTypes' /\ RoundTypes' /\ FileInv' /\ ListInv'
  BY <1>4, <1>9, RotateKeeps DEF Rotate
<1>10. ASSUME Poll
       PROVE  RowInv' /\ FileTypes' /\ RoundTypes' /\ FileInv' /\ ListInv'
  <2>1. UNCHANGED <<banVars, fileVars, late>>
    BY <1>10 DEF Poll
  <2>. QED  BY <1>1, <1>2, <1>10, <2>1, PollKeeps, PollRound, RowsKept
<1>11. ASSUME ListPage
       PROVE  RowInv' /\ FileTypes' /\ RoundTypes' /\ FileInv' /\ ListInv'
  <2>1. UNCHANGED <<banVars, fileVars, cursor, counts, late, cutInPlace>> /\ clock' = clock
    BY <1>11 DEF ListPage, banVars
  <2>. QED  BY <1>1, <1>2, <1>5, <1>11, <2>1, FileKept, ListPageKeeps, RowsKept
<1>12. ASSUME \/ ListFails \/ SubmitChunk \/ SubmitRejected \/ SubmitFails \/ Restart
              \/ \E c \in late : LateCommit(c)
       PROVE  RowInv' /\ FileTypes' /\ RoundTypes' /\ FileInv' /\ ListInv'
  <2>1. UNCHANGED fileVars
    BY <1>12 DEF ListFails, SubmitChunk, SubmitRejected, SubmitFails, Restart, LateCommit
  <2>. QED  BY <1>2, <1>12, <2>1, GivenUpKeeps, SubmitChunkKeeps, SubmitFailsKeeps, LateCommitKeeps
<1>13. ASSUME ControlPlane
       PROVE  RowInv' /\ FileTypes' /\ RoundTypes' /\ FileInv' /\ ListInv'
  <2>1. UNCHANGED fileVars /\ UNCHANGED <<monitorVars, inode>>
    BY <1>13 DEF ControlPlane, fileVars
  <2>. QED  BY <1>2, <1>3, <1>13, <2>1, ControlPlaneKeeps
<1>. QED  BY <1>6, <1>7, <1>8, <1>9, <1>10, <1>11, <1>12, <1>13 DEF Next

(* The types, and what is counted and listed at every point of a round.    *)
THEOREM InvHolds == Spec => []Inv
BY InvInit, InvStep, PTL DEF Spec

(* Every failure that the file holds is counted once while it is in the    *)
(* window, whatever rotations, restarts and half records there were, for   *)
(* any number of them (read_attempts, merge_attempts).                     *)
THEOREM FailuresAreCounted == Spec => []FileIsCounted
<1>1. Inv => FileIsCounted
  <2>. SUFFICES ASSUME FileInv, ListInv PROVE FileIsCounted
    BY DEF Inv
  <2>1. \A i \in DOMAIN file : file[i].at >= Cutoff <=> InWindow(file[i])
    BY DEF InWindow
  <2>. QED  BY <2>1 DEF FileInv, ListInv, FileIsCounted
<1>. QED  BY <1>1, InvHolds, PTL

(* Clean-up never takes a ban that is still in force: the time it compares *)
(* with is not after the clock (cleanup_expired_temp_bans).                *)
THEOREM OnlyTheOperatorLifts == Spec => BansKept
<1> DEFINE Step == \/ \E rows \in SUBSET bans : OperatorDelete(rows)
                   \/ \A b \in bans : b \in bans' \/ b.expires <= clock
<1>1. Inv /\ [Next]_vars => [Step]_banVars
  <2>. SUFFICES ASSUME TypeOK, BanInv, [Next]_vars, ~UNCHANGED banVars PROVE Step
    BY DEF Inv
  <2>1. CASE BanNext
    <3>1. ASSUME NEW s \in Streams, SweepDeletes(s) PROVE Step
      <4>1. clock \in Nat /\ sweepTime \in Nat /\ sweepTime <= clock
        BY Numbers DEF BanInv
      <4>2. \A b \in bans : b.expires \in Nat
        BY BansAssumption DEF TypeOK, BanTypeOK
      <4>. QED  BY <3>1, <4>1, <4>2 DEF SweepDeletes, Expired
    <3>2. ASSUME NEW ip \in Ips, NEW scope \in Scopes, OperatorCreate(ip, scope) PROVE Step
      BY <3>2 DEF OperatorCreate, Insert
    <3>. QED  BY <2>1, <3>1, <3>2 DEF BanNext, SweepStart, SweepFails, IntervalPasses, Tick
  <2>2. CASE \/ SubmitChunk \/ SubmitFails \/ \E c \in late : LateCommit(c)
    BY <2>2 DEF SubmitChunk, SubmitFails, LateCommit, Insert
  <2>. QED  BY <2>1, <2>2 DEF Next, vars, banVars, FailedLogin, WriteRest, Rotate, Poll, ListPage,
               ListFails, SubmitRejected, Restart, ControlPlane
<1>. QED  BY <1>1, InvHolds, PTL DEF Spec, BansKept

(* An address whose ban by the monitor is in force is not banned again by  *)
(* it, however the rows are spread over pages and rounds, unless a row     *)
(* went while they were listed or a request took effect late               *)
(* (list_temp_ban_cidrs, run_once).                                        *)
THEOREM NobodyIsBannedTwice == Spec => NoSecondBan
<1> DEFINE Step == phase = "submit" /\ ~moved /\ late \subseteq late' =>
                     \A b \in bans' \ bans : b.by = "monitor" =>
                       \A c \in Active : c.by = "monitor" => c.ip # b.ip
<1>1. Inv /\ [Next]_vars => [Step]_vars
  <2>. SUFFICES ASSUME TypeOK, BanInv, ListInv, Next, phase = "submit", ~moved, late \subseteq late',
                       NEW b \in bans' \ bans, b.by = "monitor",
                       NEW c \in Active, c.by = "monitor"
                PROVE  c.ip # b.ip
    BY DEF Inv
  <2>1. c.ip \notin candidates
    BY DEF ListInv
  <2>2. CASE SubmitChunk \/ SubmitFails
    <3>1. PICK x \in Chunks : Insert(x, "any", "monitor")
      BY <2>2 DEF SubmitChunk, SubmitFails
    <3>2. x \subseteq candidates /\ b.ip \in x
      BY <3>1, ChunksOfCandidates, InsertAdds
    <3>. QED  BY <2>1, <3>2
  <2>3. CASE ControlPlane
    BY <2>3, ControlPlaneRows DEF ControlPlane
  <2>4. ~ \E x \in late : LateCommit(x)
    BY DEF LateCommit
  <2>. QED  BY <2>2, <2>3, <2>4 DEF Next, banVars, FailedLogin, WriteRest, Rotate, Poll, ListPage,
               ListFails, SubmitRejected, Restart
<1>. QED  BY <1>1, InvHolds, PTL DEF Spec, NoSecondBan
=============================================================================
