---------------------------- MODULE BtmpMonitor ----------------------------
(***************************************************************************)
(* The btmp monitor and what it talks to.  A daemon polls the file of      *)
(* failed logins, counts the failures of every address inside a window,    *)
(* lists the bans in force page by page, and submits the addresses at or   *)
(* above the threshold in chunks (src/tools/btmp-monitor).  The file may   *)
(* be rotated or truncated, requests may fail before or after they took    *)
(* effect or take effect after the client has given up, the process may    *)
(* be restarted.                                                           *)
(*                                                                         *)
(* A record is one failure; its number says which.  Half a record at the   *)
(* end of the file is not a record yet.                                    *)
(***************************************************************************)
EXTENDS TempBans

CONSTANTS
  TrustedIps,       \* addresses in --trusted-cidr
  Threshold, Window,
  PageSize,         \* rows of a page of GET /temp-bans
  ChunkSize,        \* items of a POST /temp-bans/batch
  MaxRecords,       \* bound: failures written
  MaxTroubles       \* bound: troubles (below) and calls of the operator together

VARIABLES
  file,             \* complete records of the file
  half,             \* a record of which only a part is written, or None
  inode,            \* of the file
  written,          \* records ever begun
  phase,            \* of a round: idle, list or submit
  cursor,           \* where the next read starts, None at first
  counts,           \* failures in the window, a bag: one read twice counts twice
  listed, page,     \* addresses banned as far as listed, the page to ask for
  candidates,       \* addresses not submitted yet in this round
  late,             \* chunks the client has given up that may still take effect
  troubles,         \* rotations, failed requests and restarts so far
  cutInPlace,       \* the file was cut to nothing and kept its inode
  moved             \* a ban went or expired while it was being listed

\* One failure; where the next read of the file starts.
Record == [n : Nat, ip : Ips, at : Nat]
ReadCursor == [inode : Nat, offset : Nat]

ASSUME BtmpAssumption ==
  /\ PageSize \in Nat \ {0}
  /\ {Window, MaxRecords, MaxTroubles} \subseteq Nat
  /\ None \notin Record /\ None \notin ReadCursor

fileVars == <<file, half, inode, written>>
monitorVars == <<phase, cursor, counts, listed, page, candidates>>
vars == <<banVars, fileVars, monitorVars, late, troubles, cutInPlace, moved>>

Init ==
  /\ BanInit
  /\ file = <<>> /\ half = None /\ inode = 1 /\ written = 0
  /\ phase = "idle" /\ cursor = None /\ counts = EmptyBag /\ listed = {} /\ page = 1
  /\ candidates = {} /\ late = {} /\ troubles = 0 /\ cutInPlace = FALSE /\ moved = FALSE

----------------------------------------------------------------------------
(* The file                                                                *)

FailedLogin(ip) ==
  /\ half = None /\ written < MaxRecords
  /\ written' = written + 1
  /\ LET record == [n |-> written + 1, ip |-> ip, at |-> clock]
     IN  \/ file' = Append(file, record) /\ UNCHANGED half
         \/ half' = record /\ UNCHANGED file
  /\ UNCHANGED <<banVars, inode, monitorVars, late, troubles, cutInPlace, moved>>

WriteRest ==
  /\ half # None
  /\ file' = Append(file, half) /\ half' = None
  /\ UNCHANGED <<banVars, inode, written, monitorVars, late, troubles, cutInPlace, moved>>

\* logrotate: a new file, or the same one cut to nothing.
Rotate ==
  /\ operated + troubles < MaxTroubles /\ half = None
  /\ file' = <<>> /\ inode' \in {inode, inode + 1}
  /\ troubles' = troubles + 1 /\ cutInPlace' = (cutInPlace \/ inode' = inode)
  /\ UNCHANGED <<banVars, half, written, monitorVars, late, moved>>

----------------------------------------------------------------------------
(* A round                                                                 *)

Cutoff == clock - Window

\* From the offset if it is the same file and not shorter, else from the start.
Start ==
  IF cursor # None /\ cursor.inode = inode /\ cursor.offset <= Len(file)
  THEN cursor.offset ELSE 0

InWindow(r) == r.at >= Cutoff

(* What is read is added, then what has left the window goes.  The order   *)
(* of the failures does not matter, they need not be in that of time.      *)
Merged == RestrictDomain(counts (+) SetToBag({file[i] : i \in (Start + 1)..Len(file)}), InWindow)

\* The round is over, its lists are dropped.
EndRound ==
  phase' = "idle" /\ listed' = {} /\ page' = 1 /\ candidates' = {} /\ moved' = FALSE

\* The half record at the end is taken as read.
PollPastHalf ==
  /\ phase = "idle"
  /\ counts' = Merged
  /\ cursor' = [inode |-> inode, offset |-> Len(file) + (IF half = None THEN 0 ELSE 1)]
  /\ phase' = "list"
  /\ UNCHANGED <<banVars, fileVars, listed, page, candidates, late, troubles, cutInPlace, moved>>

\* The monitor stops at its first failed request.
PollUntilFault ==
  /\ phase = "idle" /\ troubles = 0
  /\ counts' = Merged
  /\ cursor' = [inode |-> inode, offset |-> Len(file)]
  /\ phase' = "list"
  /\ UNCHANGED <<banVars, fileVars, listed, page, candidates, late, troubles, cutInPlace, moved>>

\* The cursor moves and the counts are merged before anything can fail.
Poll ==
  /\ phase = "idle"
  /\ counts' = Merged
  /\ cursor' = [inode |-> inode, offset |-> Len(file)]
  /\ phase' = "list"
  /\ UNCHANGED <<banVars, fileVars, listed, page, candidates, late, troubles, cutInPlace, moved>>

Count(ip) == BagCardinality(RestrictDomain(counts, LAMBDA r : r.ip = ip))
AtThreshold == {ip \in Ips \ TrustedIps : Count(ip) >= Threshold}

\* Bans in force ordered by expiry; the database may order equal ones as it likes.
ByExpiry(b, c) == b.expires < c.expires \/ (b.expires = c.expires /\ b.id < c.id)
Rank(b) == Cardinality({c \in Active : ByExpiry(c, b)})
Page(n) == {b.ip : b \in {c \in Active : Rank(c) \div PageSize = n - 1}}
LastPage == (Cardinality(Active) + PageSize - 1) \div PageSize

ListPage ==
  /\ phase = "list"
  /\ LET all == listed \cup Page(page)
     IN  \/ /\ page < LastPage
            /\ page' = page + 1 /\ listed' = all
            /\ UNCHANGED <<phase, candidates, moved>>
         \/ /\ page >= LastPage /\ AtThreshold \ all # {}
            /\ listed' = all /\ candidates' = AtThreshold \ all /\ phase' = "submit"
            /\ UNCHANGED <<page, moved>>
         \/ page >= LastPage /\ AtThreshold \subseteq all /\ EndRound
  /\ UNCHANGED <<banVars, fileVars, cursor, counts, late, troubles, cutInPlace>>

\* A failed list counts as an empty one.
ListFailsOpen ==
  /\ phase = "list" /\ operated + troubles < MaxTroubles
  /\ troubles' = troubles + 1
  /\ \/ AtThreshold # {} /\ candidates' = AtThreshold /\ phase' = "submit" /\ UNCHANGED <<listed, page, moved>>
     \/ AtThreshold = {} /\ EndRound
  /\ UNCHANGED <<banVars, fileVars, cursor, counts, late, cutInPlace>>

\* Without the list nothing is submitted in this round.
ListFails ==
  /\ phase = "list" /\ operated + troubles < MaxTroubles
  /\ troubles' = troubles + 1 /\ EndRound
  /\ UNCHANGED <<banVars, fileVars, cursor, counts, late, cutInPlace>>

(* The next chunk: the addresses with the most failures first, in any      *)
(* order among equals.                                                     *)
Chunks ==
  {c \in SUBSET candidates :
     /\ Cardinality(c) = (IF Cardinality(candidates) < ChunkSize
                          THEN Cardinality(candidates) ELSE ChunkSize)
     /\ \A a \in c, b \in candidates \ c : Count(a) >= Count(b)}

SubmitChunk ==
  /\ phase = "submit"
  /\ \E c \in Chunks :
       /\ Insert(c, "any", "monitor")
       /\ \/ c # candidates /\ candidates' = candidates \ c /\ UNCHANGED <<phase, listed, page, moved>>
          \/ c = candidates /\ EndRound
  /\ UNCHANGED <<clock, operated, sweep, sweepTime, due, fileVars, cursor, counts, late, troubles, cutInPlace>>

\* The API refuses the chunk: the round ends, later chunks are not tried.
SubmitRejected ==
  /\ phase = "submit"
  /\ \E c \in Chunks : Rejected(c)
  /\ EndRound
  /\ UNCHANGED <<banVars, fileVars, cursor, counts, late, troubles, cutInPlace>>

(* The request fails: without effect, with the reply lost, or with the     *)
(* effect still to come when the client has given up.                      *)
SubmitFails ==
  /\ phase = "submit" /\ operated + troubles < MaxTroubles
  /\ troubles' = troubles + 1 /\ EndRound
  /\ \E c \in Chunks :
       \/ UNCHANGED <<bans, inserted, late>>
       \/ Insert(c, "any", "monitor") /\ UNCHANGED late
       \/ ~Rejected(c) /\ late' = late \cup {c} /\ UNCHANGED <<bans, inserted>>
  /\ UNCHANGED <<clock, operated, sweep, sweepTime, due, fileVars, cursor, counts, cutInPlace>>

LateCommit(c) ==
  /\ late' = late \ {c}
  /\ Insert(c, "any", "monitor")
  /\ moved' = (phase # "idle")
  /\ UNCHANGED <<clock, operated, sweep, sweepTime, due, fileVars, monitorVars, troubles, cutInPlace>>

\* The daemon, or the next --once, starts with nothing but the file.
Restart ==
  /\ operated + troubles < MaxTroubles
  /\ troubles' = troubles + 1
  /\ cursor' = None /\ counts' = EmptyBag /\ EndRound
  /\ UNCHANGED <<banVars, fileVars, late, cutInPlace>>

\* The control plane goes on; a row that goes meanwhile shifts the pages.
ControlPlane ==
  /\ BanNext /\ operated' + troubles <= MaxTroubles
  /\ moved' = (moved \/ (phase = "list" /\ ~(Active \subseteq Active')))
  /\ UNCHANGED <<fileVars, monitorVars, late, troubles, cutInPlace>>

Next ==
  \/ \E ip \in Ips : FailedLogin(ip)
  \/ WriteRest \/ Rotate
  \/ Poll \/ ListPage \/ ListFails \/ SubmitChunk \/ SubmitRejected \/ SubmitFails
  \/ \E c \in late : LateCommit(c)
  \/ Restart
  \/ ControlPlane

Spec == Init /\ [][Next]_vars

\* The daemon polls again after every interval, failed or not.
Fairness ==
  /\ BanFairness
  /\ WF_vars(Poll) /\ WF_vars(ListPage) /\ WF_vars(SubmitChunk)

FairSpec == Spec /\ Fairness

----------------------------------------------------------------------------
(* Properties                                                              *)

TypeOK ==
  /\ BanTypeOK
  /\ file \in Seq(Record) /\ half \in Record \cup {None} /\ inode \in Nat
  /\ written \in 0..MaxRecords /\ Len(file) <= written
  /\ phase \in {"idle", "list", "submit"}
  /\ cursor \in ReadCursor \cup {None} /\ (cursor # None => cursor.inode <= inode)
  /\ candidates \subseteq Ips \ (TrustedIps \cup listed)
  /\ (phase = "submit") <=> candidates # {}

(* After a poll every failure that the file holds and that is still in the *)
(* window is counted, and none twice, however often the file is read again *)
(* after restarts and rotations, or while its last record is half written; *)
(* only a file that was cut in place and has grown past the old offset is  *)
(* read from the middle (read_attempts, "Rotation detection").             *)
FileIsCounted ==
  /\ \A r \in DOMAIN counts : counts[r] = 1
  /\ phase = "list" /\ ~cutInPlace =>
       \A i \in DOMAIN file :
         file[i].at >= Cutoff /\ i <= cursor.offset /\ cursor.inode = inode =>
           file[i] \in DOMAIN counts

(* The monitor never bans an address that it has banned already and whose  *)
(* ban is in force, unless a row went while the pages were listed, or a    *)
(* request that it had given up took effect after the list (README of      *)
(* btmp-monitor: unexpired addresses are not submitted again).             *)
NoSecondBan ==
  [][phase = "submit" /\ ~moved /\ late \subseteq late' =>
       \A b \in bans' \ bans : b.by = "monitor" =>
         \A c \in Active : c.by = "monitor" => c.ip # b.ip]_vars

Banned(ip) == \E b \in Active : b.ip = ip
NodesQuiet == \A ip \in NodeIps \ TrustedIps : Count(ip) < Threshold

(* An address at the threshold is banned sooner or later, unless its       *)
(* failures leave the window first: rounds that fail on a list or in the   *)
(* middle of the chunks are made good by the next.  A node's own address   *)
(* at the threshold makes the API refuse its chunk every time, and the     *)
(* chunks after it are never sent; that case is left out here.             *)
OffenderBanned ==
  \A ip \in Ips \ (TrustedIps \cup NodeIps) :
    (Count(ip) >= Threshold /\ NodesQuiet)
      ~> (Banned(ip) \/ Count(ip) < Threshold \/ ~NodesQuiet)

=============================================================================
