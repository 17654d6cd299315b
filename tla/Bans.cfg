\* An offender and a node's own address; every request is a page or a chunk of one row.
SPECIFICATION FairSpec
CONSTANTS
  None = None
  a = a
  n = n
  s1 = s1
  Ips = {a, n}
  NodeIps = {n}
  TrustedIps = {}
  Scopes = {"tcp"}
  Streams = {s1}
  Duration = 1
  MaxTime = 2
  MaxBans = 4
  MaxOperator = 1
  Threshold = 1
  Window = 1
  PageSize = 1
  ChunkSize = 1
  MaxRecords = 2
  MaxTroubles = 1
INVARIANTS FileIsCounted
PROPERTIES BansKept NoSecondBan ExpiredRemoved OffenderBanned
CHECK_DEADLOCK FALSE
