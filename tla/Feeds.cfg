\* A source that is created, switched, deleted and created again; a loop, a manual and a queued
\* refresh; everything may fail for a while.
SPECIFICATION FairFeedSpec
CONSTANTS
  None = None
  l1 = l1
  m1 = m1
  j1 = j1
  c1 = c1
  c2 = c2
  n1 = n1
  n2 = n2
  u1 = u1
  u2 = u2
  Names = {n1}
  Urls = {u1}
  Unreliable = {u1}
  MaxRevision = 2
  Loops = {l1}
  Manuals = {m1}
  Jobs = {j1}
  Runs = {l1, m1, j1}
  Clients = {c1}
  MaxAttempts = 1
  MaxIds = 2
  VersionModulus = 2
INVARIANTS FingerprintMatches
PROPERTIES FeedsConverge PrefixesNeverOlder EffectiveChangeBumps
CHECK_DEADLOCK FALSE
