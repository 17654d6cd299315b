\* Two feeds, of which one provider may stay down.
SPECIFICATION FairFeedSpec
CONSTANTS
  None = None
  l1 = l1
  m1 = m1
  j1 = j1
  c1 = c1
  c2 = c2
  n1 = n1
  n2 = n2
  u1 = u1
  u2 = u2
  Names = {n1, n2}
  Urls = {u1, u2}
  Unreliable = {u1}
  MaxRevision = 1
  Loops = {l1}
  Manuals = {}
  Jobs = {j1}
  Runs = {l1, j1}
  Clients = {}
  MaxAttempts = 1
  MaxIds = 2
  VersionModulus = 2
PROPERTIES NewFeedIsMaterialized
CHECK_DEADLOCK FALSE
