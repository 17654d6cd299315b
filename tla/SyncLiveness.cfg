\* One table, one page, runtime CIDRs; one lost connection and one failed apply.
SPECIFICATION FairSpec
CONSTANTS
  rules = rules
  bans = bans
  geo1 = geo1
  Parts <- MCParts11
  ChangeSets <- MCChangeSets11
  LoadOrder <- MCLoadOrder1
  PageOrder <- MCPageOrder1
  Writers = {w1}
  TxnOverlap = FALSE
  BumpOverlap = FALSE
  MaxRevision = 3
  QueueCap = 1
  RuntimeCidrs = TRUE
  UnloadRules = TRUE
  FailureLimit = 2
  MaxRuntime = 1
  MaxFaults = 1
  MaxApplyFaults = 1
  MaxRestarts = 0
PROPERTIES EventuallyInSync
CHECK_DEADLOCK FALSE
