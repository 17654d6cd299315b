\* Two tables, one page; races, connection faults, failed applies, restarts; the first failure unloads.
SPECIFICATION Spec
CONSTANTS
  rules = rules
  bans = bans
  geo1 = geo1
  Parts <- MCParts21
  ChangeSets <- MCChangeSets21
  LoadOrder <- MCLoadOrder2
  PageOrder <- MCPageOrder1
  Writers = {w1, w2}
  TxnOverlap = FALSE
  BumpOverlap = FALSE
  MaxRevision = 3
  QueueCap = 2
  RuntimeCidrs = FALSE
  UnloadRules = TRUE
  FailureLimit = 1
  MaxRuntime = 0
  MaxFaults = 1
  MaxApplyFaults = 1
  MaxRestarts = 1
INVARIANTS InSync PartialIsRetried
PROPERTIES ImplementsDelivery UnloadedAtLimit
CHECK_DEADLOCK FALSE
