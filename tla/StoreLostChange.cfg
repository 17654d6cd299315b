\* PostgreSQL, MySQL: transactions overlap.
SPECIFICATION StoreSpec
CONSTANTS
  rules = rules
  bans = bans
  Parts <- MCParts
  ChangeSets <- MCChangeSets
  Writers = {w1, w2}
  TxnOverlap = TRUE
  BumpOverlap = FALSE
  MaxRevision = 4
PROPERTIES EveryChangeIncrementsVersion
CHECK_DEADLOCK FALSE
