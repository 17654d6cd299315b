\* Both strategies; one failure or crash, one act of someone else.
SPECIFICATION FairSpec
CONSTANTS
  Strategies = {"direct", "dispatcher"}
  Policies = {1, 3, 5}
  InitCap = 1
  MaxCap = 4
  MaxSets = 5
  MaxFaults = 1
  MaxOps = 1
INVARIANTS LiveMaps RoomForWrites
PROPERTIES ForeignKept GrowthIsEnforced
CHECK_DEADLOCK FALSE
