\* After a resize that failed, a policy that fits again.
SPECIFICATION Spec
CONSTANTS
  Strategies = {"dispatcher"}
  Policies = {1, 3}
  InitCap = 1
  MaxCap = 4
  MaxSets = 4
  MaxFaults = 1
  MaxOps = 0
INVARIANTS AppliedIsEnforced
CHECK_DEADLOCK FALSE
