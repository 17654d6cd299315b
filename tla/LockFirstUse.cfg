\* Two runs race for the lock whose row nobody has inserted yet.
SPECIFICATION LockSpec
CONSTANTS
  r1 = r1
  r2 = r2
  Runs = {r1, r2}
  Stamps = {1, 2, 3, 4}
  LockRowSeeded = FALSE
  SlowRefresh = FALSE
INVARIANTS OneRefresh
CHECK_DEADLOCK FALSE
