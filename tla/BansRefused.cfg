\* Bans alone, all of which leave the interface's address out.
SPECIFICATION Spec
CONSTANTS
  None = None
  W = 2
  Families = {4}
  Local <- MCLocal
  Candidates <- MCBans
  MaxRows = 2
  Packets <- MCPackets
  MaxTime = 1
INVARIANTS EveryBanEnforced
CHECK_DEADLOCK FALSE
