\* The documented order of rules, without the classes of protocol and port.
SPECIFICATION Spec
CONSTANTS
  None = None
  W = 2
  Families = {4, 6}
  Local <- MCLocal
  Candidates <- MCCandidates
  MaxRows = 2
  Packets <- MCPackets
  MaxTime = 0
INVARIANTS LongestPrefixFirst
CHECK_DEADLOCK FALSE
