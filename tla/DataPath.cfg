\* Packets under every policy of up to three rows; writes over maps of full size;
\* a flood limiter's bucket and a plain one on two CPUs.
SPECIFICATION DataPathSpec
CONSTANTS
  None = None
  W = 2
  Families = {4, 6}
  Local <- MCLocal
  Candidates <- MCCandidates
  MaxRows = 3
  Packets <- MCPackets
  MaxTime = 2

  Keys <- MCKeys
  Policies <- MCPolicies
  Empty <- MCEmpty
  Capacity <- MCTight
  Sources <- MCSources
  Matching <- MCMatching
  MaxChanges = 3
  MaxFaults = 2

  NoElement = NoElement
  Cpus = {c1, c2}
  Burst = 1
  Rate = 1
  Second = 2
  Blocks = {0, 2}
  Modulus = 64
  MaxTicks = 4
  MaxPackets = 4
  MaxEvictions = 1
INVARIANTS
  TrustedPasses BansEnforced LocalNotDenied BestRuleDecides
  AgreedThroughout OnlyRecentEntries AppliedIsHeld
  RateBounded NotStarved BlockHolds
CHECK_DEADLOCK FALSE
