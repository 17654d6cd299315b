\* What fits next to what the maps hold is applied in the end.
SPECIFICATION FairApplySpec
CONSTANTS
  Keys <- MCKeys
  Policies <- MCPolicies
  Empty <- MCEmpty
  Capacity <- MCTight
  Sources <- MCSources
  Matching <- MCMatching
  MaxChanges = 3
  MaxFaults = 2
PROPERTIES FittingPolicySettles
CHECK_DEADLOCK FALSE
