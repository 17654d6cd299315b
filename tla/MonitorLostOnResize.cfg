\* One policy that makes the agent recreate its maps.
SPECIFICATION FairSpec
CONSTANTS
  v1 = v1
  v2 = v2
  Viewers <- MCViewers
  QueueCap = 8
  MaxVisits = 1
  MaxVersion = 2
  MaxFaults = 0
  MaxApplyFaults = 0
  MaxSwitchFaults = 0
  MaxResizes = 1
  MaxRestarts = 0
  MaxCli = 0
PROPERTIES MonitorStarts
CHECK_DEADLOCK FALSE
