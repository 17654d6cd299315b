\* Two viewers and policy changes, but no connection is lost.
SPECIFICATION FairSpec
CONSTANTS
  v1 = v1
  v2 = v2
  Viewers <- MCViewers
  QueueCap = 8
  MaxVisits = 2
  MaxVersion = 2
  MaxFaults = 0
  MaxApplyFaults = 0
  MaxSwitchFaults = 1
  MaxResizes = 1
  MaxRestarts = 0
  MaxCli = 1
PROPERTIES MonitorStops
CHECK_DEADLOCK FALSE
