\* Two viewers over a channel that overflows; a lost connection, a failed apply, a restart.
SPECIFICATION FairSpec
CONSTANTS
  v1 = v1
  v2 = v2
  Viewers <- MCViewers
  QueueCap = 2
  MaxVisits = 2
  MaxVersion = 2
  MaxFaults = 1
  MaxApplyFaults = 1
  MaxSwitchFaults = 0
  MaxResizes = 0
  MaxRestarts = 1
  MaxCli = 0
INVARIANTS NoLostChange
PROPERTIES MonitorStarts
CHECK_DEADLOCK FALSE
