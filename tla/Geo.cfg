\* One control plane, whose loop and API refresh one list; everything may fail or die.
SPECIFICATION FairGeoSpec
CONSTANTS
  p1 = p1
  c1 = c1
  Planes = {p1}
  Runs <- MCRuns1
  Codes <- MCCodes1
  EnabledCodes = {c1}
  PageSize = 1
  MaxRevision = 2
  Stamps = {1, 2, 3}
  LockRowSeeded = TRUE
  SlowRefresh = FALSE
INVARIANTS OneRefresh EtagIsOfTheList LookupFollows
PROPERTIES ImplementsLease ListsMoveForward ListsConverge
CHECK_DEADLOCK FALSE
