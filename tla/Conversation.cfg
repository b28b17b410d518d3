SPECIFICATION Spec
CONSTANTS
  MaxMessages = 6
  MaxRestarts = 1
  Available = 4
  ResultSizes = {1, 5}
  ProtectRecent = 2
  MarkerCap = 2
INVARIANTS RequestIsSaved NewestReachesProvider SessionComplete
CHECK_DEADLOCK FALSE
