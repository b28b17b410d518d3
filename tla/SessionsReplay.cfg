SPECIFICATION SsSpec
CONSTANTS
  SsMaxWrites = 3
  SsMaxPlans = 1
  SsMaxCrashes = 0
  SsPause = 3
  SsListItems = 1
INVARIANT ReplayInOrder
CHECK_DEADLOCK FALSE
