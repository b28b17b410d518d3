SPECIFICATION Spec
CONSTANTS
  MaxMessages = 6
  MaxRestarts = 1
  Available = 4
  ResultSizes = {1, 5}
  ProtectRecent = 2
  MarkerCap = 2
INVARIANT PairsDropTogether
CHECK_DEADLOCK FALSE
