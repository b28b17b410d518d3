SPECIFICATION Spec
CONSTANTS
  MaxId = 5
  Shapes <- MCShapes
  Tails <- MCTails
  Budgets = {0, 1}
  Reasons = {"a", "b"}
  MaxReplans = 1
  MaxCycles = 2
  MaxLaunches = 2
INVARIANTS CompletedMeansDone
CHECK_DEADLOCK FALSE
