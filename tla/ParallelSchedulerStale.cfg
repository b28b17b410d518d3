SPECIFICATION Safety
CONSTANTS
  MaxTasks = 3
  MaxParallel = 2
  MaxRetained = 1
  MaxProgress = 0
  Waiters = {w1}
INVARIANT CompletionIsTerminal
CHECK_DEADLOCK FALSE
