SPECIFICATION Spec
CONSTANTS
  MaxTasks = 3
  MaxParallel = 2
  MaxRetained = 1
  MaxProgress = 1
  Waiters = {w1}
INVARIANTS TypeOK SlotBound NoIdleSlot LiveTaskStoppable RetentionExact CompletionAgrees
PROPERTIES TerminalFrozen EveryCompletionSettles EveryWaiterReleased
CHECK_DEADLOCK FALSE
