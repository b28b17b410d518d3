SPECIFICATION Spec
CONSTANTS
  Tools = {read, edit}
  SafeTools = {read}
  Inputs = {i1}
  MaxTurns = 2
  MaxCalls = 4
  MaxAnswer = 3
  MaxConcurrency = 2
  MaxDuplicates = 2
  HistoryLimit = 12
INVARIANTS EveryCallAnswered EffectsOrderly
PROPERTIES NoRequestAfterAbort EndsUnlessUserAway
CHECK_DEADLOCK FALSE
