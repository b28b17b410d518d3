SPECIFICATION Spec
CONSTANTS
  Tools = {read, edit}
  SafeTools = {read}
  Inputs = {i1}
  MaxTurns = 2
  MaxCalls = 2
  MaxAnswer = 2
  MaxConcurrency = 2
  MaxDuplicates = 2
  HistoryLimit = 12
PROPERTY PromptsTimeOut
CHECK_DEADLOCK FALSE
