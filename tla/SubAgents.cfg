SPECIFICATION Spec
CONSTANTS
  a = a
  b = b
  c = c
  d = d
  e = e
  f = f
  root = root
  Root = root
  Agents = {a, b, c, d, e, f}
  Requests <- MCRequests
  Pipelines = {a}
  Timed = {a, b, c, d, e, f}
  BatchTimed = {root}
  MaxConcurrent = 2
INVARIANTS AnswersTell NoOrphans
PROPERTIES AbortReturns
CHECK_DEADLOCK FALSE
