SPECIFICATION Spec
CONSTANTS
  near = near
  far = far
  tools = tools
  lister = lister
  caller = caller
  Servers = {near, far}
  Calls <- MCCalls
  Inventories = {tools}
  Wanted <- MCWanted
  Pages <- MCPages
INVARIANTS TransportOrderly
PROPERTIES SilentOnceClosed OneAnswerEach EveryCallReturns 
CHECK_DEADLOCK FALSE
