SPECIFICATION Spec
CONSTANTS
  memoryA = memoryA
  memoryB = memoryB
  fileX = fileX
  x = x
  MemNames = {memoryA, memoryB}
  MemAlso <- MCAlso
  MemSessions = {s1}
  MemRevisions = 2
  MemMaxFaults = 1
  MemThreshold = 1
  MemLimit = 1
  LinkProcs = {p, q}
  LinkFiles = {fileX}
  LinkEntities = {x, y}
  LinkNamed <- MCNamed
  LinkMaxHops = 2
  LinkWaits = TRUE
  LinkEdits = 1
  LinkCrashes = 1
  RecIncidents = {i, j}
  RecDecisions = {d}
  RecRunbooks = {r, s}
  RecPatterns = {pt}
  RecTools = {t}
  RecThreshold = 2
  RecMaxFaults = 1
  CmdMaxCommands = 2
  CmdMaxAttempts = 3
  RemMaxTasks = 2
  RemEndpoints = 2
  RemConcurrent = 2
  RemMaxRetries = 1
  PermMaxTokens = 4
  PermMaxRules = 2
  PxMaxEvents = 4
  PxMaxBlocks = 3
  PxMaxItems = 3
  PxConcurrent = 2
  PxRefreshes = 2
  TxtMaxContent = 3
  TxtMaxPiece = 2
  TxtMaxLines = 4
  FcFiles = {fa, fb}
  FcThere = {fa}
  FcReaders = {r1}
  FcCacheSize = 1
  FcMaxContents = 2
  FcMaxReads = 1
  FcMaxTouches = 1
  VdMaxTasks = 2
  VdMaxRetries = 1
  SsMaxWrites = 3
  SsMaxPlans = 2
  SsMaxCrashes = 1
  SsPause = 3
  SsListItems = 1
  SiMaxOps = 3
  SiMaxAge = 1
  SiMaxSize = 1
  SiCap = 1
  SiSessions = 2
  SiStaleDays = 1
  SupTimeout = 1
  SupMaxNow = 2
  SupMaxEvents = 2
  SupMaxSignals = 2
  SupBudget = 1
  DelRoots <- MCDelRoots
  DelOuter <- MCDelOuter
  DelInner <- MCDelInner
INVARIANTS
  NewestBodyKept LinkIndexSound RecordsAgree CmdSuccessIsReal RemResultsEarned
  PermVerdictJustified ProxyPassesOn EditsExact ChangesAreSafe VerdictsAgree
  SessionReadsTrue EvidenceSound SupervisionSound DelegationTold
CHECK_DEADLOCK FALSE
