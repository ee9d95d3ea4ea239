CONSTANTS
  m1 = m1
  Models <- MCModels
  Cmds = {k1}
  NoModel = NoModel
  Free = Free
  WorkingContext = 2
  Advertised <- MCContext
  Trained <- MCUnknown
  Certified <- MCUnknown
  Wants = {}
  MaxCommands = 1
  Jobs = {j1, j2}
  Chats = {}
  Worker = worker
  NoJob = NoJob
  MaxPrefill = 1
  MaxTokens = 1
  MaxStops = 0
SPECIFICATION Spec
INVARIANTS DepthCounts CancelStaysLocal
PROPERTIES ImplementsService StreamsClose
CHECK_DEADLOCK FALSE
