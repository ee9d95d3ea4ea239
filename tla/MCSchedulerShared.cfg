CONSTANTS
  m1 = m1
  Models <- MCModels
  Cmds = {k1}
  NoModel = NoModel
  Free = Free
  WorkingContext = 2
  Advertised <- MCContext
  Trained <- MCUnknown
  Certified <- MCUnknown
  Wants = {}
  MaxCommands = 2
  Jobs = {j1}
  Chats = {c1}
  Worker = worker
  NoJob = NoJob
  MaxPrefill = 1
  MaxTokens = 1
  MaxStops = 1
SPECIFICATION Spec
INVARIANTS ModelHeld
CHECK_DEADLOCK FALSE
