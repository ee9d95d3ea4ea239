CONSTANTS
  Models = {"m", "n"}
  Headers <- MCHeaders
  Present = {"m"}
  Handlers = 2
  Refreshes = {"r1", "r2", "r3"}
SPECIFICATION StorageSpec
INVARIANTS DeletedIsGone
CHECK_DEADLOCK FALSE
