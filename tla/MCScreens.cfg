CONSTANTS
  Pages <- MCPages
  Suggested = {"a", "b"}
  Blocked = {}
  Loops = {"l1", "l2"}
  Reloads = 1
  Models = {"m", "n"}
  Headers <- MCHeaders
  Present = {"m"}
  Handlers = 1
  Refreshes = {"r1", "r2"}
  Terms = {"gemma", "qwen"}
  Listing = "listing"
  MaxLoads = 4
  MaxUpdates = 2
  DetTools = {"a"}
  Probers = {"k1", "k2"}
  MaxReplies = 2
  MaxPresses = 1
SPECIFICATION Spec
INVARIANTS OneSearchAtATime
PROPERTIES ShownNeverOlder EveryRowEnds InstalledIsShown
CHECK_DEADLOCK FALSE
