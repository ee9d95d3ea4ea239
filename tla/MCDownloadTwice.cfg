CONSTANTS
  Calls = {s1, s2}
  NoCall = NoCall
  NoTask = NoTask
  Absent = Absent
  Artifacts <- MCOne
  MaxAttempts = 2
  MaxCrashes = 0
  MaxCancels = 1
SPECIFICATION Spec
INVARIANTS InstalledIsGenuine
CHECK_DEADLOCK FALSE
