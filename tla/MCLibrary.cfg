CONSTANTS
  Calls = {s1}
  NoCall = NoCall
  NoTask = NoTask
  Absent = Absent
  Artifacts <- MCArtifacts
  MaxAttempts = 2
  MaxCrashes = 2
  MaxCancels = 1
  Popular = {"p"}
  Deep = {"q"}
  Readers = {"r"}
  Searchers = {"s"}
  Engines = {"e"}
  Window = 2
  Reserve = 1
  MaxClock = 1
  MaxTokens = 1
  Repositories <- MCRepositories
  Asked = "Q4"
  NoLabel = "none"
  NoFile = NoFile
  MaxPages = 2
  Attempts = 2
  MaxChunk = 4
SPECIFICATION PartSpec
INVARIANTS PartIsPrefix InstalledIsGenuine InstallIsWhole ResolvedIsSound
PROPERTIES CallsEnd NeverShrinks
CHECK_DEADLOCK FALSE
