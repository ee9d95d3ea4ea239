CONSTANTS
  Talkers = {"t1"}
  Searchers = {"s1"}
  Messages <- MCMessages
  Projects = {"general", "work"}
  Recall = 1
  MaxNodes = 1
  MaxMoves = 1
  MaxSessions = 1
  MaxActions = 1
  Actions = {"health", "redetect", "login", "logout", "install", "register", "unregister"}
  UserTools = {"missing", "listed"}
  UserEntries <- MCEntries
  McpFiles <- MCMcpFiles
  Subjects = {"openclaw", "mine"}
  Launches = {"c1"}
  Loads <- MCLoads
  MaxPid = 1
SPECIFICATION Spec
INVARIANTS OneLineEach AnnouncedIsWritten RecordKept
PROPERTIES TurnsEnd
CHECK_DEADLOCK FALSE
