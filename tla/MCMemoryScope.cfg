CONSTANTS
  Talkers = {"t1"}
  Searchers = {"s1"}
  Messages <- MCMessages
  Projects = {"general", "work"}
  Recall = 1
  MaxNodes = 2
  MaxMoves = 2
SPECIFICATION MemSpec
INVARIANTS ScopedStrictly
CHECK_DEADLOCK FALSE
