CONSTANTS
  Jobs = {r1, r2}
  NoJob = NoJob
  Endings = {"stop", "error"}
  Failures = {"error"}
  MaxTokens = 2
  Vocabularies <- MCVocabularies
  MaxText = 4
  ToolLists <- MCToolLists
  Talks = {1, 6}
  Lengths = {1, 4}
  Contexts = {6, 10}
  Margin = 1
  MaxPieces = 4
SPECIFICATION PartSpec
INVARIANTS CancelledIfAbandoned AnswerIsHonest StreamedIsProse ClientFollows AnswerArrives
PROPERTIES RequestsAnswered
CHECK_DEADLOCK FALSE
