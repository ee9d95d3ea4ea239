CONSTANTS
  coding = coding
  math = math
  r1 = r1
  r2 = r2
  r3 = r3
  None = None
  Absent = Absent
  Torn = Torn
  Caps = {coding, math}
  Repos = {r1, r2, r3}
  Offered = {r1, r2, r3}
  Actors = {a1}
  Stated <- MCStated
  Named <- MCNamed
  Judged <- MCJudged
  Discovered <- MCDiscovered
  Operations <- MCOperations
  MaxOps = 6
  MaxLaunches = 1
  Repositories <- MCRepositories
  Bases = {"llama", "mamba", "none"}
  Installers = {"i1"}
  MaxKills = 2
  Slots <- MCSlots
  Signals <- MCSignals
  Enter = 55
  Exit = 35
  MaxUnsupported = 3
  Verdicts <- MCVerdicts
  ta = ta
  tb = tb
  Tokens <- MCTokens
  Adapters = {lora}
  Base = base
  NoModel = NoModel
  NoSession = NoSession
  Contexts = {3, 4}
  Batch = 2
  MaxTokens = 2
  MaxPrompt = 4
  MaxLoads = 2
SPECIFICATION PartSpec
INVARIANTS BoundIsInventoried ConvertedIsWhole CacheMirrorsConversation
PROPERTIES LiveSlotsKept ChangeIsEarned ContinuationIsFree
CHECK_DEADLOCK FALSE
