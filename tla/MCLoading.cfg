CONSTANTS
  m1 = m1
  m2 = m2
  m3 = m3
  Models <- MCModels
  Cmds = {k1}
  NoModel = NoModel
  Free = Free
  WorkingContext = 2
  Advertised <- MCAdvertised
  Trained <- MCTrained
  Certified <- MCCertified
  Wants = {3, 4, 5}
  MaxCommands = 4
  Cards <- MCCards
  Memories <- MCMemories
  Packages <- MCPackages
  Floors = {0, 16}
  Listers = {"dxgi"}
  Compiled = TRUE
  MaxLoads = 1
  Machines <- MCMachines
  Catalog <- MCCatalog
  Shipped <- MCShipped
  Turns = {"t1"}
  Namers = {"n1"}
  PipeRoom = 2
  MaxCalls = 4
  Booter = "boot"
SPECIFICATION Spec
INVARIANTS StatusInStep ReloadDelivers ContextNeverInflated PlacementFits MoreNeverHurts OwnAnswer RefusalIsStale
PROPERTIES ReloadKeepsAModel CallsReturn
