SPECIFICATION Spec
CONSTANTS
  lead = lead
  mate = mate
  Sessions <- MCSessions
  Bots <- MCBots
  Parent <- MCParent
  Inline = {}
  Bare <- MCBare
  Late <- MCLate
  RowConfigs <- SharedKeptAccount
  Restarts <- OnlyAccount
  Calls = {c1, c2}
  Creates = {c1, c2}
  Account = Account
  MaxHops = 2
  None = None
  Adopt = Adopt
  Unloading = Unloading
  Pruning = Pruning
  Faults = {"call", "harness", "unload", "forget", "prune"}
SYMMETRY CallSymmetry
INVARIANTS
  TypeOK
  CallerReachesOwnScope
  ExitDeletesOwnComputerOnly
  ScreensAreDistinct
PROPERTY ReleasesSparePersistentComputers
