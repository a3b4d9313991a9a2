SPECIFICATION Spec
CONSTANTS
  lead = lead
  mate = mate
  Sessions <- MCSessions
  Bots <- MCBots
  Parent <- MCParent
  Inline = {}
  Bare <- MCBare
  Late = {}
  RowConfigs <- DefaultRow
  Restarts = {}
  Calls = {c1, c2}
  Creates = {c1, c2}
  Account = Account
  MaxHops = 2
  None = None
  Adopt = Adopt
  Unloading = Unloading
  Pruning = Pruning
  Faults = {"unload", "forget", "prune"}
SYMMETRY CallSymmetry
INVARIANT PruningSparesLiveSessions
CHECK_DEADLOCK FALSE
