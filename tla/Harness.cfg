SPECIFICATION Spec
CONSTANTS
  lead = lead
  mate = mate
  Sessions <- MCSessions
  Bots <- MCBots
  Parent <- MCParent
  Inline <- MCInline
  Bare <- MCBare
  Late = {}
  RowConfig <- Shared
  Restarts <- Anywhere
  Callers <- TeamCallers
  ToolCalls = {t1, t2}
  NativeCalls = {n1, n2}
  Account = Account
  DefaultScope = DefaultScope
  MaxHops = 2
  None = None
  Adopt = Adopt
  Unloading = Unloading
  Pruning = Pruning
  Faults = {"bridge"}
SYMMETRY CallSymmetry
INVARIANTS
  TypeOK
  CallsReachOwnComputer
PROPERTY RefusedForCause
CHECK_DEADLOCK FALSE
