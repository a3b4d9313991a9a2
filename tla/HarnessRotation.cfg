SPECIFICATION Spec
CONSTANTS
  lead = lead
  mate = mate
  Sessions <- MCSessions
  Bots <- MCBots
  Parent <- MCParent
  Inline <- MCInline
  Bare <- MCBare
  Late = {}
  RowConfig <- Shared
  Restarts = {}
  Callers <- TeamCallers
  ToolCalls = {t1}
  NativeCalls = {n1}
  Account = Account
  DefaultScope = DefaultScope
  MaxHops = 2
  None = None
  Adopt = Adopt
  Unloading = Unloading
  Pruning = Pruning
  Faults = {}
INVARIANT CachedCapabilityIsLive
CHECK_DEADLOCK FALSE
