SPECIFICATION FairSpec
CONSTANTS
  lead = lead
  mate = mate
  helper = helper
  Sessions <- MCSessions
  Bots <- MCBots
  Account = Account
  DefaultScope = DefaultScope
  MaxHops = 4
  None = None
  Calls = {c1, c2}
  Creates = {c1, c2}
  Callers <- AnyCaller
  Lineages <- EveryLineage
  RowConfig <- Shared
  Faults = {"call", "abort", "bridge"}
INVARIANTS
  TypeOK
  OneCreatePerBot
  TeamToolsShareComputer
  CallReachesTeamRoot
PROPERTY EveryCallEnds
CHECK_DEADLOCK FALSE
