SPECIFICATION Spec
CONSTANTS
  lead = lead
  mate = mate
  helper = helper
  Sessions <- MCSessions
  Bots <- MCBots
  Account = Account
  DefaultScope = DefaultScope
  MaxHops = 4
  None = None
  Calls = {c1, c2}
  Creates = {c1, c2}
  Callers <- AnyCaller
  Lineages <- TeamOnly
  RowConfig <- Shared
  Faults = {"bridge"}
PROPERTY CallsBeginWithValidRecord
CHECK_DEADLOCK FALSE
