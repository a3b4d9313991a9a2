SPECIFICATION Spec
CONSTANTS
  Names = {"a", "..c"}
  Backslashed <- MCBackslashed
  Slashed <- MCSlashed
  MaxSegments = 4
  MaxCwd = 2
  Outside = Outside
INVARIANTS
  TypeOK
  PathsResolveLexically
  TargetKeepsItsMeaning
  ContainsIsBelow
  BothRulesAgree
CHECK_DEADLOCK FALSE
