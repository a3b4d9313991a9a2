SPECIFICATION Spec
CONSTANTS
  Calls = {c1, c2}
  Home = Home
  Own = Own
  LastSecond = 1
  Fractional = Fractional
  None = None
SYMMETRY CallSymmetry
INVARIANTS
  TypeOK
  GuardHoldsButForTheWindow
  CreationHoldsButForTheWindow
  RefusedCallLeavesNoChange
PROPERTY EditKeepsEarlierChanges
CHECK_DEADLOCK FALSE
