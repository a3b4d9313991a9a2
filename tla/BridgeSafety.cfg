SPECIFICATION Spec
CONSTANTS
  Bots = {b1, b2}
  Computers = {m1, m2}
  Requests = {r1, r2, r3, r4}
  None = None
SYMMETRY Symmetry
INVARIANTS
  TypeOK
  Serialized
  TerminalMeansGone
  DestroyAnsweredMeansGone
  ListShowsEveryLiveComputer
PROPERTIES
  TerminalIsFinal
  ImplementsOwnership
  ImplementsFifoLock
