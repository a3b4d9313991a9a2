SPECIFICATION FairSpec
CONSTANTS
  Bots = {b1}
  Computers = {m1, m2}
  Requests = {r1, r2, r3}
  None = None

PROPERTIES
  EveryRequestIsAnswered
  ImplementsBridgeView
