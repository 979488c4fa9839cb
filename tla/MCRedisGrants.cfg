SPECIFICATION Spec
CONSTANTS
  Threads = {p1, p2, p3}
  Codes = {c1, c2}
  PoolSize = 5
  MaxCalls = 4
  MaxRestarts = 1
  None = None
CHECK_DEADLOCK FALSE
INVARIANTS
  TypeOK
  EveryAnswerCostsTwo
  
  RefreshTokenFollows
PROPERTIES
  EveryCallEnds
