SPECIFICATION Spec
CONSTANTS
  c1 = c1  c2 = c2  uri1 = uri1  uri2 = uri2
  Threads = {p1, p2}
  Sessions = {s1}
  Requests = {q1, q2}
  Codes = {k1, k2}
  Clients = {c1}
  Redirects = {uri1}
  Registered <- OneAndTwo
  TimeToLive = 1
  MaxTime = 2
  None = None
SYMMETRY Symmetry
CHECK_DEADLOCK FALSE
INVARIANTS
  TypeOK
  
PROPERTIES
  UsedUpStaysUsedUp
