SPECIFICATION Spec
CONSTANTS
  c1 = c1  c2 = c2  uri1 = uri1  uri2 = uri2
  Threads = {p1}
  Sessions = {s1, s2}
  Requests = {q1, q2}
  Codes = {k1, k2}
  Clients = {c1, c2}
  Redirects = {uri1, uri2}
  Registered <- OneAndTwo
  TimeToLive = 2
  MaxTime = 3
  None = None
SYMMETRY Symmetry
CHECK_DEADLOCK FALSE
INVARIANTS
  DecisionHonoured
PROPERTIES
  ImplementsCodeGrant
