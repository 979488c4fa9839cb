SPECIFICATION Spec
CONSTANTS
  c1 = c1  c2 = c2  uri1 = uri1  uri2 = uri2
  Threads = {p1, p2}
  Sessions = {s1}
  Requests = {q1}
  Codes = {k1}
  Clients = {c1}
  Redirects = {uri1, uri2}
  Registered <- OneAndTwo
  TimeToLive = 2
  MaxTime = 2
  None = None
SYMMETRY Symmetry
CHECK_DEADLOCK FALSE
INVARIANT
  RedeemedOnce
