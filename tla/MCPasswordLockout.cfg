SPECIFICATION Spec
CONSTANTS
  Users = {u1}
  Threads = {p1, p2, p3}
  Attempts = {2, 3}
  MaxLost = 1
  None = None
SYMMETRY Symmetry
INVARIANTS
  TypeOK
  WrongPasswordsBounded
  
  LockedOnlyAfterFailures
PROPERTIES
  LimitIsFinal
