SPECIFICATION Spec
CONSTANTS
  Browsers = {b1}
  Users = {u1, u2}
  Apps = {a1, a2}
  Tickets = {k1, k2}
  Threads = {p1, p2}
  None = None
SYMMETRY Symmetry
INVARIANTS
  TypeOK
  LateValidationFails
  FirstValidationSucceeds
  AskedSinceLogin
