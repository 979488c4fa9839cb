SPECIFICATION Spec
CONSTANTS
  Browsers = {b1, b2}
  Tabs = {t1, t2}
  Sessions = {s1, s2}
  MaxKeys = 3
  None = None
SYMMETRY Symmetry
CHECK_DEADLOCK FALSE
INVARIANTS
  TypeOK
  ForgottenStaysForgotten
  
  
  
