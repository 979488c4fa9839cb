SPECIFICATION OneThreadSpec
CONSTANTS
  c1 = c1  c2 = c2  u1 = u1  rd = rd  wr = wr
  AccessTokens = {t1, t2, t3}
  RefreshTokens = {r1, r2}
  Clients = {c1, c2}
  Users = {u1}
  NoUser = NoUser
  Scopes = {rd, wr}
  None = None
  Never = Never
  FlushInterval = 2
  Grants <- MixedGrants
  RefreshClients = {c1}
  AccessTokenValidity <- ShortAccess
  RefreshTokenValidity <- LongRefresh
  SupportRefreshToken = TRUE
  ReuseRefreshToken = FALSE
  MaxTime = 4
  Threads = {p1}
  MaxCalls = 4
  ClockRuns = FALSE
SYMMETRY Symmetry
CHECK_DEADLOCK FALSE
PROPERTY
  ImplementsTokenServices
