SPECIFICATION ThreadsFairSpec
CONSTANTS
  c1 = c1  c2 = c2  u1 = u1  rd = rd  wr = wr
  AccessTokens = {t1, t2}
  RefreshTokens = {r1, r2}
  Clients = {c1}
  Users = {u1}
  NoUser = NoUser
  Scopes = {rd}
  None = None
  Never = Never
  FlushInterval = 1
  Grants <- OneGrant
  RefreshClients = {c1}
  AccessTokenValidity <- ShortAccess
  RefreshTokenValidity <- EverlastingRefresh
  SupportRefreshToken = TRUE
  ReuseRefreshToken = TRUE
  MaxTime = 2
  Threads = {p1, p2}
  MaxCalls = 2
  ClockRuns = TRUE
CHECK_DEADLOCK FALSE
PROPERTY
  EveryCallEnds
