SPECIFICATION ThreadsSpec
CONSTANTS
  c1 = c1  c2 = c2  u1 = u1  rd = rd  wr = wr
  AccessTokens = {t1, t2, t3}
  RefreshTokens = {r1}
  Clients = {c1}
  Users = {u1}
  NoUser = NoUser
  Scopes = {rd}
  None = None
  Never = Never
  FlushInterval = 5
  Grants <- OneGrant
  RefreshClients = {c1}
  AccessTokenValidity <- ShortAccess
  RefreshTokenValidity <- EverlastingRefresh
  SupportRefreshToken = TRUE
  ReuseRefreshToken = TRUE
  MaxTime = 1
  Threads = {p1, p2}
  MaxCalls = 3
  ClockRuns = FALSE
CHECK_DEADLOCK FALSE
SYMMETRY ThreadSymmetry
INVARIANT
  OneAccessTokenWhenIdle
