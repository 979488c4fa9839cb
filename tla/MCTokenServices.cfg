SPECIFICATION Spec
CONSTANTS
  c1 = c1  c2 = c2  u1 = u1  rd = rd  wr = wr
  AccessTokens = {t1, t2, t3}
  RefreshTokens = {r1, r2}
  Clients = {c1, c2}
  Users = {u1}
  NoUser = NoUser
  Scopes = {rd, wr}
  None = None
  Never = Never
  FlushInterval = 3
  Grants <- MixedGrants
  RefreshClients = {c1}
  AccessTokenValidity <- ShortAccess
  RefreshTokenValidity <- LongRefresh
  SupportRefreshToken = TRUE
  ReuseRefreshToken = TRUE
  MaxTime = 4
SYMMETRY Symmetry
INVARIANTS
  TypeOK
  StoresAgree
  AuthenticationIndexSound
  RefreshIndexCoversLive
  OneAccessTokenPerRefreshToken
  LiveTokenKeepsRefreshToken
  AccessWithinRefreshGrant
  IndexesCoverLive
  ExpiryQueueCoversLive
PROPERTIES
  RemovedTokenStaysRemoved
  RemovedRefreshTokenStaysRemoved
  RefreshGrantNeverWidens
