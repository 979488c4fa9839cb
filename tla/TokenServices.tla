---------------------------- MODULE TokenServices ----------------------------
(***************************************************************************)
(* DefaultTokenServices (provider/token/DefaultTokenServices.java) over the *)
(* in-memory store, one call at a time: every action is a whole call of a   *)
(* public method, with all the calls it makes to the store.  Calls that     *)
(* change nothing (an unknown token, another client's refresh token, a      *)
(* successful loadAuthentication) are stuttering steps.                     *)
(* TokenServicesThreads has the same methods running concurrently.          *)
(***************************************************************************)
EXTENDS InMemoryTokenStore

CONSTANTS
  Grants,               \* authentications the granters ask tokens for
  RefreshClients,       \* clients whose grant types contain refresh_token
  AccessTokenValidity,  \* getAccessTokenValiditySeconds of each client
  RefreshTokenValidity, \* getRefreshTokenValiditySeconds of each client
  SupportRefreshToken,  \* supportRefreshToken
  ReuseRefreshToken,    \* reuseRefreshToken
  MaxTime               \* bound on the clock

ASSUME ServicesAssumption ==
  /\ Grants \subseteq Authentications
  /\ RefreshClients \subseteq Clients
  /\ AccessTokenValidity \in [Clients -> Int]
  /\ RefreshTokenValidity \in [Clients -> Int]
  /\ SupportRefreshToken \in BOOLEAN
  /\ ReuseRefreshToken \in BOOLEAN
  /\ MaxTime \in Nat

VARIABLES
  now,          \* System.currentTimeMillis()
  store,        \* the InMemoryTokenStore
  accessToken,  \* the DefaultOAuth2AccessToken object of each UUID, if created
  refreshToken  \* the expiration of the refresh token of each UUID, if created

vars == <<now, store, accessToken, refreshToken>>

AccessTokenObjects ==
  [expiration : Expirations, refreshToken : RefreshTokens \cup {None}]

ASSUME ObjectsAssumption == None \notin AccessTokenObjects

TypeOK ==
  /\ now \in Nat
  /\ store \in Stores
  /\ accessToken \in [AccessTokens -> AccessTokenObjects \cup {None}]
  /\ refreshToken \in [RefreshTokens -> Expirations \cup {None}]

Init ==
  /\ now = 0
  /\ store = EmptyStore
  /\ accessToken = [t \in AccessTokens |-> None]
  /\ refreshToken = [r \in RefreshTokens |-> None]

\* isExpired is strict, for access tokens and refresh tokens alike.
Passed(expiration) == expiration # Never /\ expiration < now
IsExpired(t) == Passed(accessToken[t].expiration)
IsRefreshExpired(r) == Passed(refreshToken[r])

\* A validity of zero or less makes a token that does not expire.
NewExpiration(validity) == IF validity > 0 THEN now + validity ELSE Never

-----------------------------------------------------------------------------
\* The private createRefreshToken: r is a new refresh token for the client, or
\* None when the client may not have one.
CreateRefreshToken(client, r) ==
  IF client \in RefreshClients
  THEN /\ r \in RefreshTokens /\ refreshToken[r] = None
       /\ refreshToken' =
            [refreshToken EXCEPT ![r] = NewExpiration(RefreshTokenValidity[client])]
  ELSE r = None /\ UNCHANGED refreshToken

KeepRefreshToken(old, r) == r = old /\ UNCHANGED refreshToken

\* The private createAccessToken: a new object for t, with r as refresh token.
NewAccessToken(client, r) ==
  [expiration |-> NewExpiration(AccessTokenValidity[client]), refreshToken |-> r]

CreateAccessTokenObject(t, client, r) ==
  /\ accessToken[t] = None
  /\ accessToken' = [accessToken EXCEPT ![t] = NewAccessToken(client, r)]

\* MUTANT: storeRefreshToken is called whether there is a refresh token or not.
StoreBoth_NoNullCheck(s, t, r, a) ==
  LET u == StoreAccessToken(s, t, NewAccessToken(a.client, r), a, now)
  IN [u EXCEPT !.refreshTokenStore = @ \cup {r}]

\* MUTANT: a refresh token that is used again is not stored again.
StoreBoth_AccessOnly(s, t, r, a) ==
  StoreAccessToken(s, t, NewAccessToken(a.client, r), a, now)

\* storeAccessToken of a new token, and storeRefreshToken if it has one.
StoreBoth(s, t, r, a) ==
  LET u == StoreAccessToken(s, t, NewAccessToken(a.client, r), a, now)
  IN IF r = None THEN u ELSE StoreRefreshToken(u, r, a)

-----------------------------------------------------------------------------
(* createAccessToken(authentication).                                       *)

\* There is a token for the authentication and it has not expired: it is
\* stored again and returned.
ReturnExistingAccessToken(a) ==
  LET t == LookupAccessToken(store, a)
  IN /\ t # None /\ ~IsExpired(t)
     /\ store' = StoreAccessToken(AfterGetAccessToken(store, a, accessToken, now),
                                  t, accessToken[t], a, now)
     /\ UNCHANGED <<now, accessToken, refreshToken>>

\* It has expired: it is removed with its refresh token, and a new access
\* token takes over the refresh token unless that one has expired too.
ReplaceExpiredAccessToken(a, t, r) ==
  LET existing == LookupAccessToken(store, a)
      old == accessToken[existing].refreshToken
      s   == AfterGetAccessToken(store, a, accessToken, now)
      u   == IF old = None THEN s ELSE RemoveRefreshToken(s, old)
  IN /\ existing # None /\ IsExpired(existing)
     /\ IF old # None /\ ~IsRefreshExpired(old)
        THEN KeepRefreshToken(old, r)
        ELSE CreateRefreshToken(a.client, r)
     /\ CreateAccessTokenObject(t, a.client, r)
     /\ store' = StoreBoth(RemoveAccessToken(u, existing), t, r, a)
     /\ UNCHANGED now

\* There is none: a new access token with a new refresh token.
IssueAccessToken(a, t, r) ==
  /\ LookupAccessToken(store, a) = None
  /\ CreateRefreshToken(a.client, r)
  /\ CreateAccessTokenObject(t, a.client, r)
  /\ store' = StoreBoth(store, t, r, a)
  /\ UNCHANGED now

-----------------------------------------------------------------------------
(* refreshAccessToken(refreshTokenValue, tokenRequest) by the client the    *)
(* refresh token was granted to.  The access token that goes with it is     *)
(* removed before the refresh token and the scopes are examined.            *)

RefreshGrant(r) == store.refreshTokenAuthenticationStore[r]

\* MUTANT: one scope in common is enough.
MayNarrow_ContainsAny(r, scope) ==
  scope = {} \/ scope \cap RefreshGrant(r).scope # {}

\* originalScope.containsAll(scope).
MayNarrow(r, scope) == scope \subseteq RefreshGrant(r).scope

CanRefresh(r) == SupportRefreshToken /\ r \in store.refreshTokenStore

RefreshExpired(r) ==
  /\ CanRefresh(r) /\ IsRefreshExpired(r)
  /\ store' = RemoveRefreshToken(RemoveAccessTokenUsingRefreshToken(store, r), r)
  /\ UNCHANGED <<now, accessToken, refreshToken>>

\* InvalidScopeException from createRefreshedAuthentication.
RefreshInvalidScope(r, scope) ==
  /\ CanRefresh(r) /\ ~IsRefreshExpired(r)
  /\ ~MayNarrow(r, scope)
  /\ store' = RemoveAccessTokenUsingRefreshToken(store, r)
  /\ UNCHANGED <<now, accessToken, refreshToken>>

\* createRefreshedAuthentication: the scopes asked for, or all of them.
Refreshed(a, scope) ==
  IF scope = {} THEN a ELSE [a EXCEPT !.scope = scope, !.listing = "sorted"]

RefreshAccessToken(r, scope, t, r2) ==
  LET a == Refreshed(RefreshGrant(r), scope)
      s == RemoveAccessTokenUsingRefreshToken(store, r)
  IN /\ CanRefresh(r) /\ ~IsRefreshExpired(r)
     /\ MayNarrow(r, scope)
     /\ IF ReuseRefreshToken THEN KeepRefreshToken(r, r2)
                             ELSE CreateRefreshToken(a.client, r2)
     /\ CreateAccessTokenObject(t, a.client, r2)
     /\ store' = IF ReuseRefreshToken
                 THEN StoreAccessToken(s, t, NewAccessToken(a.client, r2), a, now)
                 ELSE StoreBoth(RemoveRefreshToken(s, r), t, r2, a)
     /\ UNCHANGED now

-----------------------------------------------------------------------------
\* loadAuthentication of an expired token removes it.
LoadExpiredToken(t) ==
  /\ t \in store.accessTokenStore /\ IsExpired(t)
  /\ store' = RemoveAccessToken(store, t)
  /\ UNCHANGED <<now, accessToken, refreshToken>>

\* MUTANT: only the refresh token is removed.
RevokeToken_RefreshOnly(t) ==
  LET r == accessToken[t].refreshToken
  IN /\ t \in store.accessTokenStore
     /\ store' = IF r = None THEN store ELSE RemoveRefreshToken(store, r)
     /\ UNCHANGED <<now, accessToken, refreshToken>>

RevokeToken(t) ==
  LET r == accessToken[t].refreshToken
      s == IF r = None THEN store ELSE RemoveRefreshToken(store, r)
  IN /\ t \in store.accessTokenStore
     /\ store' = RemoveAccessToken(s, t)
     /\ UNCHANGED <<now, accessToken, refreshToken>>

\* TokenApprovalStore.revokeApprovals for an approval of client c by user u.
RevokeApprovals(c, u) ==
  /\ store' = RemoveAccessTokens(store,
                {t \in FindTokensByClientIdAndUserName(store, c, u) :
                   /\ store.authenticationStore[t] # None
                   /\ store.authenticationStore[t].client = c})
  /\ UNCHANGED <<now, accessToken, refreshToken>>

Clear ==
  /\ store' = ClearStore(store)
  /\ UNCHANGED <<now, accessToken, refreshToken>>

Tick ==
  /\ now < MaxTime
  /\ now' = now + 1
  /\ UNCHANGED <<store, accessToken, refreshToken>>

Next ==
  \/ \E a \in Grants : ReturnExistingAccessToken(a)
  \/ \E a \in Grants, t \in AccessTokens, r \in RefreshTokens \cup {None} :
       ReplaceExpiredAccessToken(a, t, r) \/ IssueAccessToken(a, t, r)
  \/ \E r \in RefreshTokens : RefreshExpired(r)
  \/ \E r \in RefreshTokens, scope \in SUBSET Scopes : RefreshInvalidScope(r, scope)
  \/ \E r \in RefreshTokens, scope \in SUBSET Scopes,
        t \in AccessTokens, r2 \in RefreshTokens : RefreshAccessToken(r, scope, t, r2)
  \/ \E t \in AccessTokens : LoadExpiredToken(t) \/ RevokeToken(t)
  \/ \E c \in Clients, u \in Users : RevokeApprovals(c, u)
  \/ Clear
  \/ Tick

Spec == Init /\ [][Next]_vars

-----------------------------------------------------------------------------
(* Properties.  Each one is about calls that update several maps in turn:   *)
(* what one map says must agree with what another one says.                 *)

Live == store.accessTokenStore
AuthenticationOf(t) == store.authenticationStore[t]

\* accessTokenStore, authenticationStore and accessTokenToRefreshTokenStore,
\* which storeAccessToken and removeAccessToken update one after the other,
\* describe the same tokens: the assertions "Too many refresh tokens" and
\* "Inconsistent authentication store state" of getAccessTokenCount never fail.
StoresAgree ==
  /\ \A t \in AccessTokens : t \in Live <=> AuthenticationOf(t) # None
  /\ \A t \in AccessTokens :
       store.accessTokenToRefreshTokenStore[t] =
         IF t \in Live THEN accessToken[t].refreshToken ELSE None

\* What getAccessToken finds under a key is a live token of an authentication
\* with that key, so that "Keep the stores consistent" never has to act and
\* createAccessToken never hands out a token of somebody else.
AuthenticationIndexSound ==
  \A k \in Authentications :
    LET t == store.authenticationToAccessTokenStore[k]
    IN t # None => t \in Live /\ ExtractKey(AuthenticationOf(t)) = k

\* Every live access token with a refresh token is the one its refresh token
\* leads to, so refreshAccessToken removes it before it issues the next one.
RefreshIndexCoversLive ==
  \A t \in Live :
    LET r == accessToken[t].refreshToken
    IN r # None => store.refreshTokenToAccessTokenStore[r] = t

\* removeAccessTokenUsingRefreshToken "is necessary so refresh tokens can't be
\* used to create an unlimited number of access tokens": a refresh token has at
\* most one live access token, whatever createAccessToken, refreshAccessToken,
\* revokeToken and flush did before.
OneAccessTokenPerRefreshToken ==
  \A t1, t2 \in Live :
    /\ accessToken[t1].refreshToken # None
    /\ accessToken[t1].refreshToken = accessToken[t2].refreshToken
    => t1 = t2

\* The refresh token a client got with a live access token is still in the
\* store: createAccessToken stores it again after having removed it, and no
\* call removes it and leaves the access token behind.
LiveTokenKeepsRefreshToken ==
  \A t \in Live :
    accessToken[t].refreshToken # None
      => accessToken[t].refreshToken \in store.refreshTokenStore

\* A live access token grants no more than its refresh token does, to the same
\* client and user: createRefreshedAuthentication only narrows, also when
\* createAccessToken hands a refresh token on to a narrower authentication.
AccessWithinRefreshGrant ==
  \A t \in Live :
    LET r == accessToken[t].refreshToken
        a == AuthenticationOf(t)
    IN r # None =>
         /\ RefreshGrant(r) # None
         /\ a.client = RefreshGrant(r).client
         /\ a.user = RefreshGrant(r).user
         /\ a.scope \subseteq RefreshGrant(r).scope

\* revokeApprovals walks the user index and the other index is by client: both
\* hold every live token they should, although nothing but the insertion keeps
\* them in step with accessTokenStore.
IndexesCoverLive ==
  \A t \in Live :
    LET a == AuthenticationOf(t)
    IN /\ t \in FindTokensByClientId(store, a.client)
       /\ ~IsClientOnly(a)
            => t \in FindTokensByClientIdAndUserName(store, a.client, a.user)

\* A live token that can expire is in the expiry queue, so a flush reaches it
\* even when it was stored again after the queue had been polled.
ExpiryQueueCoversLive ==
  \A t \in Live :
    accessToken[t].expiration # Never
      => store.expiryQueue[t] = accessToken[t].expiration

\* A token that was removed (revoked, expired, refreshed away) stays removed:
\* no call brings a token back that the store had given up.
RemovedTokenStaysRemoved ==
  [][\A t \in AccessTokens :
       accessToken[t] # None /\ t \notin Live => t \notin Live']_vars

\* A refresh token that was removed (revoked, expired, rotated out) stays
\* removed: createAccessToken stores refresh tokens it had not made, but only one
\* that was still in the store when the call began.
RemovedRefreshTokenStaysRemoved ==
  [][\A r \in RefreshTokens :
       refreshToken[r] # None /\ r \notin store.refreshTokenStore
         => r \notin store'.refreshTokenStore]_vars

\* What a refresh token grants only ever shrinks while it is in the store.
RefreshGrantNeverWidens ==
  [][\A r \in RefreshTokens :
       RefreshGrant(r) # None /\ RefreshGrant(r)' # None
         => /\ RefreshGrant(r)'.client = RefreshGrant(r).client
            /\ RefreshGrant(r)'.user = RefreshGrant(r).user
            /\ RefreshGrant(r)'.scope \subseteq RefreshGrant(r).scope]_vars

-----------------------------------------------------------------------------
(* The inductive invariant: the properties above and what they rest on.     *)

\* refreshTokenStore and refreshTokenAuthenticationStore hold the same tokens,
\* and only tokens that createRefreshToken made.
RefreshStoresAgree ==
  \A r \in RefreshTokens :
    /\ r \in store.refreshTokenStore <=> RefreshGrant(r) # None
    /\ r \in store.refreshTokenStore => refreshToken[r] # None

\* A live token has an object.
LiveTokensCreated == \A t \in Live : accessToken[t] # None

IInv ==
  /\ TypeOK
  /\ StoresAgree
  /\ RefreshStoresAgree
  /\ LiveTokensCreated
  /\ AuthenticationIndexSound
  /\ RefreshIndexCoversLive
  /\ LiveTokenKeepsRefreshToken
  /\ AccessWithinRefreshGrant
=============================================================================
