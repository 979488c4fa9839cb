------------------------- MODULE InMemoryTokenStore -------------------------
(***************************************************************************)
(* The token store of the OAuth 2.0 provider when persistence is in memory *)
(* (provider/token/store/InMemoryTokenStore.java): nine maps, an expiry     *)
(* queue and an insert counter.  A value of the store is a record with one  *)
(* field per map; each method that changes the store is an operator from    *)
(* the store before the call to the store after it, so that a caller        *)
(* composes calls by composing operators.                                   *)
(*                                                                          *)
(* A map is a total function whose value is None where the Java map has no  *)
(* entry; the keys of accessTokenStore and refreshTokenStore are sets, as   *)
(* the objects they hold are immutable and live in the variables of the     *)
(* module that uses the store.                                              *)
(***************************************************************************)
EXTENDS Integers, FiniteSets

CONSTANTS
  AccessTokens,   \* the UUIDs access tokens may be given
  RefreshTokens,  \* the UUIDs refresh tokens may be given
  Clients,        \* registered OAuth clients
  Users,          \* resource owners
  NoUser,         \* the user of an authentication that is client-only
  Scopes,         \* scope names
  None,           \* no entry in a map, null
  Never,          \* the expiration of a token that does not expire
  FlushInterval   \* flushInterval: inserts between two flushes

ASSUME FlushIntervalAssumption == FlushInterval \in Nat \ {0}

(***************************************************************************)
(* An OAuth2Authentication: client, user and granted scopes.  The scopes    *)
(* are listed in the iteration order of the set that carried them: a        *)
(* HashSet on the approval path, a TreeSet when parsed from a parameter.    *)
(***************************************************************************)
Listings == {"hashed", "sorted"}

Authentications ==
  [client : Clients, user : Users \cup {NoUser},
   scope : SUBSET Scopes, listing : Listings]

ASSUME SentinelsAssumption ==
  /\ None \notin AccessTokens \cup RefreshTokens \cup Int \cup Authentications
  /\ Never \notin Int
  /\ None # Never
  /\ NoUser \notin Users

IsClientOnly(a) == a.user = NoUser

\* MUTANT: a key that leaves the scopes out.
ExtractKey_NoScopes(a) == [a EXCEPT !.scope = {}, !.listing = "sorted"]

\* The user part of the key of a client-only authentication is left out, and
\* the order of the scopes counts as soon as there are two of them.
ExtractKey(a) ==
  IF \A x, y \in a.scope : x = y THEN [a EXCEPT !.listing = "sorted"] ELSE a

\* MUTANT: the user name is lost on the way to the bucket.
ApprovalKey_NoName(a) == <<a.client, NoUser>>

\* The buckets of the user index are filled under the approval key (client and
\* user) and emptied under the bare name of the authentication.
ApprovalKey(a) == <<a.client, a.user>>
Name(a) == IF IsClientOnly(a) THEN a.client ELSE a.user
Buckets == (Clients \X (Users \cup {NoUser})) \cup Users \cup Clients

Expirations == Int \cup {Never}

Stores ==
  [accessTokenStore                 : SUBSET AccessTokens,
   authenticationToAccessTokenStore : [Authentications -> AccessTokens \cup {None}],
   userNameToAccessTokenStore       : [Buckets -> SUBSET AccessTokens],
   clientIdToAccessTokenStore       : [Clients -> SUBSET AccessTokens],
   refreshTokenStore                : SUBSET RefreshTokens,
   accessTokenToRefreshTokenStore   : [AccessTokens -> RefreshTokens \cup {None}],
   authenticationStore              : [AccessTokens -> Authentications \cup {None}],
   refreshTokenAuthenticationStore  : [RefreshTokens -> Authentications \cup {None}],
   refreshTokenToAccessTokenStore   : [RefreshTokens -> AccessTokens \cup {None}],
   expiryQueue                      : [AccessTokens -> Int \cup {None}],
   flushCounter                     : Nat]

EmptyStore ==
  [accessTokenStore                 |-> {},
   authenticationToAccessTokenStore |-> [k \in Authentications |-> None],
   userNameToAccessTokenStore       |-> [b \in Buckets |-> {}],
   clientIdToAccessTokenStore       |-> [c \in Clients |-> {}],
   refreshTokenStore                |-> {},
   accessTokenToRefreshTokenStore   |-> [t \in AccessTokens |-> None],
   authenticationStore              |-> [t \in AccessTokens |-> None],
   refreshTokenAuthenticationStore  |-> [r \in RefreshTokens |-> None],
   refreshTokenToAccessTokenStore   |-> [r \in RefreshTokens |-> None],
   expiryQueue                      |-> [t \in AccessTokens |-> None],
   flushCounter                     |-> 0]

-----------------------------------------------------------------------------
(* removeAccessToken for every token of T.  The order of the removals does  *)
(* not matter: each one deletes entries under its own keys only.            *)

Known(s, T) == {t \in T : s.authenticationStore[t] # None}

\* The index entries of T, whatever token they lead to.
KeysOf(s, T) == {ExtractKey(s.authenticationStore[t]) : t \in Known(s, T)}

\* tokens.remove(removed): removed is null unless accessTokenStore had it.
FoundUnderName(s, T, b) ==
  {t \in Known(s, T) : t \in s.accessTokenStore /\ Name(s.authenticationStore[t]) = b}

FoundUnderClient(s, T, c) ==
  {t \in Known(s, T) : t \in s.accessTokenStore /\ s.authenticationStore[t].client = c}

\* MUTANT: the link to the refresh token is forgotten.
RemoveAccessTokens_KeepsLink(s, T) ==
  [s EXCEPT
    !.accessTokenStore = @ \ T,
    !.authenticationStore =
       [t \in AccessTokens |-> IF t \in T THEN None ELSE @[t]],
    !.authenticationToAccessTokenStore =
       [k \in Authentications |-> IF k \in KeysOf(s, T) THEN None ELSE @[k]]]

\* MUTANT: the entry under the key of the authentication is forgotten.
RemoveAccessTokens_KeepsKey(s, T) ==
  [s EXCEPT
    !.accessTokenStore = @ \ T,
    !.accessTokenToRefreshTokenStore =
       [t \in AccessTokens |-> IF t \in T THEN None ELSE @[t]],
    !.authenticationStore =
       [t \in AccessTokens |-> IF t \in T THEN None ELSE @[t]]]

\* MUTANT: the token goes, its authentication and index entries stay.
RemoveAccessTokens_TokenOnly(s, T) ==
  [s EXCEPT
    !.accessTokenStore = @ \ T,
    !.accessTokenToRefreshTokenStore =
       [t \in AccessTokens |-> IF t \in T THEN None ELSE @[t]]]

RemoveAccessTokens(s, T) ==
  [s EXCEPT
    !.accessTokenStore = @ \ T,
    !.accessTokenToRefreshTokenStore =
       [t \in AccessTokens |-> IF t \in T THEN None ELSE @[t]],
    !.authenticationStore =
       [t \in AccessTokens |-> IF t \in T THEN None ELSE @[t]],
    !.authenticationToAccessTokenStore =
       [k \in Authentications |-> IF k \in KeysOf(s, T) THEN None ELSE @[k]],
    !.userNameToAccessTokenStore =
       [b \in Buckets |-> @[b] \ FoundUnderName(s, T, b)],
    !.clientIdToAccessTokenStore =
       [c \in Clients |-> @[c] \ FoundUnderClient(s, T, c)]]

RemoveAccessToken(s, t) == RemoveAccessTokens(s, {t})

\* removeRefreshToken: the access token that goes with it stays.
RemoveRefreshToken(s, r) ==
  [s EXCEPT !.refreshTokenStore = @ \ {r},
            !.refreshTokenAuthenticationStore[r] = None,
            !.refreshTokenToAccessTokenStore[r] = None]

StoreRefreshToken(s, r, a) ==
  [s EXCEPT !.refreshTokenStore = @ \cup {r},
            !.refreshTokenAuthenticationStore[r] = a]

\* MUTANT: the entry goes, the access token stays.
RemoveAccessTokenUsingRefreshToken_EntryOnly(s, r) ==
  [s EXCEPT !.refreshTokenToAccessTokenStore[r] = None]

\* removeAccessTokenUsingRefreshToken: takes the index entry out first.
RemoveAccessTokenUsingRefreshToken(s, r) ==
  LET t == s.refreshTokenToAccessTokenStore[r]
      u == [s EXCEPT !.refreshTokenToAccessTokenStore[r] = None]
  IN IF t = None THEN u ELSE RemoveAccessToken(u, t)

\* The tokens whose delay has run out: an expiry is due at its own instant.
Due(s, now) == {t \in AccessTokens : s.expiryQueue[t] # None /\ s.expiryQueue[t] <= now}

\* MUTANT: the queue is cleared instead of polled.
Flush_Clears(s, now) ==
  [RemoveAccessTokens(s, Due(s, now)) EXCEPT
     !.expiryQueue = [t \in AccessTokens |-> None]]

\* flush: polls the delay queue until no due expiry is left.
Flush(s, now) ==
  LET due == Due(s, now)
  IN [RemoveAccessTokens(s, due) EXCEPT
        !.expiryQueue = [t \in AccessTokens |-> IF t \in due THEN None ELSE @[t]]]

\* The count of inserts, with the flush every FlushInterval-th of them does.
CountInsert(s, now) ==
  IF s.flushCounter + 1 >= FlushInterval
  THEN [Flush(s, now) EXCEPT !.flushCounter = 0]
  ELSE [s EXCEPT !.flushCounter = @ + 1]

\* MUTANT: the refresh token is not told about its new access token.
FileAccessToken_NoRefreshIndex(s, t, token, a) ==
  [s EXCEPT
    !.accessTokenStore = @ \cup {t},
    !.authenticationStore = [@ EXCEPT ![t] = a],
    !.authenticationToAccessTokenStore = [@ EXCEPT ![ExtractKey(a)] = t],
    !.accessTokenToRefreshTokenStore =
       IF token.refreshToken = None THEN @ ELSE [@ EXCEPT ![t] = token.refreshToken]]

\* storeAccessToken after its flush: the token is filed in every index.
FileAccessToken(s, t, token, a) ==
  [s EXCEPT
    !.accessTokenStore = @ \cup {t},
    !.authenticationStore = [@ EXCEPT ![t] = a],
    !.authenticationToAccessTokenStore = [@ EXCEPT ![ExtractKey(a)] = t],
    !.userNameToAccessTokenStore =
       [b \in Buckets |-> IF ~IsClientOnly(a) /\ b = ApprovalKey(a)
                          THEN @[b] \cup {t} ELSE @[b]],
    !.clientIdToAccessTokenStore =
       [c \in Clients |-> IF c = a.client THEN @[c] \cup {t} ELSE @[c]],
    !.expiryQueue =
       IF token.expiration = Never THEN @ ELSE [@ EXCEPT ![t] = token.expiration],
    !.refreshTokenToAccessTokenStore =
       IF token.refreshToken = None THEN @ ELSE [@ EXCEPT ![token.refreshToken] = t],
    !.accessTokenToRefreshTokenStore =
       IF token.refreshToken = None THEN @ ELSE [@ EXCEPT ![t] = token.refreshToken]]

StoreAccessToken(s, t, token, a, now) ==
  FileAccessToken(CountInsert(s, now), t, token, a)

\* getAccessToken: the token filed under the key of a; if it is filed there for
\* an authentication with another key, it is stored again.
LookupAccessToken(s, a) == s.authenticationToAccessTokenStore[ExtractKey(a)]

AfterGetAccessToken(s, a, objects, now) ==
  LET t == LookupAccessToken(s, a)
  IN IF t # None /\ ExtractKey(s.authenticationStore[t]) # ExtractKey(a)
     THEN StoreAccessToken(s, t, objects[t], a, now)
     ELSE s

\* findTokensByClientIdAndUserName and findTokensByClientId.
FindTokensByClientIdAndUserName(s, c, u) == s.userNameToAccessTokenStore[<<c, u>>]
FindTokensByClientId(s, c) == s.clientIdToAccessTokenStore[c]

\* clear: the user index is not cleared, nor is the insert counter.
ClearStore(s) ==
  [EmptyStore EXCEPT !.userNameToAccessTokenStore = s.userNameToAccessTokenStore,
                     !.flushCounter = s.flushCounter]

=============================================================================
