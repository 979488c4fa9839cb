------------------------- MODULE TokenServicesProofs -------------------------
(***************************************************************************)
(* Proofs about TokenServices.  The first part says, for each operator of   *)
(* InMemoryTokenStore, which fields it changes and how; the second part     *)
(* shows what each of them preserves; the third lifts that to the actions.  *)
(***************************************************************************)
EXTENDS TokenServices, TLAPS

-----------------------------------------------------------------------------
(* What the operators do to the fields.                                     *)

\* The key under which a token is filed is itself an authentication.
LEMMA ExtractKeyType ==
  ASSUME NEW a \in Authentications
  PROVE  ExtractKey(a) \in Authentications
  BY DEF ExtractKey, Authentications, Listings

\* Two authentications filed under one key agree on all but the listing.
LEMMA SameKey ==
  ASSUME NEW a \in Authentications, NEW b \in Authentications,
         ExtractKey(a) = ExtractKey(b)
  PROVE  a.client = b.client /\ a.user = b.user /\ a.scope = b.scope
  BY DEF ExtractKey, Authentications, Listings

\* The empty store is a store.
LEMMA EmptyStoreType == EmptyStore \in Stores
  BY DEF EmptyStore, Stores

\* clear empties every map that the invariant speaks of.
LEMMA ClearFields ==
  ASSUME NEW s \in Stores
  PROVE  LET u == ClearStore(s)
         IN /\ u \in Stores
            /\ u.accessTokenStore = {}
            /\ u.refreshTokenStore = {}
            /\ u.authenticationStore = [t \in AccessTokens |-> None]
            /\ u.accessTokenToRefreshTokenStore = [t \in AccessTokens |-> None]
            /\ u.authenticationToAccessTokenStore = [k \in Authentications |-> None]
            /\ u.refreshTokenAuthenticationStore = [r \in RefreshTokens |-> None]
  BY DEF ClearStore, EmptyStore, Stores

\* removeAccessToken leaves the refresh token maps alone and empties the
\* entries of T in every other map.
LEMMA RemoveFields ==
  ASSUME NEW s \in Stores, NEW T \in SUBSET AccessTokens
  PROVE  LET u == RemoveAccessTokens(s, T)
         IN /\ u \in Stores
            /\ u.accessTokenStore = s.accessTokenStore \ T
            /\ u.accessTokenToRefreshTokenStore =
                 [t \in AccessTokens |->
                    IF t \in T THEN None ELSE s.accessTokenToRefreshTokenStore[t]]
            /\ u.authenticationStore =
                 [t \in AccessTokens |->
                    IF t \in T THEN None ELSE s.authenticationStore[t]]
            /\ u.authenticationToAccessTokenStore =
                 [k \in Authentications |->
                    IF k \in KeysOf(s, T) THEN None
                    ELSE s.authenticationToAccessTokenStore[k]]
            /\ u.refreshTokenStore = s.refreshTokenStore
            /\ u.refreshTokenAuthenticationStore = s.refreshTokenAuthenticationStore
            /\ u.refreshTokenToAccessTokenStore = s.refreshTokenToAccessTokenStore
<1> DEFINE
      u == RemoveAccessTokens(s, T)
      live == s.accessTokenStore \ T
      toRefresh == [t \in AccessTokens |->
                      IF t \in T THEN None ELSE s.accessTokenToRefreshTokenStore[t]]
      auth == [t \in AccessTokens |->
                 IF t \in T THEN None ELSE s.authenticationStore[t]]
      byKey == [k \in Authentications |->
                  IF k \in KeysOf(s, T) THEN None
                  ELSE s.authenticationToAccessTokenStore[k]]
      byUser == [b \in Buckets |->
                   s.userNameToAccessTokenStore[b] \ FoundUnderName(s, T, b)]
      byClient == [c \in Clients |->
                     s.clientIdToAccessTokenStore[c] \ FoundUnderClient(s, T, c)]
<1>1. u = [s EXCEPT !.accessTokenStore = live,
                    !.accessTokenToRefreshTokenStore = toRefresh,
                    !.authenticationStore = auth,
                    !.authenticationToAccessTokenStore = byKey,
                    !.userNameToAccessTokenStore = byUser,
                    !.clientIdToAccessTokenStore = byClient]
  BY Zenon DEF RemoveAccessTokens
<1>2. /\ live \in SUBSET AccessTokens
      /\ toRefresh \in [AccessTokens -> RefreshTokens \cup {None}]
      /\ auth \in [AccessTokens -> Authentications \cup {None}]
      /\ byKey \in [Authentications -> AccessTokens \cup {None}]
      /\ byUser \in [Buckets -> SUBSET AccessTokens]
      /\ byClient \in [Clients -> SUBSET AccessTokens]
  BY DEF Stores
<1> HIDE DEF u, live, toRefresh, auth, byKey, byUser, byClient
<1>3. u \in Stores
  BY <1>1, <1>2, ZenonT(30) DEF Stores
<1>4. /\ u.accessTokenStore = live
      /\ u.accessTokenToRefreshTokenStore = toRefresh
      /\ u.authenticationStore = auth
      /\ u.authenticationToAccessTokenStore = byKey
      /\ u.refreshTokenStore = s.refreshTokenStore
      /\ u.refreshTokenAuthenticationStore = s.refreshTokenAuthenticationStore
      /\ u.refreshTokenToAccessTokenStore = s.refreshTokenToAccessTokenStore
  BY <1>1 DEF Stores
<1> QED BY <1>3, <1>4 DEF u, live, toRefresh, auth, byKey

\* removeRefreshToken empties the entries of r in its three maps.
LEMMA RemoveRefreshFields ==
  ASSUME NEW s \in Stores, NEW r \in RefreshTokens
  PROVE  LET u == RemoveRefreshToken(s, r)
         IN /\ u \in Stores
            /\ u.accessTokenStore = s.accessTokenStore
            /\ u.accessTokenToRefreshTokenStore = s.accessTokenToRefreshTokenStore
            /\ u.authenticationStore = s.authenticationStore
            /\ u.authenticationToAccessTokenStore = s.authenticationToAccessTokenStore
            /\ u.refreshTokenStore = s.refreshTokenStore \ {r}
            /\ u.refreshTokenAuthenticationStore =
                 [s.refreshTokenAuthenticationStore EXCEPT ![r] = None]
            /\ u.refreshTokenToAccessTokenStore =
                 [s.refreshTokenToAccessTokenStore EXCEPT ![r] = None]
  BY DEF RemoveRefreshToken, Stores

\* storeRefreshToken changes the two maps of refresh tokens and no other.
LEMMA StoreRefreshFields ==
  ASSUME NEW s \in Stores, NEW r \in RefreshTokens, NEW a \in Authentications
  PROVE  LET u == StoreRefreshToken(s, r, a)
         IN /\ u \in Stores
            /\ u.accessTokenStore = s.accessTokenStore
            /\ u.accessTokenToRefreshTokenStore = s.accessTokenToRefreshTokenStore
            /\ u.authenticationStore = s.authenticationStore
            /\ u.authenticationToAccessTokenStore = s.authenticationToAccessTokenStore
            /\ u.refreshTokenStore = s.refreshTokenStore \cup {r}
            /\ u.refreshTokenAuthenticationStore =
                 [s.refreshTokenAuthenticationStore EXCEPT ![r] = a]
            /\ u.refreshTokenToAccessTokenStore = s.refreshTokenToAccessTokenStore
  BY DEF StoreRefreshToken, Stores

\* removeAccessTokenUsingRefreshToken takes out one index entry and at most one
\* access token, and leaves the refresh token itself alone.
LEMMA RemoveUsingFields ==
  ASSUME NEW s \in Stores, NEW r \in RefreshTokens
  PROVE  LET u == RemoveAccessTokenUsingRefreshToken(s, r)
             v == [s EXCEPT !.refreshTokenToAccessTokenStore[r] = None]
             t == s.refreshTokenToAccessTokenStore[r]
         IN /\ v \in Stores
            /\ v.accessTokenStore = s.accessTokenStore
            /\ v.accessTokenToRefreshTokenStore = s.accessTokenToRefreshTokenStore
            /\ v.authenticationStore = s.authenticationStore
            /\ v.authenticationToAccessTokenStore = s.authenticationToAccessTokenStore
            /\ v.refreshTokenStore = s.refreshTokenStore
            /\ v.refreshTokenAuthenticationStore = s.refreshTokenAuthenticationStore
            /\ v.refreshTokenToAccessTokenStore =
                 [s.refreshTokenToAccessTokenStore EXCEPT ![r] = None]
            /\ t = None => u = v
            /\ t # None => t \in AccessTokens /\ u = RemoveAccessTokens(v, {t})
  BY DEF RemoveAccessTokenUsingRefreshToken, RemoveAccessToken, Stores

\* A flush is the removal of some tokens, as far as these fields go.
LEMMA FlushFields ==
  ASSUME NEW s \in Stores, NEW m \in Nat
  PROVE  LET u == Flush(s, m)
             v == RemoveAccessTokens(s, Due(s, m))
         IN /\ Due(s, m) \in SUBSET AccessTokens
            /\ u \in Stores
            /\ u.accessTokenStore = v.accessTokenStore
            /\ u.accessTokenToRefreshTokenStore = v.accessTokenToRefreshTokenStore
            /\ u.authenticationStore = v.authenticationStore
            /\ u.authenticationToAccessTokenStore = v.authenticationToAccessTokenStore
            /\ u.refreshTokenStore = v.refreshTokenStore
            /\ u.refreshTokenAuthenticationStore = v.refreshTokenAuthenticationStore
            /\ u.refreshTokenToAccessTokenStore = v.refreshTokenToAccessTokenStore
<1> DEFINE
      u == Flush(s, m)
      v == RemoveAccessTokens(s, Due(s, m))
      queue == [t \in AccessTokens |-> IF t \in Due(s, m) THEN None ELSE v.expiryQueue[t]]
<1>1. Due(s, m) \in SUBSET AccessTokens
  BY DEF Due
<1>2. v \in Stores
  BY <1>1, RemoveFields
<1>3. u = [v EXCEPT !.expiryQueue = queue]
  BY Zenon DEF Flush
<1>4. queue \in [AccessTokens -> Int \cup {None}]
  BY <1>2 DEF Stores
<1> HIDE DEF u, v, queue
<1>5. u \in Stores
  BY <1>2, <1>3, <1>4, ZenonT(30) DEF Stores
<1>6. /\ u.accessTokenStore = v.accessTokenStore
      /\ u.accessTokenToRefreshTokenStore = v.accessTokenToRefreshTokenStore
      /\ u.authenticationStore = v.authenticationStore
      /\ u.authenticationToAccessTokenStore = v.authenticationToAccessTokenStore
      /\ u.refreshTokenStore = v.refreshTokenStore
      /\ u.refreshTokenAuthenticationStore = v.refreshTokenAuthenticationStore
      /\ u.refreshTokenToAccessTokenStore = v.refreshTokenToAccessTokenStore
  BY <1>2, <1>3 DEF Stores
<1> QED BY <1>1, <1>5, <1>6 DEF u, v

\* Filing a token changes the entries of that token, of its key and of its
\* refresh token.
LEMMA FileFields ==
  ASSUME NEW s \in Stores, NEW t \in AccessTokens, NEW token \in AccessTokenObjects,
         NEW a \in Authentications
  PROVE  LET u == FileAccessToken(s, t, token, a)
         IN /\ u \in Stores
            /\ u.accessTokenStore = s.accessTokenStore \cup {t}
            /\ u.authenticationStore = [s.authenticationStore EXCEPT ![t] = a]
            /\ u.authenticationToAccessTokenStore =
                 [s.authenticationToAccessTokenStore EXCEPT ![ExtractKey(a)] = t]
            /\ u.accessTokenToRefreshTokenStore =
                 IF token.refreshToken = None THEN s.accessTokenToRefreshTokenStore
                 ELSE [s.accessTokenToRefreshTokenStore EXCEPT ![t] = token.refreshToken]
            /\ u.refreshTokenStore = s.refreshTokenStore
            /\ u.refreshTokenAuthenticationStore = s.refreshTokenAuthenticationStore
            /\ u.refreshTokenToAccessTokenStore =
                 IF token.refreshToken = None THEN s.refreshTokenToAccessTokenStore
                 ELSE [s.refreshTokenToAccessTokenStore EXCEPT ![token.refreshToken] = t]
<1> DEFINE
      u == FileAccessToken(s, t, token, a)
      live == s.accessTokenStore \cup {t}
      auth == [s.authenticationStore EXCEPT ![t] = a]
      byKey == [s.authenticationToAccessTokenStore EXCEPT ![ExtractKey(a)] = t]
      byUser == [b \in Buckets |->
                   IF ~IsClientOnly(a) /\ b = ApprovalKey(a)
                   THEN s.userNameToAccessTokenStore[b] \cup {t}
                   ELSE s.userNameToAccessTokenStore[b]]
      byClient == [c \in Clients |->
                     IF c = a.client THEN s.clientIdToAccessTokenStore[c] \cup {t}
                     ELSE s.clientIdToAccessTokenStore[c]]
      queue == IF token.expiration = Never THEN s.expiryQueue
               ELSE [s.expiryQueue EXCEPT ![t] = token.expiration]
      toAccess == IF token.refreshToken = None THEN s.refreshTokenToAccessTokenStore
                  ELSE [s.refreshTokenToAccessTokenStore EXCEPT ![token.refreshToken] = t]
      toRefresh == IF token.refreshToken = None THEN s.accessTokenToRefreshTokenStore
                   ELSE [s.accessTokenToRefreshTokenStore EXCEPT ![t] = token.refreshToken]
<1>1. u = [s EXCEPT !.accessTokenStore = live,
                    !.authenticationStore = auth,
                    !.authenticationToAccessTokenStore = byKey,
                    !.userNameToAccessTokenStore = byUser,
                    !.clientIdToAccessTokenStore = byClient,
                    !.expiryQueue = queue,
                    !.refreshTokenToAccessTokenStore = toAccess,
                    !.accessTokenToRefreshTokenStore = toRefresh]
  BY Zenon DEF FileAccessToken
<1>2. /\ live \in SUBSET AccessTokens
      /\ auth \in [AccessTokens -> Authentications \cup {None}]
      /\ byKey \in [Authentications -> AccessTokens \cup {None}]
      /\ byUser \in [Buckets -> SUBSET AccessTokens]
      /\ byClient \in [Clients -> SUBSET AccessTokens]
      /\ queue \in [AccessTokens -> Int \cup {None}]
      /\ toAccess \in [RefreshTokens -> AccessTokens \cup {None}]
      /\ toRefresh \in [AccessTokens -> RefreshTokens \cup {None}]
  BY ExtractKeyType DEF Stores, AccessTokenObjects, Expirations, Authentications
<1> HIDE DEF u, live, auth, byKey, byUser, byClient, queue, toAccess, toRefresh
<1>3. u \in Stores
  BY <1>1, <1>2, ZenonT(30) DEF Stores
<1>4. /\ u.accessTokenStore = live
      /\ u.authenticationStore = auth
      /\ u.authenticationToAccessTokenStore = byKey
      /\ u.refreshTokenToAccessTokenStore = toAccess
      /\ u.accessTokenToRefreshTokenStore = toRefresh
      /\ u.refreshTokenStore = s.refreshTokenStore
      /\ u.refreshTokenAuthenticationStore = s.refreshTokenAuthenticationStore
  BY <1>1 DEF Stores
<1> QED BY <1>3, <1>4 DEF u, live, auth, byKey, toAccess, toRefresh

-----------------------------------------------------------------------------
(* What the operators preserve.  Sound(s, obj, X) is the store part of IInv *)
(* for a store s in the middle of a call, when the tokens of X are yet to   *)
(* be put in order with their refresh tokens.                               *)

\* The maps keyed by one token describe the same tokens.
Agree(s, obj) ==
  /\ s \in Stores
  /\ \A t \in AccessTokens : t \in s.accessTokenStore <=> s.authenticationStore[t] # None
  /\ \A t \in AccessTokens :
       s.accessTokenToRefreshTokenStore[t] =
         IF t \in s.accessTokenStore THEN obj[t].refreshToken ELSE None
  /\ \A r \in RefreshTokens :
       r \in s.refreshTokenStore <=> s.refreshTokenAuthenticationStore[r] # None
  /\ \A t \in s.accessTokenStore : obj[t] \in AccessTokenObjects

\* The key index leads to live tokens with that key.
IndexSound(s) ==
  \A k \in Authentications :
    LET t == s.authenticationToAccessTokenStore[k]
    IN t # None => t \in s.accessTokenStore /\ ExtractKey(s.authenticationStore[t]) = k

\* a grants no more than b, to the same client and user.
Within(a, b) ==
  a.client = b.client /\ a.user = b.user /\ a.scope \subseteq b.scope

\* The refresh token of t, if it has one, is stored, leads back to t and grants it.
Backed(s, obj, t) ==
  LET r == obj[t].refreshToken
  IN r # None =>
       /\ s.refreshTokenToAccessTokenStore[r] = t
       /\ r \in s.refreshTokenStore
       /\ Within(s.authenticationStore[t], s.refreshTokenAuthenticationStore[r])

\* The whole of it.
Sound(s, obj, X) ==
  /\ Agree(s, obj)
  /\ IndexSound(s)
  /\ \A t \in s.accessTokenStore \ X : Backed(s, obj, t)

\* Token t may be filed for a: it is new, or filed under the same key, and no
\* other live token has its refresh token.
Filable(s, obj, t, a) ==
  /\ \/ s.authenticationStore[t] = None
     \/ ExtractKey(s.authenticationStore[t]) = ExtractKey(a)
  /\ \A x \in s.accessTokenStore :
       obj[x].refreshToken = obj[t].refreshToken /\ obj[t].refreshToken # None => x = t

\* The token objects of TokenServices.
Objects == [AccessTokens -> AccessTokenObjects \cup {None}]

\* removeAccessToken: the index entries it deletes are those of the tokens it
\* deletes, so none is left dangling.
LEMMA RemoveSound ==
  ASSUME NEW s, NEW obj, NEW X, NEW T \in SUBSET AccessTokens, Sound(s, obj, X)
  PROVE  Sound(RemoveAccessTokens(s, T), obj, X \ T)
<1> DEFINE u == RemoveAccessTokens(s, T)
<1>s. s \in Stores
  BY DEF Sound, Agree
<1>1. /\ u \in Stores
      /\ u.accessTokenStore = s.accessTokenStore \ T
      /\ u.accessTokenToRefreshTokenStore =
           [t \in AccessTokens |->
              IF t \in T THEN None ELSE s.accessTokenToRefreshTokenStore[t]]
      /\ u.authenticationStore =
           [t \in AccessTokens |-> IF t \in T THEN None ELSE s.authenticationStore[t]]
      /\ u.authenticationToAccessTokenStore =
           [k \in Authentications |->
              IF k \in KeysOf(s, T) THEN None ELSE s.authenticationToAccessTokenStore[k]]
      /\ u.refreshTokenStore = s.refreshTokenStore
      /\ u.refreshTokenAuthenticationStore = s.refreshTokenAuthenticationStore
      /\ u.refreshTokenToAccessTokenStore = s.refreshTokenToAccessTokenStore
  BY <1>s, RemoveFields
<1> HIDE DEF u
<1>2. Agree(u, obj)
  BY <1>1 DEF Sound, Agree
<1>3. IndexSound(u)
  <2> SUFFICES ASSUME NEW k \in Authentications, NEW t,
                      t = u.authenticationToAccessTokenStore[k], t # None
               PROVE  t \in u.accessTokenStore /\ ExtractKey(u.authenticationStore[t]) = k
    BY DEF IndexSound
  <2>1. k \notin KeysOf(s, T) /\ t = s.authenticationToAccessTokenStore[k]
    BY <1>1
  <2>2. t \in s.accessTokenStore /\ ExtractKey(s.authenticationStore[t]) = k
    BY <2>1 DEF Sound, IndexSound
  <2>3. t \in AccessTokens /\ s.authenticationStore[t] # None
    BY <1>s, <2>2 DEF Sound, Agree, Stores
  <2>4. t \notin T
    BY <2>1, <2>2, <2>3 DEF KeysOf, Known
  <2> QED BY <1>1, <2>2, <2>3, <2>4
<1>4. \A t \in u.accessTokenStore \ (X \ T) : Backed(u, obj, t)
  BY <1>s, <1>1 DEF Sound, Backed, Stores
<1> QED BY <1>2, <1>3, <1>4 DEF Sound, u

\* removeRefreshToken: only the tokens of r lose their refresh token.
LEMMA RemoveRefreshSound ==
  ASSUME NEW s, NEW obj, NEW X, NEW r \in RefreshTokens, Sound(s, obj, {}),
         \A t \in s.accessTokenStore : obj[t].refreshToken = r => t \in X
  PROVE  Sound(RemoveRefreshToken(s, r), obj, X)
<1> DEFINE u == RemoveRefreshToken(s, r)
<1>s. s \in Stores
  BY DEF Sound, Agree
<1>1. /\ u \in Stores
      /\ u.accessTokenStore = s.accessTokenStore
      /\ u.accessTokenToRefreshTokenStore = s.accessTokenToRefreshTokenStore
      /\ u.authenticationStore = s.authenticationStore
      /\ u.authenticationToAccessTokenStore = s.authenticationToAccessTokenStore
      /\ u.refreshTokenStore = s.refreshTokenStore \ {r}
      /\ u.refreshTokenAuthenticationStore =
           [s.refreshTokenAuthenticationStore EXCEPT ![r] = None]
      /\ u.refreshTokenToAccessTokenStore =
           [s.refreshTokenToAccessTokenStore EXCEPT ![r] = None]
  BY <1>s, RemoveRefreshFields
<1> HIDE DEF u
<1>2. Agree(u, obj)
  BY <1>s, <1>1 DEF Sound, Agree, Stores
<1>3. IndexSound(u)
  BY <1>1 DEF Sound, IndexSound
<1>4. \A t \in u.accessTokenStore \ X : Backed(u, obj, t)
  BY <1>s, <1>1 DEF Sound, Agree, Backed, Stores, AccessTokenObjects
<1> QED BY <1>2, <1>3, <1>4 DEF Sound, u

\* removeAccessTokenUsingRefreshToken: r has no live access token afterwards,
\* and what r grants is untouched.
LEMMA RemoveUsingSound ==
  ASSUME NEW s, NEW obj, NEW r \in RefreshTokens, Sound(s, obj, {})
  PROVE  LET u == RemoveAccessTokenUsingRefreshToken(s, r)
         IN /\ Sound(u, obj, {})
            /\ \A t \in u.accessTokenStore : obj[t].refreshToken # r
            /\ u.accessTokenStore \subseteq s.accessTokenStore
            /\ u.refreshTokenStore = s.refreshTokenStore
            /\ u.refreshTokenAuthenticationStore = s.refreshTokenAuthenticationStore
<1> DEFINE
      u == RemoveAccessTokenUsingRefreshToken(s, r)
      v == [s EXCEPT !.refreshTokenToAccessTokenStore[r] = None]
      t == s.refreshTokenToAccessTokenStore[r]
<1>s. s \in Stores
  BY DEF Sound, Agree
<1>1. /\ v \in Stores
      /\ v.accessTokenStore = s.accessTokenStore
      /\ v.accessTokenToRefreshTokenStore = s.accessTokenToRefreshTokenStore
      /\ v.authenticationStore = s.authenticationStore
      /\ v.authenticationToAccessTokenStore = s.authenticationToAccessTokenStore
      /\ v.refreshTokenStore = s.refreshTokenStore
      /\ v.refreshTokenAuthenticationStore = s.refreshTokenAuthenticationStore
      /\ v.refreshTokenToAccessTokenStore =
           [s.refreshTokenToAccessTokenStore EXCEPT ![r] = None]
      /\ t = None => u = v
      /\ t # None => t \in AccessTokens /\ u = RemoveAccessTokens(v, {t})
  BY <1>s, RemoveUsingFields
<1> HIDE DEF u, v
<1>2. \A x \in s.accessTokenStore : obj[x].refreshToken = r => x = t /\ t # None
  BY <1>s, SentinelsAssumption DEF Sound, Backed, Stores
<1>3. Agree(v, obj) /\ IndexSound(v)
  BY <1>1 DEF Sound, Agree, IndexSound
<1>4. \A x \in v.accessTokenStore \ {t} : Backed(v, obj, x)
  BY <1>s, <1>1, <1>2 DEF Sound, Agree, Backed, Stores, AccessTokenObjects
<1>5. Sound(v, obj, {t})
  BY <1>3, <1>4 DEF Sound
<1>6. CASE t = None
  <2>1. Sound(v, obj, {})
    BY <1>s, <1>1, <1>5, <1>6, SentinelsAssumption DEF Sound, Stores
  <2> QED BY <1>1, <1>2, <1>6, <2>1 DEF u
<1>7. CASE t # None
  <2>1. Sound(u, obj, {t} \ {t})
    BY <1>1, <1>5, <1>7, RemoveSound
  <2>2. {t} \ {t} = {}
    OBVIOUS
  <2>3. /\ u.accessTokenStore = v.accessTokenStore \ {t}
        /\ u.refreshTokenStore = v.refreshTokenStore
        /\ u.refreshTokenAuthenticationStore = v.refreshTokenAuthenticationStore
    <3>1. v \in Stores /\ {t} \in SUBSET AccessTokens
      BY <1>1, <1>7
    <3>2. u = RemoveAccessTokens(v, {t})
      BY <1>1, <1>7
    <3> HIDE DEF t
    <3> QED BY <3>1, <3>2, RemoveFields, Zenon
  <2> QED BY <1>1, <1>2, <2>1, <2>2, <2>3 DEF u
<1> QED BY <1>6, <1>7

\* The flush an insert may do takes tokens away and changes nothing else.
LEMMA CountInsertSound ==
  ASSUME NEW s, NEW obj, NEW m \in Nat, Sound(s, obj, {})
  PROVE  LET u == CountInsert(s, m)
         IN /\ Sound(u, obj, {})
            /\ u.accessTokenStore \subseteq s.accessTokenStore
            /\ \A t \in AccessTokens :
                 u.authenticationStore[t] \in {None, s.authenticationStore[t]}
            /\ u.refreshTokenStore = s.refreshTokenStore
            /\ u.refreshTokenAuthenticationStore = s.refreshTokenAuthenticationStore
<1> DEFINE
      u == CountInsert(s, m)
      f == Flush(s, m)
      v == RemoveAccessTokens(s, Due(s, m))
<1>s. s \in Stores
  BY DEF Sound, Agree
<1>1. CASE s.flushCounter + 1 >= FlushInterval
  <2>1. Due(s, m) \in SUBSET AccessTokens
    BY DEF Due
  <2>2. /\ f \in Stores
        /\ f.accessTokenStore = v.accessTokenStore
        /\ f.accessTokenToRefreshTokenStore = v.accessTokenToRefreshTokenStore
        /\ f.authenticationStore = v.authenticationStore
        /\ f.authenticationToAccessTokenStore = v.authenticationToAccessTokenStore
        /\ f.refreshTokenStore = v.refreshTokenStore
        /\ f.refreshTokenAuthenticationStore = v.refreshTokenAuthenticationStore
        /\ f.refreshTokenToAccessTokenStore = v.refreshTokenToAccessTokenStore
    BY <1>s, FlushFields
  <2>3. /\ v.accessTokenStore = s.accessTokenStore \ Due(s, m)
        /\ v.authenticationStore =
             [t \in AccessTokens |->
                IF t \in Due(s, m) THEN None ELSE s.authenticationStore[t]]
        /\ v.refreshTokenStore = s.refreshTokenStore
        /\ v.refreshTokenAuthenticationStore = s.refreshTokenAuthenticationStore
    BY <1>s, <2>1, RemoveFields
  <2>4. Sound(v, obj, {} \ Due(s, m))
    BY <2>1, RemoveSound
  <2>5. u = [f EXCEPT !.flushCounter = 0]
    BY <1>1 DEF CountInsert
  <2> HIDE DEF u, f, v
  <2>6. /\ u \in Stores
        /\ u.accessTokenStore = f.accessTokenStore
        /\ u.accessTokenToRefreshTokenStore = f.accessTokenToRefreshTokenStore
        /\ u.authenticationStore = f.authenticationStore
        /\ u.authenticationToAccessTokenStore = f.authenticationToAccessTokenStore
        /\ u.refreshTokenStore = f.refreshTokenStore
        /\ u.refreshTokenAuthenticationStore = f.refreshTokenAuthenticationStore
        /\ u.refreshTokenToAccessTokenStore = f.refreshTokenToAccessTokenStore
    BY <2>2, <2>5 DEF Stores
  <2>7. Sound(u, obj, {})
    BY <2>2, <2>4, <2>6 DEF Sound, Agree, IndexSound, Backed
  <2> QED BY <2>2, <2>3, <2>6, <2>7 DEF u
<1>2. CASE ~ (s.flushCounter + 1 >= FlushInterval)
  <2>1. u = [s EXCEPT !.flushCounter = s.flushCounter + 1]
    BY <1>2 DEF CountInsert
  <2> HIDE DEF u
  <2>2. /\ u \in Stores
        /\ u.accessTokenStore = s.accessTokenStore
        /\ u.accessTokenToRefreshTokenStore = s.accessTokenToRefreshTokenStore
        /\ u.authenticationStore = s.authenticationStore
        /\ u.authenticationToAccessTokenStore = s.authenticationToAccessTokenStore
        /\ u.refreshTokenStore = s.refreshTokenStore
        /\ u.refreshTokenAuthenticationStore = s.refreshTokenAuthenticationStore
        /\ u.refreshTokenToAccessTokenStore = s.refreshTokenToAccessTokenStore
    BY <1>s, <2>1 DEF Stores
  <2>3. Sound(u, obj, {})
    BY <2>2 DEF Sound, Agree, IndexSound, Backed
  <2> QED BY <2>2, <2>3 DEF u
<1> QED BY <1>1, <1>2

\* Filing a token under an authentication: the other tokens keep what they have
\* as long as none of them has its refresh token.
LEMMA FileSound ==
  ASSUME NEW s, NEW obj \in Objects, NEW t \in AccessTokens, NEW a \in Authentications,
         Sound(s, obj, {}), obj[t] # None, Filable(s, obj, t, a)
  PROVE  LET u == FileAccessToken(s, t, obj[t], a)
             r == obj[t].refreshToken
         IN /\ Sound(u, obj, {t})
            /\ u.accessTokenStore = s.accessTokenStore \cup {t}
            /\ u.authenticationStore[t] = a
            /\ r # None => u.refreshTokenToAccessTokenStore[r] = t
            /\ u.refreshTokenStore = s.refreshTokenStore
            /\ u.refreshTokenAuthenticationStore = s.refreshTokenAuthenticationStore
<1> DEFINE
      u == FileAccessToken(s, t, obj[t], a)
      r == obj[t].refreshToken
<1>s. s \in Stores /\ obj[t] \in AccessTokenObjects
  BY DEF Sound, Agree, Objects
<1>1. /\ u \in Stores
      /\ u.accessTokenStore = s.accessTokenStore \cup {t}
      /\ u.authenticationStore = [s.authenticationStore EXCEPT ![t] = a]
      /\ u.authenticationToAccessTokenStore =
           [s.authenticationToAccessTokenStore EXCEPT ![ExtractKey(a)] = t]
      /\ u.accessTokenToRefreshTokenStore =
           IF r = None THEN s.accessTokenToRefreshTokenStore
           ELSE [s.accessTokenToRefreshTokenStore EXCEPT ![t] = r]
      /\ u.refreshTokenStore = s.refreshTokenStore
      /\ u.refreshTokenAuthenticationStore = s.refreshTokenAuthenticationStore
      /\ u.refreshTokenToAccessTokenStore =
           IF r = None THEN s.refreshTokenToAccessTokenStore
           ELSE [s.refreshTokenToAccessTokenStore EXCEPT ![r] = t]
  BY <1>s, FileFields
<1>2. r \in RefreshTokens \cup {None}
  BY <1>s DEF AccessTokenObjects
<1>3. a # None /\ ExtractKey(a) \in Authentications
  BY SentinelsAssumption, ExtractKeyType
<1>k. ExtractKey(u.authenticationStore[t]) = ExtractKey(a)
  BY <1>s, <1>1 DEF Stores
<1> HIDE DEF u
<1>4. Agree(u, obj)
  <2>1. \A x \in AccessTokens :
          x \in u.accessTokenStore <=> u.authenticationStore[x] # None
    BY <1>s, <1>1, <1>3 DEF Sound, Agree, Stores
  <2>2. \A x \in AccessTokens :
          u.accessTokenToRefreshTokenStore[x] =
            IF x \in u.accessTokenStore THEN obj[x].refreshToken ELSE None
    BY <1>s, <1>1, <1>2 DEF Sound, Agree, Stores
  <2> QED BY <1>s, <1>1, <2>1, <2>2 DEF Sound, Agree
<1>5. IndexSound(u)
  <2> SUFFICES ASSUME NEW k \in Authentications, NEW x,
                      x = u.authenticationToAccessTokenStore[k], x # None
               PROVE  x \in u.accessTokenStore /\ ExtractKey(u.authenticationStore[x]) = k
    BY DEF IndexSound
  <2>1. CASE k = ExtractKey(a)
    <3>1. x = t
      BY <1>s, <1>1, <1>3, <2>1 DEF Stores
    <3> QED BY <1>1, <1>k, <2>1, <3>1
  <2>2. CASE k # ExtractKey(a)
    <3>1. x = s.authenticationToAccessTokenStore[k]
      BY <1>s, <1>1, <1>3, <2>2 DEF Stores
    <3>2. x \in s.accessTokenStore /\ ExtractKey(s.authenticationStore[x]) = k
      BY <3>1 DEF Sound, IndexSound
    <3>3. x \in AccessTokens /\ s.authenticationStore[x] # None
      BY <1>s, <3>2 DEF Sound, Agree, Stores
    <3>4. x # t
      BY <2>2, <3>2, <3>3 DEF Filable
    <3> QED BY <1>s, <1>1, <3>2, <3>3, <3>4 DEF Stores
  <2> QED BY <2>1, <2>2
<1>6. \A x \in u.accessTokenStore \ {t} : Backed(u, obj, x)
  <2> SUFFICES ASSUME NEW x \in s.accessTokenStore, x # t, obj[x].refreshToken # None
               PROVE  Backed(u, obj, x)
    BY <1>1 DEF Backed
  <2>1. Backed(s, obj, x) /\ obj[x].refreshToken # r
    BY <1>2 DEF Sound, Filable
  <2>2. x \in AccessTokens /\ obj[x].refreshToken \in RefreshTokens
    BY <1>s DEF Sound, Agree, Stores, AccessTokenObjects
  <2>3. /\ u.refreshTokenToAccessTokenStore[obj[x].refreshToken]
              = s.refreshTokenToAccessTokenStore[obj[x].refreshToken]
        /\ u.authenticationStore[x] = s.authenticationStore[x]
    BY <1>s, <1>1, <1>2, <2>1, <2>2 DEF Stores
  <2> QED BY <1>1, <2>1, <2>3 DEF Backed
<1>7. Sound(u, obj, {t})
  BY <1>4, <1>5, <1>6 DEF Sound
<1>8. /\ u.authenticationStore[t] = a
      /\ r # None => u.refreshTokenToAccessTokenStore[r] = t
  BY <1>s, <1>1, <1>2 DEF Stores
<1> QED BY <1>1, <1>7, <1>8 DEF u

\* storeAccessToken, flush included: the new token is all that is left to put
\* in order, and nothing is if its refresh token is stored and grants enough.
LEMMA StoreAccessSound ==
  ASSUME NEW s, NEW obj \in Objects, NEW t \in AccessTokens, NEW a \in Authentications,
         NEW m \in Nat, Sound(s, obj, {}), obj[t] # None, Filable(s, obj, t, a)
  PROVE  LET u == StoreAccessToken(s, t, obj[t], a, m)
             r == obj[t].refreshToken
         IN /\ Sound(u, obj, {t})
            /\ t \in u.accessTokenStore
            /\ u.accessTokenStore \subseteq s.accessTokenStore \cup {t}
            /\ u.authenticationStore[t] = a
            /\ r # None => u.refreshTokenToAccessTokenStore[r] = t
            /\ u.refreshTokenStore = s.refreshTokenStore
            /\ u.refreshTokenAuthenticationStore = s.refreshTokenAuthenticationStore
            /\ r = None \/ ( /\ r \in s.refreshTokenStore
                            /\ Within(a, s.refreshTokenAuthenticationStore[r]))
                 => Sound(u, obj, {})
<1> DEFINE
      v == CountInsert(s, m)
      u == FileAccessToken(v, t, obj[t], a)
      r == obj[t].refreshToken
<1>1. /\ Sound(v, obj, {})
      /\ v.accessTokenStore \subseteq s.accessTokenStore
      /\ \A x \in AccessTokens :
           v.authenticationStore[x] \in {None, s.authenticationStore[x]}
      /\ v.refreshTokenStore = s.refreshTokenStore
      /\ v.refreshTokenAuthenticationStore = s.refreshTokenAuthenticationStore
  BY CountInsertSound
<1> HIDE DEF v
<1>2. Filable(v, obj, t, a)
  BY <1>1 DEF Filable
<1>3. /\ Sound(u, obj, {t})
      /\ u.accessTokenStore = v.accessTokenStore \cup {t}
      /\ u.authenticationStore[t] = a
      /\ r # None => u.refreshTokenToAccessTokenStore[r] = t
      /\ u.refreshTokenStore = v.refreshTokenStore
      /\ u.refreshTokenAuthenticationStore = v.refreshTokenAuthenticationStore
  BY <1>1, <1>2, FileSound
<1>4. u = StoreAccessToken(s, t, obj[t], a, m)
  BY DEF StoreAccessToken, v
<1> HIDE DEF u
<1>5. ASSUME r = None \/ ( /\ r \in s.refreshTokenStore
                          /\ Within(a, s.refreshTokenAuthenticationStore[r]))
      PROVE  Sound(u, obj, {})
  <2>1. Backed(u, obj, t)
    BY <1>1, <1>3, <1>5 DEF Backed
  <2> QED BY <1>3, <2>1 DEF Sound
<1> QED BY <1>1, <1>3, <1>4, <1>5

\* storeRefreshToken for the authentication of its access token.
LEMMA StoreRefreshSound ==
  ASSUME NEW s, NEW obj \in Objects, NEW t \in s.accessTokenStore,
         NEW r \in RefreshTokens, NEW a \in Authentications,
         Sound(s, obj, {t}), obj[t].refreshToken = r,
         s.refreshTokenToAccessTokenStore[r] = t, s.authenticationStore[t] = a
  PROVE  Sound(StoreRefreshToken(s, r, a), obj, {})
<1> DEFINE u == StoreRefreshToken(s, r, a)
<1>s. s \in Stores
  BY DEF Sound, Agree
<1>1. /\ u \in Stores
      /\ u.accessTokenStore = s.accessTokenStore
      /\ u.accessTokenToRefreshTokenStore = s.accessTokenToRefreshTokenStore
      /\ u.authenticationStore = s.authenticationStore
      /\ u.authenticationToAccessTokenStore = s.authenticationToAccessTokenStore
      /\ u.refreshTokenStore = s.refreshTokenStore \cup {r}
      /\ u.refreshTokenAuthenticationStore =
           [s.refreshTokenAuthenticationStore EXCEPT ![r] = a]
      /\ u.refreshTokenToAccessTokenStore = s.refreshTokenToAccessTokenStore
  BY <1>s, StoreRefreshFields
<1>2. a # None
  BY SentinelsAssumption
<1> HIDE DEF u
<1>3. Agree(u, obj)
  BY <1>s, <1>1, <1>2 DEF Sound, Agree, Stores
<1>4. IndexSound(u)
  BY <1>1 DEF Sound, IndexSound
<1>5. Backed(u, obj, t)
  BY <1>s, <1>1 DEF Backed, Within, Stores
<1>6. \A x \in u.accessTokenStore \ {t} : Backed(u, obj, x)
  <2> SUFFICES ASSUME NEW x \in s.accessTokenStore, x # t, obj[x].refreshToken # None
               PROVE  Backed(u, obj, x)
    BY <1>1 DEF Backed
  <2>1. Backed(s, obj, x)
    BY DEF Sound
  <2>2. obj[x].refreshToken \in RefreshTokens
    BY DEF Sound, Agree, AccessTokenObjects
  <2>3. obj[x].refreshToken # r
    BY <2>1 DEF Backed
  <2> QED BY <1>s, <1>1, <2>1, <2>2, <2>3 DEF Backed, Stores
<1> QED BY <1>3, <1>4, <1>5, <1>6 DEF Sound, u

\* Making an object for a new token disturbs no live one.
LEMMA FreshSound ==
  ASSUME NEW s, NEW obj \in Objects, NEW X, NEW t \in AccessTokens,
         NEW o \in AccessTokenObjects, Sound(s, obj, X), obj[t] = None
  PROVE  /\ Sound(s, [obj EXCEPT ![t] = o], X)
         /\ [obj EXCEPT ![t] = o] \in Objects
         /\ t \notin s.accessTokenStore
         /\ s.authenticationStore[t] = None
<1> DEFINE obj2 == [obj EXCEPT ![t] = o]
<1>1. t \notin s.accessTokenStore
  BY ObjectsAssumption DEF Sound, Agree
<1>2. obj2 \in Objects
  BY DEF Objects
<1>3. \A x \in s.accessTokenStore : obj2[x] = obj[x]
  BY <1>1 DEF Sound, Agree, Stores, Objects
<1> HIDE DEF obj2
<1>4. Agree(s, obj2)
  BY <1>3 DEF Sound, Agree
<1>5. \A x \in s.accessTokenStore \ X : Backed(s, obj2, x)
  BY <1>3 DEF Sound, Backed
<1> QED BY <1>1, <1>2, <1>4, <1>5 DEF Sound, Agree, obj2

-----------------------------------------------------------------------------
(* What the actions preserve.                                               *)

\* IInv in terms of Sound.
Inv ==
  /\ TypeOK
  /\ Sound(store, accessToken, {})
  /\ \A r \in store.refreshTokenStore : refreshToken[r] # None

\* Inv is IInv, with the parts about the store put in terms of a store and the
\* objects of its tokens.
LEMMA InvIsIInv == Inv <=> IInv
<1>1. TypeOK => (Sound(store, accessToken, {}) <=>
                   /\ StoresAgree
                   /\ \A r \in RefreshTokens :
                        r \in store.refreshTokenStore <=> RefreshGrant(r) # None
                   /\ LiveTokensCreated
                   /\ AuthenticationIndexSound
                   /\ RefreshIndexCoversLive
                   /\ LiveTokenKeepsRefreshToken
                   /\ AccessWithinRefreshGrant)
  <2> SUFFICES ASSUME TypeOK
               PROVE  Sound(store, accessToken, {}) <=>
                   /\ StoresAgree
                   /\ \A r \in RefreshTokens :
                        r \in store.refreshTokenStore <=> RefreshGrant(r) # None
                   /\ LiveTokensCreated
                   /\ AuthenticationIndexSound
                   /\ RefreshIndexCoversLive
                   /\ LiveTokenKeepsRefreshToken
                   /\ AccessWithinRefreshGrant
    OBVIOUS
  <2>1. IndexSound(store) <=> AuthenticationIndexSound
    BY DEF IndexSound, AuthenticationIndexSound, Live, AuthenticationOf
  <2>2. (\A t \in Live : accessToken[t] \in AccessTokenObjects) <=> LiveTokensCreated
    BY ObjectsAssumption DEF TypeOK, Stores, Live, LiveTokensCreated
  <2>3. Agree(store, accessToken) <=>
          /\ StoresAgree
          /\ \A r \in RefreshTokens :
               r \in store.refreshTokenStore <=> RefreshGrant(r) # None
          /\ LiveTokensCreated
    BY <2>2 DEF TypeOK, Agree, StoresAgree, RefreshGrant, Live, AuthenticationOf
  <2>4. ASSUME Agree(store, accessToken)
        PROVE  (\A t \in Live : Backed(store, accessToken, t)) <=>
                 /\ RefreshIndexCoversLive
                 /\ LiveTokenKeepsRefreshToken
                 /\ AccessWithinRefreshGrant
    <3>1. \A t \in Live : accessToken[t].refreshToken # None
             => accessToken[t].refreshToken \in RefreshTokens
      BY <2>4 DEF Agree, Live, AccessTokenObjects
    <3> QED BY <2>4, <3>1 DEF Agree, Backed, Within, RefreshIndexCoversLive,
               LiveTokenKeepsRefreshToken, AccessWithinRefreshGrant, RefreshGrant,
               AuthenticationOf, Live
  <2> QED BY <2>1, <2>3, <2>4 DEF Sound, Live
<1>2. TypeOK => ((\A r \in store.refreshTokenStore : refreshToken[r] # None) <=>
                 (\A r \in RefreshTokens :
                    r \in store.refreshTokenStore => refreshToken[r] # None))
  BY DEF TypeOK, Stores
<1> QED BY <1>1, <1>2 DEF Inv, IInv, RefreshStoresAgree

\* What an action must establish: the invariant, and its part of the action
\* properties.
GrantsNarrow(s, u) ==
  \A r \in RefreshTokens :
    /\ s.refreshTokenAuthenticationStore[r] # None
    /\ u.refreshTokenAuthenticationStore[r] # None
    => Within(u.refreshTokenAuthenticationStore[r], s.refreshTokenAuthenticationStore[r])

\* The step brings no access token back.
NoneBack ==
  \A t \in AccessTokens :
    accessToken[t] # None /\ t \notin store.accessTokenStore
      => t \notin store'.accessTokenStore

\* The step brings no refresh token back.
NoneRefreshBack ==
  \A r \in RefreshTokens :
    refreshToken[r] # None /\ r \notin store.refreshTokenStore
      => r \notin store'.refreshTokenStore

StepOK == Inv' /\ NoneBack /\ NoneRefreshBack /\ GrantsNarrow(store, store')

\* The expiration of a new token is not null.
LEMMA NewExpirationType ==
  ASSUME now \in Nat, NEW n \in Int
  PROVE  NewExpiration(n) \in Expirations /\ NewExpiration(n) # None
  BY SentinelsAssumption DEF NewExpiration, Expirations

\* createAccessToken makes an object with the refresh token it is given.
LEMMA NewAccessTokenType ==
  ASSUME now \in Nat, NEW c \in Clients, NEW r \in RefreshTokens \cup {None}
  PROVE  /\ NewAccessToken(c, r) \in AccessTokenObjects
         /\ NewAccessToken(c, r) # None
         /\ NewAccessToken(c, r).refreshToken = r
<1>1. NewExpiration(AccessTokenValidity[c]) \in Expirations
  BY ServicesAssumption, NewExpirationType
<1> QED BY <1>1, ObjectsAssumption DEF NewAccessToken, AccessTokenObjects

\* A refresh token that createRefreshToken makes was not in the store.
LEMMA CreateRefreshTokenFresh ==
  ASSUME Inv, NEW c \in Clients, NEW r, CreateRefreshToken(c, r)
  PROVE  /\ r \in RefreshTokens \cup {None}
         /\ r # None => /\ r \notin store.refreshTokenStore
                        /\ refreshToken[r] = None
                        /\ refreshToken'[r] # None
         /\ refreshToken' \in [RefreshTokens -> Expirations \cup {None}]
         /\ \A x \in RefreshTokens : refreshToken[x] # None => refreshToken'[x] # None
<1>1. /\ NewExpiration(RefreshTokenValidity[c]) \in Expirations
      /\ NewExpiration(RefreshTokenValidity[c]) # None
  BY ServicesAssumption, NewExpirationType DEF Inv, TypeOK
<1> QED BY <1>1 DEF CreateRefreshToken, Inv, TypeOK

\* storeAccessToken and storeRefreshToken of a new pair.
LEMMA StoreBothSound ==
  ASSUME NEW s, NEW obj \in Objects, NEW t \in AccessTokens, NEW a \in Authentications,
         NEW r \in RefreshTokens \cup {None}, now \in Nat, Sound(s, obj, {}),
         obj[t] = NewAccessToken(a.client, r), Filable(s, obj, t, a)
  PROVE  LET u == StoreBoth(s, t, r, a)
         IN /\ Sound(u, obj, {})
            /\ u.accessTokenStore \subseteq s.accessTokenStore \cup {t}
            /\ u.refreshTokenStore \subseteq s.refreshTokenStore \cup {r}
            /\ \A x \in RefreshTokens :
                 u.refreshTokenAuthenticationStore[x] =
                   IF x = r THEN a ELSE s.refreshTokenAuthenticationStore[x]
<1> DEFINE
      v == StoreAccessToken(s, t, obj[t], a, now)
      u == StoreBoth(s, t, r, a)
<1>1. obj[t].refreshToken = r /\ obj[t] # None
  BY NewAccessTokenType DEF Authentications
<1>2. /\ Sound(v, obj, {t})
      /\ t \in v.accessTokenStore
      /\ v.accessTokenStore \subseteq s.accessTokenStore \cup {t}
      /\ v.authenticationStore[t] = a
      /\ obj[t].refreshToken # None
           => v.refreshTokenToAccessTokenStore[obj[t].refreshToken] = t
      /\ v.refreshTokenStore = s.refreshTokenStore
      /\ v.refreshTokenAuthenticationStore = s.refreshTokenAuthenticationStore
      /\ (\/ obj[t].refreshToken = None
          \/ /\ obj[t].refreshToken \in s.refreshTokenStore
             /\ Within(a, s.refreshTokenAuthenticationStore[obj[t].refreshToken]))
         => Sound(v, obj, {})
  BY <1>1, StoreAccessSound, Zenon
<1>3. u = IF r = None THEN v ELSE StoreRefreshToken(v, r, a)
  BY DEF StoreBoth
<1> HIDE DEF u, v
<1>4. CASE r = None
  BY <1>1, <1>2, <1>3, <1>4, SentinelsAssumption DEF u
<1>5. CASE r # None
  <2>1. Sound(u, obj, {})
    BY <1>1, <1>2, <1>3, <1>5, StoreRefreshSound
  <2>2. v \in Stores
    BY <1>2 DEF Sound, Agree
  <2>3. /\ u.accessTokenStore = v.accessTokenStore
        /\ u.refreshTokenStore = v.refreshTokenStore \cup {r}
        /\ u.refreshTokenAuthenticationStore =
             [v.refreshTokenAuthenticationStore EXCEPT ![r] = a]
    BY <1>3, <1>5, <2>2, StoreRefreshFields
  <2>4. \A x \in RefreshTokens :
          u.refreshTokenAuthenticationStore[x] =
            IF x = r THEN a ELSE s.refreshTokenAuthenticationStore[x]
    BY <1>2, <2>2, <2>3 DEF Stores
  <2> QED BY <1>2, <2>1, <2>3, <2>4 DEF u
<1> QED BY <1>4, <1>5

\* What getAccessToken finds for an authentication: a live token with the same
\* client, user and scopes, which it does not store again.
LEMMA LookupSound ==
  ASSUME Inv, NEW a \in Authentications, LookupAccessToken(store, a) # None
  PROVE  LET t == LookupAccessToken(store, a)
             b == store.authenticationStore[t]
         IN /\ t \in AccessTokens
            /\ t \in store.accessTokenStore
            /\ accessToken[t] \in AccessTokenObjects
            /\ ExtractKey(b) = ExtractKey(a)
            /\ b \in Authentications
            /\ Within(a, b) /\ Within(b, a)
            /\ AfterGetAccessToken(store, a, accessToken, now) = store
<1> DEFINE
      t == LookupAccessToken(store, a)
      b == store.authenticationStore[t]
<1>1. ExtractKey(a) \in Authentications
  BY ExtractKeyType
<1>2. t \in store.accessTokenStore /\ ExtractKey(b) = ExtractKey(a)
  BY <1>1 DEF Inv, Sound, IndexSound, LookupAccessToken
<1>3. t \in AccessTokens /\ accessToken[t] \in AccessTokenObjects
  BY <1>2 DEF Inv, TypeOK, Stores, Sound, Agree
<1>4. b \in Authentications
  BY <1>2, <1>3 DEF Inv, TypeOK, Stores, Sound, Agree
<1>5. Within(a, b) /\ Within(b, a)
  BY <1>2, <1>4, SameKey DEF Within
<1>6. AfterGetAccessToken(store, a, accessToken, now) = store
  BY <1>2 DEF AfterGetAccessToken
<1> QED BY <1>2, <1>3, <1>4, <1>5, <1>6

-----------------------------------------------------------------------------
(* One lemma per action.                                                    *)

\* Calls that leave the objects alone and only take tokens away.
LEMMA RemovalOK ==
  ASSUME Inv, NEW u, Sound(u, accessToken, {}), store' = u,
         u.accessTokenStore \subseteq store.accessTokenStore,
         u.refreshTokenStore \subseteq store.refreshTokenStore,
         \A r \in RefreshTokens :
           u.refreshTokenAuthenticationStore[r]
             \in {None, store.refreshTokenAuthenticationStore[r]},
         UNCHANGED <<accessToken, refreshToken>>, now' \in Nat
  PROVE  StepOK
<1>1. Inv'
  BY DEF Inv, TypeOK, Sound, Agree, Backed, IndexSound
<1>2. NoneBack /\ NoneRefreshBack
  BY DEF NoneBack, NoneRefreshBack
<1>3. GrantsNarrow(store, store')
  BY DEF GrantsNarrow, Within
<1> QED BY <1>1, <1>2, <1>3 DEF StepOK

\* removeAccessToken by itself: loadAuthentication and revokeApprovals.
LEMMA RemoveAccessOK ==
  ASSUME Inv, NEW T \in SUBSET AccessTokens, store' = RemoveAccessTokens(store, T),
         UNCHANGED <<now, accessToken, refreshToken>>
  PROVE  StepOK
<1> DEFINE u == RemoveAccessTokens(store, T)
<1>1. Sound(u, accessToken, {} \ T)
  BY RemoveSound DEF Inv
<1>2. /\ u.accessTokenStore = store.accessTokenStore \ T
      /\ u.refreshTokenStore = store.refreshTokenStore
      /\ u.refreshTokenAuthenticationStore = store.refreshTokenAuthenticationStore
  BY RemoveFields DEF Inv, TypeOK
<1>3. store' = u /\ {} \ T = {}
  OBVIOUS
<1>4. now' \in Nat
  BY DEF Inv, TypeOK
<1> HIDE DEF u
<1> QED BY <1>1, <1>2, <1>3, <1>4, RemovalOK

\* loadAuthentication of an expired token.
LEMMA LoadExpiredTokenOK ==
  ASSUME Inv, NEW t \in AccessTokens, LoadExpiredToken(t)
  PROVE  StepOK
  BY RemoveAccessOK DEF LoadExpiredToken, RemoveAccessToken

\* revokeApprovals removes the tokens it finds in the user index.
LEMMA RevokeApprovalsOK ==
  ASSUME Inv, NEW c \in Clients, NEW u \in Users, RevokeApprovals(c, u)
  PROVE  StepOK
<1> DEFINE T == {t \in FindTokensByClientIdAndUserName(store, c, u) :
                   /\ store.authenticationStore[t] # None
                   /\ store.authenticationStore[t].client = c}
<1>1. <<c, u>> \in Buckets
  BY DEF Buckets
<1>2. T \in SUBSET AccessTokens
  BY <1>1 DEF FindTokensByClientIdAndUserName, Inv, TypeOK, Stores
<1>3. store' = RemoveAccessTokens(store, T) /\ UNCHANGED <<now, accessToken, refreshToken>>
  BY DEF RevokeApprovals
<1> HIDE DEF T
<1> QED BY <1>2, <1>3, RemoveAccessOK

\* revokeToken removes the pair.
LEMMA RevokeTokenOK ==
  ASSUME Inv, NEW t \in AccessTokens, RevokeToken(t)
  PROVE  StepOK
<1> DEFINE
      r == accessToken[t].refreshToken
      s == RemoveRefreshToken(store, r)
      u == RemoveAccessTokens(s, {t})
<1>1. CASE r = None
  BY <1>1, RemoveAccessOK DEF RevokeToken, RemoveAccessToken
<1>2. CASE r # None
  <2>1. /\ t \in store.accessTokenStore
        /\ accessToken[t] \in AccessTokenObjects
        /\ r \in RefreshTokens
    BY <1>2 DEF RevokeToken, Inv, Sound, Agree, AccessTokenObjects
  <2>2. \A x \in store.accessTokenStore : accessToken[x].refreshToken = r => x \in {t}
    BY <1>2, <2>1 DEF Inv, Sound, Backed
  <2>3. Sound(s, accessToken, {t})
    BY <2>1, <2>2, RemoveRefreshSound DEF Inv
  <2>4. s \in Stores
    BY <2>3 DEF Sound, Agree
  <2>5. /\ s.accessTokenStore = store.accessTokenStore
        /\ s.refreshTokenStore = store.refreshTokenStore \ {r}
        /\ s.refreshTokenAuthenticationStore =
             [store.refreshTokenAuthenticationStore EXCEPT ![r] = None]
    BY <2>1, RemoveRefreshFields DEF Inv, TypeOK
  <2>6. store' = u /\ UNCHANGED <<now, accessToken, refreshToken>>
    BY <1>2 DEF RevokeToken, RemoveAccessToken
  <2> HIDE DEF s, r
  <2>7. Sound(u, accessToken, {t} \ {t}) /\ {t} \ {t} = {}
    BY <2>3, RemoveSound
  <2>8. /\ u.accessTokenStore = s.accessTokenStore \ {t}
        /\ u.refreshTokenStore = s.refreshTokenStore
        /\ u.refreshTokenAuthenticationStore = s.refreshTokenAuthenticationStore
    <3>1. {t} \in SUBSET AccessTokens
      OBVIOUS
    <3> QED BY <2>4, <3>1, RemoveFields, Zenon
  <2> HIDE DEF u
  <2>9. \A x \in RefreshTokens :
          u.refreshTokenAuthenticationStore[x]
            \in {None, store.refreshTokenAuthenticationStore[x]}
    BY <2>5, <2>8 DEF Inv, TypeOK, Stores
  <2>10. now' \in Nat
    BY <2>6 DEF Inv, TypeOK
  <2> QED BY <2>5, <2>6, <2>7, <2>8, <2>9, <2>10, RemovalOK
<1> QED BY <1>1, <1>2

\* A refresh token that has expired goes, and its access token with it.
LEMMA RefreshExpiredOK ==
  ASSUME Inv, NEW r \in RefreshTokens, RefreshExpired(r)
  PROVE  StepOK
<1> DEFINE
      s == RemoveAccessTokenUsingRefreshToken(store, r)
      u == RemoveRefreshToken(s, r)
<1>s. Sound(store, accessToken, {})
  BY DEF Inv
<1>1. /\ Sound(s, accessToken, {})
      /\ \A t \in s.accessTokenStore : accessToken[t].refreshToken # r
      /\ s.accessTokenStore \subseteq store.accessTokenStore
      /\ s.refreshTokenStore = store.refreshTokenStore
      /\ s.refreshTokenAuthenticationStore = store.refreshTokenAuthenticationStore
  BY <1>s, RemoveUsingSound
<1>2. store' = u /\ UNCHANGED <<now, accessToken, refreshToken>>
  BY DEF RefreshExpired
<1> HIDE DEF s
<1>3. s \in Stores
  BY <1>1 DEF Sound, Agree
<1>4. Sound(u, accessToken, {})
  BY <1>1, RemoveRefreshSound
<1>5. /\ u.accessTokenStore = s.accessTokenStore
      /\ u.refreshTokenStore = s.refreshTokenStore \ {r}
      /\ u.refreshTokenAuthenticationStore =
           [s.refreshTokenAuthenticationStore EXCEPT ![r] = None]
  BY <1>3, RemoveRefreshFields
<1> HIDE DEF u
<1>6. \A x \in RefreshTokens :
        u.refreshTokenAuthenticationStore[x]
          \in {None, store.refreshTokenAuthenticationStore[x]}
  BY <1>1, <1>3, <1>5 DEF Stores
<1>7. now' \in Nat
  BY <1>2 DEF Inv, TypeOK
<1> QED BY <1>1, <1>2, <1>4, <1>5, <1>6, <1>7, RemovalOK

\* A refresh that fails once the access token has been removed.
LEMMA RefreshInvalidScopeOK ==
  ASSUME Inv, NEW r \in RefreshTokens, NEW scope, RefreshInvalidScope(r, scope)
  PROVE  StepOK
<1> DEFINE s == RemoveAccessTokenUsingRefreshToken(store, r)
<1>s. Sound(store, accessToken, {})
  BY DEF Inv
<1>1. /\ Sound(s, accessToken, {})
      /\ \A t \in s.accessTokenStore : accessToken[t].refreshToken # r
      /\ s.accessTokenStore \subseteq store.accessTokenStore
      /\ s.refreshTokenStore = store.refreshTokenStore
      /\ s.refreshTokenAuthenticationStore = store.refreshTokenAuthenticationStore
  BY <1>s, RemoveUsingSound
<1>2. store' = s /\ UNCHANGED <<now, accessToken, refreshToken>>
  BY DEF RefreshInvalidScope
<1>3. now' \in Nat
  BY <1>2 DEF Inv, TypeOK
<1> HIDE DEF s
<1> QED BY <1>1, <1>2, <1>3, RemovalOK

\* clear, which leaves nothing to be sound about.
LEMMA ClearOK ==
  ASSUME Inv, Clear
  PROVE  StepOK
<1> DEFINE u == ClearStore(store)
<1>1. /\ u \in Stores
      /\ u.accessTokenStore = {}
      /\ u.refreshTokenStore = {}
      /\ u.authenticationStore = [t \in AccessTokens |-> None]
      /\ u.accessTokenToRefreshTokenStore = [t \in AccessTokens |-> None]
      /\ u.authenticationToAccessTokenStore = [k \in Authentications |-> None]
      /\ u.refreshTokenAuthenticationStore = [r \in RefreshTokens |-> None]
  BY ClearFields DEF Inv, TypeOK
<1>2. store' = u /\ UNCHANGED <<now, accessToken, refreshToken>>
  BY DEF Clear
<1> HIDE DEF u
<1>3. Sound(u, accessToken, {})
  BY <1>1 DEF Sound, Agree, IndexSound
<1>4. now' \in Nat
  BY <1>2 DEF Inv, TypeOK
<1>5. \A r \in RefreshTokens : u.refreshTokenAuthenticationStore[r] = None
  BY <1>1
<1> QED BY <1>1, <1>2, <1>3, <1>4, <1>5, RemovalOK

\* The invariant does not speak of the time.
LEMMA TickOK ==
  ASSUME Inv, Tick
  PROVE  StepOK
<1>1. now' \in Nat
  BY DEF Tick, Inv, TypeOK
<1> QED BY <1>1, RemovalOK DEF Tick, Inv

\* createAccessToken stores the token it found again: it is in order already.
LEMMA ReturnExistingAccessTokenOK ==
  ASSUME Inv, NEW a \in Grants, ReturnExistingAccessToken(a)
  PROVE  StepOK
<1> DEFINE
      t == LookupAccessToken(store, a)
      b == store.authenticationStore[t]
      r == accessToken[t].refreshToken
      u == StoreAccessToken(store, t, accessToken[t], a, now)
<1>a. a \in Authentications
  BY ServicesAssumption
<1>1. /\ t \in AccessTokens
      /\ t \in store.accessTokenStore
      /\ accessToken[t] \in AccessTokenObjects
      /\ ExtractKey(b) = ExtractKey(a)
      /\ b \in Authentications
      /\ Within(a, b) /\ Within(b, a)
      /\ AfterGetAccessToken(store, a, accessToken, now) = store
  BY <1>a, LookupSound DEF ReturnExistingAccessToken
<1>2. store' = u /\ UNCHANGED <<now, accessToken, refreshToken>>
  BY <1>1 DEF ReturnExistingAccessToken
<1> HIDE DEF t
<1>3. /\ Sound(store, accessToken, {})
      /\ accessToken \in Objects
      /\ now \in Nat
      /\ accessToken[t] # None
  BY <1>1, ObjectsAssumption DEF Inv, TypeOK, Objects
<1>4. Backed(store, accessToken, t)
  BY <1>1 DEF Inv, Sound
<1>5. Filable(store, accessToken, t, a)
  BY <1>1, <1>4 DEF Filable, Inv, Sound, Backed
<1>6. /\ Sound(u, accessToken, {t})
      /\ t \in u.accessTokenStore
      /\ u.accessTokenStore \subseteq store.accessTokenStore \cup {t}
      /\ u.authenticationStore[t] = a
      /\ r # None => u.refreshTokenToAccessTokenStore[r] = t
      /\ u.refreshTokenStore = store.refreshTokenStore
      /\ u.refreshTokenAuthenticationStore = store.refreshTokenAuthenticationStore
      /\ \/ r = None
         \/ ( /\ r \in store.refreshTokenStore
              /\ Within(a, store.refreshTokenAuthenticationStore[r]))
         => Sound(u, accessToken, {})
  BY <1>a, <1>1, <1>3, <1>5, StoreAccessSound, Zenon
<1> HIDE DEF u
<1>7. Sound(u, accessToken, {})
  BY <1>1, <1>4, <1>6 DEF Backed, Within
<1>8. u.accessTokenStore \subseteq store.accessTokenStore
  BY <1>1, <1>6
<1>9. now' \in Nat
  BY <1>2 DEF Inv, TypeOK
<1> QED BY <1>2, <1>6, <1>7, <1>8, <1>9, RemovalOK

\* Calls that end by storing a new access token t for a, with the refresh token
\* r, in a store s in order.
LEMMA StoredOK ==
  ASSUME Inv, NEW s, NEW t \in AccessTokens, NEW a \in Authentications,
         NEW r \in RefreshTokens \cup {None},
         Sound(s, accessToken, {}),
         s.accessTokenStore \subseteq store.accessTokenStore,
         s.refreshTokenStore \subseteq store.refreshTokenStore,
         \A x \in RefreshTokens :
           s.refreshTokenAuthenticationStore[x]
             \in {None, store.refreshTokenAuthenticationStore[x]},
         r # None => \A x \in s.accessTokenStore : accessToken[x].refreshToken # r,
         r # None /\ store.refreshTokenAuthenticationStore[r] # None
           => Within(a, store.refreshTokenAuthenticationStore[r]),
         r # None => refreshToken'[r] # None,
         r # None => refreshToken[r] = None \/ r \in store.refreshTokenStore,
         CreateAccessTokenObject(t, a.client, r),
         store' = StoreBoth(s, t, r, a), UNCHANGED now,
         refreshToken' \in [RefreshTokens -> Expirations \cup {None}],
         \A x \in RefreshTokens : refreshToken[x] # None => refreshToken'[x] # None
  PROVE  StepOK
<1> DEFINE
      o == NewAccessToken(a.client, r)
      obj == [accessToken EXCEPT ![t] = o]
      u == StoreBoth(s, t, r, a)
<1>1. o \in AccessTokenObjects /\ o.refreshToken = r
  BY NewAccessTokenType DEF Authentications, Inv, TypeOK
<1>2. accessToken \in Objects /\ now \in Nat /\ accessToken[t] = None
  BY DEF Inv, TypeOK, Objects, CreateAccessTokenObject
<1>3. accessToken' = obj /\ obj[t] = o
  BY <1>2 DEF CreateAccessTokenObject, Objects
<1> HIDE DEF o
<1>4. /\ Sound(s, obj, {})
      /\ obj \in Objects
      /\ t \notin s.accessTokenStore
      /\ s.authenticationStore[t] = None
  BY <1>1, <1>2, FreshSound
<1>5. Filable(s, obj, t, a)
  <2> SUFFICES ASSUME NEW x \in s.accessTokenStore, obj[x].refreshToken = r, r # None
               PROVE  FALSE
    BY <1>1, <1>3, <1>4 DEF Filable
  <2>1. obj[x] = accessToken[x]
    BY <1>2, <1>4 DEF Objects, Sound, Agree, Stores
  <2> QED BY <2>1
<1> HIDE DEF obj
<1>6. /\ Sound(u, obj, {})
      /\ u.accessTokenStore \subseteq s.accessTokenStore \cup {t}
      /\ u.refreshTokenStore \subseteq s.refreshTokenStore \cup {r}
      /\ \A x \in RefreshTokens :
           u.refreshTokenAuthenticationStore[x] =
             IF x = r THEN a ELSE s.refreshTokenAuthenticationStore[x]
  BY <1>2, <1>3, <1>4, <1>5, StoreBothSound DEF o
<1>7. store' = u
  OBVIOUS
<1> HIDE DEF u
<1>8. Inv'
  <2>1. TypeOK'
    BY <1>2, <1>3, <1>4, <1>6, <1>7 DEF TypeOK, Objects, Sound, Agree
  <2>2. Sound(store', accessToken', {})
    BY <1>3, <1>6, <1>7
  <2>3. Sound(store, accessToken, {})'
    BY <2>2 DEF Sound, Agree, IndexSound, Backed
  <2>4. \A x \in store'.refreshTokenStore : refreshToken'[x] # None
    <3>1. store.refreshTokenStore \subseteq RefreshTokens /\ None \notin RefreshTokens
      BY SentinelsAssumption DEF Inv, TypeOK, Stores
    <3>2. u.refreshTokenStore \subseteq RefreshTokens
      BY <1>6 DEF Sound, Agree, Stores
    <3> QED BY <1>6, <1>7, <3>1, <3>2 DEF Inv
  <2> QED BY <2>1, <2>3, <2>4 DEF Inv
<1>9. NoneBack /\ NoneRefreshBack
  <2>1. None \notin RefreshTokens
    BY SentinelsAssumption
  <2> QED BY <1>2, <1>6, <1>7, <2>1 DEF NoneBack, NoneRefreshBack
<1>10. GrantsNarrow(store, store')
  <2>1. None \notin RefreshTokens
    BY SentinelsAssumption
  <2> QED BY <1>6, <1>7, <2>1 DEF GrantsNarrow, Within
<1> QED BY <1>8, <1>9, <1>10 DEF StepOK

\* createAccessToken when there is no token for the authentication.
LEMMA IssueAccessTokenOK ==
  ASSUME Inv, NEW a \in Grants, NEW t \in AccessTokens, NEW r \in RefreshTokens \cup {None},
         IssueAccessToken(a, t, r)
  PROVE  StepOK
<1>1. a \in Authentications /\ a.client \in Clients
  BY ServicesAssumption DEF Authentications
<1>2. /\ r # None => /\ r \notin store.refreshTokenStore
                     /\ refreshToken[r] = None
                     /\ refreshToken'[r] # None
      /\ refreshToken' \in [RefreshTokens -> Expirations \cup {None}]
      /\ \A x \in RefreshTokens : refreshToken[x] # None => refreshToken'[x] # None
  BY <1>1, CreateRefreshTokenFresh DEF IssueAccessToken
<1>3. /\ CreateAccessTokenObject(t, a.client, r)
      /\ store' = StoreBoth(store, t, r, a)
      /\ UNCHANGED now
  BY DEF IssueAccessToken
<1>4. Sound(store, accessToken, {})
  BY DEF Inv
<1>5. r # None => \A x \in store.accessTokenStore : accessToken[x].refreshToken # r
  BY <1>2, <1>4 DEF Sound, Backed
<1>6. r # None => store.refreshTokenAuthenticationStore[r] = None
  BY <1>2, <1>4 DEF Sound, Agree
<1>7. r # None /\ store.refreshTokenAuthenticationStore[r] # None
        => Within(a, store.refreshTokenAuthenticationStore[r])
  BY <1>6
<1>8. \A x \in RefreshTokens :
        store.refreshTokenAuthenticationStore[x]
          \in {None, store.refreshTokenAuthenticationStore[x]}
  OBVIOUS
<1>9. /\ r # None => refreshToken'[r] # None
      /\ r # None => refreshToken[r] = None \/ r \in store.refreshTokenStore
  BY <1>2
<1> QED BY <1>1, <1>2, <1>3, <1>4, <1>5, <1>7, <1>8, <1>9, StoredOK

\* createAccessToken when the token it found has expired: the refresh token it
\* takes out it either drops or stores again for the same client, user and scopes.
LEMMA ReplaceExpiredAccessTokenOK ==
  ASSUME Inv, NEW a \in Grants, NEW t \in AccessTokens, NEW r \in RefreshTokens \cup {None},
         ReplaceExpiredAccessToken(a, t, r)
  PROVE  StepOK
<1> DEFINE
      existing == LookupAccessToken(store, a)
      b == store.authenticationStore[existing]
      old == accessToken[existing].refreshToken
      u == IF old = None THEN store ELSE RemoveRefreshToken(store, old)
      w == RemoveAccessTokens(u, {existing})
<1>a. a \in Authentications /\ a.client \in Clients
  BY ServicesAssumption DEF Authentications
<1>1. /\ existing \in AccessTokens
      /\ existing \in store.accessTokenStore
      /\ accessToken[existing] \in AccessTokenObjects
      /\ Within(a, b)
      /\ AfterGetAccessToken(store, a, accessToken, now) = store
  BY <1>a, LookupSound DEF ReplaceExpiredAccessToken
<1>2. /\ IF old # None /\ ~IsRefreshExpired(old)
         THEN KeepRefreshToken(old, r)
         ELSE CreateRefreshToken(a.client, r)
      /\ CreateAccessTokenObject(t, a.client, r)
      /\ store' = StoreBoth(w, t, r, a)
      /\ UNCHANGED now
  BY <1>1 DEF ReplaceExpiredAccessToken, RemoveAccessToken
<1> HIDE DEF existing
<1>3. Sound(store, accessToken, {}) /\ store \in Stores
  BY DEF Inv, TypeOK
<1>4. Backed(store, accessToken, existing) /\ old \in RefreshTokens \cup {None}
  BY <1>1, <1>3 DEF Sound, AccessTokenObjects
<1> HIDE DEF old
<1>5. /\ Sound(u, accessToken, {existing})
      /\ u \in Stores
      /\ u.accessTokenStore = store.accessTokenStore
      /\ u.refreshTokenStore \subseteq store.refreshTokenStore
      /\ \A x \in RefreshTokens :
           u.refreshTokenAuthenticationStore[x]
             \in {None, store.refreshTokenAuthenticationStore[x]}
  <2>1. CASE old = None
    <3>1. Sound(store, accessToken, {existing})
      BY <1>3 DEF Sound
    <3> QED BY <1>3, <2>1, <3>1
  <2>2. CASE old # None
    <3>1. u = RemoveRefreshToken(store, old) /\ old \in RefreshTokens
      BY <1>4, <2>2
    <3>2. \A x \in store.accessTokenStore :
            accessToken[x].refreshToken = old => x \in {existing}
      BY <1>3, <1>4, <2>2 DEF Sound, Backed, old
    <3>3. Sound(u, accessToken, {existing})
      BY <1>3, <3>1, <3>2, RemoveRefreshSound
    <3> HIDE DEF u
    <3>4. /\ u \in Stores
          /\ u.accessTokenStore = store.accessTokenStore
          /\ u.refreshTokenStore = store.refreshTokenStore \ {old}
          /\ u.refreshTokenAuthenticationStore =
               [store.refreshTokenAuthenticationStore EXCEPT ![old] = None]
      BY <1>3, <3>1, RemoveRefreshFields
    <3> QED BY <1>3, <3>1, <3>3, <3>4 DEF Stores, u
  <2> QED BY <2>1, <2>2
<1> HIDE DEF u
<1>6. /\ w.accessTokenStore = u.accessTokenStore \ {existing}
      /\ w.refreshTokenStore = u.refreshTokenStore
      /\ w.refreshTokenAuthenticationStore = u.refreshTokenAuthenticationStore
  <2>1. {existing} \in SUBSET AccessTokens
    BY <1>1
  <2> QED BY <1>5, <2>1, RemoveFields, Zenon
<1>7. Sound(w, accessToken, {})
  <2>1. Sound(w, accessToken, {existing} \ {existing}) /\ {existing} \ {existing} = {}
    BY <1>1, <1>5, RemoveSound
  <2> QED BY <2>1
<1> HIDE DEF w
<1>8. CASE old # None /\ ~IsRefreshExpired(old)
  <2>1. r = old /\ refreshToken' = refreshToken
    BY <1>2, <1>8 DEF KeepRefreshToken
  <2>2. \A x \in w.accessTokenStore : accessToken[x].refreshToken # r
    BY <1>3, <1>4, <1>5, <1>6, <1>8, <2>1 DEF Sound, Backed, old
  <2>3. Within(a, store.refreshTokenAuthenticationStore[r])
    BY <1>1, <1>4, <1>8, <2>1 DEF Backed, Within, old
  <2>4. refreshToken'[r] # None /\ r \in store.refreshTokenStore
    BY <1>4, <1>8, <2>1 DEF Backed, Inv, old
  <2>5. refreshToken' \in [RefreshTokens -> Expirations \cup {None}]
    BY <2>1 DEF Inv, TypeOK
  <2>6. \A x \in RefreshTokens : refreshToken[x] # None => refreshToken'[x] # None
    BY <2>1
  <2> QED BY <1>a, <1>2, <1>5, <1>6, <1>7, <2>2, <2>3, <2>4, <2>5, <2>6, StoredOK
<1>9. CASE ~ (old # None /\ ~IsRefreshExpired(old))
  <2>1. /\ r # None => /\ r \notin store.refreshTokenStore
                       /\ refreshToken[r] = None
                       /\ refreshToken'[r] # None
        /\ refreshToken' \in [RefreshTokens -> Expirations \cup {None}]
        /\ \A x \in RefreshTokens : refreshToken[x] # None => refreshToken'[x] # None
    BY <1>a, <1>2, <1>9, CreateRefreshTokenFresh
  <2>2. r # None => \A x \in w.accessTokenStore : accessToken[x].refreshToken # r
    BY <1>3, <1>5, <1>6, <2>1 DEF Sound, Backed
  <2>3. r # None => store.refreshTokenAuthenticationStore[r] = None
    BY <1>3, <2>1 DEF Sound, Agree
  <2>4. r # None /\ store.refreshTokenAuthenticationStore[r] # None
          => Within(a, store.refreshTokenAuthenticationStore[r])
    BY <2>3
  <2> QED BY <1>a, <1>2, <1>5, <1>6, <1>7, <2>1, <2>2, <2>4, StoredOK
<1> QED BY <1>8, <1>9

\* refreshAccessToken: the new token grants no more than the refresh token does.
LEMMA RefreshAccessTokenOK ==
  ASSUME Inv, NEW r \in RefreshTokens, NEW scope \in SUBSET Scopes,
         NEW t \in AccessTokens, NEW r2 \in RefreshTokens,
         RefreshAccessToken(r, scope, t, r2)
  PROVE  StepOK
<1> DEFINE
      g == store.refreshTokenAuthenticationStore[r]
      a == Refreshed(g, scope)
      s == RemoveAccessTokenUsingRefreshToken(store, r)
      w == RemoveRefreshToken(s, r)
<1>1. Sound(store, accessToken, {})
  BY DEF Inv
<1>2. r \in store.refreshTokenStore /\ scope \subseteq g.scope
  BY DEF RefreshAccessToken, CanRefresh, MayNarrow, RefreshGrant
<1>3. g \in Authentications
  BY <1>1, <1>2 DEF Inv, TypeOK, Sound, Agree, Stores
<1>4. a \in Authentications /\ a.client \in Clients /\ Within(a, g)
  BY <1>2, <1>3 DEF Refreshed, Within, Authentications, Listings
<1>5. /\ Sound(s, accessToken, {})
      /\ \A x \in s.accessTokenStore : accessToken[x].refreshToken # r
      /\ s.accessTokenStore \subseteq store.accessTokenStore
      /\ s.refreshTokenStore = store.refreshTokenStore
      /\ s.refreshTokenAuthenticationStore = store.refreshTokenAuthenticationStore
  BY <1>1, RemoveUsingSound
<1>6. /\ IF ReuseRefreshToken THEN KeepRefreshToken(r, r2)
                              ELSE CreateRefreshToken(a.client, r2)
      /\ CreateAccessTokenObject(t, a.client, r2)
      /\ store' = IF ReuseRefreshToken
                  THEN StoreAccessToken(s, t, NewAccessToken(a.client, r2), a, now)
                  ELSE StoreBoth(w, t, r2, a)
      /\ UNCHANGED now
  BY DEF RefreshAccessToken, RefreshGrant
<1>7. None \notin RefreshTokens
  BY SentinelsAssumption
<1> HIDE DEF s, a
<1>8. CASE ReuseRefreshToken
  <2> DEFINE
        o == NewAccessToken(a.client, r)
        obj == [accessToken EXCEPT ![t] = o]
        u == StoreAccessToken(s, t, obj[t], a, now)
  <2>1. r2 = r /\ refreshToken' = refreshToken
    BY <1>6, <1>8 DEF KeepRefreshToken
  <2>2. o \in AccessTokenObjects /\ o # None /\ o.refreshToken = r
    BY <1>4, NewAccessTokenType DEF Inv, TypeOK
  <2>3. accessToken \in Objects /\ now \in Nat /\ accessToken[t] = None
    BY <1>6 DEF Inv, TypeOK, Objects, CreateAccessTokenObject
  <2>4. accessToken' = obj /\ obj[t] = o
    BY <1>6, <2>1, <2>3 DEF CreateAccessTokenObject, Objects
  <2>5. store' = u
    BY <1>6, <1>8, <2>1, <2>4
  <2> HIDE DEF o
  <2>6. /\ Sound(s, obj, {})
        /\ obj \in Objects
        /\ t \notin s.accessTokenStore
        /\ s.authenticationStore[t] = None
    BY <1>5, <2>2, <2>3, FreshSound
  <2>7. Filable(s, obj, t, a)
    <3>1. \A x \in s.accessTokenStore : obj[x] = accessToken[x]
      BY <2>3, <2>6 DEF Objects, Sound, Agree, Stores
    <3> QED BY <1>5, <2>2, <2>4, <2>6, <3>1 DEF Filable
  <2>8. obj[t] # None
    BY <2>2, <2>4
  <2> HIDE DEF obj
  <2>9. /\ Sound(u, obj, {t})
        /\ t \in u.accessTokenStore
        /\ u.accessTokenStore \subseteq s.accessTokenStore \cup {t}
        /\ u.authenticationStore[t] = a
        /\ obj[t].refreshToken # None
             => u.refreshTokenToAccessTokenStore[obj[t].refreshToken] = t
        /\ u.refreshTokenStore = s.refreshTokenStore
        /\ u.refreshTokenAuthenticationStore = s.refreshTokenAuthenticationStore
        /\ \/ obj[t].refreshToken = None
           \/ ( /\ obj[t].refreshToken \in s.refreshTokenStore
                /\ Within(a, s.refreshTokenAuthenticationStore[obj[t].refreshToken]))
           => Sound(u, obj, {})
    BY <1>4, <2>3, <2>6, <2>7, <2>8, StoreAccessSound, Zenon
  <2> HIDE DEF u
  <2>10. Sound(u, obj, {})
    BY <1>2, <1>4, <1>5, <2>2, <2>4, <2>9
  <2>11. Inv'
    <3>1. TypeOK'
      BY <1>6, <2>1, <2>3, <2>4, <2>5, <2>6, <2>10
      DEF Inv, TypeOK, Objects, Sound, Agree
    <3>2. Sound(store', accessToken', {})
      BY <2>4, <2>5, <2>10
    <3>3. Sound(store, accessToken, {})'
      BY <3>2 DEF Sound, Agree, IndexSound, Backed
    <3>4. \A x \in store'.refreshTokenStore : refreshToken'[x] # None
      BY <1>5, <2>1, <2>5, <2>9 DEF Inv
    <3> QED BY <3>1, <3>3, <3>4 DEF Inv
  <2>12. NoneBack /\ NoneRefreshBack
    BY <1>5, <2>3, <2>5, <2>9 DEF NoneBack, NoneRefreshBack
  <2>13. GrantsNarrow(store, store')
    BY <1>5, <2>5, <2>9 DEF GrantsNarrow, Within
  <2> QED BY <2>11, <2>12, <2>13 DEF StepOK
<1>9. CASE ~ReuseRefreshToken
  <2>1. /\ r2 \notin store.refreshTokenStore
        /\ refreshToken[r2] = None
        /\ refreshToken'[r2] # None
        /\ refreshToken' \in [RefreshTokens -> Expirations \cup {None}]
        /\ \A x \in RefreshTokens : refreshToken[x] # None => refreshToken'[x] # None
    BY <1>4, <1>6, <1>7, <1>9, CreateRefreshTokenFresh
  <2>2. Sound(w, accessToken, {})
    BY <1>5, RemoveRefreshSound
  <2>3. s \in Stores
    BY <1>5 DEF Sound, Agree
  <2>4. /\ w.accessTokenStore = s.accessTokenStore
        /\ w.refreshTokenStore = s.refreshTokenStore \ {r}
        /\ w.refreshTokenAuthenticationStore =
             [s.refreshTokenAuthenticationStore EXCEPT ![r] = None]
    BY <2>3, RemoveRefreshFields
  <2>5. store' = StoreBoth(w, t, r2, a)
    BY <1>6, <1>9
  <2> HIDE DEF w
  <2>6. \A x \in RefreshTokens :
          w.refreshTokenAuthenticationStore[x]
            \in {None, store.refreshTokenAuthenticationStore[x]}
    BY <1>5, <2>3, <2>4 DEF Stores
  <2>7. \A x \in w.accessTokenStore : accessToken[x].refreshToken # r2
    BY <1>1, <1>5, <1>7, <2>1, <2>4 DEF Sound, Backed
  <2>8. store.refreshTokenAuthenticationStore[r2] = None
    BY <1>1, <2>1 DEF Sound, Agree
  <2>9. store.refreshTokenAuthenticationStore[r2] # None
          => Within(a, store.refreshTokenAuthenticationStore[r2])
    BY <2>8
  <2>10. /\ w.accessTokenStore \subseteq store.accessTokenStore
         /\ w.refreshTokenStore \subseteq store.refreshTokenStore
    BY <1>5, <2>4
  <2>11. CreateAccessTokenObject(t, a.client, r2) /\ UNCHANGED now
    BY <1>6
  <2> HIDE DEF g
  <2> QED BY <1>4, <2>1, <2>2, <2>5, <2>6, <2>7, <2>9, <2>10, <2>11, StoredOK
<1> QED BY <1>8, <1>9

-----------------------------------------------------------------------------
(* The theorems.                                                            *)

\* The stores are empty at first.
LEMMA InitInv == Init => Inv
<1>1. TypeOK <=> /\ now \in Nat
                 /\ store \in Stores
                 /\ accessToken \in Objects
                 /\ refreshToken \in [RefreshTokens -> Expirations \cup {None}]
  BY DEF TypeOK, Objects
<1>2. Init => TypeOK
  BY <1>1, EmptyStoreType DEF Init, Objects
<1>3. Init => Sound(store, accessToken, {})
  BY EmptyStoreType DEF Init, EmptyStore, Sound, Agree, IndexSound
<1>4. Init => store.refreshTokenStore = {}
  BY DEF Init, EmptyStore
<1> QED BY <1>2, <1>3, <1>4 DEF Inv

\* Every action does what StepOK asks.
LEMMA NextOK ==
  ASSUME Inv, Next
  PROVE  StepOK
<1>1. ASSUME NEW a \in Grants, ReturnExistingAccessToken(a) PROVE StepOK
  BY <1>1, ReturnExistingAccessTokenOK
<1>2. ASSUME NEW a \in Grants, NEW t \in AccessTokens, NEW r \in RefreshTokens \cup {None},
             ReplaceExpiredAccessToken(a, t, r)
      PROVE  StepOK
  BY <1>2, ReplaceExpiredAccessTokenOK
<1>3. ASSUME NEW a \in Grants, NEW t \in AccessTokens, NEW r \in RefreshTokens \cup {None},
             IssueAccessToken(a, t, r)
      PROVE  StepOK
  BY <1>3, IssueAccessTokenOK
<1>4. ASSUME NEW r \in RefreshTokens, RefreshExpired(r) PROVE StepOK
  BY <1>4, RefreshExpiredOK
<1>5. ASSUME NEW r \in RefreshTokens, NEW scope \in SUBSET Scopes,
             RefreshInvalidScope(r, scope)
      PROVE  StepOK
  BY <1>5, RefreshInvalidScopeOK
<1>6. ASSUME NEW r \in RefreshTokens, NEW scope \in SUBSET Scopes, NEW t \in AccessTokens,
             NEW r2 \in RefreshTokens, RefreshAccessToken(r, scope, t, r2)
      PROVE  StepOK
  BY <1>6, RefreshAccessTokenOK
<1>7. ASSUME NEW t \in AccessTokens, LoadExpiredToken(t) PROVE StepOK
  BY <1>7, LoadExpiredTokenOK
<1>8. ASSUME NEW t \in AccessTokens, RevokeToken(t) PROVE StepOK
  BY <1>8, RevokeTokenOK
<1>9. ASSUME NEW c \in Clients, NEW u \in Users, RevokeApprovals(c, u) PROVE StepOK
  BY <1>9, RevokeApprovalsOK
<1>10. ASSUME Clear PROVE StepOK
  BY <1>10, ClearOK
<1>11. ASSUME Tick PROVE StepOK
  BY <1>11, TickOK
<1> QED BY <1>1, <1>2, <1>3, <1>4, <1>5, <1>6, <1>7, <1>8, <1>9, <1>10, <1>11 DEF Next

\* So does a call that changes nothing.
LEMMA StutterInv == Inv /\ UNCHANGED vars => Inv'
<1>1. TypeOK /\ UNCHANGED vars => TypeOK'
  BY DEF TypeOK, vars
<1>2. Sound(store, accessToken, {}) /\ UNCHANGED vars => Sound(store, accessToken, {})'
  BY DEF vars, Sound, Agree, IndexSound, Backed
<1> QED BY <1>1, <1>2 DEF Inv, vars

\* Inv is inductive, and holds for ever.
LEMMA InductiveInvariant == Spec => []Inv
<1>1. Inv /\ [Next]_vars => Inv'
  BY NextOK, StutterInv DEF StepOK
<1> QED BY InitInv, <1>1, PTL DEF Spec

\* The variables keep their types: no map of the store is ever given a key or a
\* value it should not hold, whatever createAccessToken, refreshAccessToken,
\* revokeToken, revokeApprovals and the flush do to it.
THEOREM TypeCorrect == Spec => []TypeOK
  BY InductiveInvariant, PTL DEF Inv

\* The maps of the store and their invariant relations, all at once.
THEOREM StoreInvariant == Spec => []IInv
  BY InductiveInvariant, InvIsIInv, PTL

\* accessTokenStore, authenticationStore and accessTokenToRefreshTokenStore agree
\* after every call.
THEOREM MapsAgree == Spec => []StoresAgree
<1>1. IInv => StoresAgree
  BY DEF IInv
<1> QED BY StoreInvariant, <1>1, PTL

\* getAccessToken finds a live token of the authentication asked about, or none.
THEOREM LookupIsSound == Spec => []AuthenticationIndexSound
<1>1. IInv => AuthenticationIndexSound
  BY DEF IInv
<1> QED BY StoreInvariant, <1>1, PTL

\* removeAccessTokenUsingRefreshToken finds every live access token of a refresh token.
THEOREM RefreshIndexComplete == Spec => []RefreshIndexCoversLive
<1>1. IInv => RefreshIndexCoversLive
  BY DEF IInv
<1> QED BY StoreInvariant, <1>1, PTL

\* A refresh token never has two live access tokens: the index entry that
\* removeAccessTokenUsingRefreshToken follows leads to every one of them.
THEOREM AtMostOneAccessToken == Spec => []OneAccessTokenPerRefreshToken
<1>1. IInv => OneAccessTokenPerRefreshToken
  BY DEF IInv, RefreshIndexCoversLive, OneAccessTokenPerRefreshToken
<1> QED BY StoreInvariant, <1>1, PTL

\* A live access token can be refreshed: its refresh token is still stored.
THEOREM RefreshTokenKept == Spec => []LiveTokenKeepsRefreshToken
<1>1. IInv => LiveTokenKeepsRefreshToken
  BY DEF IInv
<1> QED BY StoreInvariant, <1>1, PTL

\* A live access token grants no more than its refresh token, to the same client
\* and user.
THEOREM GrantBounded == Spec => []AccessWithinRefreshGrant
<1>1. IInv => AccessWithinRefreshGrant
  BY DEF IInv
<1> QED BY StoreInvariant, <1>1, PTL

\* No call brings back an access token that the store had given up.
THEOREM RemovalIsFinal == Spec => RemovedTokenStaysRemoved
<1>1. Inv /\ [Next]_vars =>
        [\A t \in AccessTokens : accessToken[t] # None /\ t \notin Live => t \notin Live']_vars
  BY NextOK DEF StepOK, NoneBack, Live
<1> QED BY InductiveInvariant, <1>1, PTL DEF Spec, RemovedTokenStaysRemoved

\* No call brings back a refresh token that the store had given up, although
\* createAccessToken stores tokens it did not make.
THEOREM RefreshRemovalIsFinal == Spec => RemovedRefreshTokenStaysRemoved
<1>1. Inv /\ [Next]_vars =>
        [\A r \in RefreshTokens :
           refreshToken[r] # None /\ r \notin store.refreshTokenStore
             => r \notin store'.refreshTokenStore]_vars
  BY NextOK DEF StepOK, NoneRefreshBack
<1> QED BY InductiveInvariant, <1>1, PTL DEF Spec, RemovedRefreshTokenStaysRemoved

\* What a refresh token grants never widens.
THEOREM GrantsOnlyNarrow == Spec => RefreshGrantNeverWidens
<1>1. Inv /\ [Next]_vars =>
        [\A r \in RefreshTokens :
           RefreshGrant(r) # None /\ RefreshGrant(r)' # None
             => /\ RefreshGrant(r)'.client = RefreshGrant(r).client
                /\ RefreshGrant(r)'.user = RefreshGrant(r).user
                /\ RefreshGrant(r)'.scope \subseteq RefreshGrant(r).scope]_vars
  BY NextOK DEF StepOK, GrantsNarrow, Within, RefreshGrant
<1> QED BY InductiveInvariant, <1>1, PTL DEF Spec, RefreshGrantNeverWidens
=============================================================================
