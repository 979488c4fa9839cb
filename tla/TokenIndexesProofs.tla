------------------------- MODULE TokenIndexesProofs -------------------------
(***************************************************************************)
(* Proofs about the indexes of the in-memory store that no lookup by key    *)
(* corrects: the tokens by client, the tokens by user name, and the queue   *)
(* of expiries.  As in TokenServicesProofs, what each operator of the store *)
(* preserves is shown first and lifted to the actions afterwards.           *)
(***************************************************************************)
EXTENDS TokenServicesProofs

-----------------------------------------------------------------------------
(* What the operators do to these indexes.                                  *)

\* removeAccessToken takes no token out of an index but those it removes, and
\* leaves the queue alone.
LEMMA RemoveIndexes ==
  ASSUME NEW s \in Stores, NEW T \in SUBSET AccessTokens
  PROVE  LET u == RemoveAccessTokens(s, T)
         IN /\ u \in Stores
            /\ u.accessTokenStore = s.accessTokenStore \ T
            /\ \A t \in AccessTokens \ T : u.authenticationStore[t] = s.authenticationStore[t]
            /\ \A b \in Buckets :
                 s.userNameToAccessTokenStore[b] \ T \subseteq u.userNameToAccessTokenStore[b]
            /\ \A c \in Clients :
                 s.clientIdToAccessTokenStore[c] \ T \subseteq u.clientIdToAccessTokenStore[c]
            /\ u.expiryQueue = s.expiryQueue
<1> DEFINE
      u == RemoveAccessTokens(s, T)
      live == s.accessTokenStore \ T
      toRefresh == [t \in AccessTokens |->
                      IF t \in T THEN None ELSE s.accessTokenToRefreshTokenStore[t]]
      auth == [t \in AccessTokens |->
                 IF t \in T THEN None ELSE s.authenticationStore[t]]
      byKey == [k \in Authentications |->
                  IF k \in KeysOf(s, T) THEN None
                  ELSE s.authenticationToAccessTokenStore[k]]
      byUser == [b \in Buckets |->
                   s.userNameToAccessTokenStore[b] \ FoundUnderName(s, T, b)]
      byClient == [c \in Clients |->
                     s.clientIdToAccessTokenStore[c] \ FoundUnderClient(s, T, c)]
<1>1. u = [s EXCEPT !.accessTokenStore = live,
                    !.accessTokenToRefreshTokenStore = toRefresh,
                    !.authenticationStore = auth,
                    !.authenticationToAccessTokenStore = byKey,
                    !.userNameToAccessTokenStore = byUser,
                    !.clientIdToAccessTokenStore = byClient]
  BY Zenon DEF RemoveAccessTokens
<1>2. /\ \A b \in Buckets : FoundUnderName(s, T, b) \subseteq T
      /\ \A c \in Clients : FoundUnderClient(s, T, c) \subseteq T
  BY DEF FoundUnderName, FoundUnderClient, Known
<1>3. /\ \A t \in AccessTokens \ T : auth[t] = s.authenticationStore[t]
      /\ \A b \in Buckets : s.userNameToAccessTokenStore[b] \ T \subseteq byUser[b]
      /\ \A c \in Clients : s.clientIdToAccessTokenStore[c] \ T \subseteq byClient[c]
  BY <1>2
<1>4. u \in Stores
  BY RemoveFields
<1> HIDE DEF u, live, toRefresh, auth, byKey, byUser, byClient
<1>5. /\ u.accessTokenStore = live
      /\ u.authenticationStore = auth
      /\ u.userNameToAccessTokenStore = byUser
      /\ u.clientIdToAccessTokenStore = byClient
      /\ u.expiryQueue = s.expiryQueue
  BY <1>1 DEF Stores
<1> QED BY <1>3, <1>4, <1>5 DEF u, live

\* Filing a token adds it to the buckets of its authentication, and to the queue if it
\* can expire.
LEMMA FileIndexes ==
  ASSUME NEW s \in Stores, NEW t \in AccessTokens, NEW token \in AccessTokenObjects,
         NEW a \in Authentications
  PROVE  LET u == FileAccessToken(s, t, token, a)
         IN /\ u \in Stores
            /\ u.accessTokenStore = s.accessTokenStore \cup {t}
            /\ u.authenticationStore[t] = a
            /\ \A x \in AccessTokens \ {t} : /\ u.authenticationStore[x] = s.authenticationStore[x]
                                             /\ u.expiryQueue[x] = s.expiryQueue[x]
            /\ \A b \in Buckets :
                 s.userNameToAccessTokenStore[b] \subseteq u.userNameToAccessTokenStore[b]
            /\ \A c \in Clients :
                 s.clientIdToAccessTokenStore[c] \subseteq u.clientIdToAccessTokenStore[c]
            /\ ~IsClientOnly(a) => t \in u.userNameToAccessTokenStore[ApprovalKey(a)]
            /\ t \in u.clientIdToAccessTokenStore[a.client]
            /\ token.expiration # Never => u.expiryQueue[t] = token.expiration
<1> DEFINE
      u == FileAccessToken(s, t, token, a)
      live == s.accessTokenStore \cup {t}
      auth == [s.authenticationStore EXCEPT ![t] = a]
      byKey == [s.authenticationToAccessTokenStore EXCEPT ![ExtractKey(a)] = t]
      byUser == [b \in Buckets |->
                   IF ~IsClientOnly(a) /\ b = ApprovalKey(a)
                   THEN s.userNameToAccessTokenStore[b] \cup {t}
                   ELSE s.userNameToAccessTokenStore[b]]
      byClient == [c \in Clients |->
                     IF c = a.client THEN s.clientIdToAccessTokenStore[c] \cup {t}
                     ELSE s.clientIdToAccessTokenStore[c]]
      queue == IF token.expiration = Never THEN s.expiryQueue
               ELSE [s.expiryQueue EXCEPT ![t] = token.expiration]
      toAccess == IF token.refreshToken = None THEN s.refreshTokenToAccessTokenStore
                  ELSE [s.refreshTokenToAccessTokenStore EXCEPT ![token.refreshToken] = t]
      toRefresh == IF token.refreshToken = None THEN s.accessTokenToRefreshTokenStore
                   ELSE [s.accessTokenToRefreshTokenStore EXCEPT ![t] = token.refreshToken]
<1>1. u = [s EXCEPT !.accessTokenStore = live,
                    !.authenticationStore = auth,
                    !.authenticationToAccessTokenStore = byKey,
                    !.userNameToAccessTokenStore = byUser,
                    !.clientIdToAccessTokenStore = byClient,
                    !.expiryQueue = queue,
                    !.refreshTokenToAccessTokenStore = toAccess,
                    !.accessTokenToRefreshTokenStore = toRefresh]
  BY Zenon DEF FileAccessToken
<1>2. ApprovalKey(a) \in Buckets /\ a.client \in Clients
  BY DEF ApprovalKey, Buckets, Authentications
<1>3. /\ auth[t] = a
      /\ \A x \in AccessTokens \ {t} : auth[x] = s.authenticationStore[x]
  BY DEF Stores
<1>4. /\ token.expiration # Never => queue[t] = token.expiration
      /\ \A x \in AccessTokens \ {t} : queue[x] = s.expiryQueue[x]
  BY DEF Stores
<1>5. /\ \A b \in Buckets : s.userNameToAccessTokenStore[b] \subseteq byUser[b]
      /\ \A c \in Clients : s.clientIdToAccessTokenStore[c] \subseteq byClient[c]
      /\ ~IsClientOnly(a) => t \in byUser[ApprovalKey(a)]
      /\ t \in byClient[a.client]
  BY <1>2
<1>6. u \in Stores
  BY FileFields
<1> HIDE DEF u, live, auth, byKey, byUser, byClient, queue, toAccess, toRefresh
<1>7. /\ u.accessTokenStore = live
      /\ u.authenticationStore = auth
      /\ u.userNameToAccessTokenStore = byUser
      /\ u.clientIdToAccessTokenStore = byClient
      /\ u.expiryQueue = queue
  BY <1>1 DEF Stores
<1> QED BY <1>3, <1>4, <1>5, <1>6, <1>7 DEF u, live

-----------------------------------------------------------------------------
(* What the operators preserve.                                             *)

\* Token t is in the indexes, of the authentication and the expiration it has.
Filed(s, obj, t) ==
  LET a == s.authenticationStore[t]
  IN /\ a \in Authentications
     /\ t \in FindTokensByClientId(s, a.client)
     /\ ~IsClientOnly(a) => t \in FindTokensByClientIdAndUserName(s, a.client, a.user)
     /\ obj[t].expiration # Never => s.expiryQueue[t] = obj[t].expiration

\* Every live token is.
Covered(s, obj) == s \in Stores /\ \A t \in s.accessTokenStore : Filed(s, obj, t)

\* Filed looks at four maps only.
LEMMA SameFiled ==
  ASSUME NEW s, NEW u \in Stores, NEW obj, Covered(s, obj),
         u.accessTokenStore = s.accessTokenStore,
         u.authenticationStore = s.authenticationStore,
         u.userNameToAccessTokenStore = s.userNameToAccessTokenStore,
         u.clientIdToAccessTokenStore = s.clientIdToAccessTokenStore,
         u.expiryQueue = s.expiryQueue
  PROVE  Covered(u, obj)
  BY DEF Covered, Filed, FindTokensByClientId, FindTokensByClientIdAndUserName

\* removeAccessToken takes a token out of accessTokenStore with its index entries.
LEMMA RemoveCovered ==
  ASSUME NEW s, NEW obj, NEW T \in SUBSET AccessTokens, Covered(s, obj)
  PROVE  Covered(RemoveAccessTokens(s, T), obj)
<1> DEFINE u == RemoveAccessTokens(s, T)
<1>s. s \in Stores
  BY DEF Covered
<1>1. /\ u \in Stores
      /\ u.accessTokenStore = s.accessTokenStore \ T
      /\ \A t \in AccessTokens \ T : u.authenticationStore[t] = s.authenticationStore[t]
      /\ \A b \in Buckets :
           s.userNameToAccessTokenStore[b] \ T \subseteq u.userNameToAccessTokenStore[b]
      /\ \A c \in Clients :
           s.clientIdToAccessTokenStore[c] \ T \subseteq u.clientIdToAccessTokenStore[c]
      /\ u.expiryQueue = s.expiryQueue
  BY <1>s, RemoveIndexes
<1> HIDE DEF u
<1>2. ASSUME NEW t \in u.accessTokenStore PROVE Filed(u, obj, t)
  <2> DEFINE a == s.authenticationStore[t]
  <2>1. /\ t \in s.accessTokenStore /\ t \in AccessTokens \ T
        /\ u.authenticationStore[t] = a
    BY <1>s, <1>1, <1>2 DEF Stores
  <2>2. Filed(s, obj, t)
    BY <2>1 DEF Covered
  <2>3. a \in Authentications /\ a.client \in Clients /\ <<a.client, a.user>> \in Buckets
    BY <2>2 DEF Filed, Authentications, Buckets
  <2> HIDE DEF a
  <2>4. /\ t \in u.clientIdToAccessTokenStore[a.client]
        /\ ~IsClientOnly(a) => t \in u.userNameToAccessTokenStore[<<a.client, a.user>>]
    BY <1>1, <2>1, <2>2, <2>3 DEF Filed, FindTokensByClientId, FindTokensByClientIdAndUserName, a
  <2>5. obj[t].expiration # Never => u.expiryQueue[t] = obj[t].expiration
    BY <1>1, <2>2 DEF Filed
  <2> QED BY <2>1, <2>3, <2>4, <2>5 DEF Filed, FindTokensByClientId, FindTokensByClientIdAndUserName
<1> QED BY <1>1, <1>2 DEF Covered, u

\* removeRefreshToken touches none of these maps.
LEMMA RemoveRefreshCovered ==
  ASSUME NEW s, NEW obj, NEW r \in RefreshTokens, Covered(s, obj)
  PROVE  Covered(RemoveRefreshToken(s, r), obj)
<1> DEFINE u == RemoveRefreshToken(s, r)
<1>s. s \in Stores
  BY DEF Covered
<1>1. u \in Stores
  BY <1>s, RemoveRefreshFields
<1>2. /\ u.accessTokenStore = s.accessTokenStore
      /\ u.authenticationStore = s.authenticationStore
      /\ u.userNameToAccessTokenStore = s.userNameToAccessTokenStore
      /\ u.clientIdToAccessTokenStore = s.clientIdToAccessTokenStore
      /\ u.expiryQueue = s.expiryQueue
  BY <1>s DEF RemoveRefreshToken, Stores
<1> HIDE DEF u
<1>3. Covered(u, obj)
  BY <1>1, <1>2, SameFiled
<1> QED BY <1>3 DEF u

\* Nor does storeRefreshToken.
LEMMA StoreRefreshCovered ==
  ASSUME NEW s, NEW obj, NEW r \in RefreshTokens, NEW a \in Authentications, Covered(s, obj)
  PROVE  Covered(StoreRefreshToken(s, r, a), obj)
<1> DEFINE u == StoreRefreshToken(s, r, a)
<1>s. s \in Stores
  BY DEF Covered
<1>1. u \in Stores
  BY <1>s, StoreRefreshFields
<1>2. /\ u.accessTokenStore = s.accessTokenStore
      /\ u.authenticationStore = s.authenticationStore
      /\ u.userNameToAccessTokenStore = s.userNameToAccessTokenStore
      /\ u.clientIdToAccessTokenStore = s.clientIdToAccessTokenStore
      /\ u.expiryQueue = s.expiryQueue
  BY <1>s DEF StoreRefreshToken, Stores
<1> HIDE DEF u
<1>3. Covered(u, obj)
  BY <1>1, <1>2, SameFiled
<1> QED BY <1>3 DEF u

\* removeAccessTokenUsingRefreshToken removes one token at most.
LEMMA RemoveUsingCovered ==
  ASSUME NEW s, NEW obj, NEW r \in RefreshTokens, Covered(s, obj)
  PROVE  Covered(RemoveAccessTokenUsingRefreshToken(s, r), obj)
<1> DEFINE
      u == RemoveAccessTokenUsingRefreshToken(s, r)
      v == [s EXCEPT !.refreshTokenToAccessTokenStore[r] = None]
      t == s.refreshTokenToAccessTokenStore[r]
<1>s. s \in Stores
  BY DEF Covered
<1>1. /\ v \in Stores
      /\ t = None => u = v
      /\ t # None => t \in AccessTokens /\ u = RemoveAccessTokens(v, {t})
  BY <1>s, RemoveUsingFields
<1>2. /\ v.accessTokenStore = s.accessTokenStore
      /\ v.authenticationStore = s.authenticationStore
      /\ v.userNameToAccessTokenStore = s.userNameToAccessTokenStore
      /\ v.clientIdToAccessTokenStore = s.clientIdToAccessTokenStore
      /\ v.expiryQueue = s.expiryQueue
  BY <1>s DEF Stores
<1> HIDE DEF u, v, t
<1>3. Covered(v, obj)
  BY <1>1, <1>2, SameFiled
<1>4. t # None => {t} \in SUBSET AccessTokens
  BY <1>1
<1>5. Covered(u, obj)
  BY <1>1, <1>3, <1>4, RemoveCovered
<1> QED BY <1>5 DEF u

\* A flush takes an expiry out of the queue together with its token.
LEMMA FlushCovered ==
  ASSUME NEW s, NEW obj, NEW m \in Nat, Covered(s, obj)
  PROVE  Covered(Flush(s, m), obj)
<1> DEFINE
      u == Flush(s, m)
      v == RemoveAccessTokens(s, Due(s, m))
      queue == [t \in AccessTokens |-> IF t \in Due(s, m) THEN None ELSE v.expiryQueue[t]]
<1>s. s \in Stores
  BY DEF Covered
<1>1. Due(s, m) \in SUBSET AccessTokens
  BY DEF Due
<1>2. Covered(v, obj) /\ v \in Stores
  BY <1>1, RemoveCovered DEF Covered
<1>3. v.accessTokenStore = s.accessTokenStore \ Due(s, m)
  BY <1>s, <1>1, RemoveIndexes
<1>4. u \in Stores
  BY <1>s, FlushFields
<1>5. u = [v EXCEPT !.expiryQueue = queue]
  BY Zenon DEF Flush
<1>6. \A t \in AccessTokens \ Due(s, m) : queue[t] = v.expiryQueue[t]
  OBVIOUS
<1> HIDE DEF u, v, queue
<1>7. /\ u.accessTokenStore = v.accessTokenStore
      /\ u.authenticationStore = v.authenticationStore
      /\ u.userNameToAccessTokenStore = v.userNameToAccessTokenStore
      /\ u.clientIdToAccessTokenStore = v.clientIdToAccessTokenStore
      /\ u.expiryQueue = queue
  BY <1>2, <1>5 DEF Stores
<1>8. \A t \in v.accessTokenStore : u.expiryQueue[t] = v.expiryQueue[t]
  BY <1>s, <1>3, <1>6, <1>7 DEF Stores
<1>9. Covered(u, obj)
  BY <1>2, <1>4, <1>7, <1>8 DEF Covered, Filed, FindTokensByClientId,
     FindTokensByClientIdAndUserName
<1> QED BY <1>9 DEF u

\* Nor does the count of inserts leave a live token out.
LEMMA CountInsertCovered ==
  ASSUME NEW s, NEW obj, NEW m \in Nat, Covered(s, obj)
  PROVE  Covered(CountInsert(s, m), obj)
<1> DEFINE
      u == CountInsert(s, m)
      f == IF s.flushCounter + 1 >= FlushInterval THEN Flush(s, m) ELSE s
      n == IF s.flushCounter + 1 >= FlushInterval THEN 0 ELSE s.flushCounter + 1
<1>s. s \in Stores
  BY DEF Covered
<1>1. Covered(f, obj) /\ f \in Stores
  BY FlushCovered DEF Covered
<1>2. u = [f EXCEPT !.flushCounter = n]
  BY DEF CountInsert
<1>3. n \in Nat
  BY <1>s DEF Stores
<1> HIDE DEF u, f, n
<1>4. /\ u \in Stores
      /\ u.accessTokenStore = f.accessTokenStore
      /\ u.authenticationStore = f.authenticationStore
      /\ u.userNameToAccessTokenStore = f.userNameToAccessTokenStore
      /\ u.clientIdToAccessTokenStore = f.clientIdToAccessTokenStore
      /\ u.expiryQueue = f.expiryQueue
  BY <1>1, <1>2, <1>3 DEF Stores
<1>5. Covered(u, obj)
  BY <1>1, <1>4, SameFiled
<1> QED BY <1>5 DEF u

\* storeAccessToken files the token in every index, after its flush.
LEMMA StoreAccessCovered ==
  ASSUME NEW s, NEW obj, NEW t \in AccessTokens, NEW a \in Authentications, NEW m \in Nat,
         Covered(s, obj), obj[t] \in AccessTokenObjects
  PROVE  Covered(StoreAccessToken(s, t, obj[t], a, m), obj)
<1> DEFINE
      v == CountInsert(s, m)
      u == FileAccessToken(v, t, obj[t], a)
<1>1. Covered(v, obj) /\ v \in Stores
  BY CountInsertCovered DEF Covered
<1> HIDE DEF v
<1>2. /\ u \in Stores
      /\ u.accessTokenStore = v.accessTokenStore \cup {t}
      /\ u.authenticationStore[t] = a
      /\ \A x \in AccessTokens \ {t} : /\ u.authenticationStore[x] = v.authenticationStore[x]
                                       /\ u.expiryQueue[x] = v.expiryQueue[x]
      /\ \A b \in Buckets :
           v.userNameToAccessTokenStore[b] \subseteq u.userNameToAccessTokenStore[b]
      /\ \A c \in Clients :
           v.clientIdToAccessTokenStore[c] \subseteq u.clientIdToAccessTokenStore[c]
      /\ ~IsClientOnly(a) => t \in u.userNameToAccessTokenStore[ApprovalKey(a)]
      /\ t \in u.clientIdToAccessTokenStore[a.client]
      /\ obj[t].expiration # Never => u.expiryQueue[t] = obj[t].expiration
  BY <1>1, FileIndexes
<1>3. u = StoreAccessToken(s, t, obj[t], a, m)
  BY DEF StoreAccessToken, v
<1> HIDE DEF u
<1>4. Filed(u, obj, t)
  BY <1>2 DEF Filed, ApprovalKey, FindTokensByClientId, FindTokensByClientIdAndUserName
<1>5. ASSUME NEW x \in v.accessTokenStore \ {t} PROVE Filed(u, obj, x)
  <2> DEFINE b == v.authenticationStore[x]
  <2>1. x \in AccessTokens \ {t}
    BY <1>1, <1>5 DEF Stores
  <2>2. Filed(v, obj, x) /\ u.authenticationStore[x] = b /\ u.expiryQueue[x] = v.expiryQueue[x]
    BY <1>1, <1>2, <2>1 DEF Covered
  <2>3. b \in Authentications /\ b.client \in Clients /\ <<b.client, b.user>> \in Buckets
    BY <2>2 DEF Filed, Authentications, Buckets
  <2> HIDE DEF b
  <2>4. /\ x \in u.clientIdToAccessTokenStore[b.client]
        /\ ~IsClientOnly(b) => x \in u.userNameToAccessTokenStore[<<b.client, b.user>>]
    BY <1>2, <2>2, <2>3 DEF Filed, FindTokensByClientId, FindTokensByClientIdAndUserName, b
  <2> QED BY <2>2, <2>3, <2>4 DEF Filed, FindTokensByClientId, FindTokensByClientIdAndUserName
<1>6. Covered(u, obj)
  BY <1>2, <1>4, <1>5 DEF Covered
<1> QED BY <1>3, <1>6

\* A new object changes nothing for the tokens that are live.
LEMMA FreshCovered ==
  ASSUME NEW s, NEW obj \in Objects, NEW t \in AccessTokens, NEW o, Covered(s, obj),
         t \notin s.accessTokenStore
  PROVE  Covered(s, [obj EXCEPT ![t] = o])
<1> DEFINE obj2 == [obj EXCEPT ![t] = o]
<1>1. \A x \in s.accessTokenStore : obj2[x] = obj[x]
  BY DEF Covered, Stores, Objects
<1> HIDE DEF obj2
<1>2. Covered(s, obj2)
  BY <1>1 DEF Covered, Filed
<1> QED BY <1>2 DEF obj2

\* storeAccessToken of a new token, and storeRefreshToken.
LEMMA StoreBothCovered ==
  ASSUME NEW s, NEW obj, NEW t \in AccessTokens, NEW a \in Authentications,
         NEW r \in RefreshTokens \cup {None}, now \in Nat, Covered(s, obj),
         obj[t] = NewAccessToken(a.client, r)
  PROVE  Covered(StoreBoth(s, t, r, a), obj)
<1> DEFINE v == StoreAccessToken(s, t, obj[t], a, now)
<1>1. obj[t] \in AccessTokenObjects
  BY NewAccessTokenType DEF Authentications
<1>2. Covered(v, obj)
  BY <1>1, StoreAccessCovered, Zenon
<1>3. StoreBoth(s, t, r, a) = IF r = None THEN v ELSE StoreRefreshToken(v, r, a)
  BY DEF StoreBoth
<1> HIDE DEF v
<1> QED BY <1>2, <1>3, StoreRefreshCovered

-----------------------------------------------------------------------------
(* One lemma per action.                                                    *)

\* The indexes cover the live tokens.
IndexesOK == Covered(store, accessToken)

\* Calls that leave the objects alone.
LEMMA SameObjects ==
  ASSUME NEW u, Covered(u, accessToken), store' = u, UNCHANGED accessToken
  PROVE  IndexesOK'
  BY DEF IndexesOK, Covered, Filed, FindTokensByClientId, FindTokensByClientIdAndUserName

\* Calls that make a new token: its object changes nothing for the others.
LEMMA NewObject ==
  ASSUME Inv, IndexesOK, NEW t \in AccessTokens, NEW c \in Clients,
         NEW r \in RefreshTokens \cup {None}, CreateAccessTokenObject(t, c, r)
  PROVE  /\ Covered(store, accessToken')
         /\ accessToken'[t] = NewAccessToken(c, r)
         /\ accessToken'[t] \in AccessTokenObjects
<1>1. accessToken \in Objects /\ now \in Nat
  BY DEF Inv, TypeOK, Objects
<1>2. /\ accessToken[t] = None
      /\ accessToken' = [accessToken EXCEPT ![t] = NewAccessToken(c, r)]
  BY DEF CreateAccessTokenObject
<1>3. t \notin store.accessTokenStore
  BY <1>2, ObjectsAssumption DEF Inv, Sound, Agree
<1>4. NewAccessToken(c, r) \in AccessTokenObjects
  BY <1>1, NewAccessTokenType
<1>5. accessToken'[t] = NewAccessToken(c, r)
  BY <1>1, <1>2 DEF Objects
<1> QED BY <1>1, <1>2, <1>3, <1>4, <1>5, FreshCovered DEF IndexesOK

\* What a call does to the indexes when it ends with store u.
LEMMA NewStore ==
  ASSUME NEW u, store' = u, Covered(u, accessToken')
  PROVE  IndexesOK'
  BY DEF IndexesOK, Covered, Filed, FindTokensByClientId, FindTokensByClientIdAndUserName

\* removeAccessToken by itself.
LEMMA RemovalIndexes ==
  ASSUME IndexesOK, NEW T \in SUBSET AccessTokens, store' = RemoveAccessTokens(store, T),
         UNCHANGED accessToken
  PROVE  IndexesOK'
  BY RemoveCovered, SameObjects DEF IndexesOK

\* revokeApprovals removes tokens only.
LEMMA RevokeApprovalsIndexes ==
  ASSUME Inv, IndexesOK, NEW c \in Clients, NEW u \in Users, RevokeApprovals(c, u)
  PROVE  IndexesOK'
<1> DEFINE T == {t \in FindTokensByClientIdAndUserName(store, c, u) :
                   /\ store.authenticationStore[t] # None
                   /\ store.authenticationStore[t].client = c}
<1>1. <<c, u>> \in Buckets
  BY DEF Buckets
<1>2. T \in SUBSET AccessTokens
  BY <1>1 DEF FindTokensByClientIdAndUserName, Inv, TypeOK, Stores
<1>3. store' = RemoveAccessTokens(store, T) /\ UNCHANGED accessToken
  BY DEF RevokeApprovals
<1> HIDE DEF T
<1> QED BY <1>2, <1>3, RemovalIndexes

\* loadAuthentication of an expired token.
LEMMA LoadExpiredTokenIndexes ==
  ASSUME IndexesOK, NEW t \in AccessTokens, LoadExpiredToken(t)
  PROVE  IndexesOK'
  BY RemovalIndexes DEF LoadExpiredToken, RemoveAccessToken

\* revokeToken removes the pair.
LEMMA RevokeTokenIndexes ==
  ASSUME Inv, IndexesOK, NEW t \in AccessTokens, RevokeToken(t)
  PROVE  IndexesOK'
<1> DEFINE
      r == accessToken[t].refreshToken
      s == IF r = None THEN store ELSE RemoveRefreshToken(store, r)
      u == RemoveAccessTokens(s, {t})
<1>1. store' = u /\ UNCHANGED accessToken /\ t \in store.accessTokenStore
  BY DEF RevokeToken, RemoveAccessToken
<1>2. r \in RefreshTokens \cup {None}
  BY <1>1 DEF Inv, Sound, Agree, AccessTokenObjects
<1> HIDE DEF r
<1>3. Covered(s, accessToken)
  BY <1>2, RemoveRefreshCovered DEF IndexesOK
<1> HIDE DEF s
<1>4. {t} \in SUBSET AccessTokens
  OBVIOUS
<1>5. Covered(u, accessToken)
  BY <1>3, <1>4, RemoveCovered
<1> HIDE DEF u
<1> QED BY <1>1, <1>5, SameObjects

\* A refresh that fails, before or after the refresh token is removed.
LEMMA FailedRefreshIndexes ==
  ASSUME IndexesOK, NEW r \in RefreshTokens, NEW scope,
         RefreshExpired(r) \/ RefreshInvalidScope(r, scope)
  PROVE  IndexesOK'
<1> DEFINE
      s == RemoveAccessTokenUsingRefreshToken(store, r)
      u == RemoveRefreshToken(s, r)
<1>1. store' \in {s, u} /\ UNCHANGED accessToken
  BY DEF RefreshExpired, RefreshInvalidScope
<1>2. Covered(s, accessToken)
  BY RemoveUsingCovered DEF IndexesOK
<1> HIDE DEF s
<1>3. Covered(u, accessToken)
  BY <1>2, RemoveRefreshCovered
<1> HIDE DEF u
<1> QED BY <1>1, <1>2, <1>3, SameObjects

\* clear leaves the user index as it is, and no live token that it could miss.
LEMMA ClearIndexes ==
  ASSUME Inv, Clear
  PROVE  IndexesOK'
<1> DEFINE u == ClearStore(store)
<1>1. u \in Stores /\ u.accessTokenStore = {}
  BY ClearFields DEF Inv, TypeOK
<1>2. store' = u /\ UNCHANGED accessToken
  BY DEF Clear
<1> HIDE DEF u
<1>3. Covered(u, accessToken)
  BY <1>1 DEF Covered
<1> QED BY <1>2, <1>3, SameObjects

\* createAccessToken files the token it found once more.
LEMMA ReturnExistingIndexes ==
  ASSUME Inv, IndexesOK, NEW a \in Grants, ReturnExistingAccessToken(a)
  PROVE  IndexesOK'
<1> DEFINE
      t == LookupAccessToken(store, a)
      u == StoreAccessToken(store, t, accessToken[t], a, now)
<1>a. a \in Authentications
  BY ServicesAssumption
<1>1. /\ t \in AccessTokens
      /\ accessToken[t] \in AccessTokenObjects
      /\ AfterGetAccessToken(store, a, accessToken, now) = store
  BY <1>a, LookupSound DEF ReturnExistingAccessToken
<1>2. store' = u /\ UNCHANGED accessToken /\ now \in Nat
  BY <1>1 DEF ReturnExistingAccessToken, Inv, TypeOK
<1> HIDE DEF t
<1>3. Covered(u, accessToken)
  BY <1>a, <1>1, <1>2, StoreAccessCovered DEF IndexesOK
<1> HIDE DEF u
<1> QED BY <1>2, <1>3, SameObjects

\* createAccessToken when there is no token for the authentication.
LEMMA IssueIndexes ==
  ASSUME Inv, IndexesOK, NEW a \in Grants, NEW t \in AccessTokens,
         NEW r \in RefreshTokens \cup {None}, IssueAccessToken(a, t, r)
  PROVE  IndexesOK'
<1> DEFINE u == StoreBoth(store, t, r, a)
<1>1. a \in Authentications /\ a.client \in Clients /\ now \in Nat
  BY ServicesAssumption DEF Authentications, Inv, TypeOK
<1>2. store' = u /\ CreateAccessTokenObject(t, a.client, r)
  BY DEF IssueAccessToken
<1>3. Covered(store, accessToken') /\ accessToken'[t] = NewAccessToken(a.client, r)
  BY <1>1, <1>2, NewObject
<1>4. Covered(u, accessToken')
  BY <1>1, <1>3, StoreBothCovered
<1> HIDE DEF u
<1> QED BY <1>2, <1>4, NewStore

\* createAccessToken when the token it found has expired.
LEMMA ReplaceIndexes ==
  ASSUME Inv, IndexesOK, NEW a \in Grants, NEW t \in AccessTokens,
         NEW r \in RefreshTokens \cup {None}, ReplaceExpiredAccessToken(a, t, r)
  PROVE  IndexesOK'
<1> DEFINE
      existing == LookupAccessToken(store, a)
      old == accessToken[existing].refreshToken
      s == IF old = None THEN store ELSE RemoveRefreshToken(store, old)
      w == RemoveAccessTokens(s, {existing})
      u == StoreBoth(w, t, r, a)
<1>1. a \in Authentications /\ a.client \in Clients /\ now \in Nat
  BY ServicesAssumption DEF Authentications, Inv, TypeOK
<1>2. /\ existing \in AccessTokens
      /\ accessToken[existing] \in AccessTokenObjects
      /\ AfterGetAccessToken(store, a, accessToken, now) = store
  BY <1>1, LookupSound DEF ReplaceExpiredAccessToken
<1>3. store' = u /\ CreateAccessTokenObject(t, a.client, r)
  BY <1>2 DEF ReplaceExpiredAccessToken, RemoveAccessToken
<1>4. old \in RefreshTokens \cup {None} /\ {existing} \in SUBSET AccessTokens
  BY <1>2 DEF AccessTokenObjects
<1>5. Covered(store, accessToken') /\ accessToken'[t] = NewAccessToken(a.client, r)
  BY <1>1, <1>3, NewObject
<1> HIDE DEF existing, old
<1>6. Covered(s, accessToken')
  BY <1>4, <1>5, RemoveRefreshCovered
<1> HIDE DEF s
<1>7. Covered(w, accessToken')
  BY <1>4, <1>6, RemoveCovered
<1> HIDE DEF w
<1>8. Covered(u, accessToken')
  BY <1>1, <1>5, <1>7, StoreBothCovered
<1> HIDE DEF u
<1> QED BY <1>3, <1>8, NewStore

\* refreshAccessToken, with the old refresh token or a new one.
LEMMA RefreshIndexes ==
  ASSUME Inv, IndexesOK, NEW r \in RefreshTokens, NEW scope \in SUBSET Scopes,
         NEW t \in AccessTokens, NEW r2 \in RefreshTokens,
         RefreshAccessToken(r, scope, t, r2)
  PROVE  IndexesOK'
<1> DEFINE
      g == store.refreshTokenAuthenticationStore[r]
      a == Refreshed(g, scope)
      s == RemoveAccessTokenUsingRefreshToken(store, r)
      w == RemoveRefreshToken(s, r)
      v == StoreAccessToken(s, t, NewAccessToken(a.client, r2), a, now)
      u == StoreBoth(w, t, r2, a)
<1>1. r \in store.refreshTokenStore /\ now \in Nat
  BY DEF RefreshAccessToken, CanRefresh, Inv, TypeOK
<1>2. g \in Authentications
  BY <1>1 DEF Inv, TypeOK, Sound, Agree, Stores
<1>3. a \in Authentications /\ a.client \in Clients
  BY <1>2 DEF Refreshed, Authentications, Listings
<1>4. /\ CreateAccessTokenObject(t, a.client, r2)
      /\ store' \in {u, v}
  BY DEF RefreshAccessToken, RefreshGrant
<1> HIDE DEF g, a
<1>5. /\ Covered(store, accessToken')
      /\ accessToken'[t] = NewAccessToken(a.client, r2)
      /\ accessToken'[t] \in AccessTokenObjects
  BY <1>3, <1>4, NewObject
<1>6. Covered(s, accessToken')
  BY <1>5, RemoveUsingCovered
<1> HIDE DEF s
<1>7. Covered(v, accessToken')
  <2>1. Covered(StoreAccessToken(s, t, accessToken'[t], a, now), accessToken')
    BY <1>1, <1>3, <1>5, <1>6, StoreAccessCovered
  <2> QED BY <1>5, <2>1
<1>8. Covered(w, accessToken')
  BY <1>6, RemoveRefreshCovered
<1> HIDE DEF w, v
<1>9. Covered(u, accessToken')
  BY <1>1, <1>3, <1>5, <1>8, StoreBothCovered
<1> HIDE DEF u
<1> QED BY <1>4, <1>7, <1>9, NewStore

-----------------------------------------------------------------------------
(* The theorems.                                                            *)

\* No token is live at first.
LEMMA InitIndexes == Init => IndexesOK
  BY EmptyStoreType DEF Init, EmptyStore, IndexesOK, Covered

\* Every action keeps the indexes.
LEMMA NextIndexes ==
  ASSUME Inv, IndexesOK, [Next]_vars
  PROVE  IndexesOK'
<1>1. ASSUME UNCHANGED vars PROVE IndexesOK'
  BY <1>1, SameObjects DEF vars, IndexesOK
<1>2. ASSUME NEW a \in Grants, ReturnExistingAccessToken(a) PROVE IndexesOK'
  BY <1>2, ReturnExistingIndexes
<1>3. ASSUME NEW a \in Grants, NEW t \in AccessTokens, NEW r \in RefreshTokens \cup {None},
             ReplaceExpiredAccessToken(a, t, r) \/ IssueAccessToken(a, t, r)
      PROVE  IndexesOK'
  BY <1>3, ReplaceIndexes, IssueIndexes
<1>4. ASSUME NEW r \in RefreshTokens, RefreshExpired(r) PROVE IndexesOK'
  BY <1>4, FailedRefreshIndexes
<1>5. ASSUME NEW r \in RefreshTokens, NEW scope \in SUBSET Scopes,
             RefreshInvalidScope(r, scope)
      PROVE  IndexesOK'
  BY <1>5, FailedRefreshIndexes
<1>6. ASSUME NEW r \in RefreshTokens, NEW scope \in SUBSET Scopes, NEW t \in AccessTokens,
             NEW r2 \in RefreshTokens, RefreshAccessToken(r, scope, t, r2)
      PROVE  IndexesOK'
  BY <1>6, RefreshIndexes
<1>7. ASSUME NEW t \in AccessTokens, LoadExpiredToken(t) \/ RevokeToken(t) PROVE IndexesOK'
  BY <1>7, LoadExpiredTokenIndexes, RevokeTokenIndexes
<1>8. ASSUME NEW c \in Clients, NEW u \in Users, RevokeApprovals(c, u) PROVE IndexesOK'
  BY <1>8, RevokeApprovalsIndexes
<1>9. ASSUME Clear PROVE IndexesOK'
  BY <1>9, ClearIndexes
<1>10. ASSUME Tick PROVE IndexesOK'
  BY <1>10, SameObjects DEF Tick, IndexesOK
<1> QED BY <1>1, <1>2, <1>3, <1>4, <1>5, <1>6, <1>7, <1>8, <1>9, <1>10 DEF Next

\* Every live token is filed under the client and the user it was last stored for, and
\* in the queue with the instant it expires, after any sequence of calls.
THEOREM IndexesInvariant == Spec => []IndexesOK
<1>1. Inv /\ IndexesOK /\ [Next]_vars => IndexesOK'
  BY NextIndexes
<1> QED BY InitIndexes, InductiveInvariant, <1>1, PTL DEF Spec

\* revokeApprovals and the lookups by client find every live token that they should.
THEOREM IndexesComplete == Spec => []IndexesCoverLive
<1>1. IndexesOK => IndexesCoverLive
  BY DEF IndexesOK, Covered, Filed, IndexesCoverLive, Live, AuthenticationOf
<1> QED BY IndexesInvariant, <1>1, PTL

\* The flush reaches every live token that can expire.
THEOREM ExpiryQueueComplete == Spec => []ExpiryQueueCoversLive
<1>1. IndexesOK => ExpiryQueueCoversLive
  BY DEF IndexesOK, Covered, Filed, ExpiryQueueCoversLive, Live
<1> QED BY IndexesInvariant, <1>1, PTL
=============================================================================
