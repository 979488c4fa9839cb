--------------------- MODULE TokenServicesThreadsProofs ---------------------
(***************************************************************************)
(* Proofs about TokenServicesThreads: what holds however the operations of  *)
(* overlapping calls interleave.  First the operations and the sequences of *)
(* them that calls push, then what a step does to the stacks, then one      *)
(* lemma per kind of step, which shows both parts of the invariant.         *)
(***************************************************************************)
EXTENDS TokenServicesThreads, SequenceTheorems, TLAPS

-----------------------------------------------------------------------------
(* Authentications, keys and grants.                                        *)

\* The key under which a token is filed is an authentication for the same client, user
\* and scopes.
LEMMA KeyOfGrant ==
  ASSUME NEW a \in Authentications
  PROVE  /\ ExtractKey(a) \in Authentications
         /\ ExtractKey(a).client = a.client
         /\ ExtractKey(a).user = a.user
         /\ ExtractKey(a).scope = a.scope
  BY DEF ExtractKey, Authentications, Listings

\* Whether a token backs a grant depends on the client, the user and the scopes alone.
LEMMA SameBacked ==
  ASSUME NEW t, NEW a, NEW b, a.client = b.client, a.user = b.user, a.scope = b.scope
  PROVE  TokenBacked(t, a) <=> TokenBacked(t, b)
  BY DEF TokenBacked, BackedBy, Within

\* createRefreshedAuthentication narrows the grant.
LEMMA RefreshedWithin ==
  ASSUME NEW a \in Authentications, NEW scope \in SUBSET Scopes, scope \subseteq a.scope
  PROVE  /\ Refreshed(a, scope) \in Authentications
         /\ \A b : Within(a, b) => Within(Refreshed(a, scope), b)
  BY DEF Refreshed, Authentications, Listings, Within

\* The expiration of a new token is not null.
LEMMA NewExpirationType ==
  ASSUME now \in Nat, NEW n \in Int
  PROVE  NewExpiration(n) \in Expirations /\ NewExpiration(n) # None
  BY SentinelsAssumption DEF NewExpiration, Expirations

\* createAccessToken makes an object with the refresh token it is given.
LEMMA NewAccessTokenType ==
  ASSUME now \in Nat, NEW c \in Clients, NEW r \in RefreshTokens \cup {None}
  PROVE  /\ NewAccessToken(c, r) \in AccessTokenObjects
         /\ NewAccessToken(c, r) # None
         /\ NewAccessToken(c, r).refreshToken = r
<1>1. NewExpiration(AccessTokenValidity[c]) \in Expirations
  BY ServicesAssumption, NewExpirationType
<1> QED BY <1>1, ObjectsAssumption DEF NewAccessToken, AccessTokenObjects

-----------------------------------------------------------------------------
(* The operations.                                                          *)

\* What an operation works on is of the type that its name calls for.
LEMMA OperationFields ==
  ASSUME NEW o \in Operations
  PROVE  /\ o.op \in {"putToken", "takeToken", "delToRefresh", "load", "revoke",
                      "takeAuthentication", "putAuthentication", "putKey", "delKey", "checkKey",
                      "existing", "answer", "putUser", "delUser", "putClient", "delClient",
                      "putExpiry", "putToAccess", "putToRefresh"}
              => o.t \in AccessTokens
         /\ o.op \in {"putAuthentication", "putKey", "delKey", "checkKey", "existing", "answer",
                      "putUser", "delUser", "putClient", "delClient",
                      "putRefreshAuthentication", "getKey", "issue", "refreshed"}
              => o.a \in Authentications
         /\ o.op \in {"putToAccess", "putToRefresh", "putRefresh", "delRefresh",
                      "delRefreshAuthentication", "delToAccess", "takeToAccess",
                      "putRefreshAuthentication", "readRefresh", "readRefreshAuthentication",
                      "refreshed"}
              => o.r \in RefreshTokens
         /\ o.op = "issue" => o.r \in RefreshTokens \cup {None}
         /\ o.op \in {"readRefresh", "readRefreshAuthentication", "refreshed"}
              => o.scope \in SUBSET Scopes
         /\ o.op = "putExpiry" => o.expiration \in Int
         /\ o.op = "takeAuthentication" => o.found \in BOOLEAN
  BY DEF Operations

\* The records that the steps push are operations.
LEMMA OperationsBuilt ==
  /\ \A op \in {"count", "poll", "resetCount"} : Op(op) \in Operations
  /\ \A op \in {"putToken", "takeToken", "delToRefresh", "load", "revoke"}, t \in AccessTokens :
       OnToken(op, t) \in Operations
  /\ \A t \in AccessTokens, found \in BOOLEAN :
       [op |-> "takeAuthentication", t |-> t, found |-> found] \in Operations
  /\ \A op \in {"putAuthentication", "putKey", "delKey", "checkKey", "existing", "answer",
                "putUser", "delUser", "putClient", "delClient"},
        t \in AccessTokens, a \in Authentications : OnGrant(op, t, a) \in Operations
  /\ \A t \in AccessTokens, e \in Int :
       [op |-> "putExpiry", t |-> t, expiration |-> e] \in Operations
  /\ \A op \in {"putToAccess", "putToRefresh"}, t \in AccessTokens, r \in RefreshTokens :
       OnPair(op, t, r) \in Operations
  /\ \A op \in {"putRefresh", "delRefresh", "delRefreshAuthentication", "delToAccess",
                "takeToAccess"}, r \in RefreshTokens : OnRefresh(op, r) \in Operations
  /\ \A r \in RefreshTokens, a \in Authentications :
       OnRefreshGrant("putRefreshAuthentication", r, a) \in Operations
  /\ \A a \in Authentications : [op |-> "getKey", a |-> a] \in Operations
  /\ \A r \in RefreshTokens \cup {None}, a \in Authentications :
       OnRefreshGrant("issue", r, a) \in Operations
  /\ \A op \in {"readRefresh", "readRefreshAuthentication"}, r \in RefreshTokens,
        scope \in SUBSET Scopes : [op |-> op, r |-> r, scope |-> scope] \in Operations
  /\ \A r \in RefreshTokens, a \in Authentications, scope \in SUBSET Scopes :
       [op |-> "refreshed", r |-> r, a |-> a, scope |-> scope] \in Operations
  /\ \A m \in {"getAccessToken", "refreshAccessToken"} :
       [op |-> "exception", method |-> m] \in Operations
<1> USE DEF Op, OnToken, OnGrant, OnPair, OnRefresh, OnRefreshGrant, Operations
<1>1. \A op \in {"count", "poll", "resetCount"} : Op(op) \in Operations
  OBVIOUS
<1>2. \A op \in {"putToken", "takeToken", "delToRefresh", "load", "revoke"}, t \in AccessTokens :
       OnToken(op, t) \in Operations
  OBVIOUS
<1>3. \A t \in AccessTokens, found \in BOOLEAN :
       [op |-> "takeAuthentication", t |-> t, found |-> found] \in Operations
  OBVIOUS
<1>4. \A op \in {"putAuthentication", "putKey", "delKey", "checkKey", "existing", "answer",
                "putUser", "delUser", "putClient", "delClient"},
        t \in AccessTokens, a \in Authentications : OnGrant(op, t, a) \in Operations
  OBVIOUS
<1>5. \A t \in AccessTokens, e \in Int :
       [op |-> "putExpiry", t |-> t, expiration |-> e] \in Operations
  OBVIOUS
<1>6. \A op \in {"putToAccess", "putToRefresh"}, t \in AccessTokens, r \in RefreshTokens :
       OnPair(op, t, r) \in Operations
  OBVIOUS
<1>7. \A op \in {"putRefresh", "delRefresh", "delRefreshAuthentication", "delToAccess",
                "takeToAccess"}, r \in RefreshTokens : OnRefresh(op, r) \in Operations
  OBVIOUS
<1>8. /\ \A r \in RefreshTokens, a \in Authentications :
           OnRefreshGrant("putRefreshAuthentication", r, a) \in Operations
      /\ \A r \in RefreshTokens \cup {None}, a \in Authentications :
           OnRefreshGrant("issue", r, a) \in Operations
  OBVIOUS
<1>9. \A a \in Authentications : [op |-> "getKey", a |-> a] \in Operations
  OBVIOUS
<1>10. \A op \in {"readRefresh", "readRefreshAuthentication"}, r \in RefreshTokens,
        scope \in SUBSET Scopes : [op |-> op, r |-> r, scope |-> scope] \in Operations
  OBVIOUS
<1>11. \A r \in RefreshTokens, a \in Authentications, scope \in SUBSET Scopes :
       [op |-> "refreshed", r |-> r, a |-> a, scope |-> scope] \in Operations
  OBVIOUS
<1>12. \A m \in {"getAccessToken", "refreshAccessToken"} :
       [op |-> "exception", method |-> m] \in Operations
  OBVIOUS
<1> HIDE DEF Op, OnToken, OnGrant, OnPair, OnRefresh, OnRefreshGrant, Operations
<1> QED BY <1>1, <1>2, <1>3, <1>4, <1>5, <1>6, <1>7, <1>8, <1>9, <1>10, <1>11, <1>12

-----------------------------------------------------------------------------
(* Sequences of operations that a step may push.                            *)

\* No operation of ops ends the call.
Plain(ops) == \A i \in 1..Len(ops) : ops[i].op \notin Lone \cup {"checkKey"}

\* ExpiryComesLater, for the objects obj.
Later(ops, obj) ==
  \A i \in 1..Len(ops) :
    ops[i].op \in {"putToken", "putAuthentication"} /\ obj[ops[i].t].expiration # Never
      => \E j \in i+1..Len(ops) : ops[j].op = "putExpiry" /\ ops[j].t = ops[i].t

\* A sequence of operations of S that keeps the invariants of the stack.
Pushable(ops, S, obj) == ops \in Seq(S) /\ Plain(ops) /\ Later(ops, obj)

\* The operations that rely on something, and the two that an expiry must follow.
Relying ==
  {"putToken", "revoke", "putAuthentication", "putKey", "checkKey", "existing", "answer",
   "issue", "refreshed", "putRefreshAuthentication"}

\* The others are always justified.
LEMMA OthersJustified ==
  ASSUME NEW o \in Operations, o.op \notin Relying
  PROVE  o \in JustifiedOperations
  BY DEF Relying, JustifiedOperations, Justified

\* Neither ends the call nor needs an expiry after it.
Harmless(o) == o.op \notin Lone \cup {"checkKey", "putToken", "putAuthentication"}

\* In short sequences of harmless operations there is nothing more to look at.
LEMMA PushNone ==
  ASSUME NEW S, NEW obj
  PROVE  Pushable(<<>>, S, obj)
  BY DEF Pushable, Plain, Later

LEMMA PushOne ==
  ASSUME NEW S, NEW obj, NEW x \in S, Harmless(x)
  PROVE  Pushable(<<x>>, S, obj)
  BY DEF Pushable, Plain, Later, Harmless

LEMMA PushTwo ==
  ASSUME NEW S, NEW obj, NEW x \in S, NEW y \in S, Harmless(x), Harmless(y)
  PROVE  Pushable(<<x, y>>, S, obj)
  BY DEF Pushable, Plain, Later, Harmless

LEMMA PushThree ==
  ASSUME NEW S, NEW obj, NEW x \in S, NEW y \in S, NEW z \in S,
         Harmless(x), Harmless(y), Harmless(z)
  PROVE  Pushable(<<x, y, z>>, S, obj)
  BY DEF Pushable, Plain, Later, Harmless

\* Whatever is pushed in front of a sequence that keeps the invariants keeps them too.
LEMMA PushConcat ==
  ASSUME NEW S, NEW obj, NEW u, NEW v, Pushable(u, S, obj), Pushable(v, S, obj)
  PROVE  Pushable(u \o v, S, obj)
<1>1. u \in Seq(S) /\ v \in Seq(S) /\ Len(u) \in Nat /\ Len(v) \in Nat
  BY LenProperties DEF Pushable
<1>2. /\ u \o v \in Seq(S)
      /\ Len(u \o v) = Len(u) + Len(v)
      /\ \A i \in 1..Len(u) + Len(v) :
           (u \o v)[i] = IF i <= Len(u) THEN u[i] ELSE v[i - Len(u)]
  BY <1>1, ConcatProperties
<1> DEFINE w == u \o v
<1> HIDE DEF w
<1>3. /\ w \in Seq(S) /\ Len(w) = Len(u) + Len(v)
      /\ \A i \in 1..Len(u) : w[i] = u[i]
      /\ \A i \in 1..Len(v) : w[i + Len(u)] = v[i]
      /\ \A i \in 1..Len(w) : i <= Len(u) \/ (i - Len(u) \in 1..Len(v) /\ w[i] = v[i - Len(u)])
  BY <1>1, <1>2 DEF w
<1>4. Plain(w)
  BY <1>1, <1>3 DEF Plain, Pushable
<1>5. ASSUME NEW i \in 1..Len(w), w[i].op \in {"putToken", "putAuthentication"},
             obj[w[i].t].expiration # Never
      PROVE  \E j \in i+1..Len(w) : w[j].op = "putExpiry" /\ w[j].t = w[i].t
  <2>1. CASE i <= Len(u)
    <3>1. i \in 1..Len(u) /\ w[i] = u[i]
      BY <1>1, <1>3, <2>1
    <3>2. PICK j \in i+1..Len(u) : u[j].op = "putExpiry" /\ u[j].t = u[i].t
      BY <1>5, <3>1 DEF Pushable, Later
    <3>3. j \in i+1..Len(w) /\ w[j] = u[j]
      BY <1>1, <1>3, <3>1, <3>2
    <3> QED BY <3>1, <3>2, <3>3
  <2>2. CASE i > Len(u)
    <3>1. i - Len(u) \in 1..Len(v) /\ w[i] = v[i - Len(u)]
      BY <1>1, <1>3, <2>2
    <3>2. PICK j \in (i - Len(u))+1..Len(v) : v[j].op = "putExpiry" /\ v[j].t = v[i - Len(u)].t
      BY <1>5, <3>1 DEF Pushable, Later
    <3>3. j + Len(u) \in i+1..Len(w) /\ w[j + Len(u)] = v[j]
      BY <1>1, <1>3, <3>1, <3>2
    <3> QED BY <3>1, <3>2, <3>3
  <2> QED BY <1>1, <2>1, <2>2
<1>6. Later(w, obj)
  BY <1>5 DEF Later
<1> QED BY <1>3, <1>4, <1>6 DEF Pushable, w

\* What is in either of two sequences is in both put together.
LEMMA HasConcat ==
  ASSUME NEW S, NEW u \in Seq(S), NEW v \in Seq(S), NEW names, NEW t
  PROVE  Has(u \o v, names, t) <=> Has(u, names, t) \/ Has(v, names, t)
<1>1. Len(u) \in Nat /\ Len(v) \in Nat
  BY LenProperties
<1>2. /\ Len(u \o v) = Len(u) + Len(v)
      /\ \A i \in 1..Len(u) + Len(v) :
           (u \o v)[i] = IF i <= Len(u) THEN u[i] ELSE v[i - Len(u)]
  BY ConcatProperties
<1> DEFINE w == u \o v
<1> HIDE DEF w
<1>3. /\ Len(w) = Len(u) + Len(v)
      /\ \A i \in 1..Len(u) : i \in 1..Len(w) /\ w[i] = u[i]
      /\ \A i \in 1..Len(v) : i + Len(u) \in 1..Len(w) /\ w[i + Len(u)] = v[i]
      /\ \A i \in 1..Len(w) : \/ i \in 1..Len(u) /\ w[i] = u[i]
                              \/ i - Len(u) \in 1..Len(v) /\ w[i] = v[i - Len(u)]
  BY <1>1, <1>2 DEF w
<1>4. Has(w, names, t) => Has(u, names, t) \/ Has(v, names, t)
  BY <1>3 DEF Has
<1>5. Has(u, names, t) => Has(w, names, t)
  BY <1>3 DEF Has
<1>6. Has(v, names, t) => Has(w, names, t)
  BY <1>3 DEF Has
<1> QED BY <1>4, <1>5, <1>6 DEF w

\* All that ops puts into the two maps is token t.
Puts(ops, t) == \A i \in 1..Len(ops) : ops[i].op \in {"putToken", "putAuthentication"} => ops[i].t = t

\* If u puts no token but t into the two maps, and v queues its expiry, then u may go
\* in front of v.
LEMMA PushBefore ==
  ASSUME NEW S, NEW obj, NEW t, NEW u \in Seq(S), Plain(u), NEW v, Pushable(v, S, obj),
         Puts(u, t),
         obj[t].expiration # Never => Has(v, {"putExpiry"}, t)
  PROVE  Pushable(u \o v, S, obj)
<1>1. v \in Seq(S) /\ Len(u) \in Nat /\ Len(v) \in Nat
  BY LenProperties DEF Pushable
<1>2. /\ u \o v \in Seq(S)
      /\ Len(u \o v) = Len(u) + Len(v)
      /\ \A i \in 1..Len(u) + Len(v) :
           (u \o v)[i] = IF i <= Len(u) THEN u[i] ELSE v[i - Len(u)]
  BY <1>1, ConcatProperties
<1> DEFINE w == u \o v
<1> HIDE DEF w
<1>3. /\ w \in Seq(S) /\ Len(w) = Len(u) + Len(v)
      /\ \A i \in 1..Len(u) : w[i] = u[i]
      /\ \A i \in 1..Len(v) : w[i + Len(u)] = v[i]
      /\ \A i \in 1..Len(w) : i <= Len(u) \/ (i - Len(u) \in 1..Len(v) /\ w[i] = v[i - Len(u)])
  BY <1>1, <1>2 DEF w
<1>4. Plain(w)
  <2> SUFFICES ASSUME NEW i \in 1..Len(w) PROVE w[i].op \notin Lone \cup {"checkKey"}
    BY DEF Plain
  <2>1. i \in 1..Len(u) \/ (i - Len(u) \in 1..Len(v) /\ w[i] = v[i - Len(u)])
    BY <1>1, <1>3
  <2> QED BY <1>3, <2>1 DEF Plain, Pushable
<1>5. ASSUME NEW i \in 1..Len(w), w[i].op \in {"putToken", "putAuthentication"},
             obj[w[i].t].expiration # Never
      PROVE  \E j \in i+1..Len(w) : w[j].op = "putExpiry" /\ w[j].t = w[i].t
  <2>1. CASE i <= Len(u)
    <3>1. i \in 1..Len(u) /\ w[i] = u[i] /\ w[i].t = t
      BY <1>1, <1>3, <1>5, <2>1 DEF Puts
    <3>2. PICK j \in 1..Len(v) : v[j].op = "putExpiry" /\ v[j].t = t
      BY <1>5, <3>1 DEF Has
    <3>3. j + Len(u) \in i+1..Len(w) /\ w[j + Len(u)] = v[j]
      BY <1>1, <1>3, <3>1, <3>2
    <3> QED BY <3>1, <3>2, <3>3
  <2>2. CASE i > Len(u)
    <3>1. i - Len(u) \in 1..Len(v) /\ w[i] = v[i - Len(u)]
      BY <1>1, <1>3, <2>2
    <3>2. PICK j \in (i - Len(u))+1..Len(v) : v[j].op = "putExpiry" /\ v[j].t = v[i - Len(u)].t
      BY <1>5, <3>1 DEF Pushable, Later
    <3>3. j + Len(u) \in i+1..Len(w) /\ w[j + Len(u)] = v[j]
      BY <1>1, <1>3, <3>1, <3>2
    <3> QED BY <3>1, <3>2, <3>3
  <2> QED BY <1>1, <2>1, <2>2
<1>6. Later(w, obj)
  BY <1>5 DEF Later
<1> QED BY <1>3, <1>4, <1>6 DEF Pushable, w

\* What puts t and nothing else still does after what puts nothing else is added.
LEMMA PutsConcat ==
  ASSUME NEW S, NEW t, NEW u \in Seq(S), NEW v \in Seq(S), Plain(u), Plain(v), Puts(u, t), Puts(v, t)
  PROVE  u \o v \in Seq(S) /\ Plain(u \o v) /\ Puts(u \o v, t)
<1>1. Len(u) \in Nat /\ Len(v) \in Nat
  BY LenProperties
<1>2. /\ u \o v \in Seq(S)
      /\ Len(u \o v) = Len(u) + Len(v)
      /\ \A i \in 1..Len(u) + Len(v) :
           (u \o v)[i] = IF i <= Len(u) THEN u[i] ELSE v[i - Len(u)]
  BY ConcatProperties
<1> DEFINE w == u \o v
<1> HIDE DEF w
<1>3. /\ w \in Seq(S)
      /\ \A i \in 1..Len(w) : \/ i \in 1..Len(u) /\ w[i] = u[i]
                              \/ i - Len(u) \in 1..Len(v) /\ w[i] = v[i - Len(u)]
  BY <1>1, <1>2 DEF w
<1>4. Plain(w)
  BY <1>3 DEF Plain
<1>5. Puts(w, t)
  BY <1>3 DEF Puts
<1> QED BY <1>3, <1>4, <1>5 DEF w

\* storeAccessToken of a token that backs the grant: whatever else is in the call, its
\* expiry is queued after the two maps have it.
LEMMA PushStore ==
  ASSUME NEW S, NEW obj, NEW t \in AccessTokens, NEW token \in AccessTokenObjects,
         NEW a \in Authentications, obj[t] = token,
         {o \in Operations : o.op \notin Relying} \subseteq S,
         OnToken("putToken", t) \in S, OnGrant("putAuthentication", t, a) \in S,
         OnGrant("putKey", t, a) \in S
  PROVE  Pushable(StoreAccessOps(t, token, a), S, obj)
<1> DEFINE
      first == <<Op("count"), OnToken("putToken", t), OnGrant("putAuthentication", t, a),
                 OnGrant("putKey", t, a)>>
      user == When(~IsClientOnly(a), <<OnGrant("putUser", t, a)>>)
      client == <<OnGrant("putClient", t, a)>>
      expiry == When(token.expiration # Never,
                     <<[op |-> "putExpiry", t |-> t, expiration |-> token.expiration]>>)
      links == When(token.refreshToken # None,
                    <<OnPair("putToAccess", t, token.refreshToken),
                      OnPair("putToRefresh", t, token.refreshToken)>>)
<1>1. StoreAccessOps(t, token, a) = first \o user \o client \o expiry \o links
  BY DEF StoreAccessOps
<1>2. Pushable(user, S, obj)
  <2>1. OnGrant("putUser", t, a) \in S /\ Harmless(OnGrant("putUser", t, a))
    BY OperationsBuilt DEF Relying, OnGrant, Harmless, Lone
  <2> QED BY <2>1, PushOne, PushNone DEF When
<1>3. Pushable(client, S, obj)
  <2>1. OnGrant("putClient", t, a) \in S /\ Harmless(OnGrant("putClient", t, a))
    BY OperationsBuilt DEF Relying, OnGrant, Harmless, Lone
  <2> QED BY <2>1, PushOne
<1>4. Pushable(expiry, S, obj)
  <2> DEFINE x == [op |-> "putExpiry", t |-> t, expiration |-> token.expiration]
  <2>1. token.expiration # Never => x \in S /\ Harmless(x)
    <3>1. token.expiration # Never => token.expiration \in Int
      BY DEF AccessTokenObjects, Expirations
    <3> QED BY <3>1, OperationsBuilt DEF Relying, Harmless, Lone
  <2> HIDE DEF x
  <2>2. expiry = When(token.expiration # Never, <<x>>)
    BY DEF x
  <2> QED BY <2>1, <2>2, PushOne, PushNone DEF When
<1>5. Pushable(links, S, obj)
  <2> DEFINE
        x == OnPair("putToAccess", t, token.refreshToken)
        y == OnPair("putToRefresh", t, token.refreshToken)
  <2>1. token.refreshToken # None => x \in S /\ y \in S /\ Harmless(x) /\ Harmless(y)
    <3>1. token.refreshToken # None => token.refreshToken \in RefreshTokens
      BY DEF AccessTokenObjects
    <3> QED BY <3>1, OperationsBuilt DEF Relying, OnPair, Harmless, Lone
  <2> HIDE DEF x, y
  <2>2. links = When(token.refreshToken # None, <<x, y>>)
    BY DEF x, y
  <2> QED BY <2>1, <2>2, PushTwo, PushNone DEF When
<1>6. first \in Seq(S) /\ Plain(first) /\ Len(first) = 4
  <2>1. Op("count") \in S
    BY OperationsBuilt DEF Relying, Op
  <2> QED BY <2>1 DEF Plain, Op, OnToken, OnGrant, Lone
<1>7. Puts(first, t) /\ Puts(user, t) /\ Puts(client, t)
  BY <1>6 DEF Puts, Op, OnToken, OnGrant, When
<1>8. token.expiration # Never =>
        \E j \in 1..Len(expiry) : expiry[j].op = "putExpiry" /\ expiry[j].t = t
  BY DEF When
<1> DEFINE
      x1 == first \o user
      x2 == x1 \o client
<1> HIDE DEF first, user, client, expiry, links
<1>9. x2 \in Seq(S) /\ Plain(x2) /\ Puts(x2, t)
  <2>1. x1 \in Seq(S) /\ Plain(x1) /\ Puts(x1, t)
    BY <1>2, <1>6, <1>7, PutsConcat DEF Pushable
  <2> HIDE DEF x1
  <2> QED BY <1>3, <1>7, <2>1, PutsConcat DEF Pushable
<1>10. token.expiration # Never => Has(expiry, {"putExpiry"}, t)
  BY <1>8 DEF Has
<1> HIDE DEF x2
<1>11. Pushable(x2 \o expiry, S, obj)
  BY <1>4, <1>9, <1>10, PushBefore
<1>12. Pushable((x2 \o expiry) \o links, S, obj)
  BY <1>5, <1>11, PushConcat
<1> QED BY <1>1, <1>12 DEF x2

-----------------------------------------------------------------------------
(* What a step does to the stacks.                                          *)

\* A token's object, once made, is never replaced, nor is what a refresh token was
\* created for.
Monotone ==
  /\ \A t \in AccessTokens : accessToken[t] # None => accessToken'[t] = accessToken[t]
  /\ \A r \in RefreshTokens :
       refreshToken[r] # None => refreshToken'[r] # None /\ granted'[r] = granted[r]

LEMMA UnchangedMonotone ==
  ASSUME UNCHANGED <<accessToken, refreshToken, granted>>
  PROVE  Monotone
  BY DEF Monotone

\* So what is justified once stays justified.
LEMMA StaysBacked ==
  ASSUME Monotone, NEW a, NEW r \in RefreshTokens \cup {None}, BackedBy(a, r)
  PROVE  BackedBy(a, r)'
  BY DEF Monotone, BackedBy

LEMMA TokenStaysBacked ==
  ASSUME TypeOK, Monotone, NEW a, NEW t \in AccessTokens, TokenBacked(t, a)
  PROVE  TokenBacked(t, a)'
<1>1. accessToken[t] # None /\ accessToken'[t] = accessToken[t]
  BY DEF TokenBacked, Monotone
<1>2. accessToken[t].refreshToken \in RefreshTokens \cup {None}
  BY <1>1 DEF TypeOK, AccessTokenObjects
<1>3. PICK r \in RefreshTokens \cup {None} : r = accessToken[t].refreshToken
  BY <1>2
<1>4. BackedBy(a, r)'
  BY <1>3, StaysBacked DEF TokenBacked
<1> QED BY <1>1, <1>3, <1>4 DEF TokenBacked

LEMMA StaysJustified ==
  ASSUME TypeOK, Monotone
  PROVE  JustifiedOperations \subseteq JustifiedOperations'
<1> SUFFICES ASSUME NEW o \in Operations, Justified(o)
             PROVE  Justified(o)'
  BY DEF JustifiedOperations
<1>1. o.op \in {"putToken", "revoke"} => accessToken'[o.t] # None
  BY OperationFields DEF Justified, Monotone
<1>2. o.op \in {"putAuthentication", "putKey", "checkKey", "existing", "answer"}
        => TokenBacked(o.t, o.a)'
  <2> SUFFICES ASSUME o.op \in {"putAuthentication", "putKey", "checkKey", "existing", "answer"}
               PROVE  TokenBacked(o.t, o.a)'
    OBVIOUS
  <2>1. PICK t \in AccessTokens : t = o.t
    BY OperationFields
  <2>2. TokenBacked(t, o.a)'
    BY <2>1, TokenStaysBacked DEF Justified
  <2> QED BY <2>1, <2>2
<1>3. o.op \in {"issue", "refreshed", "putRefreshAuthentication"} => BackedBy(o.a, o.r)'
  <2> SUFFICES ASSUME o.op \in {"issue", "refreshed", "putRefreshAuthentication"}
               PROVE  BackedBy(o.a, o.r)'
    OBVIOUS
  <2>1. PICK r \in RefreshTokens \cup {None} : r = o.r
    BY OperationFields
  <2>2. BackedBy(o.a, r)'
    BY <2>1, StaysBacked DEF Justified
  <2> QED BY <2>1, <2>2
<1> QED BY <1>1, <1>2, <1>3 DEF Justified

\* The operation that a thread does next is justified.
LEMMA HeadJustified ==
  ASSUME GrantsInv, NEW p \in Threads, Busy(p)
  PROVE  /\ stack[p] \in Seq(JustifiedOperations)
         /\ Len(stack[p]) \in Nat \ {0}
         /\ stack[p][1] = Head(stack[p])
         /\ Head(stack[p]) \in Operations
         /\ Justified(Head(stack[p]))
<1>1. stack[p] \in Seq(JustifiedOperations) /\ stack[p] # <<>>
  BY DEF GrantsInv, ThreadsTypeOK, Busy
<1>2. Head(stack[p]) \in JustifiedOperations /\ stack[p][1] = Head(stack[p])
  BY <1>1, HeadTailProperties
<1>3. Len(stack[p]) \in Nat \ {0}
  BY <1>1, EmptySeq, LenProperties
<1> QED BY <1>1, <1>2, <1>3 DEF JustifiedOperations

\* What a call still puts into the two maps has an object that stays as it is.
LEMMA StaysLater ==
  ASSUME TypeOK, Monotone, NEW s \in Seq(JustifiedOperations), ExpiryComesLater(s)
  PROVE  Later(s, accessToken')
<1> SUFFICES ASSUME NEW i \in 1..Len(s), s[i].op \in {"putToken", "putAuthentication"},
                    accessToken'[s[i].t].expiration # Never
             PROVE  \E j \in i+1..Len(s) : s[j].op = "putExpiry" /\ s[j].t = s[i].t
  BY DEF Later
<1>1. s[i] \in Operations /\ Justified(s[i])
  BY ElementOfSeq DEF JustifiedOperations
<1>2. s[i].t \in AccessTokens /\ accessToken[s[i].t] # None
  BY <1>1, OperationFields DEF Justified, TokenBacked
<1>3. Expires(s[i].t)
  BY <1>2 DEF Monotone, Expires
<1> QED BY <1>3 DEF ExpiryComesLater

\* The stack of one thread becomes s.
LEMMA Replaced ==
  ASSUME ThreadsInv, Monotone, NEW p \in Threads, NEW s \in Seq(JustifiedOperations'),
         stack' = [stack EXCEPT ![p] = s], EarlyEndLosesNothing(s), Later(s, accessToken')
  PROVE  /\ stack' \in [Threads -> Seq(JustifiedOperations')]
         /\ \A q \in Threads : /\ EarlyEndLosesNothing(stack'[q])
                               /\ Later(stack'[q], accessToken')
<1>1. TypeOK /\ stack \in [Threads -> Seq(JustifiedOperations)]
  BY DEF ThreadsInv, GrantsInv, ThreadsTypeOK
<1>2. JustifiedOperations \subseteq JustifiedOperations'
  BY <1>1, StaysJustified
<1>3. ASSUME NEW q \in Threads, q # p
      PROVE  /\ stack'[q] \in Seq(JustifiedOperations')
             /\ EarlyEndLosesNothing(stack'[q]) /\ Later(stack'[q], accessToken')
  <2>1. stack'[q] = stack[q] /\ stack[q] \in Seq(JustifiedOperations)
    BY <1>1, <1>3
  <2>2. stack[q] \in Seq(JustifiedOperations')
    BY <1>2, <2>1, SeqMonotonic
  <2>3. EarlyEndLosesNothing(stack[q]) /\ ExpiryComesLater(stack[q])
    BY DEF ThreadsInv, LeftoversInv
  <2> QED BY <1>1, <2>1, <2>2, <2>3, StaysLater
<1>4. stack'[p] = s
  BY <1>1
<1>5. stack' \in [Threads -> Seq(JustifiedOperations')]
  BY <1>1, <1>3, <1>4
<1> QED BY <1>3, <1>4, <1>5

\* What comes after the operation that a thread does now.
LEMMA TailPushable ==
  ASSUME ThreadsInv, Monotone, NEW p \in Threads, Busy(p)
  PROVE  Pushable(Tail(stack[p]), JustifiedOperations', accessToken')
<1> DEFINE s == stack[p]
           u == Tail(s)
<1>1. TypeOK /\ s \in Seq(JustifiedOperations) /\ s # <<>>
  BY DEF ThreadsInv, GrantsInv, ThreadsTypeOK, Busy
<1>2. EarlyEndLosesNothing(s) /\ ExpiryComesLater(s)
  BY DEF ThreadsInv, LeftoversInv
<1> HIDE DEF s
<1>3. s \in Seq(JustifiedOperations') /\ Later(s, accessToken')
  BY <1>1, <1>2, StaysJustified, SeqMonotonic, StaysLater
<1>4. /\ u \in Seq(JustifiedOperations') /\ Len(s) \in Nat /\ Len(u) = Len(s) - 1
      /\ \A i \in 1..Len(u) : u[i] = s[i + 1]
  BY <1>1, <1>3, HeadTailProperties, LenProperties
<1> HIDE DEF u
<1>5. \A i \in 1..Len(u) : i + 1 \in 1..Len(s) /\ i + 1 # 1 /\ Len(s) # 1 /\ u[i] = s[i + 1]
  BY <1>4
<1>6. Plain(u)
  BY <1>2, <1>5 DEF Plain, EarlyEndLosesNothing
<1>7. ASSUME NEW i \in 1..Len(u), u[i].op \in {"putToken", "putAuthentication"},
             accessToken'[u[i].t].expiration # Never
      PROVE  \E j \in i+1..Len(u) : u[j].op = "putExpiry" /\ u[j].t = u[i].t
  <2>1. PICK j \in (i + 1)+1..Len(s) : s[j].op = "putExpiry" /\ s[j].t = s[i + 1].t
    BY <1>3, <1>5, <1>7 DEF Later
  <2>2. j - 1 \in i+1..Len(u) /\ j - 1 \in 1..Len(u) /\ (j - 1) + 1 = j
    BY <1>4, <2>1
  <2>3. u[j - 1] = s[j]
    BY <1>4, <2>2
  <2> QED BY <1>5, <2>1, <2>2, <2>3
<1>8. Later(u, accessToken')
  BY <1>7 DEF Later
<1> QED BY <1>4, <1>6, <1>8 DEF Pushable, s, u

\* Plain sequences end no call early.
LEMMA PlainEndsNothing ==
  ASSUME NEW ops, Plain(ops)
  PROVE  EarlyEndLosesNothing(ops)
  BY DEF Plain, EarlyEndLosesNothing

\* Thread p does its first operation and goes on with ops.
LEMMA Done ==
  ASSUME ThreadsInv, Monotone, NEW p \in Threads, Busy(p), NEW ops, Do(p, ops),
         Pushable(ops, JustifiedOperations', accessToken')
  PROVE  /\ stack' \in [Threads -> Seq(JustifiedOperations')]
         /\ \A q \in Threads : /\ EarlyEndLosesNothing(stack'[q])
                               /\ Later(stack'[q], accessToken')
<1> DEFINE s == ops \o Tail(stack[p])
<1>1. Pushable(s, JustifiedOperations', accessToken')
  BY TailPushable, PushConcat
<1>2. stack' = [stack EXCEPT ![p] = s]
  BY DEF Do
<1> HIDE DEF s
<1> QED BY <1>1, <1>2, Replaced, PlainEndsNothing DEF Pushable

\* The rest of what thread p was about to do, and what the others were, is still to be
\* done, and ops as well.
LEMMA StillPending ==
  ASSUME NEW S, stack \in [Threads -> Seq(S)], NEW p \in Threads, Busy(p), NEW ops \in Seq(S),
         Do(p, ops), NEW names, NEW t
  PROVE  /\ Pending(names, t) =>
              Pending(names, t)' \/ (Head(stack[p]).op \in names /\ Head(stack[p]).t = t)
         /\ Has(ops, names, t) => Pending(names, t)'
         /\ Has(Tail(stack[p]), names, t) => Pending(names, t)'
<1>1. stack[p] \in Seq(S) /\ stack[p] # <<>>
  BY DEF Busy
<1>2. /\ Tail(stack[p]) \in Seq(S) /\ Len(stack[p]) \in Nat
      /\ Len(Tail(stack[p])) = Len(stack[p]) - 1
      /\ \A i \in 1..Len(Tail(stack[p])) : Tail(stack[p])[i] = stack[p][i + 1]
  BY <1>1, HeadTailProperties, LenProperties
<1>3. stack'[p] = ops \o Tail(stack[p]) /\ \A q \in Threads : q # p => stack'[q] = stack[q]
  BY DEF Do
<1>4. Has(ops, names, t) \/ Has(Tail(stack[p]), names, t) => Pending(names, t)'
  <2>1. \A u, v \in Seq(S) : Has(u \o v, names, t) <=> Has(u, names, t) \/ Has(v, names, t)
    BY HasConcat
  <2>2. Has(ops \o Tail(stack[p]), names, t)
          <=> Has(ops, names, t) \/ Has(Tail(stack[p]), names, t)
    BY <1>2, <2>1
  <2>3. Has(ops \o Tail(stack[p]), names, t) => Has(stack'[p], names, t)
    BY <1>3
  <2> QED BY <2>2, <2>3 DEF Pending, Has
<1>5. Has(stack[p], names, t) =>
        Has(Tail(stack[p]), names, t) \/ (Head(stack[p]).op \in names /\ Head(stack[p]).t = t)
  <2> SUFFICES ASSUME NEW i \in 1..Len(stack[p]),
                      stack[p][i].op \in names /\ stack[p][i].t = t
               PROVE  \/ Has(Tail(stack[p]), names, t)
                      \/ Head(stack[p]).op \in names /\ Head(stack[p]).t = t
    BY DEF Has
  <2>1. CASE i = 1
    BY <1>1, <2>1
  <2>2. CASE i # 1
    <3>1. i - 1 \in 1..Len(Tail(stack[p])) /\ (i - 1) + 1 = i
      BY <1>2, <2>2
    <3>2. Tail(stack[p])[i - 1] = stack[p][i]
      BY <1>2, <3>1
    <3> QED BY <3>1, <3>2 DEF Has
  <2> QED BY <2>1, <2>2
<1>6. \A q \in Threads : q # p /\ Has(stack[q], names, t) => Pending(names, t)'
  BY <1>3 DEF Pending, Has
<1>7. Pending(names, t) => \E q \in Threads : Has(stack[q], names, t)
  BY DEF Pending
<1> QED BY <1>4, <1>5, <1>6, <1>7

-----------------------------------------------------------------------------
(* What a step does to the two invariants.                                  *)

StacksOK == \A q \in Threads : EarlyEndLosesNothing(stack[q]) /\ ExpiryComesLater(stack[q])

LEMMA StacksStayOK ==
  ASSUME \A q \in Threads : /\ EarlyEndLosesNothing(stack'[q])
                            /\ Later(stack'[q], accessToken')
  PROVE  StacksOK'
  BY DEF StacksOK, EarlyEndLosesNothing, ExpiryComesLater, Later, Expires

LEMMA SameJustified ==
  ASSUME UNCHANGED <<accessToken, refreshToken, granted>>
  PROVE  JustifiedOperations' = JustifiedOperations
  BY DEF JustifiedOperations, Justified, TokenBacked, BackedBy

\* What the maps of tokens and authentications hold after the step, they held before it.
StoreHoldsNoMore ==
  /\ store' \in Stores
  /\ store'.accessTokenStore \subseteq store.accessTokenStore
  /\ \A t \in AccessTokens :
       store'.authenticationStore[t] \in {store.authenticationStore[t], None}
  /\ \A r \in RefreshTokens :
       store'.refreshTokenAuthenticationStore[r]
         \in {store.refreshTokenAuthenticationStore[r], None}
  /\ \A k \in Authentications :
       store'.authenticationToAccessTokenStore[k]
         \in {store.authenticationToAccessTokenStore[k], None}

LEMMA SameHoldsNoMore ==
  ASSUME TypeOK, UNCHANGED store
  PROVE  StoreHoldsNoMore
  BY DEF StoreHoldsNoMore, TypeOK

\* The parts of StoreJustified.
TokensMade == \A t \in Live : accessToken[t] # None
AuthenticationsBacked ==
  \A t \in AccessTokens : AuthenticationOf(t) # None => TokenBacked(t, AuthenticationOf(t))
RefreshGrantsBacked ==
  \A r \in RefreshTokens : RefreshGrant(r) # None => BackedBy(RefreshGrant(r), r)
KeysBacked ==
  \A k \in Authentications :
    LET t == store.authenticationToAccessTokenStore[k] IN t # None => TokenBacked(t, k)

LEMMA StoreJustifiedParts ==
  StoreJustified <=>
    TokensMade /\ AuthenticationsBacked /\ RefreshGrantsBacked /\ KeysBacked
  BY DEF StoreJustified, TokensMade, AuthenticationsBacked, RefreshGrantsBacked, KeysBacked

LEMMA TokensStayMade ==
  ASSUME TypeOK, Monotone, TokensMade, store'.accessTokenStore \subseteq store.accessTokenStore
  PROVE  TokensMade'
  BY DEF TokensMade, Live, Monotone, TypeOK, Stores

LEMMA AuthenticationsStayBacked ==
  ASSUME TypeOK, Monotone, AuthenticationsBacked,
         \A t \in AccessTokens :
           store'.authenticationStore[t] \in {store.authenticationStore[t], None}
  PROVE  AuthenticationsBacked'
<1> SUFFICES ASSUME NEW t \in AccessTokens, store'.authenticationStore[t] # None
             PROVE  TokenBacked(t, AuthenticationOf(t))'
  BY DEF AuthenticationsBacked, AuthenticationOf
<1>1. PICK a : a = store.authenticationStore[t]
  OBVIOUS
<1>2. store'.authenticationStore[t] = a /\ TokenBacked(t, a)
  BY <1>1 DEF AuthenticationsBacked, AuthenticationOf
<1>3. TokenBacked(t, a)'
  BY <1>2, TokenStaysBacked
<1> QED BY <1>2, <1>3 DEF TokenBacked, AuthenticationOf, BackedBy

LEMMA RefreshGrantsStayBacked ==
  ASSUME TypeOK, Monotone, RefreshGrantsBacked,
         \A r \in RefreshTokens :
           store'.refreshTokenAuthenticationStore[r]
             \in {store.refreshTokenAuthenticationStore[r], None}
  PROVE  RefreshGrantsBacked'
<1> SUFFICES ASSUME NEW r \in RefreshTokens, store'.refreshTokenAuthenticationStore[r] # None
             PROVE  BackedBy(RefreshGrant(r), r)'
  BY DEF RefreshGrantsBacked, RefreshGrant
<1>1. PICK a : a = store.refreshTokenAuthenticationStore[r]
  OBVIOUS
<1>2. store'.refreshTokenAuthenticationStore[r] = a /\ BackedBy(a, r)
  BY <1>1 DEF RefreshGrantsBacked, RefreshGrant
<1>3. BackedBy(a, r)'
  BY <1>2, StaysBacked
<1> QED BY <1>2, <1>3 DEF RefreshGrant, BackedBy

LEMMA KeysStayBacked ==
  ASSUME TypeOK, Monotone, KeysBacked,
         \A k \in Authentications :
           store'.authenticationToAccessTokenStore[k]
             \in {store.authenticationToAccessTokenStore[k], None}
  PROVE  KeysBacked'
<1> SUFFICES ASSUME NEW k \in Authentications, store'.authenticationToAccessTokenStore[k] # None
             PROVE  TokenBacked(store.authenticationToAccessTokenStore[k], k)'
  BY DEF KeysBacked
<1>1. store.authenticationToAccessTokenStore[k] \in AccessTokens
  BY DEF TypeOK, Stores
<1>2. PICK t \in AccessTokens : t = store.authenticationToAccessTokenStore[k]
  BY <1>1
<1>3. store'.authenticationToAccessTokenStore[k] = t /\ TokenBacked(t, k)
  BY <1>2, SentinelsAssumption DEF KeysBacked
<1>4. TokenBacked(t, k)'
  BY <1>3, TokenStaysBacked
<1> QED BY <1>3, <1>4 DEF TokenBacked, BackedBy

LEMMA StoreStaysJustified ==
  ASSUME ThreadsInv, Monotone, StoreHoldsNoMore
  PROVE  StoreJustified'
<1>1. TypeOK /\ TokensMade /\ AuthenticationsBacked /\ RefreshGrantsBacked /\ KeysBacked
  BY StoreJustifiedParts DEF ThreadsInv, GrantsInv, ThreadsTypeOK
<1>2. TokensMade' /\ AuthenticationsBacked' /\ RefreshGrantsBacked' /\ KeysBacked'
  BY <1>1, TokensStayMade, AuthenticationsStayBacked, RefreshGrantsStayBacked,
     KeysStayBacked DEF StoreHoldsNoMore
<1> QED BY <1>2, StoreJustifiedParts, PTL

\* The operations that queue a token's expiry, take it out of the first map, or out of
\* the second.
CoverToken == {"putExpiry", "takeToken"}
CoverAuthentication == {"putExpiry", "takeToken", "takeAuthentication"}

\* What the two maps hold after the step was covered before it and stays so, or is covered
\* by the step.
LEMMA HeldStayCovered ==
  ASSUME ThreadsInv, Monotone,
         \A t \in AccessTokens :
           t \in store'.accessTokenStore /\ accessToken'[t].expiration # Never =>
             Covered(t, CoverToken)' \/ (t \in Live /\ (Covered(t, CoverToken) => Covered(t, CoverToken)')),
         \A t \in AccessTokens :
           store'.authenticationStore[t] # None /\ accessToken'[t].expiration # Never =>
             \/ Covered(t, CoverAuthentication)'
             \/ /\ AuthenticationOf(t) # None
                /\ Covered(t, CoverAuthentication) => Covered(t, CoverAuthentication)'
  PROVE  HeldTokensCovered'
<1>1. TypeOK /\ TokensMade /\ AuthenticationsBacked /\ HeldTokensCovered
  BY StoreJustifiedParts DEF ThreadsInv, GrantsInv, ThreadsTypeOK, LeftoversInv
<1>2. ASSUME NEW t \in AccessTokens, t \in store'.accessTokenStore,
             accessToken'[t].expiration # Never
      PROVE  Covered(t, CoverToken)'
  <2>1. CASE t \in Live
    <3>1. accessToken[t] # None
      BY <1>1, <2>1 DEF TokensMade
    <3>2. Expires(t)
      BY <1>2, <3>1 DEF Expires, Monotone
    <3>3. Covered(t, CoverToken)
      BY <1>1, <2>1, <3>2 DEF HeldTokensCovered, CoverToken
    <3> QED BY <1>2, <3>3
  <2>2. CASE t \notin Live
    BY <1>2, <2>2
  <2> QED BY <2>1, <2>2
<1>3. ASSUME NEW t \in AccessTokens, store'.authenticationStore[t] # None,
             accessToken'[t].expiration # Never
      PROVE  Covered(t, CoverAuthentication)'
  <2>1. CASE AuthenticationOf(t) # None
    <3>1. accessToken[t] # None
      BY <1>1, <2>1 DEF AuthenticationsBacked, TokenBacked
    <3>2. Expires(t)
      BY <1>3, <3>1 DEF Expires, Monotone
    <3>3. Covered(t, CoverAuthentication)
      BY <1>1, <2>1, <3>2 DEF HeldTokensCovered, CoverAuthentication
    <3> QED BY <1>3, <3>3
  <2>2. CASE AuthenticationOf(t) = None
    BY <1>3, <2>2
  <2> QED BY <2>1, <2>2
<1> QED BY <1>2, <1>3
      DEF HeldTokensCovered, Live, AuthenticationOf, Expires, CoverToken, CoverAuthentication

\* The expiries that were queued still are.
QueueKept == \A t \in AccessTokens : store.expiryQueue[t] # None => store'.expiryQueue[t] # None

\* Neither of the two maps gets more, no expiry is taken from the queue, and the thread
\* does none of the operations that others rely on for their expiry.
LEMMA SameCovered ==
  ASSUME ThreadsInv, Monotone, StoreHoldsNoMore, QueueKept,
         \A t \in AccessTokens :
           /\ Pending(CoverToken, t) => Pending(CoverToken, t)'
           /\ Pending(CoverAuthentication, t) => Pending(CoverAuthentication, t)'
  PROVE  HeldTokensCovered'
<1>1. \A t \in AccessTokens :
        /\ Covered(t, CoverToken) => Covered(t, CoverToken)'
        /\ Covered(t, CoverAuthentication) => Covered(t, CoverAuthentication)'
  BY DEF Covered, QueueKept
<1>2. \A t \in AccessTokens : t \in store'.accessTokenStore => t \in Live
  BY DEF StoreHoldsNoMore, Live
<1>3. \A t \in AccessTokens : store'.authenticationStore[t] # None => AuthenticationOf(t) # None
  BY DEF StoreHoldsNoMore, AuthenticationOf
<1> QED BY <1>1, <1>2, <1>3, HeldStayCovered

\* The parts of the invariant.
LEMMA Together ==
  ASSUME TypeOK', stack' \in [Threads -> Seq(JustifiedOperations')],
         answered' \subseteq {t \in AccessTokens : accessToken'[t] # None},
         granted' \in [RefreshTokens -> Authentications \cup {None}],
         StoreJustified', StacksOK', HeldTokensCovered'
  PROVE  ThreadsInv'
  BY DEF ThreadsInv, GrantsInv, ThreadsTypeOK, LeftoversInv, StacksOK

LEMMA Parts ==
  ASSUME ThreadsInv
  PROVE  /\ TypeOK
         /\ stack \in [Threads -> Seq(JustifiedOperations)]
         /\ answered \subseteq {t \in AccessTokens : accessToken[t] # None}
         /\ granted \in [RefreshTokens -> Authentications \cup {None}]
         /\ TokensMade /\ AuthenticationsBacked /\ RefreshGrantsBacked /\ KeysBacked
         /\ StacksOK
  BY StoreJustifiedParts
     DEF ThreadsInv, GrantsInv, ThreadsTypeOK, LeftoversInv, StacksOK

-----------------------------------------------------------------------------
(* Steps that leave the tokens as they are.                                 *)

\* What these steps have in common.
QuietStep(p, ops) ==
  /\ Busy(p) /\ Do(p, ops)
  /\ ops \in Seq(JustifiedOperations)
  /\ UNCHANGED <<now, accessToken, refreshToken, granted>>
  /\ answered' \subseteq {t \in AccessTokens : accessToken[t] # None}
  /\ store' \in Stores

LEMMA QuietTyped ==
  ASSUME ThreadsInv, NEW p \in Threads, NEW ops, QuietStep(p, ops),
         Pushable(ops, JustifiedOperations, accessToken)
  PROVE  /\ Monotone
         /\ TypeOK' /\ stack' \in [Threads -> Seq(JustifiedOperations')]
         /\ answered' \subseteq {t \in AccessTokens : accessToken'[t] # None}
         /\ granted' \in [RefreshTokens -> Authentications \cup {None}]
         /\ StacksOK'
<1>1. Monotone
  BY UnchangedMonotone DEF QuietStep
<1>2. Pushable(ops, JustifiedOperations', accessToken')
  BY SameJustified DEF QuietStep
<1>3. stack' \in [Threads -> Seq(JustifiedOperations')] /\ StacksOK'
  BY <1>1, <1>2, Done, StacksStayOK DEF QuietStep
<1>4. /\ TypeOK'
      /\ answered' \subseteq {t \in AccessTokens : accessToken'[t] # None}
      /\ granted' \in [RefreshTokens -> Authentications \cup {None}]
  BY Parts DEF QuietStep, TypeOK
<1> QED BY <1>1, <1>3, <1>4

\* The operations and their covers that a thread has yet to do.
LEMMA QuietPending ==
  ASSUME ThreadsInv, NEW p \in Threads, NEW ops, QuietStep(p, ops), NEW names, NEW t
  PROVE  /\ Pending(names, t) =>
              Pending(names, t)' \/ (Head(stack[p]).op \in names /\ Head(stack[p]).t = t)
         /\ Has(ops, names, t) => Pending(names, t)'
         /\ Has(Tail(stack[p]), names, t) => Pending(names, t)'
  BY Parts, StillPending DEF QuietStep

\* A step that does no operation on which others rely for an expiry.
LEMMA QuietStays ==
  ASSUME ThreadsInv, NEW p \in Threads, NEW ops, QuietStep(p, ops),
         Pushable(ops, JustifiedOperations, accessToken),
         StoreHoldsNoMore, QueueKept, Head(stack[p]).op \notin CoverAuthentication
  PROVE  ThreadsInv'
<1>1. Monotone
  BY QuietTyped
<1>2. \A t \in AccessTokens :
           /\ Pending(CoverToken, t) => Pending(CoverToken, t)'
           /\ Pending(CoverAuthentication, t) => Pending(CoverAuthentication, t)'
  BY QuietPending DEF CoverToken, CoverAuthentication
<1>3. HeldTokensCovered'
  BY <1>1, <1>2, SameCovered
<1>4. StoreJustified'
  BY <1>1, StoreStaysJustified
<1> QED BY <1>3, <1>4, QuietTyped, Together

\* A change of the other maps alone.
OtherMapsChange ==
  /\ store' \in Stores
  /\ UNCHANGED <<store.accessTokenStore, store.authenticationStore,
                 store.refreshTokenAuthenticationStore, store.authenticationToAccessTokenStore,
                 store.expiryQueue>>

LEMMA OtherMapsHoldNoMore ==
  ASSUME OtherMapsChange
  PROVE  StoreHoldsNoMore /\ QueueKept
  BY DEF OtherMapsChange, StoreHoldsNoMore, QueueKept

LEMMA SameStore ==
  ASSUME TypeOK, UNCHANGED store
  PROVE  OtherMapsChange
  BY DEF OtherMapsChange, TypeOK

-----------------------------------------------------------------------------
(* One put or remove on one map.                                            *)

\* Steps that have a thread do its first operation o and nothing more.
LEMMA WriteQuiet ==
  ASSUME ThreadsInv, NEW p \in Threads, Write(p), store' \in Stores
  PROVE  /\ QuietStep(p, <<>>)
         /\ Pushable(<<>>, JustifiedOperations, accessToken)
  BY Parts, PushNone, EmptySeq DEF Write, QuietStep

LEMMA WrittenOther ==
  ASSUME TypeOK, NEW o \in Operations, store' = Written(store, o),
         o.op \in {"putToAccess", "putToRefresh", "delToRefresh", "delToAccess", "putRefresh",
                   "delRefresh", "resetCount"}
  PROVE  OtherMapsChange
<1> USE OperationFields DEF TypeOK, Stores, OtherMapsChange, Written
<1>1. CASE o.op = "putToAccess"
  BY <1>1
<1>2. CASE o.op = "putToRefresh"
  BY <1>2
<1>3. CASE o.op = "delToRefresh"
  BY <1>3
<1>4. CASE o.op = "delToAccess"
  BY <1>4
<1>5. CASE o.op = "putRefresh"
  BY <1>5
<1>6. CASE o.op = "delRefresh"
  BY <1>6
<1>7. CASE o.op = "resetCount"
  BY <1>7
<1> HIDE DEF TypeOK, Stores, OtherMapsChange, Written
<1> QED BY <1>1, <1>2, <1>3, <1>4, <1>5, <1>6, <1>7

LEMMA WrittenLess ==
  ASSUME TypeOK, NEW o \in Operations, store' = Written(store, o),
         o.op \in {"delKey", "delRefreshAuthentication"}
  PROVE  StoreHoldsNoMore /\ QueueKept
<1> USE OperationFields DEF TypeOK, Stores, StoreHoldsNoMore, QueueKept, Written
<1>1. CASE o.op = "delKey"
  BY <1>1, KeyOfGrant
<1>2. CASE o.op = "delRefreshAuthentication"
  BY <1>2
<1> HIDE DEF TypeOK, Stores, StoreHoldsNoMore, QueueKept, Written
<1> QED BY <1>1, <1>2

LEMMA WrittenToken ==
  ASSUME TypeOK, NEW o \in Operations, store' = Written(store, o), o.op = "putToken"
  PROVE  /\ store' \in Stores
         /\ store'.accessTokenStore = store.accessTokenStore \cup {o.t}
         /\ UNCHANGED <<store.authenticationStore, store.refreshTokenAuthenticationStore,
                        store.authenticationToAccessTokenStore, store.expiryQueue>>
  BY OperationFields DEF TypeOK, Stores, Written

LEMMA WrittenAuthentication ==
  ASSUME TypeOK, NEW o \in Operations, store' = Written(store, o), o.op = "putAuthentication"
  PROVE  /\ store' \in Stores
         /\ store'.authenticationStore = [store.authenticationStore EXCEPT ![o.t] = o.a]
         /\ UNCHANGED <<store.accessTokenStore, store.refreshTokenAuthenticationStore,
                        store.authenticationToAccessTokenStore, store.expiryQueue>>
  BY OperationFields DEF TypeOK, Stores, Written

LEMMA WrittenKey ==
  ASSUME TypeOK, NEW o \in Operations, store' = Written(store, o), o.op = "putKey"
  PROVE  /\ store' \in Stores
         /\ store'.authenticationToAccessTokenStore
              = [store.authenticationToAccessTokenStore EXCEPT ![ExtractKey(o.a)] = o.t]
         /\ UNCHANGED <<store.accessTokenStore, store.authenticationStore,
                        store.refreshTokenAuthenticationStore, store.expiryQueue>>
  BY OperationFields, KeyOfGrant DEF TypeOK, Stores, Written

LEMMA WrittenRefreshAuthentication ==
  ASSUME TypeOK, NEW o \in Operations, store' = Written(store, o),
         o.op = "putRefreshAuthentication"
  PROVE  /\ store' \in Stores
         /\ store'.refreshTokenAuthenticationStore
              = [store.refreshTokenAuthenticationStore EXCEPT ![o.r] = o.a]
         /\ UNCHANGED <<store.accessTokenStore, store.authenticationStore,
                        store.authenticationToAccessTokenStore, store.expiryQueue>>
  BY OperationFields DEF TypeOK, Stores, Written

LEMMA WrittenExpiry ==
  ASSUME TypeOK, NEW o \in Operations, store' = Written(store, o), o.op = "putExpiry"
  PROVE  /\ store' \in Stores
         /\ store'.expiryQueue = [store.expiryQueue EXCEPT ![o.t] = o.expiration]
         /\ UNCHANGED <<store.accessTokenStore, store.authenticationStore,
                        store.refreshTokenAuthenticationStore,
                        store.authenticationToAccessTokenStore>>
  BY OperationFields DEF TypeOK, Stores, Written

\* The expiry of what a thread puts into one of the two maps comes later in its call.
LEMMA ExpiryFollows ==
  ASSUME ThreadsInv, NEW p \in Threads, Busy(p),
         Head(stack[p]).op \in {"putToken", "putAuthentication"}, Expires(Head(stack[p]).t),
         NEW names, "putExpiry" \in names
  PROVE  Has(Tail(stack[p]), names, Head(stack[p]).t)
<1> DEFINE s == stack[p]
<1>1. /\ s \in Seq(JustifiedOperations) /\ s # <<>> /\ Len(s) \in Nat \ {0} /\ s[1] = Head(s)
      /\ ExpiryComesLater(s)
  BY HeadJustified DEF ThreadsInv, LeftoversInv, Busy
<1> HIDE DEF s
<1>2. /\ Len(Tail(s)) = Len(s) - 1
      /\ \A i \in 1..Len(Tail(s)) : Tail(s)[i] = s[i + 1]
  BY <1>1, HeadTailProperties
<1>3. 1 \in 1..Len(s) /\ s[1].op \in {"putToken", "putAuthentication"} /\ Expires(s[1].t)
  BY <1>1 DEF s
<1>4. PICK j \in 1+1..Len(s) : s[j].op = "putExpiry" /\ s[j].t = s[1].t
  BY <1>1, <1>3 DEF ExpiryComesLater
<1>5. j - 1 \in 1..Len(Tail(s)) /\ (j - 1) + 1 = j
  BY <1>1, <1>2, <1>4
<1>6. Tail(s)[j - 1].op \in names /\ Tail(s)[j - 1].t = Head(s).t
  BY <1>1, <1>2, <1>4, <1>5
<1> QED BY <1>5, <1>6 DEF Has, s

\* In the next lemmas p does the write o.
Writing(p, o) ==
  /\ Write(p) /\ o = Head(stack[p])
  /\ o \in Operations /\ Justified(o) /\ store' = Written(store, o)

LEMMA PutTokenOK ==
  ASSUME ThreadsInv, NEW p \in Threads, NEW o, Writing(p, o), o.op = "putToken"
  PROVE  ThreadsInv'
<1>1. /\ store' \in Stores
      /\ store'.accessTokenStore = store.accessTokenStore \cup {o.t}
      /\ UNCHANGED <<store.authenticationStore, store.refreshTokenAuthenticationStore,
                     store.authenticationToAccessTokenStore, store.expiryQueue>>
  BY Parts, WrittenToken DEF Writing
<1>2. QuietStep(p, <<>>) /\ Pushable(<<>>, JustifiedOperations, accessToken)
  BY <1>1, WriteQuiet DEF Writing
<1>3. Monotone /\ UNCHANGED accessToken
  BY <1>2, QuietTyped DEF QuietStep
<1>4. o.t \in AccessTokens /\ accessToken[o.t] # None
  BY OperationFields DEF Writing, Justified
<1>5. StoreJustified'
  <2>1. TokensMade'
    BY <1>1, <1>3, <1>4, Parts DEF TokensMade, Live
  <2>2. AuthenticationsBacked' /\ RefreshGrantsBacked' /\ KeysBacked'
    BY <1>1, <1>3, Parts, AuthenticationsStayBacked, RefreshGrantsStayBacked, KeysStayBacked
  <2> QED BY <2>1, <2>2, StoreJustifiedParts, PTL
<1>6. \A t \in AccessTokens :
        /\ Covered(t, CoverToken) => Covered(t, CoverToken)'
        /\ Covered(t, CoverAuthentication) => Covered(t, CoverAuthentication)'
  <2>1. Head(stack[p]).op \notin CoverAuthentication /\ Head(stack[p]).op \notin CoverToken
    BY DEF Writing, CoverAuthentication, CoverToken
  <2> QED BY <1>1, <1>2, <2>1, QuietPending DEF Covered
<1>7. Expires(o.t) => Covered(o.t, CoverToken)'
  <2>1. Expires(o.t) => Has(Tail(stack[p]), CoverToken, o.t)
    BY ExpiryFollows DEF CoverToken, Writing, Write
  <2> QED BY <1>2, <2>1, QuietPending DEF Covered
<1>8. HeldTokensCovered'
  <2>1. \A t \in AccessTokens :
          t \in store'.accessTokenStore /\ accessToken'[t].expiration # Never =>
            \/ Covered(t, CoverToken)'
            \/ t \in Live /\ (Covered(t, CoverToken) => Covered(t, CoverToken)')
    BY <1>1, <1>3, <1>6, <1>7 DEF Live, Expires
  <2>2. \A t \in AccessTokens :
          store'.authenticationStore[t] # None => AuthenticationOf(t) # None
    BY <1>1 DEF AuthenticationOf
  <2> QED BY <1>3, <1>6, <2>1, <2>2, HeldStayCovered
<1> QED BY <1>2, <1>5, <1>8, QuietTyped, Together

LEMMA PutAuthenticationOK ==
  ASSUME ThreadsInv, NEW p \in Threads, NEW o, Writing(p, o), o.op = "putAuthentication"
  PROVE  ThreadsInv'
<1>1. /\ store' \in Stores
      /\ store'.authenticationStore = [store.authenticationStore EXCEPT ![o.t] = o.a]
      /\ UNCHANGED <<store.accessTokenStore, store.refreshTokenAuthenticationStore,
                     store.authenticationToAccessTokenStore, store.expiryQueue>>
  BY Parts, WrittenAuthentication DEF Writing
<1>2. QuietStep(p, <<>>) /\ Pushable(<<>>, JustifiedOperations, accessToken)
  BY <1>1, WriteQuiet DEF Writing
<1>3. Monotone /\ UNCHANGED accessToken /\ TypeOK
  BY <1>2, QuietTyped, Parts DEF QuietStep
<1>4. o.t \in AccessTokens /\ TokenBacked(o.t, o.a)
  BY OperationFields DEF Writing, Justified
<1>5. \A t \in AccessTokens :
        store'.authenticationStore[t] = IF t = o.t THEN o.a ELSE store.authenticationStore[t]
  BY <1>1, <1>3 DEF TypeOK, Stores
<1>6. StoreJustified'
  <2>1. ASSUME NEW t \in AccessTokens, store'.authenticationStore[t] # None
        PROVE  TokenBacked(t, AuthenticationOf(t))'
    <3>1. PICK a : a = store'.authenticationStore[t]
      OBVIOUS
    <3>2. TokenBacked(t, a)
      BY <1>4, <1>5, <2>1, <3>1, Parts DEF AuthenticationsBacked, AuthenticationOf
    <3>3. TokenBacked(t, a)'
      BY <1>3, <3>2, TokenStaysBacked
    <3> QED BY <3>1, <3>3 DEF TokenBacked, BackedBy, AuthenticationOf
  <2>2. AuthenticationsBacked'
    BY <2>1 DEF AuthenticationsBacked, AuthenticationOf
  <2>3. TokensMade' /\ RefreshGrantsBacked' /\ KeysBacked'
    BY <1>1, <1>3, Parts, TokensStayMade, RefreshGrantsStayBacked, KeysStayBacked
  <2> QED BY <2>2, <2>3, StoreJustifiedParts, PTL
<1>7. \A t \in AccessTokens :
        /\ Covered(t, CoverToken) => Covered(t, CoverToken)'
        /\ Covered(t, CoverAuthentication) => Covered(t, CoverAuthentication)'
  <2>1. Head(stack[p]).op \notin CoverAuthentication /\ Head(stack[p]).op \notin CoverToken
    BY DEF Writing, CoverAuthentication, CoverToken
  <2> QED BY <1>1, <1>2, <2>1, QuietPending DEF Covered
<1>8. Expires(o.t) => Covered(o.t, CoverAuthentication)'
  <2>1. Expires(o.t) => Has(Tail(stack[p]), CoverAuthentication, o.t)
    BY ExpiryFollows DEF CoverAuthentication, Writing, Write
  <2> QED BY <1>2, <2>1, QuietPending DEF Covered
<1>9. HeldTokensCovered'
  <2>1. \A t \in AccessTokens : t \in store'.accessTokenStore => t \in Live
    BY <1>1 DEF Live
  <2>2. \A t \in AccessTokens :
          store'.authenticationStore[t] # None /\ accessToken'[t].expiration # Never =>
            \/ Covered(t, CoverAuthentication)'
            \/ /\ AuthenticationOf(t) # None
               /\ Covered(t, CoverAuthentication) => Covered(t, CoverAuthentication)'
    BY <1>3, <1>5, <1>7, <1>8 DEF AuthenticationOf, Expires
  <2> QED BY <1>3, <1>7, <2>1, <2>2, HeldStayCovered
<1> QED BY <1>2, <1>6, <1>9, QuietTyped, Together

\* Covers stay where the two maps and the queue stay as they are.
LEMMA TwoMapsSame ==
  ASSUME ThreadsInv, NEW p \in Threads, NEW ops, QuietStep(p, ops),
         UNCHANGED <<store.accessTokenStore, store.authenticationStore, store.expiryQueue>>,
         Head(stack[p]).op \notin CoverAuthentication
  PROVE  HeldTokensCovered'
<1>1. Monotone
  BY UnchangedMonotone DEF QuietStep
<1>2. \A t \in AccessTokens :
        /\ Covered(t, CoverToken) => Covered(t, CoverToken)'
        /\ Covered(t, CoverAuthentication) => Covered(t, CoverAuthentication)'
  BY QuietPending DEF Covered, CoverToken, CoverAuthentication
<1>3. \A t \in AccessTokens : t \in store'.accessTokenStore => t \in Live
  BY DEF Live
<1>4. \A t \in AccessTokens : store'.authenticationStore[t] # None => AuthenticationOf(t) # None
  BY DEF AuthenticationOf
<1> QED BY <1>1, <1>2, <1>3, <1>4, HeldStayCovered

LEMMA PutKeyOK ==
  ASSUME ThreadsInv, NEW p \in Threads, NEW o, Writing(p, o), o.op = "putKey"
  PROVE  ThreadsInv'
<1>1. /\ store' \in Stores
      /\ store'.authenticationToAccessTokenStore
           = [store.authenticationToAccessTokenStore EXCEPT ![ExtractKey(o.a)] = o.t]
      /\ UNCHANGED <<store.accessTokenStore, store.authenticationStore,
                     store.refreshTokenAuthenticationStore, store.expiryQueue>>
  BY Parts, WrittenKey DEF Writing
<1>2. QuietStep(p, <<>>) /\ Pushable(<<>>, JustifiedOperations, accessToken)
  BY <1>1, WriteQuiet DEF Writing
<1>3. Monotone /\ TypeOK
  BY <1>2, QuietTyped, Parts
<1>4. o.t \in AccessTokens /\ TokenBacked(o.t, o.a) /\ o.a \in Authentications
  BY OperationFields DEF Writing, Justified
<1>5. TokenBacked(o.t, ExtractKey(o.a))
  BY <1>4, KeyOfGrant, SameBacked
<1>6. \A k \in Authentications :
        store'.authenticationToAccessTokenStore[k] =
          IF k = ExtractKey(o.a) THEN o.t ELSE store.authenticationToAccessTokenStore[k]
  BY <1>1, <1>3 DEF TypeOK, Stores
<1>7. StoreJustified'
  <2>1. ASSUME NEW k \in Authentications, store'.authenticationToAccessTokenStore[k] # None
        PROVE  TokenBacked(store.authenticationToAccessTokenStore[k], k)'
    <3>1. PICK t : t = store'.authenticationToAccessTokenStore[k]
      OBVIOUS
    <3>2. t \in AccessTokens /\ TokenBacked(t, k)
      BY <1>3, <1>4, <1>5, <1>6, <2>1, <3>1, Parts DEF KeysBacked, TypeOK, Stores
    <3>3. TokenBacked(t, k)'
      BY <1>3, <3>2, TokenStaysBacked
    <3> QED BY <3>1, <3>3 DEF TokenBacked, BackedBy
  <2>2. KeysBacked'
    BY <2>1 DEF KeysBacked
  <2>3. TokensMade' /\ AuthenticationsBacked' /\ RefreshGrantsBacked'
    BY <1>1, <1>3, Parts, TokensStayMade, AuthenticationsStayBacked, RefreshGrantsStayBacked
  <2> QED BY <2>2, <2>3, StoreJustifiedParts, PTL
<1>8. HeldTokensCovered'
  BY <1>1, <1>2, TwoMapsSame DEF Writing, CoverAuthentication
<1> QED BY <1>2, <1>7, <1>8, QuietTyped, Together

LEMMA PutRefreshAuthenticationOK ==
  ASSUME ThreadsInv, NEW p \in Threads, NEW o, Writing(p, o), o.op = "putRefreshAuthentication"
  PROVE  ThreadsInv'
<1>1. /\ store' \in Stores
      /\ store'.refreshTokenAuthenticationStore
           = [store.refreshTokenAuthenticationStore EXCEPT ![o.r] = o.a]
      /\ UNCHANGED <<store.accessTokenStore, store.authenticationStore,
                     store.authenticationToAccessTokenStore, store.expiryQueue>>
  BY Parts, WrittenRefreshAuthentication DEF Writing
<1>2. QuietStep(p, <<>>) /\ Pushable(<<>>, JustifiedOperations, accessToken)
  BY <1>1, WriteQuiet DEF Writing
<1>3. Monotone /\ TypeOK
  BY <1>2, QuietTyped, Parts
<1>4. o.r \in RefreshTokens /\ BackedBy(o.a, o.r)
  BY OperationFields DEF Writing, Justified
<1>5. \A r \in RefreshTokens :
        store'.refreshTokenAuthenticationStore[r] =
          IF r = o.r THEN o.a ELSE store.refreshTokenAuthenticationStore[r]
  BY <1>1, <1>3 DEF TypeOK, Stores
<1>6. StoreJustified'
  <2>1. ASSUME NEW r \in RefreshTokens, store'.refreshTokenAuthenticationStore[r] # None
        PROVE  BackedBy(RefreshGrant(r), r)'
    <3>1. PICK a : a = store'.refreshTokenAuthenticationStore[r]
      OBVIOUS
    <3>2. BackedBy(a, r)
      BY <1>4, <1>5, <2>1, <3>1, Parts DEF RefreshGrantsBacked, RefreshGrant
    <3>3. BackedBy(a, r)'
      BY <1>3, <3>2, StaysBacked
    <3> QED BY <3>1, <3>3 DEF BackedBy, RefreshGrant
  <2>2. RefreshGrantsBacked'
    BY <2>1 DEF RefreshGrantsBacked, RefreshGrant
  <2>3. TokensMade' /\ AuthenticationsBacked' /\ KeysBacked'
    BY <1>1, <1>3, Parts, TokensStayMade, AuthenticationsStayBacked, KeysStayBacked
  <2> QED BY <2>2, <2>3, StoreJustifiedParts, PTL
<1>7. HeldTokensCovered'
  BY <1>1, <1>2, TwoMapsSame DEF Writing, CoverAuthentication
<1> QED BY <1>2, <1>6, <1>7, QuietTyped, Together

LEMMA PutExpiryOK ==
  ASSUME ThreadsInv, NEW p \in Threads, NEW o, Writing(p, o), o.op = "putExpiry"
  PROVE  ThreadsInv'
<1>1. /\ store' \in Stores
      /\ store'.expiryQueue = [store.expiryQueue EXCEPT ![o.t] = o.expiration]
      /\ UNCHANGED <<store.accessTokenStore, store.authenticationStore,
                     store.refreshTokenAuthenticationStore,
                     store.authenticationToAccessTokenStore>>
  BY Parts, WrittenExpiry DEF Writing
<1>2. QuietStep(p, <<>>) /\ Pushable(<<>>, JustifiedOperations, accessToken)
  BY <1>1, WriteQuiet DEF Writing
<1>3. Monotone /\ TypeOK
  BY <1>2, QuietTyped, Parts
<1>4. StoreHoldsNoMore
  BY <1>1 DEF StoreHoldsNoMore
<1>5. o.t \in AccessTokens /\ o.expiration \in Int /\ o.expiration # None
  BY OperationFields, SentinelsAssumption DEF Writing
<1>6. \A t \in AccessTokens :
        store'.expiryQueue[t] = IF t = o.t THEN o.expiration ELSE store.expiryQueue[t]
  BY <1>1, <1>3 DEF TypeOK, Stores
<1>7. \A t \in AccessTokens : \A names : t # o.t /\ Pending(names, t) => Pending(names, t)'
  BY <1>2, QuietPending DEF Writing
<1>8. HeldTokensCovered'
  <2>1. \A t \in AccessTokens :
          /\ Covered(t, CoverToken) => Covered(t, CoverToken)'
          /\ Covered(t, CoverAuthentication) => Covered(t, CoverAuthentication)'
    BY <1>5, <1>6, <1>7 DEF Covered
  <2>2. \A t \in AccessTokens : t \in store'.accessTokenStore => t \in Live
    BY <1>4 DEF StoreHoldsNoMore, Live
  <2>3. \A t \in AccessTokens :
          store'.authenticationStore[t] # None => AuthenticationOf(t) # None
    BY <1>4 DEF StoreHoldsNoMore, AuthenticationOf
  <2> QED BY <1>3, <2>1, <2>2, <2>3, HeldStayCovered
<1> QED BY <1>2, <1>3, <1>4, <1>8, StoreStaysJustified, QuietTyped, Together

LEMMA WriteOK ==
  ASSUME ThreadsInv, NEW p \in Threads, Write(p)
  PROVE  ThreadsInv'
<1>1. PICK o : o = Head(stack[p])
  OBVIOUS
<1>2. Writing(p, o) /\ TypeOK /\ o.op \in Writes
  BY <1>1, HeadJustified, Parts DEF Write, Writing, ThreadsInv
<1>3. CASE o.op \in {"putToAccess", "putToRefresh", "delToRefresh", "delToAccess", "putRefresh",
                     "delRefresh", "resetCount", "delKey", "delRefreshAuthentication"}
  <2>1. StoreHoldsNoMore /\ QueueKept
    BY <1>2, <1>3, WrittenOther, WrittenLess, OtherMapsHoldNoMore DEF Writing
  <2>2. QuietStep(p, <<>>) /\ Pushable(<<>>, JustifiedOperations, accessToken)
    BY <2>1, <1>2, WriteQuiet DEF Writing, StoreHoldsNoMore
  <2>3. Head(stack[p]).op \notin CoverAuthentication
    BY <1>1, <1>3 DEF CoverAuthentication
  <2> QED BY <2>1, <2>2, <2>3, QuietStays
<1>4. CASE o.op \in {"putToken", "putAuthentication", "putKey", "putRefreshAuthentication",
                     "putExpiry"}
  BY <1>2, <1>4, PutTokenOK, PutAuthenticationOK, PutKeyOK, PutRefreshAuthenticationOK,
     PutExpiryOK
<1> QED BY <1>2, <1>3, <1>4 DEF Writes

-----------------------------------------------------------------------------
(* The collections, the count, and the removal of tokens.                   *)

LEMMA BucketTypes ==
  ASSUME NEW a \in Authentications
  PROVE  ApprovalKey(a) \in Buckets /\ Name(a) \in Buckets /\ a.client \in Clients
  BY DEF ApprovalKey, Name, IsClientOnly, Buckets, Authentications

LEMMA CollectedOther ==
  ASSUME TypeOK, NEW o \in Operations, o.op \in Collections, store' = Collected(store, o)
  PROVE  OtherMapsChange
<1>1. /\ o.t \in AccessTokens /\ o.a \in Authentications
      /\ ApprovalKey(o.a) \in Buckets /\ Name(o.a) \in Buckets /\ o.a.client \in Clients
  BY OperationFields, BucketTypes DEF Collections
<1>2. CASE o.op = "putUser"
  BY <1>1, <1>2 DEF Collected, TypeOK, Stores, OtherMapsChange
<1>3. CASE o.op = "delUser"
  BY <1>1, <1>3 DEF Collected, TypeOK, Stores, OtherMapsChange
<1>4. CASE o.op = "putClient"
  BY <1>1, <1>4 DEF Collected, TypeOK, Stores, OtherMapsChange
<1>5. CASE o.op = "delClient"
  BY <1>1, <1>5 DEF Collected, TypeOK, Stores, OtherMapsChange
<1> QED BY <1>2, <1>3, <1>4, <1>5 DEF Collections

LEMMA CollectOK ==
  ASSUME ThreadsInv, NEW p \in Threads, Collect(p)
  PROVE  ThreadsInv'
<1>1. PICK o : o = Head(stack[p])
  OBVIOUS
<1>2. o \in Operations /\ o.op \in Collections /\ (store' = Collected(store, o) \/ store' = store)
  BY <1>1, HeadJustified DEF Collect, ThreadsInv
<1>3. OtherMapsChange
  BY <1>2, CollectedOther, SameStore, Parts
<1>4. QuietStep(p, <<>>) /\ Pushable(<<>>, JustifiedOperations, accessToken)
  BY <1>3, Parts, PushNone, EmptySeq DEF Collect, QuietStep, OtherMapsChange
<1>5. Head(stack[p]).op \notin CoverAuthentication
  BY <1>1, <1>2 DEF CoverAuthentication, Collections
<1> QED BY <1>3, <1>4, <1>5, OtherMapsHoldNoMore, QuietStays

LEMMA CountOK ==
  ASSUME ThreadsInv, NEW p \in Threads, Count(p)
  PROVE  ThreadsInv'
<1>1. PICK ops : ops = When(store'.flushCounter >= FlushInterval, <<Op("poll"), Op("resetCount")>>)
  OBVIOUS
<1>2. Pushable(ops, JustifiedOperations, accessToken)
  <2>1. /\ Op("poll") \in JustifiedOperations /\ Harmless(Op("poll"))
        /\ Op("resetCount") \in JustifiedOperations /\ Harmless(Op("resetCount"))
    <3>1. /\ Op("poll") \in Operations /\ Op("poll").op = "poll"
          /\ Op("resetCount") \in Operations /\ Op("resetCount").op = "resetCount"
      BY OperationsBuilt DEF Op
    <3> QED BY <3>1, OthersJustified DEF Relying, Harmless, Lone
  <2>2. Pushable(<<Op("poll"), Op("resetCount")>>, JustifiedOperations, accessToken)
    BY <2>1, PushTwo
  <2> QED BY <1>1, <2>2, PushNone DEF When
<1>3. OtherMapsChange
  <2>1. store \in Stores /\ store.flushCounter + 1 \in Nat
    BY Parts DEF TypeOK, Stores
  <2>2. store' = [store EXCEPT !.flushCounter = @ + 1]
    BY DEF Count
  <2> QED BY <2>1, <2>2 DEF OtherMapsChange, Stores
<1>4. QuietStep(p, ops)
  BY <1>1, <1>2, <1>3, Parts DEF Count, At, QuietStep, OtherMapsChange, Pushable
<1>5. Head(stack[p]).op \notin CoverAuthentication
  BY DEF Count, At, CoverAuthentication
<1> QED BY <1>2, <1>3, <1>4, <1>5, OtherMapsHoldNoMore, QuietStays

LEMMA RemoveAccessPushable ==
  ASSUME NEW t \in AccessTokens
  PROVE  /\ Pushable(RemoveAccessOps(t), JustifiedOperations, accessToken)
         /\ Has(RemoveAccessOps(t), CoverToken, t)
         /\ Has(RemoveAccessOps(t), CoverAuthentication, t)
<1>1. /\ OnToken("takeToken", t) \in Operations
      /\ OnToken("takeToken", t).op = "takeToken" /\ OnToken("takeToken", t).t = t
  BY OperationsBuilt DEF OnToken
<1>2. OnToken("takeToken", t) \in JustifiedOperations /\ Harmless(OnToken("takeToken", t))
  BY <1>1, OthersJustified DEF Relying, Harmless, Lone
<1> QED BY <1>1, <1>2, PushOne DEF RemoveAccessOps, Has, CoverToken, CoverAuthentication

LEMMA PollOK ==
  ASSUME ThreadsInv, NEW p \in Threads, Poll(p)
  PROVE  ThreadsInv'
<1>1. Head(stack[p]).op \notin CoverAuthentication /\ Head(stack[p]).op \notin CoverToken
  BY DEF Poll, At, CoverAuthentication, CoverToken
<1>2. CASE Do(p, <<>>) /\ UNCHANGED store
  <2>1. QuietStep(p, <<>>) /\ Pushable(<<>>, JustifiedOperations, accessToken)
    BY <1>2, Parts, PushNone, EmptySeq DEF Poll, At, QuietStep, TypeOK
  <2> QED BY <1>1, <1>2, <2>1, Parts, SameStore, OtherMapsHoldNoMore, QuietStays
<1>3. ASSUME NEW t \in Due(store, now), store' = [store EXCEPT !.expiryQueue[t] = None],
             Do(p, RemoveAccessOps(t) \o <<Op("poll")>>)
      PROVE  ThreadsInv'
  <2>1. t \in AccessTokens
    BY DEF Due
  <2>2. PICK ops : ops = RemoveAccessOps(t) \o <<Op("poll")>>
    OBVIOUS
  <2>3. /\ Pushable(<<Op("poll")>>, JustifiedOperations, accessToken)
    <3>1. Op("poll") \in Operations /\ Op("poll").op = "poll"
      BY OperationsBuilt DEF Op
    <3>2. Op("poll") \in JustifiedOperations /\ Harmless(Op("poll"))
      BY <3>1, OthersJustified DEF Relying, Harmless, Lone
    <3> QED BY <3>2, PushOne
  <2>4. Pushable(ops, JustifiedOperations, accessToken)
    BY <2>1, <2>2, <2>3, RemoveAccessPushable, PushConcat
  <2>5. Has(ops, CoverToken, t) /\ Has(ops, CoverAuthentication, t)
    BY <2>1, <2>2, <2>3, RemoveAccessPushable, HasConcat DEF Pushable
  <2>6. /\ store' \in Stores
        /\ store'.expiryQueue = [store.expiryQueue EXCEPT ![t] = None]
        /\ UNCHANGED <<store.accessTokenStore, store.authenticationStore,
                       store.refreshTokenAuthenticationStore,
                       store.authenticationToAccessTokenStore>>
    BY <1>3, <2>1, Parts DEF TypeOK, Stores
  <2>7. QuietStep(p, ops)
    BY <1>3, <2>2, <2>4, <2>6, Parts DEF Poll, At, QuietStep, Pushable
  <2>8. Monotone /\ TypeOK
    BY <2>4, <2>7, QuietTyped, Parts
  <2>9. StoreHoldsNoMore
    BY <2>6 DEF StoreHoldsNoMore
  <2>10. \A x \in AccessTokens : x # t => store'.expiryQueue[x] = store.expiryQueue[x]
    BY <2>6, <2>8 DEF TypeOK, Stores
  <2>11. Pending(CoverToken, t)' /\ Pending(CoverAuthentication, t)'
    BY <2>5, <2>7, QuietPending
  <2>12. \A x \in AccessTokens :
           /\ Pending(CoverToken, x) => Pending(CoverToken, x)'
           /\ Pending(CoverAuthentication, x) => Pending(CoverAuthentication, x)'
    BY <1>1, <2>7, QuietPending
  <2>13. \A x \in AccessTokens :
           /\ Covered(x, CoverToken) => Covered(x, CoverToken)'
           /\ Covered(x, CoverAuthentication) => Covered(x, CoverAuthentication)'
    BY <2>10, <2>11, <2>12 DEF Covered
  <2>14. \A x \in AccessTokens :
           /\ x \in store'.accessTokenStore => x \in Live
           /\ store'.authenticationStore[x] # None => AuthenticationOf(x) # None
    BY <2>9 DEF StoreHoldsNoMore, Live, AuthenticationOf
  <2>15. HeldTokensCovered'
    BY <2>8, <2>13, <2>14, HeldStayCovered
  <2> QED BY <2>4, <2>7, <2>8, <2>9, <2>15, StoreStaysJustified, QuietTyped, Together
<1> QED BY <1>2, <1>3 DEF Poll

LEMMA TakeTokenOK ==
  ASSUME ThreadsInv, NEW p \in Threads, TakeToken(p)
  PROVE  ThreadsInv'
<1>1. PICK t : t = Head(stack[p]).t
  OBVIOUS
<1> DEFINE x == OnToken("delToRefresh", t)
           y == [op |-> "takeAuthentication", t |-> t, found |-> t \in Live]
<1>2. t \in AccessTokens /\ Head(stack[p]).op = "takeToken"
  BY <1>1, HeadJustified, OperationFields DEF TakeToken, At, ThreadsInv
<1>3. PICK ops : ops = <<x, y>>
  OBVIOUS
<1>4. Pushable(ops, JustifiedOperations, accessToken) /\ Has(ops, CoverAuthentication, t)
  <2>1. /\ x \in Operations /\ y \in Operations
        /\ x.op = "delToRefresh" /\ y.op = "takeAuthentication" /\ y.t = t
    <3>1. (t \in Live) \in BOOLEAN
      OBVIOUS
    <3>2. y \in Operations
      BY <1>2, <3>1, OperationsBuilt, Zenon
    <3>3. x \in Operations /\ x.op = "delToRefresh"
      BY <1>2, OperationsBuilt DEF OnToken
    <3>4. y.op = "takeAuthentication" /\ y.t = t
      OBVIOUS
    <3> QED BY <3>2, <3>3, <3>4
  <2> HIDE DEF x, y
  <2>2. x \in JustifiedOperations /\ y \in JustifiedOperations /\ Harmless(x) /\ Harmless(y)
    BY <2>1, OthersJustified DEF Relying, Harmless, Lone
  <2>3. Has(<<x, y>>, CoverAuthentication, t)
    BY <2>1 DEF Has, CoverAuthentication
  <2> QED BY <1>3, <2>2, <2>3, PushTwo
<1>5. store' = [store EXCEPT !.accessTokenStore = @ \ {t}] /\ Do(p, ops)
  BY <1>1, <1>3 DEF TakeToken
<1> HIDE DEF x, y
<1>6. /\ store' \in Stores
      /\ store'.accessTokenStore = store.accessTokenStore \ {t}
      /\ UNCHANGED <<store.expiryQueue, store.authenticationStore,
                     store.refreshTokenAuthenticationStore,
                     store.authenticationToAccessTokenStore>>
  BY <1>2, <1>5, Parts DEF TypeOK, Stores
<1>7. QuietStep(p, ops)
  BY <1>4, <1>5, <1>6, Parts DEF TakeToken, At, QuietStep, Pushable
<1>8. Monotone /\ TypeOK
  BY <1>4, <1>7, QuietTyped, Parts
<1>9. StoreHoldsNoMore
  BY <1>6 DEF StoreHoldsNoMore
<1>10. \A u \in AccessTokens : u # t /\ Covered(u, CoverToken) => Covered(u, CoverToken)'
  BY <1>1, <1>6, <1>7, QuietPending DEF Covered
<1>11. Pending(CoverAuthentication, t)'
  BY <1>4, <1>7, QuietPending
<1>12. \A u \in AccessTokens :
         u # t /\ Covered(u, CoverAuthentication) => Covered(u, CoverAuthentication)'
  BY <1>1, <1>6, <1>7, QuietPending DEF Covered
<1>13. \A u \in AccessTokens : Covered(u, CoverAuthentication) => Covered(u, CoverAuthentication)'
  BY <1>11, <1>12 DEF Covered
<1>14. \A u \in AccessTokens :
         /\ u \in store'.accessTokenStore => u \in Live /\ u # t
         /\ store'.authenticationStore[u] # None => AuthenticationOf(u) # None
  BY <1>6 DEF Live, AuthenticationOf
<1>15. HeldTokensCovered'
  BY <1>8, <1>10, <1>13, <1>14, HeldStayCovered
<1> QED BY <1>4, <1>7, <1>8, <1>9, <1>15, StoreStaysJustified, QuietTyped, Together

\* The steps of the methods themselves only change the stack.
LEMMA StackOnly ==
  ASSUME ThreadsInv, NEW p \in Threads, Busy(p), NEW ops, Do(p, ops),
         Pushable(ops, JustifiedOperations, accessToken),
         UNCHANGED <<now, store, accessToken, refreshToken, granted>>,
         answered' \subseteq {t \in AccessTokens : accessToken[t] # None},
         Head(stack[p]).op \notin CoverAuthentication
  PROVE  ThreadsInv'
<1>1. QuietStep(p, ops)
  BY Parts DEF QuietStep, Pushable, TypeOK
<1> QED BY <1>1, Parts, SameStore, OtherMapsHoldNoMore, QuietStays

LEMMA RemoveRefreshPushable ==
  ASSUME NEW r \in RefreshTokens
  PROVE  Pushable(RemoveRefreshOps(r), JustifiedOperations, accessToken)
<1> DEFINE x == OnRefresh("delRefresh", r)
           y == OnRefresh("delRefreshAuthentication", r)
           z == OnRefresh("delToAccess", r)
<1>1. /\ x \in Operations /\ y \in Operations /\ z \in Operations
      /\ x.op = "delRefresh" /\ y.op = "delRefreshAuthentication" /\ z.op = "delToAccess"
  BY OperationsBuilt DEF OnRefresh
<1>2. RemoveRefreshOps(r) = <<x, y, z>>
  BY DEF RemoveRefreshOps
<1> HIDE DEF x, y, z
<1>3. /\ x \in JustifiedOperations /\ y \in JustifiedOperations /\ z \in JustifiedOperations
      /\ Harmless(x) /\ Harmless(y) /\ Harmless(z)
  BY <1>1, OthersJustified DEF Relying, Harmless, Lone
<1> QED BY <1>2, <1>3, PushThree

LEMMA IndexPushable ==
  ASSUME NEW t \in AccessTokens, NEW a \in Authentications, NEW found \in BOOLEAN
  PROVE  Pushable(IndexOps(t, a, found), JustifiedOperations, accessToken)
<1> DEFINE x == OnGrant("delKey", t, a)
           y == OnGrant("delUser", t, a)
           z == OnGrant("delClient", t, a)
           middle == When(found, <<y, z>>)
<1>1. /\ x \in Operations /\ y \in Operations /\ z \in Operations
      /\ x.op = "delKey" /\ y.op = "delUser" /\ z.op = "delClient"
  BY OperationsBuilt DEF OnGrant
<1>2. IndexOps(t, a, found) = <<x>> \o middle \o <<x>>
  BY DEF IndexOps
<1> HIDE DEF x, y, z
<1>3. /\ x \in JustifiedOperations /\ y \in JustifiedOperations /\ z \in JustifiedOperations
      /\ Harmless(x) /\ Harmless(y) /\ Harmless(z)
  BY <1>1, OthersJustified DEF Relying, Harmless, Lone
<1>4. Pushable(middle, JustifiedOperations, accessToken)
  BY <1>3, PushTwo, PushNone DEF When
<1>5. Pushable(<<x>>, JustifiedOperations, accessToken)
  BY <1>3, PushOne
<1> HIDE DEF middle
<1>6. Pushable(<<x>> \o middle, JustifiedOperations, accessToken)
  BY <1>4, <1>5, PushConcat
<1> QED BY <1>2, <1>5, <1>6, PushConcat

LEMMA TakeAuthenticationOK ==
  ASSUME ThreadsInv, NEW p \in Threads, TakeAuthentication(p)
  PROVE  ThreadsInv'
<1>1. PICK o : o = Head(stack[p])
  OBVIOUS
<1>2. /\ o \in Operations /\ o.op = "takeAuthentication" /\ o.t \in AccessTokens
      /\ o.found \in BOOLEAN
  BY <1>1, HeadJustified, OperationFields DEF TakeAuthentication, At, ThreadsInv
<1>3. PICK t \in AccessTokens : t = o.t
  BY <1>2
<1>4. PICK a : a = store.authenticationStore[t]
  OBVIOUS
<1>5. PICK ops : ops = When(a # None, IndexOps(t, a, o.found))
  OBVIOUS
<1>6. Pushable(ops, JustifiedOperations, accessToken)
  <2>1. a # None => a \in Authentications
    BY <1>4, Parts DEF TypeOK, Stores
  <2>2. a # None => Pushable(IndexOps(t, a, o.found), JustifiedOperations, accessToken)
    BY <1>2, <2>1, IndexPushable
  <2> QED BY <1>5, <2>2, PushNone DEF When
<1>7. store' = [store EXCEPT !.authenticationStore[t] = None] /\ Do(p, ops)
  BY <1>1, <1>3, <1>4, <1>5 DEF TakeAuthentication
<1>8. /\ store' \in Stores
      /\ store'.authenticationStore = [store.authenticationStore EXCEPT ![t] = None]
      /\ UNCHANGED <<store.accessTokenStore, store.expiryQueue,
                     store.refreshTokenAuthenticationStore,
                     store.authenticationToAccessTokenStore>>
  BY <1>7, Parts DEF TypeOK, Stores
<1>9. QuietStep(p, ops)
  BY <1>6, <1>7, <1>8, Parts DEF TakeAuthentication, At, QuietStep, Pushable
<1>10. Monotone /\ TypeOK
  BY <1>6, <1>9, QuietTyped, Parts
<1>11. \A u \in AccessTokens :
         store'.authenticationStore[u] = IF u = t THEN None ELSE store.authenticationStore[u]
  BY <1>8, <1>10 DEF TypeOK, Stores
<1>12. StoreHoldsNoMore
  BY <1>8, <1>11 DEF StoreHoldsNoMore
<1>13. \A u \in AccessTokens : Covered(u, CoverToken) => Covered(u, CoverToken)'
  BY <1>1, <1>2, <1>8, <1>9, QuietPending DEF Covered, CoverToken
<1>14. \A u \in AccessTokens :
         u # t /\ Covered(u, CoverAuthentication) => Covered(u, CoverAuthentication)'
  BY <1>1, <1>3, <1>8, <1>9, QuietPending DEF Covered
<1>15. \A u \in AccessTokens :
         /\ u \in store'.accessTokenStore => u \in Live
         /\ store'.authenticationStore[u] # None => AuthenticationOf(u) # None /\ u # t
  BY <1>8, <1>11 DEF Live, AuthenticationOf
<1>16. HeldTokensCovered'
  BY <1>10, <1>13, <1>14, <1>15, HeldStayCovered
<1> QED BY <1>6, <1>9, <1>10, <1>12, <1>16, StoreStaysJustified, QuietTyped, Together

\* storeAccessToken of a token that has an object.
LEMMA StorePushable ==
  ASSUME TypeOK, NEW t \in AccessTokens, NEW a \in Authentications, TokenBacked(t, a)
  PROVE  Pushable(StoreAccessOps(t, accessToken[t], a), JustifiedOperations, accessToken)
<1>1. accessToken[t] # None /\ accessToken[t] \in AccessTokenObjects
  BY DEF TokenBacked, TypeOK
<1>2. PICK token \in AccessTokenObjects : token = accessToken[t]
  BY <1>1
<1>3. {o \in Operations : o.op \notin Relying} \subseteq JustifiedOperations
  BY OthersJustified
<1>4. /\ OnToken("putToken", t) \in JustifiedOperations
      /\ OnGrant("putAuthentication", t, a) \in JustifiedOperations
      /\ OnGrant("putKey", t, a) \in JustifiedOperations
  <2>1. /\ OnToken("putToken", t) \in Operations /\ OnGrant("putAuthentication", t, a) \in Operations
        /\ OnGrant("putKey", t, a) \in Operations
    BY OperationsBuilt
  <2> QED BY <1>1, <2>1 DEF JustifiedOperations, Justified, OnToken, OnGrant
<1>5. Pushable(StoreAccessOps(t, token, a), JustifiedOperations, accessToken)
  BY <1>2, <1>3, <1>4, PushStore
<1> QED BY <1>2, <1>5

\* The call's answer, and the request for a new token.
LEMMA AnswerPushable ==
  ASSUME NEW t \in AccessTokens, NEW a \in Authentications, TokenBacked(t, a)
  PROVE  Pushable(<<OnGrant("answer", t, a)>>, JustifiedOperations, accessToken)
<1>1. OnGrant("answer", t, a) \in Operations
  BY OperationsBuilt
<1>2. OnGrant("answer", t, a) \in JustifiedOperations /\ Harmless(OnGrant("answer", t, a))
  BY <1>1 DEF JustifiedOperations, Justified, OnGrant, Harmless, Lone
<1> QED BY <1>2, PushOne

LEMMA IssuePushable ==
  ASSUME NEW r \in RefreshTokens \cup {None}, NEW a \in Authentications, BackedBy(a, r)
  PROVE  Pushable(<<OnRefreshGrant("issue", r, a)>>, JustifiedOperations, accessToken)
<1>1. OnRefreshGrant("issue", r, a) \in Operations
  BY OperationsBuilt
<1>2. OnRefreshGrant("issue", r, a) \in JustifiedOperations /\ Harmless(OnRefreshGrant("issue", r, a))
  BY <1>1 DEF JustifiedOperations, Justified, OnRefreshGrant, Harmless, Lone
<1> QED BY <1>2, PushOne

-----------------------------------------------------------------------------
(* The methods of the services.                                             *)

LEMMA ExistingOK ==
  ASSUME ThreadsInv, NEW p \in Threads, Existing(p)
  PROVE  ThreadsInv'
<1>1. PICK o : o = Head(stack[p])
  OBVIOUS
<1>2. /\ o.op = "existing" /\ o.t \in AccessTokens /\ o.a \in Authentications
      /\ TokenBacked(o.t, o.a)
  BY <1>1, HeadJustified, OperationFields DEF Existing, At, ThreadsInv, Justified
<1>3. PICK t \in AccessTokens, a \in Authentications : t = o.t /\ a = o.a
  BY <1>2
<1>4. PICK old : old = accessToken[t].refreshToken
  OBVIOUS
<1>5. old \in RefreshTokens \cup {None} /\ BackedBy(a, old) /\ TokenBacked(t, a)
  BY <1>2, <1>3, <1>4, Parts DEF TokenBacked, TypeOK, AccessTokenObjects
<1> DEFINE
      removed == When(old # None, RemoveRefreshOps(old)) \o RemoveAccessOps(t)
      expired == removed \o <<OnRefreshGrant("issue", old, a)>>
      fresh == StoreAccessOps(t, accessToken[t], a) \o <<OnGrant("answer", t, a)>>
<1>6. Pushable(expired, JustifiedOperations, accessToken)
  <2>1. Pushable(When(old # None, RemoveRefreshOps(old)), JustifiedOperations, accessToken)
    BY <1>5, RemoveRefreshPushable, PushNone DEF When
  <2>2. Pushable(removed, JustifiedOperations, accessToken)
    BY <2>1, RemoveAccessPushable, PushConcat
  <2>3. Pushable(<<OnRefreshGrant("issue", old, a)>>, JustifiedOperations, accessToken)
    BY <1>5, IssuePushable
  <2> HIDE DEF removed
  <2> QED BY <2>2, <2>3, PushConcat
<1>7. Pushable(fresh, JustifiedOperations, accessToken)
  BY <1>5, StorePushable, AnswerPushable, PushConcat, Parts
<1>8. Do(p, IF IsExpired(t) THEN expired ELSE fresh)
  BY <1>1, <1>3, <1>4, Zenon DEF Existing
<1> HIDE DEF expired, fresh
<1>9. Do(p, expired) \/ Do(p, fresh)
  BY <1>8
<1> QED BY <1>6, <1>7, <1>9, StackOnly, Parts DEF Existing, At, CoverAuthentication

LEMMA TakeToAccessOK ==
  ASSUME ThreadsInv, NEW p \in Threads, TakeToAccess(p)
  PROVE  ThreadsInv'
<1>1. PICK r : r = Head(stack[p]).r
  OBVIOUS
<1>2. r \in RefreshTokens /\ TypeOK
  BY <1>1, HeadJustified, OperationFields, Parts DEF TakeToAccess, At, ThreadsInv
<1>3. PICK t : t = store.refreshTokenToAccessTokenStore[r]
  OBVIOUS
<1>4. PICK ops : ops = When(t # None, RemoveAccessOps(t))
  OBVIOUS
<1>5. Pushable(ops, JustifiedOperations, accessToken)
  <2>1. t # None => t \in AccessTokens
    BY <1>2, <1>3 DEF TypeOK, Stores
  <2> QED BY <1>4, <2>1, RemoveAccessPushable, PushNone DEF When
<1>6. /\ store' = [store EXCEPT !.refreshTokenToAccessTokenStore[r] = None]
      /\ Do(p, ops)
  BY <1>1, <1>3, <1>4 DEF TakeToAccess
<1>7. OtherMapsChange
  BY <1>2, <1>6 DEF OtherMapsChange, TypeOK, Stores
<1>8. QuietStep(p, ops)
  BY <1>5, <1>6, <1>7, Parts DEF TakeToAccess, At, QuietStep, OtherMapsChange, Pushable
<1>9. Head(stack[p]).op \notin CoverAuthentication
  BY DEF TakeToAccess, At, CoverAuthentication
<1> QED BY <1>5, <1>7, <1>8, <1>9, OtherMapsHoldNoMore, QuietStays

LEMMA RefreshRefusedOK ==
  ASSUME ThreadsInv, NEW p \in Threads, RefreshRefused(p)
  PROVE  ThreadsInv'
<1>1. PICK r \in RefreshTokens : r = Head(stack[p]).r
  BY HeadJustified, OperationFields DEF RefreshRefused, At, ThreadsInv
<1>2. Do(p, RemoveRefreshOps(r)) \/ Do(p, <<>>)
  BY <1>1 DEF RefreshRefused
<1> QED BY <1>1, <1>2, RemoveRefreshPushable, PushNone, StackOnly, Parts
      DEF RefreshRefused, At, CoverAuthentication

LEMMA LoadOK ==
  ASSUME ThreadsInv, NEW p \in Threads, Load(p)
  PROVE  ThreadsInv'
<1>1. PICK t \in AccessTokens : t = Head(stack[p]).t
  BY HeadJustified, OperationFields DEF Load, At, ThreadsInv
<1>2. PICK ops : ops = When(t \in Live /\ IsExpired(t), RemoveAccessOps(t))
  OBVIOUS
<1>3. Do(p, ops)
  BY <1>1, <1>2 DEF Load
<1>4. Pushable(ops, JustifiedOperations, accessToken)
  BY <1>2, RemoveAccessPushable, PushNone DEF When
<1> QED BY <1>3, <1>4, StackOnly, Parts DEF Load, At, CoverAuthentication

LEMMA RevokeOK ==
  ASSUME ThreadsInv, NEW p \in Threads, Revoke(p)
  PROVE  ThreadsInv'
<1>1. PICK t \in AccessTokens : t = Head(stack[p]).t
  BY HeadJustified, OperationFields DEF Revoke, At, ThreadsInv
<1>2. accessToken[t] # None
  BY <1>1, HeadJustified DEF Revoke, At, ThreadsInv, Justified
<1>3. PICK r : r = accessToken[t].refreshToken
  OBVIOUS
<1>4. r \in RefreshTokens \cup {None}
  BY <1>2, <1>3, Parts DEF TypeOK, AccessTokenObjects
<1> DEFINE
      removed == When(r # None, RemoveRefreshOps(r)) \o RemoveAccessOps(t)
      ops == When(t \in Live, removed)
<1>5. Do(p, ops)
  BY <1>1, <1>3, Zenon DEF Revoke
<1>6. Pushable(removed, JustifiedOperations, accessToken)
  <2>1. Pushable(When(r # None, RemoveRefreshOps(r)), JustifiedOperations, accessToken)
    BY <1>4, RemoveRefreshPushable, PushNone DEF When
  <2> QED BY <2>1, RemoveAccessPushable, PushConcat
<1> HIDE DEF removed
<1>7. Pushable(ops, JustifiedOperations, accessToken)
  BY <1>6, PushNone DEF When
<1> HIDE DEF ops
<1> QED BY <1>5, <1>7, StackOnly, Parts DEF Revoke, At, CoverAuthentication

LEMMA AnswerOK ==
  ASSUME ThreadsInv, NEW p \in Threads, Answer(p)
  PROVE  ThreadsInv'
<1>1. PICK t \in AccessTokens : t = Head(stack[p]).t
  BY HeadJustified, OperationFields DEF Answer, At, ThreadsInv
<1>2. accessToken[t] # None
  BY <1>1, HeadJustified DEF Answer, At, ThreadsInv, Justified, TokenBacked
<1>3. answered' \subseteq {x \in AccessTokens : accessToken[x] # None}
  BY <1>1, <1>2, Parts DEF Answer
<1> QED BY <1>3, PushNone, StackOnly, Parts DEF Answer, At, CoverAuthentication

-----------------------------------------------------------------------------
(* Where a call begins, and where it may end early.                         *)

\* These operations stand alone, or with "existing" after them.
LEMMA AtTheEnd ==
  ASSUME ThreadsInv, NEW p \in Threads, Busy(p), Head(stack[p]).op \in Lone \cup {"checkKey"},
         NEW t
  PROVE  /\ ~Has(stack[p], CoverAuthentication, t)
         /\ Head(stack[p]).op \in Lone =>
              \A ops \in Seq(JustifiedOperations) : ops \o Tail(stack[p]) = ops
<1>1. /\ stack[p] \in Seq(JustifiedOperations) /\ Len(stack[p]) \in Nat \ {0}
      /\ stack[p][1] = Head(stack[p]) /\ EarlyEndLosesNothing(stack[p])
  BY HeadJustified DEF ThreadsInv, LeftoversInv
<1>2. 1 \in 1..Len(stack[p])
  BY <1>1
<1>3. CASE Head(stack[p]).op \in Lone
  <2>1. Len(stack[p]) = 1
    BY <1>1, <1>2, <1>3 DEF EarlyEndLosesNothing
  <2>2. ~Has(stack[p], CoverAuthentication, t)
    BY <1>1, <1>3, <2>1 DEF Has, CoverAuthentication, Lone
  <2>3. Tail(stack[p]) = <<>>
    <3>1. Tail(stack[p]) \in Seq(JustifiedOperations) /\ Len(Tail(stack[p])) = 0
      BY <1>1, <2>1, HeadTailProperties DEF Busy
    <3> QED BY <3>1, EmptySeq
  <2> QED BY <2>2, <2>3, ConcatEmptySeq
<1>4. CASE Head(stack[p]).op = "checkKey"
  <2>1. Len(stack[p]) = 2 /\ stack[p][2].op = "existing"
    BY <1>1, <1>2, <1>4 DEF EarlyEndLosesNothing
  <2>2. \A i \in 1..Len(stack[p]) : i = 1 \/ i = 2
    BY <2>1
  <2>3. ~Has(stack[p], CoverAuthentication, t)
    BY <1>1, <1>4, <2>1, <2>2 DEF Has, CoverAuthentication
  <2> QED BY <1>4, <2>3 DEF Lone
<1> QED BY <1>3, <1>4

\* The whole rest of a call is replaced by s.
LEMMA StackReplaced ==
  ASSUME ThreadsInv, NEW p \in Threads, NEW s \in Seq(JustifiedOperations),
         stack' = [stack EXCEPT ![p] = s], EarlyEndLosesNothing(s), Later(s, accessToken),
         \A t : ~Has(stack[p], CoverAuthentication, t),
         UNCHANGED <<now, store, accessToken, refreshToken, granted, answered>>
  PROVE  ThreadsInv'
<1>1. Monotone /\ StoreHoldsNoMore /\ QueueKept
  BY UnchangedMonotone, Parts, SameStore, OtherMapsHoldNoMore
<1>2. JustifiedOperations' = JustifiedOperations
  BY SameJustified
<1>3. stack' \in [Threads -> Seq(JustifiedOperations')] /\ StacksOK'
  BY <1>1, <1>2, Replaced, StacksStayOK
<1>4. \A t : ~Has(stack[p], CoverToken, t)
  BY DEF Has, CoverToken, CoverAuthentication
<1>5. \A q \in Threads : q # p => stack'[q] = stack[q]
  BY Parts
<1>6. \A t \in AccessTokens :
        /\ Pending(CoverToken, t) => Pending(CoverToken, t)'
        /\ Pending(CoverAuthentication, t) => Pending(CoverAuthentication, t)'
  <2>1. \A q \in Threads : \A names, t : q # p /\ Has(stack[q], names, t) => Pending(names, t)'
    BY <1>5 DEF Pending, Has
  <2> QED BY <1>4, <2>1 DEF Pending
<1>7. HeldTokensCovered'
  BY <1>1, <1>6, SameCovered
<1>8. StoreJustified'
  BY <1>1, StoreStaysJustified
<1>9. TypeOK' /\ answered' \subseteq {t \in AccessTokens : accessToken'[t] # None}
      /\ granted' \in [RefreshTokens -> Authentications \cup {None}]
  BY Parts DEF TypeOK
<1> QED BY <1>3, <1>7, <1>8, <1>9, Together

LEMMA GetKeyOK ==
  ASSUME ThreadsInv, NEW p \in Threads, GetKey(p)
  PROVE  ThreadsInv'
<1>1. PICK a \in Authentications : a = Head(stack[p]).a
  BY HeadJustified, OperationFields DEF GetKey, At, ThreadsInv
<1>2. PICK t : t = LookupAccessToken(store, a)
  OBVIOUS
<1>3. t # None => t \in AccessTokens /\ TokenBacked(t, a)
  <2>1. ExtractKey(a) \in Authentications
    BY KeyOfGrant
  <2>2. t # None => t \in AccessTokens /\ TokenBacked(t, ExtractKey(a))
    BY <1>2, <2>1, Parts DEF LookupAccessToken, KeysBacked, TypeOK, Stores
  <2> QED BY <2>2, KeyOfGrant, SameBacked
<1>4. PICK x : x = OnGrant("checkKey", t, a)
  OBVIOUS
<1>5. PICK y : y = OnGrant("existing", t, a)
  OBVIOUS
<1>6. PICK z : z = OnRefreshGrant("issue", None, a)
  OBVIOUS
<1>7. PICK s : s = IF t = None THEN <<z>> ELSE <<x, y>>
  OBVIOUS
<1>8. Do(p, s)
  BY <1>1, <1>2, <1>4, <1>5, <1>6, <1>7, Zenon DEF GetKey
<1>9. s \in Seq(JustifiedOperations) /\ EarlyEndLosesNothing(s) /\ Later(s, accessToken)
  <2>1. CASE t = None
    <3>1. BackedBy(a, None)
      BY DEF BackedBy
    <3>2. Pushable(<<z>>, JustifiedOperations, accessToken)
      BY <1>6, <3>1, IssuePushable
    <3> QED BY <1>7, <2>1, <3>2, PlainEndsNothing DEF Pushable
  <2>2. CASE t # None
    <3>1. x \in Operations /\ y \in Operations /\ x.op = "checkKey" /\ y.op = "existing"
          /\ x.t = t /\ x.a = a /\ y.t = t /\ y.a = a
      BY <1>3, <1>4, <1>5, <2>2, OperationsBuilt DEF OnGrant
    <3>2. x \in JustifiedOperations /\ y \in JustifiedOperations
      BY <1>3, <2>2, <3>1 DEF JustifiedOperations, Justified
    <3>3. s = <<x, y>>
      BY <1>7, <2>2
    <3>4. EarlyEndLosesNothing(s) /\ Later(s, accessToken)
      BY <3>1, <3>3 DEF EarlyEndLosesNothing, Later, Lone
    <3> QED BY <3>2, <3>3, <3>4
  <2> QED BY <2>1, <2>2
<1>10. Busy(p) /\ Head(stack[p]).op \in Lone
  BY DEF GetKey, At, Lone
<1>11. stack' = [stack EXCEPT ![p] = s]
  BY <1>8, <1>9, <1>10, AtTheEnd DEF Do
<1> QED BY <1>9, <1>10, <1>11, AtTheEnd, StackReplaced DEF GetKey

\* An exception leaves the call with nothing to do.
LEMMA ExceptionOK ==
  ASSUME ThreadsInv, NEW p \in Threads, Busy(p), Head(stack[p]).op \in Lone \cup {"checkKey"},
         NEW m \in {"getAccessToken", "refreshAccessToken"}, End(p, NullPointerException(m)),
         UNCHANGED <<now, store, accessToken, refreshToken, calls, answered, granted>>
  PROVE  ThreadsInv'
<1>1. PICK x : x = [op |-> "exception", method |-> m]
  OBVIOUS
<1>2. x \in Operations /\ x.op = "exception"
  BY <1>1, OperationsBuilt
<1>3. x \in JustifiedOperations
  BY <1>2, OthersJustified DEF Relying
<1>4. EarlyEndLosesNothing(<<x>>) /\ Later(<<x>>, accessToken) /\ <<x>> \in Seq(JustifiedOperations)
  BY <1>2, <1>3 DEF EarlyEndLosesNothing, Later
<1>5. stack' = [stack EXCEPT ![p] = <<x>>]
  BY <1>1 DEF End, NullPointerException
<1> QED BY <1>4, <1>5, AtTheEnd, StackReplaced

LEMMA CheckKeyOK ==
  ASSUME ThreadsInv, NEW p \in Threads, CheckKey(p)
  PROVE  ThreadsInv'
<1>1. PICK o : o = Head(stack[p])
  OBVIOUS
<1>2. /\ o.op = "checkKey" /\ o.t \in AccessTokens /\ o.a \in Authentications
      /\ TokenBacked(o.t, o.a) /\ Busy(p)
  BY <1>1, HeadJustified, OperationFields DEF CheckKey, At, ThreadsInv, Justified
<1>3. PICK a : a = store.authenticationStore[o.t]
  OBVIOUS
<1>4. CASE a = None
  <2>1. End(p, NullPointerException("getAccessToken"))
    BY <1>1, <1>3, <1>4 DEF CheckKey
  <2> QED BY <1>1, <1>2, <2>1, ExceptionOK DEF CheckKey
<1>5. CASE a # None
  <2> DEFINE ops == When(ExtractKey(a) # ExtractKey(o.a), StoreAccessOps(o.t, accessToken[o.t], o.a))
  <2>1. Do(p, ops)
    BY <1>1, <1>3, <1>5 DEF CheckKey
  <2>2. Pushable(ops, JustifiedOperations, accessToken)
    BY <1>2, Parts, StorePushable, PushNone DEF When
  <2> HIDE DEF ops
  <2> QED BY <1>1, <1>2, <2>1, <2>2, StackOnly, Parts DEF CheckKey, CoverAuthentication
<1> QED BY <1>4, <1>5

LEMMA ReadRefreshOK ==
  ASSUME ThreadsInv, NEW p \in Threads, ReadRefresh(p)
  PROVE  ThreadsInv'
<1>1. PICK o \in Operations : o = Head(stack[p])
  BY HeadJustified DEF ReadRefresh, At, ThreadsInv
<1>2. /\ o.op = "readRefresh" /\ Busy(p) /\ Head(stack[p]).op \in Lone
  BY <1>1 DEF ReadRefresh, At, Lone
<1>3. PICK x : x = [o EXCEPT !.op = "readRefreshAuthentication"]
  OBVIOUS
<1>4. x \in Operations /\ x.op = "readRefreshAuthentication"
  BY <1>2, <1>3 DEF Operations
<1>5. x \in JustifiedOperations
  BY <1>4, OthersJustified DEF Relying
<1>6. PICK s : s = When(o.r \in store.refreshTokenStore, <<x>>)
  OBVIOUS
<1>7. s \in Seq(JustifiedOperations) /\ EarlyEndLosesNothing(s) /\ Later(s, accessToken)
  <2>1. s = <<x>> \/ s = <<>>
    BY <1>6 DEF When
  <2>2. CASE s = <<x>>
    BY <1>4, <1>5, <2>2 DEF EarlyEndLosesNothing, Later
  <2>3. CASE s = <<>>
    BY <2>3, EmptySeq DEF EarlyEndLosesNothing, Later
  <2> QED BY <2>1, <2>2, <2>3
<1>8. Do(p, s)
  BY <1>1, <1>3, <1>6 DEF ReadRefresh
<1>9. stack' = [stack EXCEPT ![p] = s]
  BY <1>2, <1>7, <1>8, AtTheEnd DEF Do
<1> QED BY <1>2, <1>7, <1>9, AtTheEnd, StackReplaced DEF ReadRefresh

LEMMA ReadRefreshAuthenticationOK ==
  ASSUME ThreadsInv, NEW p \in Threads, ReadRefreshAuthentication(p)
  PROVE  ThreadsInv'
<1>1. PICK o \in Operations : o = Head(stack[p])
  BY HeadJustified DEF ReadRefreshAuthentication, At, ThreadsInv
<1>2. /\ o.op = "readRefreshAuthentication" /\ Busy(p) /\ Head(stack[p]).op \in Lone
      /\ o.r \in RefreshTokens /\ o.scope \in SUBSET Scopes
  BY <1>1, OperationFields DEF ReadRefreshAuthentication, At, Lone
<1>3. PICK r \in RefreshTokens : r = o.r
  BY <1>2
<1>4. PICK a : a = RefreshGrant(r)
  OBVIOUS
<1>5. CASE a = None
  <2>1. End(p, NullPointerException("refreshAccessToken"))
    BY <1>1, <1>3, <1>4, <1>5 DEF ReadRefreshAuthentication
  <2> QED BY <1>2, <2>1, ExceptionOK DEF ReadRefreshAuthentication
<1>6. CASE a # None
  <2>1. a \in Authentications /\ BackedBy(a, r)
    BY <1>4, <1>6, Parts DEF RefreshGrantsBacked, RefreshGrant, TypeOK, Stores
  <2>2. PICK x : x = OnRefresh("takeToAccess", r)
    OBVIOUS
  <2>3. PICK y : y = [op |-> "refreshed", r |-> r, a |-> a, scope |-> o.scope]
    OBVIOUS
  <2>4. /\ x \in Operations /\ x.op = "takeToAccess"
        /\ y \in Operations /\ y.op = "refreshed" /\ y.r = r /\ y.a = a
    BY <1>2, <2>1, <2>2, <2>3, OperationsBuilt DEF OnRefresh
  <2>5. x \in JustifiedOperations /\ y \in JustifiedOperations /\ Harmless(x) /\ Harmless(y)
    BY <2>1, <2>4 DEF JustifiedOperations, Justified, Harmless, Lone
  <2>6. Pushable(<<x, y>>, JustifiedOperations, accessToken)
    BY <2>5, PushTwo
  <2>7. Do(p, <<x, y>>)
    BY <1>1, <1>3, <1>4, <1>6, <2>2, <2>3 DEF ReadRefreshAuthentication
  <2> QED BY <1>1, <1>2, <2>6, <2>7, StackOnly, Parts
        DEF ReadRefreshAuthentication, CoverAuthentication
<1> QED BY <1>5, <1>6

LEMMA FailOK ==
  ASSUME ThreadsInv, NEW p \in Threads, Fail(p)
  PROVE  ThreadsInv'
<1>1. <<>> \in Seq(JustifiedOperations) /\ EarlyEndLosesNothing(<<>>) /\ Later(<<>>, accessToken)
  BY EmptySeq DEF EarlyEndLosesNothing, Later
<1>2. Busy(p) /\ Head(stack[p]).op \in Lone /\ stack' = [stack EXCEPT ![p] = <<>>]
  BY DEF Fail, At, End, Lone
<1> QED BY <1>1, <1>2, AtTheEnd, StackReplaced DEF Fail

LEMMA CallJustified ==
  ASSUME ThreadsInv, NEW o \in Call
  PROVE  /\ o \in JustifiedOperations
         /\ o.op \in {"getKey", "readRefresh", "load", "revoke"}
<1>1. CASE o \in {[op |-> "getKey", a |-> a] : a \in Grants}
  <2>1. o \in Operations /\ o.op = "getKey"
    BY <1>1, ServicesAssumption, OperationsBuilt
  <2> QED BY <2>1, OthersJustified DEF Relying
<1>2. CASE o \in {[op |-> "readRefresh", r |-> r, scope |-> scope] :
                    r \in ClientRefreshTokens, scope \in SUBSET Scopes}
  <2>1. ClientRefreshTokens \subseteq RefreshTokens
    BY Parts DEF ClientRefreshTokens, TypeOK, AccessTokenObjects
  <2>2. o \in Operations /\ o.op = "readRefresh"
    BY <1>2, <2>1, OperationsBuilt
  <2> QED BY <2>2, OthersJustified DEF Relying
<1>3. CASE o \in {OnToken(op, t) : op \in {"load", "revoke"}, t \in answered}
  <2>1. PICK op \in {"load", "revoke"}, t \in answered : o = OnToken(op, t)
    BY <1>3
  <2>2. t \in AccessTokens /\ accessToken[t] # None
    BY Parts
  <2>3. o \in Operations /\ o.op = op /\ o.t = t
    BY <2>1, <2>2, OperationsBuilt DEF OnToken
  <2> QED BY <2>2, <2>3 DEF JustifiedOperations, Justified
<1> QED BY <1>1, <1>2, <1>3 DEF Call

LEMMA BeginOK ==
  ASSUME ThreadsInv, NEW p \in Threads, Begin(p)
  PROVE  ThreadsInv'
<1>1. PICK o \in Call : stack' = [stack EXCEPT ![p] = <<o>>]
  BY DEF Begin
<1>2. <<o>> \in Seq(JustifiedOperations)
  BY CallJustified
<1>3. EarlyEndLosesNothing(<<o>>) /\ Later(<<o>>, accessToken)
  BY CallJustified DEF EarlyEndLosesNothing, Later
<1>4. \A t : ~Has(stack[p], CoverAuthentication, t)
  BY DEF Begin, Busy, Has
<1> QED BY <1>1, <1>2, <1>3, <1>4, StackReplaced DEF Begin

-----------------------------------------------------------------------------
(* New tokens.                                                              *)

\* What is in a sequence of operations stays justified.
LEMMA StaysPushable ==
  ASSUME TypeOK, Monotone, NEW ops, Pushable(ops, JustifiedOperations, accessToken)
  PROVE  Pushable(ops, JustifiedOperations', accessToken')
<1>1. ops \in Seq(JustifiedOperations) /\ ExpiryComesLater(ops)
  BY DEF Pushable, Later, ExpiryComesLater, Expires
<1> QED BY <1>1, StaysJustified, SeqMonotonic, StaysLater DEF Pushable

\* The private createAccessToken and createRefreshToken, for an authentication a: a refresh
\* token that is kept backs it already.
Issued(t, r, a) ==
  /\ \/ UNCHANGED refreshToken /\ BackedBy(a, r)
     \/ CreateRefreshToken(a.client, r)
  /\ CreateAccessTokenObject(t, a.client, r)
  /\ RecordGrant(r, a)
  /\ UNCHANGED <<now, store, answered>>

LEMMA IssuedTokens ==
  ASSUME ThreadsInv, NEW t \in AccessTokens, NEW r \in RefreshTokens \cup {None},
         NEW a \in Authentications, Issued(t, r, a)
  PROVE  /\ Monotone
         /\ TypeOK'
         /\ granted' \in [RefreshTokens -> Authentications \cup {None}]
         /\ accessToken'[t] = NewAccessToken(a.client, r)
         /\ NewAccessToken(a.client, r) \in AccessTokenObjects
         /\ TokenBacked(t, a)' /\ BackedBy(a, r)'
<1> DEFINE token == NewAccessToken(a.client, r)
           e == NewExpiration(RefreshTokenValidity[a.client])
<1>1. a.client \in Clients /\ now \in Nat /\ TypeOK
  BY Parts DEF Authentications, TypeOK
<1>2. token \in AccessTokenObjects /\ token # None /\ token.refreshToken = r
  BY <1>1, NewAccessTokenType
<1>3. e \in Expirations /\ e # None
  BY <1>1, ServicesAssumption, NewExpirationType
<1> HIDE DEF token, e
<1>4. accessToken[t] = None /\ accessToken' = [accessToken EXCEPT ![t] = token]
  BY DEF Issued, CreateAccessTokenObject, token
<1>5. \/ UNCHANGED refreshToken /\ BackedBy(a, r)
      \/ r = None /\ UNCHANGED refreshToken
      \/ /\ r \in RefreshTokens /\ refreshToken[r] = None
         /\ refreshToken' = [refreshToken EXCEPT ![r] = e]
  BY DEF Issued, CreateRefreshToken, e
<1>6. granted' = IF r # None /\ refreshToken[r] = None THEN [granted EXCEPT ![r] = a] ELSE granted
  BY DEF Issued, RecordGrant
<1>7. /\ accessToken' \in [AccessTokens -> AccessTokenObjects \cup {None}]
      /\ accessToken'[t] = token
      /\ \A x \in AccessTokens : accessToken[x] # None => accessToken'[x] = accessToken[x]
  BY <1>1, <1>2, <1>4 DEF TypeOK
<1>8. /\ refreshToken' \in [RefreshTokens -> Expirations \cup {None}]
      /\ \A x \in RefreshTokens : refreshToken[x] # None => refreshToken'[x] = refreshToken[x]
  BY <1>1, <1>3, <1>5 DEF TypeOK
<1>9. /\ granted' \in [RefreshTokens -> Authentications \cup {None}]
      /\ \A x \in RefreshTokens : refreshToken[x] # None => granted'[x] = granted[x]
  BY <1>6, Parts
<1>10. Monotone
  BY <1>7, <1>8, <1>9 DEF Monotone
<1>11. TypeOK'
  BY <1>1, <1>7, <1>8 DEF TypeOK, Issued
<1>12. BackedBy(a, r)'
  <2>1. CASE BackedBy(a, r)
    BY <1>10, <2>1, StaysBacked
  <2>2. CASE r = None
    BY <2>2 DEF BackedBy
  <2>3. CASE /\ r \in RefreshTokens /\ refreshToken[r] = None
             /\ refreshToken' = [refreshToken EXCEPT ![r] = e]
    <3>1. refreshToken'[r] = e
      BY <1>1, <2>3 DEF TypeOK
    <3>2. r # None
      BY <2>3, SentinelsAssumption
    <3>3. granted'[r] = a
      BY <1>6, <2>3, <3>2, Parts
    <3> QED BY <1>3, <3>1, <3>3 DEF BackedBy, Within
  <2> QED BY <1>5, <2>1, <2>2, <2>3
<1>13. TokenBacked(t, a)'
  BY <1>2, <1>7, <1>12 DEF TokenBacked, BackedBy
<1> QED BY <1>2, <1>7, <1>9, <1>10, <1>11, <1>12, <1>13 DEF token

\* The operations that follow.
LEMMA IssuedPushable ==
  ASSUME ThreadsInv, NEW t \in AccessTokens, NEW r \in RefreshTokens \cup {None},
         NEW a \in Authentications, Issued(t, r, a)
  PROVE  /\ Pushable(StoreAccessOps(t, NewAccessToken(a.client, r), a),
                     JustifiedOperations', accessToken')
         /\ r # None => Pushable(StoreRefreshOps(r, a), JustifiedOperations', accessToken')
         /\ Pushable(<<OnGrant("answer", t, a)>>, JustifiedOperations', accessToken')
<1>1. /\ Monotone /\ TypeOK
      /\ NewAccessToken(a.client, r) \in AccessTokenObjects
      /\ accessToken'[t] = NewAccessToken(a.client, r)
      /\ TokenBacked(t, a)' /\ BackedBy(a, r)'
  BY IssuedTokens, Parts
<1>2. {o \in Operations : o.op \notin Relying} \subseteq JustifiedOperations'
  BY <1>1, OthersJustified, StaysJustified
<1>3. Pushable(StoreAccessOps(t, NewAccessToken(a.client, r), a),
               JustifiedOperations', accessToken')
  <2>1. accessToken'[t] # None
    BY <1>1 DEF TokenBacked
  <2>2. OnToken("putToken", t) \in JustifiedOperations'
    <3>1. OnToken("putToken", t) \in Operations
      BY OperationsBuilt
    <3> QED BY <2>1, <3>1 DEF JustifiedOperations, Justified, OnToken
  <2>3. \A op \in {"putAuthentication", "putKey"} : OnGrant(op, t, a) \in JustifiedOperations'
    <3>1. \A op \in {"putAuthentication", "putKey"} : OnGrant(op, t, a) \in Operations
      BY OperationsBuilt
    <3> QED BY <1>1, <3>1 DEF JustifiedOperations, Justified, OnGrant
  <2>4. OnGrant("putAuthentication", t, a) \in JustifiedOperations'
        /\ OnGrant("putKey", t, a) \in JustifiedOperations'
    BY <2>3
  <2> QED BY <1>1, <1>2, <2>2, <2>4, PushStore
<1>4. ASSUME r # None
      PROVE  Pushable(StoreRefreshOps(r, a), JustifiedOperations', accessToken')
  <2> DEFINE x == OnRefresh("putRefresh", r)
             y == OnRefreshGrant("putRefreshAuthentication", r, a)
  <2>1. /\ x \in Operations /\ x.op = "putRefresh"
        /\ y \in Operations /\ y.op = "putRefreshAuthentication" /\ y.r = r /\ y.a = a
    BY <1>4, OperationsBuilt DEF OnRefresh, OnRefreshGrant
  <2>2. StoreRefreshOps(r, a) = <<x, y>>
    BY DEF StoreRefreshOps
  <2>3. y \in JustifiedOperations'
    BY <1>1, <2>1 DEF JustifiedOperations, Justified
  <2> HIDE DEF x, y
  <2>4. x \in JustifiedOperations' /\ Harmless(x) /\ Harmless(y)
    BY <1>2, <2>1 DEF Relying, Harmless, Lone
  <2> QED BY <2>2, <2>3, <2>4, PushTwo
<1>5. Pushable(<<OnGrant("answer", t, a)>>, JustifiedOperations', accessToken')
  <2>1. OnGrant("answer", t, a) \in Operations
    BY OperationsBuilt
  <2>2. OnGrant("answer", t, a) \in JustifiedOperations'
    BY <1>1, <2>1 DEF JustifiedOperations, Justified, OnGrant
  <2>3. Harmless(OnGrant("answer", t, a))
    BY DEF OnGrant, Harmless, Lone
  <2> QED BY <2>2, <2>3, PushOne
<1> QED BY <1>3, <1>4, <1>5

\* A step that makes tokens and goes on with ops.
LEMMA IssuedStays ==
  ASSUME ThreadsInv, NEW p \in Threads, Busy(p), Head(stack[p]).op \notin CoverAuthentication,
         NEW t \in AccessTokens, NEW r \in RefreshTokens \cup {None}, NEW a \in Authentications,
         Issued(t, r, a), NEW ops, Do(p, ops), Pushable(ops, JustifiedOperations', accessToken')
  PROVE  ThreadsInv'
<1>1. Monotone /\ TypeOK' /\ granted' \in [RefreshTokens -> Authentications \cup {None}]
  BY IssuedTokens
<1>2. StoreHoldsNoMore /\ QueueKept
  BY Parts, SameStore, OtherMapsHoldNoMore DEF Issued
<1>3. stack' \in [Threads -> Seq(JustifiedOperations')] /\ StacksOK'
  BY <1>1, Done, StacksStayOK
<1>4. \A x \in AccessTokens :
        /\ Pending(CoverToken, x) => Pending(CoverToken, x)'
        /\ Pending(CoverAuthentication, x) => Pending(CoverAuthentication, x)'
  <2>1. stack \in [Threads -> Seq(JustifiedOperations')]
    <3>1. JustifiedOperations \subseteq JustifiedOperations'
      BY <1>1, Parts, StaysJustified
    <3>2. \A q \in Threads : stack[q] \in Seq(JustifiedOperations')
      BY <3>1, Parts, SeqMonotonic
    <3> QED BY <3>2, Parts
  <2> QED BY <2>1, StillPending DEF Pushable, CoverToken, CoverAuthentication
<1>5. HeldTokensCovered'
  BY <1>1, <1>2, <1>4, SameCovered
<1>6. StoreJustified'
  BY <1>1, <1>2, StoreStaysJustified
<1>7. answered' \subseteq {x \in AccessTokens : accessToken'[x] # None}
  BY <1>1, Parts DEF Issued, Monotone
<1> QED BY <1>1, <1>3, <1>5, <1>6, <1>7, Together

LEMMA IssueOK ==
  ASSUME ThreadsInv, NEW p \in Threads, Issue(p)
  PROVE  ThreadsInv'
<1>1. PICK o \in Operations : o = Head(stack[p])
  BY HeadJustified DEF Issue, At, ThreadsInv
<1>2. /\ o.op = "issue" /\ Busy(p) /\ o.r \in RefreshTokens \cup {None}
      /\ o.a \in Authentications /\ BackedBy(o.a, o.r)
  BY <1>1, HeadJustified, OperationFields DEF Issue, At, Justified, ThreadsInv
<1>3. PICK a \in Authentications : a = o.a
  BY <1>2
<1>4. PICK t \in AccessTokens, r \in RefreshTokens \cup {None} :
        /\ IF o.r # None /\ ~IsRefreshExpired(o.r)
           THEN KeepRefreshToken(o.r, r)
           ELSE CreateRefreshToken(a.client, r)
        /\ CreateAccessTokenObject(t, a.client, r)
        /\ RecordGrant(r, a)
        /\ Do(p, StoreAccessOps(t, NewAccessToken(a.client, r), a)
                 \o When(r # None, StoreRefreshOps(r, a))
                 \o <<OnGrant("answer", t, a)>>)
  BY <1>1, <1>3 DEF Issue
<1>5. Issued(t, r, a)
  BY <1>2, <1>3, <1>4 DEF Issue, Issued, KeepRefreshToken
<1> DEFINE
      first == StoreAccessOps(t, NewAccessToken(a.client, r), a)
      second == When(r # None, StoreRefreshOps(r, a))
      both == first \o second
      ops == both \o <<OnGrant("answer", t, a)>>
<1>6. Do(p, ops)
  BY <1>4
<1>7. Pushable(first, JustifiedOperations', accessToken')
  BY <1>5, IssuedPushable
<1>8. Pushable(second, JustifiedOperations', accessToken')
  BY <1>5, IssuedPushable, PushNone DEF When
<1> HIDE DEF first, second
<1>9. Pushable(both, JustifiedOperations', accessToken')
  BY <1>7, <1>8, PushConcat
<1> HIDE DEF both
<1>10. Pushable(ops, JustifiedOperations', accessToken')
  BY <1>5, <1>9, IssuedPushable, PushConcat
<1> HIDE DEF ops
<1>11. Head(stack[p]).op \notin CoverAuthentication
  BY <1>1, <1>2 DEF CoverAuthentication
<1> QED BY <1>2, <1>5, <1>6, <1>10, <1>11, IssuedStays

LEMMA RefreshIssueOK ==
  ASSUME ThreadsInv, NEW p \in Threads, RefreshIssue(p)
  PROVE  ThreadsInv'
<1>1. PICK o \in Operations : o = Head(stack[p])
  BY HeadJustified DEF RefreshIssue, At, ThreadsInv
<1>2. /\ o.op = "refreshed" /\ Busy(p) /\ o.r \in RefreshTokens /\ o.scope \in SUBSET Scopes
      /\ o.a \in Authentications /\ BackedBy(o.a, o.r) /\ o.scope \subseteq o.a.scope
  BY <1>1, HeadJustified, OperationFields DEF RefreshIssue, At, Justified, ThreadsInv
<1>3. Refreshed(o.a, o.scope) \in Authentications /\ BackedBy(Refreshed(o.a, o.scope), o.r)
  BY <1>2, RefreshedWithin DEF BackedBy
<1>4. PICK a \in Authentications : a = Refreshed(o.a, o.scope)
  BY <1>3
<1>5. PICK old \in RefreshTokens : old = o.r
  BY <1>2
<1>6. PICK t \in AccessTokens, r \in RefreshTokens :
        /\ IF ReuseRefreshToken THEN KeepRefreshToken(old, r)
                                ELSE CreateRefreshToken(a.client, r)
        /\ CreateAccessTokenObject(t, a.client, r)
        /\ RecordGrant(r, a)
        /\ Do(p, When(~ReuseRefreshToken, RemoveRefreshOps(old))
                 \o StoreAccessOps(t, NewAccessToken(a.client, r), a)
                 \o When(~ReuseRefreshToken, StoreRefreshOps(r, a))
                 \o <<OnGrant("answer", t, a)>>)
  BY <1>1, <1>4, <1>5 DEF RefreshIssue
<1>7. Issued(t, r, a)
  BY <1>3, <1>4, <1>5, <1>6 DEF RefreshIssue, Issued, KeepRefreshToken
<1>8. r # None
  BY SentinelsAssumption
<1> DEFINE
      first == When(~ReuseRefreshToken, RemoveRefreshOps(old))
      second == first \o StoreAccessOps(t, NewAccessToken(a.client, r), a)
      third == second \o When(~ReuseRefreshToken, StoreRefreshOps(r, a))
      ops == third \o <<OnGrant("answer", t, a)>>
<1>9. Do(p, ops)
  BY <1>6
<1>10. Pushable(first, JustifiedOperations', accessToken')
  <2>1. Monotone /\ TypeOK
    BY <1>7, IssuedTokens, Parts
  <2>2. Pushable(RemoveRefreshOps(old), JustifiedOperations', accessToken')
    BY <2>1, RemoveRefreshPushable, StaysPushable
  <2> QED BY <2>2, PushNone DEF When
<1> HIDE DEF first
<1>11. Pushable(second, JustifiedOperations', accessToken')
  BY <1>7, <1>10, IssuedPushable, PushConcat
<1> HIDE DEF second
<1>12. Pushable(third, JustifiedOperations', accessToken')
  <2>1. Pushable(When(~ReuseRefreshToken, StoreRefreshOps(r, a)), JustifiedOperations', accessToken')
    BY <1>7, <1>8, IssuedPushable, PushNone DEF When
  <2> QED BY <1>11, <2>1, PushConcat
<1> HIDE DEF third
<1>13. Pushable(ops, JustifiedOperations', accessToken')
  BY <1>7, <1>12, IssuedPushable, PushConcat
<1> HIDE DEF ops
<1>14. Head(stack[p]).op \notin CoverAuthentication
  BY <1>1, <1>2 DEF CoverAuthentication
<1> QED BY <1>2, <1>7, <1>9, <1>13, <1>14, IssuedStays

-----------------------------------------------------------------------------
(* The invariant holds at first, and every step keeps it.                   *)

LEMMA TickOK ==
  ASSUME ThreadsInv, ThreadsTick
  PROVE  ThreadsInv'
<1>1. Monotone /\ StoreHoldsNoMore /\ QueueKept
  BY UnchangedMonotone, Parts, SameStore, OtherMapsHoldNoMore DEF ThreadsTick, Tick
<1>2. JustifiedOperations' = JustifiedOperations
  BY SameJustified DEF ThreadsTick, Tick
<1>3. TypeOK'
  BY Parts DEF ThreadsTick, Tick, TypeOK
<1>4. StacksOK' /\ stack' \in [Threads -> Seq(JustifiedOperations')]
  BY <1>2, Parts DEF ThreadsTick, Tick, StacksOK, ExpiryComesLater, Expires
<1>5. HeldTokensCovered'
  <2>1. \A t \in AccessTokens :
        /\ Pending(CoverToken, t) => Pending(CoverToken, t)'
        /\ Pending(CoverAuthentication, t) => Pending(CoverAuthentication, t)'
    BY DEF Pending, ThreadsTick
  <2> QED BY <1>1, <2>1, SameCovered
<1>6. StoreJustified'
  BY <1>1, StoreStaysJustified
<1> QED BY <1>3, <1>4, <1>5, <1>6, Parts, Together DEF ThreadsTick, Tick

LEMMA StutterOK ==
  ASSUME ThreadsInv, UNCHANGED threadVars
  PROVE  ThreadsInv'
<1>1. Monotone /\ StoreHoldsNoMore /\ QueueKept
  BY UnchangedMonotone, Parts, SameStore, OtherMapsHoldNoMore DEF threadVars
<1>2. JustifiedOperations' = JustifiedOperations
  BY SameJustified DEF threadVars
<1>3. TypeOK'
  BY Parts DEF threadVars, TypeOK
<1>4. StacksOK' /\ stack' \in [Threads -> Seq(JustifiedOperations')]
  BY <1>2, Parts DEF threadVars, StacksOK, ExpiryComesLater, Expires
<1>5. HeldTokensCovered'
  <2>1. \A t \in AccessTokens :
        /\ Pending(CoverToken, t) => Pending(CoverToken, t)'
        /\ Pending(CoverAuthentication, t) => Pending(CoverAuthentication, t)'
    BY DEF Pending, threadVars
  <2> QED BY <1>1, <2>1, SameCovered
<1>6. StoreJustified'
  BY <1>1, StoreStaysJustified
<1> QED BY <1>3, <1>4, <1>5, <1>6, Parts, Together DEF threadVars

LEMMA InitOK == ThreadsInit => ThreadsInv
<1> SUFFICES ASSUME ThreadsInit PROVE ThreadsInv
  OBVIOUS
<1>1. TypeOK /\ \A p \in Threads : stack[p] = <<>>
  BY DEF ThreadsInit, Init, TypeOK, EmptyStore, Stores
<1>2. ThreadsTypeOK
  BY <1>1, EmptySeq DEF ThreadsInit, ThreadsTypeOK
<1>3. StoreJustified
  BY DEF ThreadsInit, Init, EmptyStore, StoreJustified, Live, AuthenticationOf, RefreshGrant
<1>4. \A p \in Threads : EarlyEndLosesNothing(stack[p]) /\ ExpiryComesLater(stack[p])
  BY <1>1 DEF EarlyEndLosesNothing, ExpiryComesLater
<1>5. HeldTokensCovered
  BY DEF ThreadsInit, Init, EmptyStore, HeldTokensCovered, Live, AuthenticationOf
<1> QED BY <1>2, <1>3, <1>4, <1>5 DEF ThreadsInv, GrantsInv, LeftoversInv

LEMMA NextOK == ThreadsInv /\ [ThreadsNext]_threadVars => ThreadsInv'
<1> SUFFICES ASSUME ThreadsInv, [ThreadsNext]_threadVars PROVE ThreadsInv'
  OBVIOUS
<1>1. ASSUME NEW p \in Threads, Step(p) PROVE ThreadsInv'
  BY <1>1, WriteOK, CollectOK, CountOK, PollOK, TakeTokenOK, TakeAuthenticationOK, GetKeyOK,
     CheckKeyOK, ExistingOK, IssueOK, ReadRefreshOK, ReadRefreshAuthenticationOK,
     TakeToAccessOK, RefreshRefusedOK, RefreshIssueOK, LoadOK, RevokeOK, AnswerOK, FailOK
     DEF Step
<1>2. ASSUME NEW p \in Threads, Begin(p) PROVE ThreadsInv'
  BY <1>2, BeginOK
<1>3. CASE ThreadsTick
  BY <1>3, TickOK
<1>4. CASE UNCHANGED threadVars
  BY <1>4, StutterOK
<1> QED BY <1>1, <1>2, <1>3, <1>4 DEF ThreadsNext

\* However the operations of the calls interleave, every operation that a thread has yet
\* to do is justified, the store holds nothing without a grant, and what the two maps of
\* tokens hold is covered by an expiry or by an operation to come.
THEOREM ThreadsInvariant == ThreadsSpec => []ThreadsInv
  BY InitOK, NextOK, PTL DEF ThreadsSpec

-----------------------------------------------------------------------------
(* What follows from it.                                                    *)

LEMMA InvariantKeepsApart == ThreadsInv => GrantsKeptApart
<1> SUFFICES ASSUME ThreadsInv PROVE GrantsKeptApart
  OBVIOUS
<1>1. ASSUME NEW t \in AccessTokens, AuthenticationOf(t) # None,
             accessToken[t].refreshToken # None
      PROVE  Within(AuthenticationOf(t), granted[accessToken[t].refreshToken])
  BY <1>1, Parts DEF AuthenticationsBacked, TokenBacked, BackedBy
<1>2. ASSUME NEW r \in RefreshTokens, RefreshGrant(r) # None
      PROVE  Within(RefreshGrant(r), granted[r])
  BY <1>2, Parts, SentinelsAssumption DEF RefreshGrantsBacked, BackedBy
<1>3. ASSUME NEW p \in Threads, At(p, "answer"),
             accessToken[Head(stack[p]).t].refreshToken # None
      PROVE  Within(Head(stack[p]).a, granted[accessToken[Head(stack[p]).t].refreshToken])
  BY <1>3, HeadJustified DEF ThreadsInv, At, Justified, TokenBacked, BackedBy
<1> QED BY <1>1, <1>2, <1>3 DEF GrantsKeptApart

\* However createAccessToken, refreshAccessToken and revokeToken interleave, what is stored
\* with a token or returned to a client stays within what its refresh token was created for.
THEOREM GrantsStayApart == ThreadsSpec => []GrantsKeptApart
  BY ThreadsInvariant, InvariantKeepsApart, PTL

LEMMA InvariantFlushes == ThreadsInv => LeftoversWillBeFlushed
<1> SUFFICES ASSUME ThreadsInv, Idle PROVE LeftoversWillBeFlushed
  BY DEF LeftoversWillBeFlushed
<1>1. \A p \in Threads : stack[p] = <<>>
  BY DEF Idle, Busy
<1>2. \A names, t : ~Pending(names, t)
  BY <1>1 DEF Pending, Has
<1>3. HeldTokensCovered
  BY DEF ThreadsInv, LeftoversInv
<1> QED BY <1>2, <1>3 DEF HeldTokensCovered, Covered, Expires, LeftoversWillBeFlushed

\* When all calls are over, every expiring token that accessTokenStore or
\* authenticationStore still holds is in the expiry queue, whatever the calls left behind.
THEOREM LeftoversFlushed == ThreadsSpec => []LeftoversWillBeFlushed
  BY ThreadsInvariant, InvariantFlushes, PTL
=============================================================================
