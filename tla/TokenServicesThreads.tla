------------------------- MODULE TokenServicesThreads -------------------------
(***************************************************************************)
(* The methods of TokenServices run by the threads of the servlet           *)
(* container over one InMemoryTokenStore.  Nothing locks the store: each    *)
(* operation on one of its maps is a step, and the steps of two calls       *)
(* interleave.                                                              *)
(*                                                                          *)
(* stack[p] is what is left of the call that thread p is in, a sequence of  *)
(* operations; the step for the first one may put others in its place, as   *)
(* a method does that calls another one.                                    *)
(***************************************************************************)
EXTENDS TokenServices, Sequences

CONSTANTS
  Threads,     \* request threads
  MaxCalls,    \* bound on the number of calls
  ClockRuns    \* whether time may pass during a call

ASSUME ThreadsAssumption == MaxCalls \in Nat /\ ClockRuns \in BOOLEAN

VARIABLES
  stack,     \* the rest of each thread's call
  calls,     \* the number of calls begun
  answered,  \* the access tokens that calls have returned to clients
  granted    \* the authentication each refresh token was created for

threadVars == <<now, store, accessToken, refreshToken, stack, calls, answered, granted>>

-----------------------------------------------------------------------------
(* The operations, and the sequences of them that the methods of the store  *)
(* run.  An operation is a record: op, and what it works on.                *)

Op(op) == [op |-> op]
OnToken(op, t) == [op |-> op, t |-> t]
OnRefresh(op, r) == [op |-> op, r |-> r]
OnGrant(op, t, a) == [op |-> op, t |-> t, a |-> a]
OnPair(op, t, r) == [op |-> op, t |-> t, r |-> r]
OnRefreshGrant(op, r, a) == [op |-> op, r |-> r, a |-> a]

When(condition, ops) == IF condition THEN ops ELSE <<>>

\* MUTANT: the expiry is queued before the token is stored.
StoreAccessOps_ExpiryFirst(t, token, a) ==
  <<Op("count")>>
  \o When(token.expiration # Never,
          <<[op |-> "putExpiry", t |-> t, expiration |-> token.expiration]>>)
  \o <<OnToken("putToken", t), OnGrant("putAuthentication", t, a), OnGrant("putKey", t, a)>>
  \o When(~IsClientOnly(a), <<OnGrant("putUser", t, a)>>)
  \o <<OnGrant("putClient", t, a)>>
  \o When(token.refreshToken # None,
          <<OnPair("putToAccess", t, token.refreshToken),
            OnPair("putToRefresh", t, token.refreshToken)>>)

\* storeAccessToken.
StoreAccessOps(t, token, a) ==
  <<Op("count"), OnToken("putToken", t), OnGrant("putAuthentication", t, a),
    OnGrant("putKey", t, a)>>
  \o When(~IsClientOnly(a), <<OnGrant("putUser", t, a)>>)
  \o <<OnGrant("putClient", t, a)>>
  \o When(token.expiration # Never,
          <<[op |-> "putExpiry", t |-> t, expiration |-> token.expiration]>>)
  \o When(token.refreshToken # None,
          <<OnPair("putToAccess", t, token.refreshToken),
            OnPair("putToRefresh", t, token.refreshToken)>>)

\* removeAccessToken; takeAuthentication goes on with the indexes.
RemoveAccessOps(t) == <<OnToken("takeToken", t)>>

\* MUTANT: the entry of the key index is never deleted.
IndexOps_KeepsKey(t, a, found) ==
  When(found, <<OnGrant("delUser", t, a), OnGrant("delClient", t, a)>>)

IndexOps(t, a, found) ==
  <<OnGrant("delKey", t, a)>>
  \o When(found, <<OnGrant("delUser", t, a), OnGrant("delClient", t, a)>>)
  \o <<OnGrant("delKey", t, a)>>

RemoveRefreshOps(r) ==
  <<OnRefresh("delRefresh", r), OnRefresh("delRefreshAuthentication", r),
    OnRefresh("delToAccess", r)>>

StoreRefreshOps(r, a) ==
  <<OnRefresh("putRefresh", r), OnRefreshGrant("putRefreshAuthentication", r, a)>>

\* An exception that no method catches: the call ends there.
NullPointerException(method) == <<[op |-> "exception", method |-> method]>>

-----------------------------------------------------------------------------
(* Steps of a call.                                                         *)

Busy(p) == stack[p] # <<>>
Idle == \A p \in Threads : ~Busy(p)
At(p, op) == Busy(p) /\ Head(stack[p]).op = op

\* The first operation is done, and ops are to be done before the others.
Do(p, ops) == stack' = [stack EXCEPT ![p] = ops \o Tail(@)]
End(p, ops) == stack' = [stack EXCEPT ![p] = ops]

\* One put or remove on one map.
Written(s, o) ==
  CASE o.op = "putToken" -> [s EXCEPT !.accessTokenStore = @ \cup {o.t}]
    [] o.op = "putAuthentication" -> [s EXCEPT !.authenticationStore[o.t] = o.a]
    [] o.op = "putKey" -> [s EXCEPT !.authenticationToAccessTokenStore[ExtractKey(o.a)] = o.t]
    [] o.op = "delKey" -> [s EXCEPT !.authenticationToAccessTokenStore[ExtractKey(o.a)] = None]
    [] o.op = "putExpiry" -> [s EXCEPT !.expiryQueue[o.t] = o.expiration]
    [] o.op = "putToAccess" -> [s EXCEPT !.refreshTokenToAccessTokenStore[o.r] = o.t]
    [] o.op = "putToRefresh" -> [s EXCEPT !.accessTokenToRefreshTokenStore[o.t] = o.r]
    [] o.op = "delToRefresh" -> [s EXCEPT !.accessTokenToRefreshTokenStore[o.t] = None]
    [] o.op = "delToAccess" -> [s EXCEPT !.refreshTokenToAccessTokenStore[o.r] = None]
    [] o.op = "putRefresh" -> [s EXCEPT !.refreshTokenStore = @ \cup {o.r}]
    [] o.op = "delRefresh" -> [s EXCEPT !.refreshTokenStore = @ \ {o.r}]
    [] o.op = "putRefreshAuthentication" ->
         [s EXCEPT !.refreshTokenAuthenticationStore[o.r] = o.a]
    [] o.op = "delRefreshAuthentication" ->
         [s EXCEPT !.refreshTokenAuthenticationStore[o.r] = None]
    [] o.op = "resetCount" -> [s EXCEPT !.flushCounter = 0]

Writes ==
  {"putToken", "putAuthentication", "putKey", "delKey", "putExpiry", "putToAccess",
   "putToRefresh", "delToRefresh", "delToAccess", "putRefresh", "delRefresh",
   "putRefreshAuthentication", "delRefreshAuthentication", "resetCount"}

Write(p) ==
  /\ Busy(p) /\ Head(stack[p]).op \in Writes
  /\ store' = Written(store, Head(stack[p]))
  /\ Do(p, <<>>)
  /\ UNCHANGED <<now, accessToken, refreshToken, calls, answered, granted>>

\* The collections of the user and client indexes are plain HashSets: an add or
\* a remove while another thread is in the same collection may be lost.
Collected(s, o) ==
  CASE o.op = "putUser" -> [s EXCEPT !.userNameToAccessTokenStore[ApprovalKey(o.a)] = @ \cup {o.t}]
    [] o.op = "delUser" -> [s EXCEPT !.userNameToAccessTokenStore[Name(o.a)] = @ \ {o.t}]
    [] o.op = "putClient" -> [s EXCEPT !.clientIdToAccessTokenStore[o.a.client] = @ \cup {o.t}]
    [] o.op = "delClient" -> [s EXCEPT !.clientIdToAccessTokenStore[o.a.client] = @ \ {o.t}]

Collections == {"putUser", "delUser", "putClient", "delClient"}

Racing(p) ==
  \E q \in Threads \ {p} :
    /\ Busy(q) /\ Head(stack[q]).op \in Collections
    /\ Head(stack[q]).a.client = Head(stack[p]).a.client

Collect(p) ==
  /\ Busy(p) /\ Head(stack[p]).op \in Collections
  /\ \/ store' = Collected(store, Head(stack[p]))
     \/ Racing(p) /\ store' = store
  /\ Do(p, <<>>)
  /\ UNCHANGED <<now, accessToken, refreshToken, calls, answered, granted>>

\* flushCounter.incrementAndGet, with the flush it may lead to.
Count(p) ==
  /\ At(p, "count")
  /\ store' = [store EXCEPT !.flushCounter = @ + 1]
  /\ Do(p, When(store'.flushCounter >= FlushInterval, <<Op("poll"), Op("resetCount")>>))
  /\ UNCHANGED <<now, accessToken, refreshToken, calls, answered, granted>>

\* MUTANT: the queue is read with peek.
Poll_Peeks(p) ==
  /\ At(p, "poll")
  /\ \/ /\ Due(store, now) = {}
        /\ Do(p, <<>>)
     \/ \E t \in Due(store, now) :
          /\ \A x \in Due(store, now) : store.expiryQueue[t] <= store.expiryQueue[x]
          /\ Do(p, RemoveAccessOps(t) \o <<Op("poll")>>)
  /\ UNCHANGED <<now, store, accessToken, refreshToken, calls, answered, granted>>

\* expiryQueue.poll: the entry that is due first, until there is none.
Poll(p) ==
  /\ At(p, "poll")
  /\ \/ /\ Due(store, now) = {}
        /\ Do(p, <<>>) /\ UNCHANGED store
     \/ \E t \in Due(store, now) :
          /\ \A x \in Due(store, now) : store.expiryQueue[t] <= store.expiryQueue[x]
          /\ store' = [store EXCEPT !.expiryQueue[t] = None]
          /\ Do(p, RemoveAccessOps(t) \o <<Op("poll")>>)
  /\ UNCHANGED <<now, accessToken, refreshToken, calls, answered, granted>>

\* removeAccessToken: accessTokenStore.remove, which returns null when the token
\* is not there.
TakeToken(p) ==
  /\ At(p, "takeToken")
  /\ LET t == Head(stack[p]).t
     IN /\ store' = [store EXCEPT !.accessTokenStore = @ \ {t}]
        /\ Do(p, <<OnToken("delToRefresh", t),
                   [op |-> "takeAuthentication", t |-> t, found |-> t \in Live]>>)
  /\ UNCHANGED <<now, accessToken, refreshToken, calls, answered, granted>>

TakeAuthentication(p) ==
  /\ At(p, "takeAuthentication")
  /\ LET o == Head(stack[p])
         a == store.authenticationStore[o.t]
     IN /\ store' = [store EXCEPT !.authenticationStore[o.t] = None]
        /\ Do(p, When(a # None, IndexOps(o.t, a, o.found)))
  /\ UNCHANGED <<now, accessToken, refreshToken, calls, answered, granted>>

-----------------------------------------------------------------------------
(* createAccessToken.                                                       *)

GetKey(p) ==
  /\ At(p, "getKey")
  /\ LET a == Head(stack[p]).a
         t == LookupAccessToken(store, a)
     IN Do(p, IF t = None THEN <<OnRefreshGrant("issue", None, a)>>
              ELSE <<OnGrant("checkKey", t, a), OnGrant("existing", t, a)>>)
  /\ UNCHANGED <<now, store, accessToken, refreshToken, calls, answered, granted>>

\* getAccessToken compares the key with that of the authentication the token is
\* stored with, which it takes for granted.
CheckKey(p) ==
  /\ At(p, "checkKey")
  /\ LET o == Head(stack[p])
         a == store.authenticationStore[o.t]
     IN IF a = None THEN End(p, NullPointerException("getAccessToken"))
        ELSE Do(p, When(ExtractKey(a) # ExtractKey(o.a),
                        StoreAccessOps(o.t, accessToken[o.t], o.a)))
  /\ UNCHANGED <<now, store, accessToken, refreshToken, calls, answered, granted>>

Existing(p) ==
  /\ At(p, "existing")
  /\ LET o == Head(stack[p])
         old == accessToken[o.t].refreshToken
     IN Do(p, IF IsExpired(o.t)
              THEN When(old # None, RemoveRefreshOps(old)) \o RemoveAccessOps(o.t)
                   \o <<OnRefreshGrant("issue", old, o.a)>>
              ELSE StoreAccessOps(o.t, accessToken[o.t], o.a)
                   \o <<OnGrant("answer", o.t, o.a)>>)
  /\ UNCHANGED <<now, store, accessToken, refreshToken, calls, answered, granted>>

\* A history of what createRefreshToken was called for.
RecordGrant(r, a) ==
  granted' = IF r # None /\ refreshToken[r] = None THEN [granted EXCEPT ![r] = a] ELSE granted

Issue(p) ==
  /\ At(p, "issue")
  /\ LET o == Head(stack[p])
     IN \E t \in AccessTokens, r \in RefreshTokens \cup {None} :
          /\ IF o.r # None /\ ~IsRefreshExpired(o.r)
             THEN KeepRefreshToken(o.r, r)
             ELSE CreateRefreshToken(o.a.client, r)
          /\ CreateAccessTokenObject(t, o.a.client, r)
          /\ RecordGrant(r, o.a)
          /\ Do(p, StoreAccessOps(t, NewAccessToken(o.a.client, r), o.a)
                   \o When(r # None, StoreRefreshOps(r, o.a))
                   \o <<OnGrant("answer", t, o.a)>>)
  /\ UNCHANGED <<now, store, calls, answered>>

-----------------------------------------------------------------------------
(* refreshAccessToken.                                                      *)

ReadRefresh(p) ==
  /\ At(p, "readRefresh")
  /\ LET o == Head(stack[p])
     IN Do(p, When(o.r \in store.refreshTokenStore,
                   <<[o EXCEPT !.op = "readRefreshAuthentication"]>>))
  /\ UNCHANGED <<now, store, accessToken, refreshToken, calls, answered, granted>>

ReadRefreshAuthentication(p) ==
  /\ At(p, "readRefreshAuthentication")
  /\ LET o == Head(stack[p])
         a == RefreshGrant(o.r)
     IN IF a = None THEN End(p, NullPointerException("refreshAccessToken"))
        ELSE Do(p, <<OnRefresh("takeToAccess", o.r),
                     [op |-> "refreshed", r |-> o.r, a |-> a, scope |-> o.scope]>>)
  /\ UNCHANGED <<now, store, accessToken, refreshToken, calls, answered, granted>>

\* removeAccessTokenUsingRefreshToken.
TakeToAccess(p) ==
  /\ At(p, "takeToAccess")
  /\ LET r == Head(stack[p]).r
         t == store.refreshTokenToAccessTokenStore[r]
     IN /\ store' = [store EXCEPT !.refreshTokenToAccessTokenStore[r] = None]
        /\ Do(p, When(t # None, RemoveAccessOps(t)))
  /\ UNCHANGED <<now, accessToken, refreshToken, calls, answered, granted>>

RefreshRefused(p) ==
  /\ At(p, "refreshed")
  /\ LET o == Head(stack[p])
     IN \/ IsRefreshExpired(o.r) /\ Do(p, RemoveRefreshOps(o.r))
        \/ /\ ~IsRefreshExpired(o.r) /\ ~(o.scope \subseteq o.a.scope)
           /\ Do(p, <<>>)
  /\ UNCHANGED <<now, store, accessToken, refreshToken, calls, answered, granted>>

RefreshIssue(p) ==
  /\ At(p, "refreshed")
  /\ LET o == Head(stack[p])
         a == Refreshed(o.a, o.scope)
     IN /\ ~IsRefreshExpired(o.r) /\ o.scope \subseteq o.a.scope
        /\ \E t \in AccessTokens, r \in RefreshTokens :
             /\ IF ReuseRefreshToken THEN KeepRefreshToken(o.r, r)
                                     ELSE CreateRefreshToken(a.client, r)
             /\ CreateAccessTokenObject(t, a.client, r)
             /\ RecordGrant(r, a)
             /\ Do(p, When(~ReuseRefreshToken, RemoveRefreshOps(o.r))
                      \o StoreAccessOps(t, NewAccessToken(a.client, r), a)
                      \o When(~ReuseRefreshToken, StoreRefreshOps(r, a))
                      \o <<OnGrant("answer", t, a)>>)
  /\ UNCHANGED <<now, store, calls, answered>>

-----------------------------------------------------------------------------
(* loadAuthentication and revokeToken.                                      *)

Load(p) ==
  /\ At(p, "load")
  /\ LET t == Head(stack[p]).t
     IN Do(p, When(t \in Live /\ IsExpired(t), RemoveAccessOps(t)))
  /\ UNCHANGED <<now, store, accessToken, refreshToken, calls, answered, granted>>

Revoke(p) ==
  /\ At(p, "revoke")
  /\ LET t == Head(stack[p]).t
         r == accessToken[t].refreshToken
     IN Do(p, When(t \in Live, When(r # None, RemoveRefreshOps(r)) \o RemoveAccessOps(t)))
  /\ UNCHANGED <<now, store, accessToken, refreshToken, calls, answered, granted>>

\* The call returns the token to the client.
Answer(p) ==
  /\ At(p, "answer")
  /\ answered' = answered \cup {Head(stack[p]).t}
  /\ Do(p, <<>>)
  /\ UNCHANGED <<now, store, accessToken, refreshToken, calls, granted>>

Fail(p) ==
  /\ At(p, "exception")
  /\ End(p, <<>>)
  /\ UNCHANGED <<now, store, accessToken, refreshToken, calls, answered, granted>>

Step(p) ==
  \/ Write(p) \/ Collect(p) \/ Count(p) \/ Poll(p) \/ TakeToken(p) \/ TakeAuthentication(p)
  \/ GetKey(p) \/ CheckKey(p) \/ Existing(p) \/ Issue(p)
  \/ ReadRefresh(p) \/ ReadRefreshAuthentication(p) \/ TakeToAccess(p)
  \/ RefreshRefused(p) \/ RefreshIssue(p) \/ Load(p) \/ Revoke(p) \/ Answer(p) \/ Fail(p)

-----------------------------------------------------------------------------
(* Calls begin with tokens that a client has been given.                    *)

ClientRefreshTokens == {accessToken[t].refreshToken : t \in answered} \ {None}

Call ==
  {[op |-> "getKey", a |-> a] : a \in Grants}
  \cup (IF SupportRefreshToken
        THEN {[op |-> "readRefresh", r |-> r, scope |-> scope] :
                r \in ClientRefreshTokens, scope \in SUBSET Scopes}
        ELSE {})
  \cup {OnToken(op, t) : op \in {"load", "revoke"}, t \in answered}

Begin(p) ==
  /\ ~Busy(p) /\ calls < MaxCalls
  /\ calls' = calls + 1
  /\ \E o \in Call : stack' = [stack EXCEPT ![p] = <<o>>]
  /\ UNCHANGED <<now, store, accessToken, refreshToken, answered, granted>>

ThreadsTick ==
  /\ ClockRuns \/ Idle
  /\ Tick
  /\ UNCHANGED <<stack, calls, answered, granted>>

ThreadsInit ==
  /\ Init
  /\ stack = [p \in Threads |-> <<>>]
  /\ calls = 0
  /\ answered = {}
  /\ granted = [r \in RefreshTokens |-> None]

ThreadsNext ==
  \/ \E p \in Threads : Step(p) \/ Begin(p)
  \/ ThreadsTick

ThreadsSpec == ThreadsInit /\ [][ThreadsNext]_threadVars

\* The container runs every thread that has a request to serve.
ThreadsFairSpec == ThreadsSpec /\ \A p \in Threads : WF_threadVars(Step(p))

-----------------------------------------------------------------------------
(* What the interleaving of calls does not break.                           *)

Within(a, b) == a.client = b.client /\ a.user = b.user /\ a.scope \subseteq b.scope

\* However the calls interleave, what is stored with an access token, stored with
\* a refresh token or handed out to a caller stays within the authentication
\* that the refresh token was created for: a call that works on a token which
\* another call replaces meanwhile never ends up with somebody else's grant.
GrantsKeptApart ==
  /\ \A t \in AccessTokens :
       AuthenticationOf(t) # None /\ accessToken[t].refreshToken # None
         => Within(AuthenticationOf(t), granted[accessToken[t].refreshToken])
  /\ \A r \in RefreshTokens :
       RefreshGrant(r) # None => Within(RefreshGrant(r), granted[r])
  /\ \A p \in Threads :
       At(p, "answer") =>
         LET o == Head(stack[p])
             r == accessToken[o.t].refreshToken
         IN r # None => Within(o.a, granted[r])

\* What calls that raced left behind in accessTokenStore or authenticationStore
\* does not stay for ever: when all calls are over, every expiring token that one
\* of the two still holds is in the expiry queue, so that a flush takes it out.
LeftoversWillBeFlushed ==
  Idle => \A t \in AccessTokens :
    /\ t \in Live \/ AuthenticationOf(t) # None
    /\ accessToken[t].expiration # Never
    => store.expiryQueue[t] # None

\* The flush in the middle of storeAccessToken, which polls until nothing is due,
\* comes to an end, and so does every call.
EveryCallEnds == \A p \in Threads : Busy(p) ~> ~Busy(p)

-----------------------------------------------------------------------------
(* The inductive invariant: what an operation that is still to be done may  *)
(* rely on, wherever in its thread's call it stands.                        *)

Operations ==
  [op : {"count", "poll", "resetCount"}]
  \cup [op : {"putToken", "takeToken", "delToRefresh", "load", "revoke"}, t : AccessTokens]
  \cup [op : {"takeAuthentication"}, t : AccessTokens, found : BOOLEAN]
  \cup [op : {"putAuthentication", "putKey", "delKey", "checkKey", "existing", "answer",
              "putUser", "delUser", "putClient", "delClient"},
        t : AccessTokens, a : Authentications]
  \cup [op : {"putExpiry"}, t : AccessTokens, expiration : Int]
  \cup [op : {"putToAccess", "putToRefresh"}, t : AccessTokens, r : RefreshTokens]
  \cup [op : {"putRefresh", "delRefresh", "delRefreshAuthentication", "delToAccess",
              "takeToAccess"},
        r : RefreshTokens]
  \cup [op : {"putRefreshAuthentication"}, r : RefreshTokens, a : Authentications]
  \cup [op : {"getKey"}, a : Authentications]
  \cup [op : {"issue"}, r : RefreshTokens \cup {None}, a : Authentications]
  \cup [op : {"readRefresh", "readRefreshAuthentication"}, r : RefreshTokens,
        scope : SUBSET Scopes]
  \cup [op : {"refreshed"}, r : RefreshTokens, a : Authentications, scope : SUBSET Scopes]
  \cup [op : {"exception"}, method : {"getAccessToken", "refreshAccessToken"}]

\* If there is a refresh token r, it was created for an authentication that a is within.
BackedBy(a, r) == r # None => refreshToken[r] # None /\ Within(a, granted[r])

\* Token t was created, and with a refresh token that backs a.
TokenBacked(t, a) == accessToken[t] # None /\ BackedBy(a, accessToken[t].refreshToken)

Justified(o) ==
  /\ o.op \in {"putToken", "revoke"} => accessToken[o.t] # None
  /\ o.op \in {"putAuthentication", "putKey", "checkKey", "existing", "answer"}
       => TokenBacked(o.t, o.a)
  /\ o.op \in {"issue", "refreshed", "putRefreshAuthentication"} => BackedBy(o.a, o.r)

JustifiedOperations == {o \in Operations : Justified(o)}

\* A key of the index stands for the authentications that were filed under it.
StoreJustified ==
  /\ \A t \in Live : accessToken[t] # None
  /\ \A t \in AccessTokens : AuthenticationOf(t) # None => TokenBacked(t, AuthenticationOf(t))
  /\ \A r \in RefreshTokens : RefreshGrant(r) # None => BackedBy(RefreshGrant(r), r)
  /\ \A k \in Authentications :
       LET t == store.authenticationToAccessTokenStore[k] IN t # None => TokenBacked(t, k)

ThreadsTypeOK ==
  /\ TypeOK
  /\ stack \in [Threads -> Seq(JustifiedOperations)]
  /\ answered \subseteq {t \in AccessTokens : accessToken[t] # None}
  /\ granted \in [RefreshTokens -> Authentications \cup {None}]

GrantsInv == ThreadsTypeOK /\ StoreJustified

\* The operations of a call that may end early have no others of the call after them
\* but "existing".
Lone == {"getKey", "readRefresh", "readRefreshAuthentication", "exception"}

EarlyEndLosesNothing(ops) ==
  \A i \in 1..Len(ops) :
    /\ ops[i].op \in Lone => Len(ops) = 1
    /\ ops[i].op = "checkKey" => i = 1 /\ Len(ops) = 2 /\ ops[2].op = "existing"

Has(ops, names, t) == \E j \in 1..Len(ops) : ops[j].op \in names /\ ops[j].t = t

Expires(t) == accessToken[t].expiration # Never

\* In a call, whoever puts an expiring token into one of the two maps queues its
\* expiry afterwards.
ExpiryComesLater(ops) ==
  \A i \in 1..Len(ops) : ops[i].op \in {"putToken", "putAuthentication"} /\ Expires(ops[i].t)
    => \E j \in i+1..Len(ops) : ops[j].op = "putExpiry" /\ ops[j].t = ops[i].t

Pending(names, t) == \E p \in Threads : Has(stack[p], names, t)

Covered(t, names) == store.expiryQueue[t] # None \/ Pending(names, t)

\* An expiring token that one of the two maps holds is in the queue, unless a thread is
\* about to put it there or to take it out of that map.
HeldTokensCovered ==
  \A t \in AccessTokens :
    /\ t \in Live /\ Expires(t) => Covered(t, {"putExpiry", "takeToken"})
    /\ AuthenticationOf(t) # None /\ Expires(t)
         => Covered(t, {"putExpiry", "takeToken", "takeAuthentication"})

LeftoversInv ==
  /\ \A p \in Threads : EarlyEndLosesNothing(stack[p]) /\ ExpiryComesLater(stack[p])
  /\ HeldTokensCovered

ThreadsInv == GrantsInv /\ LeftoversInv

-----------------------------------------------------------------------------
(* What it does break.                                                      *)

\* TokenStore.removeAccessTokenUsingRefreshToken: "so refresh tokens can't be
\* used to create an unlimited number of access tokens".  Each of two refreshes
\* at the same time may remove before the other one stores.
OneAccessTokenWhenIdle == Idle => OneAccessTokenPerRefreshToken
=============================================================================
