----------------------------- MODULE RedisGrants -----------------------------
(***************************************************************************)
(* Tokens kept in Redis: each operation of RedisAuthorizationCodeServices   *)
(* and RedisTokenStore gets a connection from the pool, under the monitor   *)
(* of RedisConnectionFactory, and some of them never give it back.  Threads *)
(* redeem codes and load authentications of one client and user; the server *)
(* may be restarted at any moment, and what is in Redis stays.              *)
(***************************************************************************)
EXTENDS Integers, FiniteSets

CONSTANTS
  Threads,      \* request threads
  Codes,        \* authorization codes, all issued for the same authentication
  PoolSize,     \* maxTotal of the JedisPool
  MaxCalls,     \* bound on the calls
  MaxRestarts,  \* bound on the restarts
  None

ASSUME RedisGrantsAssumption ==
  /\ IsFiniteSet(Threads)
  /\ PoolSize \in Nat \ {0}
  /\ MaxCalls \in Nat /\ MaxRestarts \in Nat

VARIABLES
  codeStore,    \* the codes under their keys
  accessToken,  \* whether the authentication's access token is stored
  refreshToken, \* whether the refresh token of that token is stored
  inUse,        \* the connections the pool has lent
  monitor,      \* the thread in RedisConnectionFactory.getConnection, or None
  thread,       \* what each thread is doing, None when it is idle
  calls,        \* history: how many calls have begun
  restarts,     \* history: how many restarts there were
  served,       \* history: the calls answered since the last restart
  tokens,       \* history: whether some call was answered with the access token
  redeemed,     \* history: the codes that were answered with a token
  stopped       \* history: the codes that were lost, and "storeRefreshToken", when a
                \* call had deleted the one, or had come to the other, and was stopped

vars == <<codeStore, accessToken, refreshToken, inUse, monitor, thread, calls,
          restarts, served, tokens, redeemed, stopped>>
redis == <<codeStore, accessToken, refreshToken>>
history == <<served, tokens, redeemed, stopped>>

Operations == {"remove", "getAccessToken", "readAuthentication", "storeAccessToken",
               "storeRefreshToken", "readAccessToken"}

\* An operation enters the monitor, waits for a connection, and uses it; code is None
\* for loadAuthentication, got and existing are what remove and getAccessToken returned.
CallRecords ==
  [operation : Operations, at : {"enter", "wait", "get", "use"},
   code : Codes \cup {None}, got : BOOLEAN, existing : BOOLEAN]

ASSUME SentinelAssumption == None \notin Threads \cup Codes \cup CallRecords

Holding == {p \in Threads : thread[p] # None /\ thread[p].at \in {"get", "use"}}

TypeOK ==
  /\ codeStore \subseteq Codes
  /\ accessToken \in BOOLEAN /\ refreshToken \in BOOLEAN
  /\ inUse \in 0..PoolSize
  /\ Cardinality(Holding) <= inUse
  /\ monitor \in Threads \cup {None}
  /\ monitor # None => thread[monitor] # None /\ thread[monitor].at = "wait"
  /\ thread \in [Threads -> CallRecords \cup {None}]
  /\ calls \in 0..MaxCalls /\ restarts \in 0..MaxRestarts
  /\ served \in 0..MaxCalls
  /\ tokens \in BOOLEAN
  /\ redeemed \subseteq Codes
  /\ stopped \subseteq Codes \cup {"storeRefreshToken"}

\* The codes have been stored, which returns its connection, before the calls begin.
Init ==
  /\ codeStore = Codes
  /\ accessToken = FALSE /\ refreshToken = FALSE
  /\ inUse = 0 /\ monitor = None
  /\ thread = [p \in Threads |-> None]
  /\ calls = 0 /\ restarts = 0
  /\ served = 0 /\ tokens = FALSE /\ redeemed = {} /\ stopped = {}

-----------------------------------------------------------------------------
(* Calls: a token request with a code, and loadAuthentication of the token. *)

Start(p, operation, code) ==
  /\ thread[p] = None /\ calls < MaxCalls
  /\ calls' = calls + 1
  /\ thread' = [thread EXCEPT ![p] =
       [operation |-> operation, at |-> "enter", code |-> code,
        got |-> FALSE, existing |-> FALSE]]
  /\ UNCHANGED <<redis, inUse, monitor, restarts, history>>

Exchange(p, code) == Start(p, "remove", code)
LoadAuthentication(p) == tokens /\ Start(p, "readAccessToken", None)

\* getConnection is synchronized ...
Enter(p) ==
  /\ thread[p] # None /\ thread[p].at = "enter" /\ monitor = None
  /\ monitor' = p
  /\ thread' = [thread EXCEPT ![p].at = "wait"]
  /\ UNCHANGED <<redis, inUse, calls, restarts, history>>

\* MUTANT: one more than the pool has.
Lends_OneMore == inUse <= PoolSize

Lends == inUse < PoolSize

\* ... and waits in getResource, at most maxWait, before it leaves the monitor.
GetResource(p) ==
  /\ monitor = p /\ Lends
  /\ inUse' = inUse + 1
  /\ monitor' = None
  /\ LET at == IF thread[p].operation = "remove" THEN "get" ELSE "use"
     IN thread' = [thread EXCEPT ![p].at = at]
  /\ UNCHANGED <<redis, calls, restarts, history>>

\* What a call that does not come to its end leaves behind.
StoppedAt(p) ==
  ({thread[p].operation} \cap {"storeRefreshToken"})
  \cup (IF thread[p].got /\ thread[p].operation # "remove" THEN {thread[p].code} ELSE {})

\* MUTANT: getResource waits for ever.
Timeout_Never(p) == FALSE /\ UNCHANGED vars

Timeout(p) ==
  /\ monitor = p /\ inUse >= PoolSize
  /\ monitor' = None
  /\ stopped' = stopped \cup StoppedAt(p)
  /\ thread' = [thread EXCEPT ![p] = None]
  /\ UNCHANGED <<redis, inUse, calls, restarts, served, tokens, redeemed>>

-----------------------------------------------------------------------------
(* The operations, each with its connection.                                *)

\* MUTANT: remove gives its connection back.
Returned_ByRemove(operation) ==
  IF operation \in {"remove", "storeAccessToken", "storeRefreshToken"} THEN 1 ELSE 0

\* Only the operations that write close their connections; remove, getAccessToken,
\* readAccessToken and readAuthentication do not.
Returned(operation) == IF operation \in {"storeAccessToken", "storeRefreshToken"} THEN 1 ELSE 0

Use(p, operation) ==
  thread[p] # None /\ thread[p].at = "use" /\ thread[p].operation = operation

Continue(p, operation) ==
  /\ inUse' = inUse - Returned(thread[p].operation)
  /\ thread' = [thread EXCEPT ![p] = [@ EXCEPT !.operation = operation, !.at = "enter"]]
  /\ UNCHANGED <<monitor, calls, restarts, history>>

Finish(p) ==
  /\ inUse' = inUse - Returned(thread[p].operation)
  /\ thread' = [thread EXCEPT ![p] = None]
  /\ UNCHANGED <<monitor, calls, restarts, stopped>>

Refuse(p) == Finish(p) /\ UNCHANGED <<served, tokens, redeemed>>

Answer(p) ==
  /\ Finish(p)
  /\ served' = served + 1
  /\ tokens' = TRUE
  /\ redeemed' = redeemed \cup ({thread[p].code} \cap Codes)

\* MUTANT: the code is deleted before it is read.
GetCode_AfterDelete(p) ==
  /\ thread[p] # None /\ thread[p].at = "get"
  /\ codeStore' = codeStore \ {thread[p].code}
  /\ thread' = [thread EXCEPT ![p].at = "use", ![p].got = thread[p].code \in codeStore']
  /\ UNCHANGED <<accessToken, refreshToken, inUse, monitor, calls, restarts, history>>

GetCode(p) ==
  /\ thread[p] # None /\ thread[p].at = "get"
  /\ thread' = [thread EXCEPT ![p] = [@ EXCEPT !.at = "use", !.got = thread[p].code \in codeStore]]
  /\ UNCHANGED <<redis, inUse, monitor, calls, restarts, history>>

\* Without the code the request is refused.
DeleteCode(p) ==
  /\ Use(p, "remove")
  /\ codeStore' = codeStore \ {thread[p].code}
  /\ IF thread[p].got THEN Continue(p, "getAccessToken")
     ELSE Refuse(p)
  /\ UNCHANGED <<accessToken, refreshToken>>

\* The key of a token that is found is compared with that of its authentication, read
\* with a second connection while the first is still held.
GetAccessToken(p) ==
  /\ Use(p, "getAccessToken")
  /\ inUse' = inUse - Returned("getAccessToken")
  /\ LET next == IF accessToken THEN "readAuthentication" ELSE "storeAccessToken"
     IN thread' = [thread EXCEPT ![p] =
          [@ EXCEPT !.operation = next, !.at = "enter", !.existing = accessToken]]
  /\ UNCHANGED <<redis, monitor, calls, restarts, history>>

ReadAuthentication(p) ==
  /\ Use(p, "readAuthentication")
  /\ IF thread[p].code # None THEN Continue(p, "storeAccessToken")
     ELSE Answer(p)
  /\ UNCHANGED redis

\* MUTANT: the refresh token is not stored.
StoreAccessToken_Only(p) ==
  /\ Use(p, "storeAccessToken")
  /\ accessToken' = TRUE
  /\ Answer(p)
  /\ UNCHANGED <<codeStore, refreshToken>>

\* createAccessToken stores an existing token again, and a new one with its refresh
\* token.
StoreAccessToken(p) ==
  /\ Use(p, "storeAccessToken")
  /\ accessToken' = TRUE
  /\ IF thread[p].existing THEN Answer(p) ELSE Continue(p, "storeRefreshToken")
  /\ UNCHANGED <<codeStore, refreshToken>>

StoreRefreshToken(p) ==
  /\ Use(p, "storeRefreshToken")
  /\ refreshToken' = TRUE
  /\ Answer(p)
  /\ UNCHANGED <<codeStore, accessToken>>

ReadAccessToken(p) ==
  /\ Use(p, "readAccessToken")
  /\ Continue(p, "readAuthentication")
  /\ UNCHANGED redis

-----------------------------------------------------------------------------
(* A restart makes a new pool, and forgets the calls.                       *)

Restart ==
  /\ restarts < MaxRestarts
  /\ restarts' = restarts + 1
  /\ stopped' = stopped \cup UNION {StoppedAt(p) : p \in {x \in Threads : thread[x] # None}}
  /\ thread' = [p \in Threads |-> None]
  /\ inUse' = 0 /\ monitor' = None /\ served' = 0
  /\ UNCHANGED <<redis, calls, tokens, redeemed>>

Step(p) ==
  \/ Enter(p) \/ GetResource(p) \/ Timeout(p)
  \/ GetCode(p) \/ DeleteCode(p)
  \/ GetAccessToken(p) \/ ReadAuthentication(p) \/ ReadAccessToken(p)
  \/ StoreAccessToken(p) \/ StoreRefreshToken(p)

Next ==
  \/ \E p \in Threads : Step(p) \/ LoadAuthentication(p) \/ \E c \in Codes : Exchange(p, c)
  \/ Restart

\* The container goes on with every request; nothing makes requests come.
Fairness == \A p \in Threads : WF_vars(Step(p))

Spec == Init /\ [][Next]_vars /\ Fairness

-----------------------------------------------------------------------------
(* Properties.                                                              *)

\* A call that is answered has cost the pool connections that do not come back: two
\* at least, so that a pool serves half as many calls as it has connections.
EveryAnswerCostsTwo == 2 * served <= inUse

\* A code that is gone has been answered with a token, or it is on its way to one, or
\* the call that had it was stopped by the empty pool or by a restart: Redis has no
\* transaction around remove and storeAccessToken, so such a code is spent in vain.
SpentCodeAnswered ==
  \A c \in Codes \ codeStore :
    \/ c \in redeemed \cup stopped
    \/ \E p \in Threads : thread[p] # None /\ thread[p].code = c /\ thread[p].got

\* A client that is given the access token can refresh it: the refresh token is stored
\* too, or some call is about to, unless a call was stopped between the two stores.
\* Then no later call makes up for it, for each finds the access token and stores only
\* that again.
RefreshTokenFollows ==
  tokens => \/ refreshToken
            \/ "storeRefreshToken" \in stopped
            \/ \E p \in Threads : thread[p] # None /\ thread[p].operation = "storeRefreshToken"

\* No call waits for ever, although one waits for a connection inside the monitor that
\* all need, and getAccessToken asks for a connection while it holds another.
EveryCallEnds == \A p \in Threads : thread[p] # None ~> thread[p] = None

-----------------------------------------------------------------------------
(* The inductive invariant.                                                 *)

Busy == {p \in Threads : thread[p] # None}

CallsCounted == served + Cardinality(Busy) <= calls

\* The calls that have used one connection and not returned it, and a second one.
SpentOne == {p \in Busy : thread[p].operation \notin {"remove", "readAccessToken"}}
SpentTwo == {p \in Busy : thread[p].operation \in {"storeAccessToken", "storeRefreshToken"}}

\* EveryAnswerCostsTwo, with the connections that are in use or were used on the way.
ConnectionsSpent ==
  2 * served + Cardinality(Holding) + Cardinality(SpentOne) + Cardinality(SpentTwo) <= inUse

\* What a call knows of Redis: what it has read may have been overtaken, but codes do
\* not come back and tokens do not go.
CallsKnow ==
  \A p \in Threads : thread[p] # None =>
    LET o == thread[p]
    IN /\ o.got => o.code \in Codes
       /\ o.operation = "remove" /\ o.at # "use" => ~o.got
       /\ o.operation = "remove" /\ o.at = "use" /\ ~o.got => o.code \notin codeStore
       /\ o.at = "get" => o.operation = "remove"
       /\ o.code = None => tokens
       /\ o.existing \/ o.operation = "storeRefreshToken" => accessToken

\* SpentCodeAnswered, of the calls that have deleted the code.
SpentCodesFollowed ==
  \A c \in Codes \ codeStore :
    \/ c \in redeemed \cup stopped
    \/ \E p \in Threads : /\ thread[p] # None /\ thread[p].code = c /\ thread[p].got
                         /\ thread[p].operation # "remove"

\* RefreshTokenFollows, from the moment the access token is stored.
StoredTokenFollowed ==
  /\ tokens => accessToken
  /\ accessToken => \/ refreshToken
                    \/ "storeRefreshToken" \in stopped
                    \/ \E p \in Threads :
                         thread[p] # None /\ thread[p].operation = "storeRefreshToken"

IInv ==
  /\ TypeOK
  /\ CallsCounted
  /\ ConnectionsSpent
  /\ CallsKnow
  /\ SpentCodesFollowed
  /\ StoredTokenFollowed
=============================================================================
