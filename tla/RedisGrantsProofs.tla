-------------------------- MODULE RedisGrantsProofs --------------------------
(***************************************************************************)
(* Proofs about RedisGrants.  Every action of a thread replaces what that   *)
(* thread is doing; each lemma says first by what, and the parts of the     *)
(* invariant follow from that.                                              *)
(***************************************************************************)
EXTENDS RedisGrants, FiniteSetTheorems, TLAPS

USE RedisGrantsAssumption, SentinelAssumption

\* What a thread is doing, when it is not idle.
LEMMA CallType ==
  ASSUME TypeOK, NEW p \in Threads, thread[p] # None
  PROVE  /\ thread[p] \in CallRecords
         /\ thread[p].operation \in Operations
         /\ thread[p].at \in {"enter", "wait", "get", "use"}
         /\ thread[p].code \in Codes \cup {None}
         /\ thread[p].got \in BOOLEAN /\ thread[p].existing \in BOOLEAN
<1>1. thread[p] \in CallRecords
  BY DEF TypeOK
<1> QED BY <1>1 DEF CallRecords

\* A set that gains or loses one thread, or none.
LEMMA SetsOfThreads ==
  ASSUME NEW S \in SUBSET Threads, NEW T \in SUBSET Threads, NEW p \in Threads,
         S \ {p} = T \ {p}
  PROVE  /\ IsFiniteSet(S) /\ Cardinality(S) \in Nat /\ Cardinality(T) \in Nat
         /\ p \in S <=> p \in T => Cardinality(T) = Cardinality(S)
         /\ p \in S /\ p \notin T => Cardinality(T) = Cardinality(S) - 1
         /\ p \notin S /\ p \in T => Cardinality(T) = Cardinality(S) + 1
<1>1. /\ IsFiniteSet(S) /\ IsFiniteSet(T)
      /\ Cardinality(S) \in Nat /\ Cardinality(T) \in Nat
  BY FS_Subset, FS_CardinalityType
<1>2. CASE p \in S <=> p \in T
  <2>1. S = T
    BY <1>2
  <2> QED BY <1>1, <1>2, <2>1
<1>3. CASE p \in S /\ p \notin T
  <2>1. T = S \ {p}
    BY <1>3
  <2> QED BY <1>1, <1>3, <2>1, FS_RemoveElement
<1>4. CASE p \notin S /\ p \in T
  <2>1. T = S \cup {p}
    BY <1>4
  <2> QED BY <1>1, <1>4, <2>1, FS_AddElement
<1> QED BY <1>2, <1>3, <1>4

\* The counts when one thread does something else.
LEMMA Counts ==
  ASSUME TypeOK, NEW p \in Threads, NEW y \in CallRecords \cup {None},
         thread' = [thread EXCEPT ![p] = y]
  PROVE  /\ thread' \in [Threads -> CallRecords \cup {None}]
         /\ thread'[p] = y /\ \A q \in Threads \ {p} : thread'[q] = thread[q]
         /\ Cardinality(Holding) \in Nat /\ Cardinality(Holding') \in Nat
         /\ p \in Holding => Cardinality(Holding) > 0
         /\ p \in Holding' => Cardinality(Holding') <= Cardinality(Holding) + 1
         /\ p \in Holding /\ p \in Holding' => Cardinality(Holding') = Cardinality(Holding)
         /\ p \in Holding /\ p \notin Holding' => Cardinality(Holding') = Cardinality(Holding) - 1
         /\ p \notin Holding /\ p \notin Holding' => Cardinality(Holding') = Cardinality(Holding)
         /\ Cardinality(Busy) \in Nat /\ Cardinality(Busy') \in Nat
         /\ thread[p] # None => Cardinality(Busy) > 0
         /\ thread[p] # None /\ y # None => Cardinality(Busy') = Cardinality(Busy)
         /\ thread[p] # None /\ y = None => Cardinality(Busy') = Cardinality(Busy) - 1
         /\ thread[p] = None /\ y # None => Cardinality(Busy') = Cardinality(Busy) + 1
<1>1. /\ thread' \in [Threads -> CallRecords \cup {None}]
      /\ thread'[p] = y /\ \A q \in Threads \ {p} : thread'[q] = thread[q]
  BY DEF TypeOK
<1>2. /\ Holding \in SUBSET Threads /\ Holding' \in SUBSET Threads
      /\ Holding \ {p} = Holding' \ {p}
  BY <1>1 DEF Holding
<1>3. /\ Busy \in SUBSET Threads /\ Busy' \in SUBSET Threads
      /\ Busy \ {p} = Busy' \ {p}
      /\ p \in Busy <=> thread[p] # None
      /\ p \in Busy' <=> y # None
  BY <1>1 DEF Busy
<1>4. p \in Holding => Cardinality(Holding) > 0
  BY <1>2, SetsOfThreads, FS_EmptySet
<1>5. p \in Busy => Cardinality(Busy) > 0
  BY <1>3, SetsOfThreads, FS_EmptySet
<1>6. /\ Cardinality(Holding) \in Nat /\ Cardinality(Holding') \in Nat
      /\ p \in Holding' => Cardinality(Holding') <= Cardinality(Holding) + 1
      /\ p \in Holding /\ p \in Holding' => Cardinality(Holding') = Cardinality(Holding)
      /\ p \in Holding /\ p \notin Holding' => Cardinality(Holding') = Cardinality(Holding) - 1
      /\ p \notin Holding /\ p \notin Holding' => Cardinality(Holding') = Cardinality(Holding)
  <2> HIDE DEF Holding
  <2> QED BY <1>2, SetsOfThreads
<1>7. /\ Cardinality(Busy) \in Nat /\ Cardinality(Busy') \in Nat
      /\ p \in Busy /\ p \in Busy' => Cardinality(Busy') = Cardinality(Busy)
      /\ p \in Busy /\ p \notin Busy' => Cardinality(Busy') = Cardinality(Busy) - 1
      /\ p \notin Busy /\ p \in Busy' => Cardinality(Busy') = Cardinality(Busy) + 1
  BY <1>3, SetsOfThreads
<1> QED BY <1>1, <1>3, <1>4, <1>5, <1>6, <1>7


\* How many calls have spent connections, when one thread does something else.
LEMMA Spent ==
  ASSUME TypeOK, NEW p \in Threads, NEW y \in CallRecords \cup {None},
         thread' = [thread EXCEPT ![p] = y]
  PROVE  LET first == {"remove", "readAccessToken"}
             last  == {"storeAccessToken", "storeRefreshToken"}
             one   == thread[p] # None /\ thread[p].operation \notin first
             two   == thread[p] # None /\ thread[p].operation \in last
             oneNext == y # None /\ y.operation \notin first
             twoNext == y # None /\ y.operation \in last
         IN /\ Cardinality(SpentOne) \in Nat /\ Cardinality(SpentOne') \in Nat
            /\ Cardinality(SpentTwo) \in Nat /\ Cardinality(SpentTwo') \in Nat
            /\ one <=> oneNext => Cardinality(SpentOne') = Cardinality(SpentOne)
            /\ one /\ ~oneNext => Cardinality(SpentOne') = Cardinality(SpentOne) - 1
            /\ ~one /\ oneNext => Cardinality(SpentOne') = Cardinality(SpentOne) + 1
            /\ two <=> twoNext => Cardinality(SpentTwo') = Cardinality(SpentTwo)
            /\ two /\ ~twoNext => Cardinality(SpentTwo') = Cardinality(SpentTwo) - 1
            /\ ~two /\ twoNext => Cardinality(SpentTwo') = Cardinality(SpentTwo) + 1
            /\ ~oneNext => Cardinality(SpentOne') <= Cardinality(SpentOne)
            /\ ~twoNext => Cardinality(SpentTwo') <= Cardinality(SpentTwo)
            /\ ~two => Cardinality(SpentTwo') <= Cardinality(SpentTwo) + 1
<1>1. thread'[p] = y /\ \A q \in Threads \ {p} : thread'[q] = thread[q]
  BY DEF TypeOK
<1>2. /\ SpentOne \in SUBSET Threads /\ SpentOne' \in SUBSET Threads
      /\ SpentOne \ {p} = SpentOne' \ {p}
      /\ p \in SpentOne <=> thread[p] # None /\ thread[p].operation \notin {"remove", "readAccessToken"}
      /\ p \in SpentOne' <=> y # None /\ y.operation \notin {"remove", "readAccessToken"}
  BY <1>1 DEF SpentOne, Busy
<1>3. /\ SpentTwo \in SUBSET Threads /\ SpentTwo' \in SUBSET Threads
      /\ SpentTwo \ {p} = SpentTwo' \ {p}
      /\ p \in SpentTwo <=> thread[p] # None /\ thread[p].operation \in {"storeAccessToken", "storeRefreshToken"}
      /\ p \in SpentTwo' <=> y # None /\ y.operation \in {"storeAccessToken", "storeRefreshToken"}
  BY <1>1 DEF SpentTwo, Busy
<1> QED BY <1>2, <1>3, SetsOfThreads

-----------------------------------------------------------------------------
(* Calls begin, and come to their connections.                              *)

\* A call begins outside the monitor, with nothing read.
LEMMA StartOK ==
  ASSUME IInv, NEW p \in Threads, NEW operation \in {"remove", "readAccessToken"},
         NEW code \in Codes \cup {None}, code = None <=> operation = "readAccessToken",
         code = None => tokens, Start(p, operation, code)
  PROVE  IInv'
<1> DEFINE y == [operation |-> operation, at |-> "enter", code |-> code,
                    got |-> FALSE, existing |-> FALSE]
<1>1. /\ y \in CallRecords
      /\ y.operation = operation /\ y.at = "enter" /\ y.code = code
      /\ y.got = FALSE /\ y.existing = FALSE
      /\ thread[p] = None /\ calls < MaxCalls /\ calls' = calls + 1
      /\ thread' = [thread EXCEPT ![p] = y]
      /\ UNCHANGED <<redis, inUse, monitor, restarts, history>>
  BY DEF Start, CallRecords, Operations
<1> HIDE DEF y
<1>2. /\ thread' \in [Threads -> CallRecords \cup {None}]
      /\ thread'[p] = y /\ \A q \in Threads \ {p} : thread'[q] = thread[q]
      /\ p \notin Holding /\ p \notin Holding' /\ Cardinality(Holding') = Cardinality(Holding)
      /\ Cardinality(Busy') = Cardinality(Busy) + 1
      /\ Cardinality(Holding) \in Nat /\ Cardinality(Holding') \in Nat
      /\ Cardinality(Busy) \in Nat /\ Cardinality(Busy') \in Nat
  <2>1. (p \in Holding <=> FALSE) /\ thread'[p] = y
    BY <1>1 DEF Holding, IInv, TypeOK
  <2>2. p \in Holding' <=> FALSE
    BY <1>1, <2>1 DEF Holding
  <2> QED BY <1>1, <2>1, <2>2, Counts DEF IInv
<1>3. TypeOK'
  <2>1. /\ inUse' \in 0..PoolSize /\ Cardinality(Holding') <= inUse'
    BY <1>1, <1>2 DEF IInv, TypeOK
  <2>2. /\ monitor' \in Threads \cup {None}
        /\ monitor' # None => thread'[monitor'] # None /\ thread'[monitor'].at = "wait"
    BY <1>1, <1>2 DEF IInv, TypeOK
  <2>3. calls' \in 0..MaxCalls /\ restarts' \in 0..MaxRestarts /\ served' \in 0..MaxCalls
    BY <1>1, <1>2 DEF IInv, history, TypeOK, CallsCounted
  <2> QED BY <1>1, <1>2, <2>1, <2>2, <2>3 DEF IInv, redis, history, TypeOK
<1>4. CallsCounted'
  BY <1>1, <1>2 DEF IInv, redis, history, TypeOK, CallsCounted
<1>5. CallsKnow'
  BY <1>1, <1>2, CallType DEF IInv, redis, history, TypeOK, CallsKnow
<1>6. SpentCodesFollowed'
  BY <1>1, <1>2, CallType DEF IInv, redis, history, TypeOK, CallsKnow, SpentCodesFollowed
<1>7. StoredTokenFollowed'
  BY <1>1, <1>2, CallType DEF IInv, redis, history, TypeOK, CallsKnow, StoredTokenFollowed
<1>8. ConnectionsSpent'
  <2>1. inUse \in Int /\ served \in Int
    BY DEF IInv, TypeOK
  <2>2. /\ Cardinality(SpentOne) \in Nat /\ Cardinality(SpentOne') \in Nat
        /\ Cardinality(SpentTwo) \in Nat /\ Cardinality(SpentTwo') \in Nat
        /\ Cardinality(SpentOne') = Cardinality(SpentOne)
        /\ Cardinality(SpentTwo') = Cardinality(SpentTwo)
    BY <1>1, Spent DEF IInv
  <2> QED BY <1>1, <1>2, <2>1, <2>2 DEF IInv, history, ConnectionsSpent
<1> QED BY <1>3, <1>4, <1>5, <1>6, <1>7, <1>8 DEF IInv

\* It enters the monitor, when no other call is in it.
LEMMA EnterOK ==
  ASSUME IInv, NEW p \in Threads, Enter(p)
  PROVE  IInv'
<1> DEFINE y == [thread[p] EXCEPT !.at = "wait"]
<1>1. /\ y \in CallRecords /\ y.at = "wait"
      /\ y.operation = thread[p].operation /\ y.code = thread[p].code
      /\ y.got = thread[p].got /\ y.existing = thread[p].existing
      /\ thread[p] # None /\ thread[p].at = "enter" /\ monitor = None /\ monitor' = p
      /\ thread' = [thread EXCEPT ![p] = y]
      /\ UNCHANGED <<redis, inUse, calls, restarts, history>>
  <2>1. thread[p] \in CallRecords
    BY CallType DEF IInv, Enter
  <2>2. \A x \in CallRecords : LET z == [x EXCEPT !.at = "wait"]
                              IN /\ z \in CallRecords /\ z.at = "wait"
                                 /\ z.operation = x.operation /\ z.code = x.code
                                 /\ z.got = x.got /\ z.existing = x.existing
    BY DEF CallRecords
  <2> QED BY <2>1, <2>2 DEF Enter
<1> HIDE DEF y
<1>2. /\ thread' \in [Threads -> CallRecords \cup {None}]
      /\ thread'[p] = y /\ \A q \in Threads \ {p} : thread'[q] = thread[q]
      /\ p \notin Holding /\ p \notin Holding' /\ Cardinality(Holding') = Cardinality(Holding)
      /\ Cardinality(Busy') = Cardinality(Busy)
      /\ Cardinality(Holding) \in Nat /\ Cardinality(Holding') \in Nat
      /\ Cardinality(Busy) \in Nat /\ Cardinality(Busy') \in Nat
  <2>1. (p \in Holding <=> FALSE) /\ thread'[p] = y
    BY <1>1 DEF Holding, IInv, TypeOK
  <2>2. p \in Holding' <=> FALSE
    BY <1>1, <2>1 DEF Holding
  <2> QED BY <1>1, <2>1, <2>2, Counts DEF IInv
<1>3. TypeOK'
  <2>1. /\ inUse' \in 0..PoolSize /\ Cardinality(Holding') <= inUse'
    BY <1>1, <1>2 DEF IInv, TypeOK
  <2>2. /\ monitor' \in Threads \cup {None}
        /\ monitor' # None => thread'[monitor'] # None /\ thread'[monitor'].at = "wait"
    BY <1>1, <1>2 DEF IInv, TypeOK
  <2>3. calls' \in 0..MaxCalls /\ restarts' \in 0..MaxRestarts /\ served' \in 0..MaxCalls
    BY <1>1, <1>2 DEF IInv, history, TypeOK, CallsCounted
  <2> QED BY <1>1, <1>2, <2>1, <2>2, <2>3 DEF IInv, redis, history, TypeOK
<1>4. CallsCounted'
  BY <1>1, <1>2 DEF IInv, redis, history, TypeOK, CallsCounted
<1>5. CallsKnow'
  BY <1>1, <1>2, CallType DEF IInv, redis, history, TypeOK, CallsKnow
<1>6. SpentCodesFollowed'
  BY <1>1, <1>2, CallType DEF IInv, redis, history, TypeOK, CallsKnow, SpentCodesFollowed
<1>7. StoredTokenFollowed'
  BY <1>1, <1>2, CallType DEF IInv, redis, history, TypeOK, CallsKnow, StoredTokenFollowed
<1>8. ConnectionsSpent'
  <2>1. inUse \in Int /\ served \in Int
    BY DEF IInv, TypeOK
  <2>2. /\ Cardinality(SpentOne) \in Nat /\ Cardinality(SpentOne') \in Nat
        /\ Cardinality(SpentTwo) \in Nat /\ Cardinality(SpentTwo') \in Nat
        /\ Cardinality(SpentOne') = Cardinality(SpentOne)
        /\ Cardinality(SpentTwo') = Cardinality(SpentTwo)
    BY <1>1, Spent DEF IInv
  <2> QED BY <1>1, <1>2, <2>1, <2>2 DEF IInv, history, ConnectionsSpent
<1> QED BY <1>3, <1>4, <1>5, <1>6, <1>7, <1>8 DEF IInv

\* It is lent a connection, and leaves the monitor.
LEMMA GetResourceOK ==
  ASSUME IInv, NEW p \in Threads, GetResource(p)
  PROVE  IInv'
<1> DEFINE y == [thread[p] EXCEPT !.at =
              IF thread[p].operation = "remove" THEN "get" ELSE "use"]
<1>1. /\ y \in CallRecords /\ y.operation = thread[p].operation
      /\ y.at = IF thread[p].operation = "remove" THEN "get" ELSE "use"
      /\ y.code = thread[p].code
      /\ y.got = thread[p].got /\ y.existing = thread[p].existing
      /\ monitor = p /\ monitor' = None /\ thread[p] # None /\ thread[p].at = "wait"
      /\ inUse < PoolSize /\ inUse' = inUse + 1
      /\ thread' = [thread EXCEPT ![p] = y]
      /\ UNCHANGED <<redis, calls, restarts, history>>
  <2>1. monitor = p /\ thread[p] # None /\ thread[p].at = "wait"
    BY DEF IInv, TypeOK, GetResource
  <2>2. thread[p] \in CallRecords
    BY <2>1, CallType DEF IInv
  <2>3. (IF thread[p].operation = "remove" THEN "get" ELSE "use")
          \in {"enter", "wait", "get", "use"}
    OBVIOUS
  <2>4. /\ y \in CallRecords /\ y.operation = thread[p].operation
        /\ y.at = IF thread[p].operation = "remove" THEN "get" ELSE "use"
        /\ y.code = thread[p].code
        /\ y.got = thread[p].got /\ y.existing = thread[p].existing
    BY <2>2, <2>3 DEF CallRecords
  <2> QED BY <2>1, <2>4 DEF GetResource, Lends
<1> HIDE DEF y
<1>2. /\ thread' \in [Threads -> CallRecords \cup {None}]
      /\ thread'[p] = y /\ \A q \in Threads \ {p} : thread'[q] = thread[q]
      /\ p \notin Holding /\ p \in Holding' /\ Cardinality(Holding') <= Cardinality(Holding) + 1
      /\ Cardinality(Busy') = Cardinality(Busy)
      /\ Cardinality(Holding) \in Nat /\ Cardinality(Holding') \in Nat
      /\ Cardinality(Busy) \in Nat /\ Cardinality(Busy') \in Nat
  <2>1. (p \in Holding <=> FALSE) /\ thread'[p] = y
    BY <1>1 DEF Holding, IInv, TypeOK
  <2>2. p \in Holding' <=> TRUE
    BY <1>1, <2>1 DEF Holding
  <2> QED BY <1>1, <2>1, <2>2, Counts DEF IInv
<1>3. TypeOK'
  <2>1. /\ inUse' \in 0..PoolSize /\ Cardinality(Holding') <= inUse'
    BY <1>1, <1>2 DEF IInv, TypeOK
  <2>2. /\ monitor' \in Threads \cup {None}
        /\ monitor' # None => thread'[monitor'] # None /\ thread'[monitor'].at = "wait"
    BY <1>1, <1>2 DEF IInv, TypeOK
  <2>3. calls' \in 0..MaxCalls /\ restarts' \in 0..MaxRestarts /\ served' \in 0..MaxCalls
    BY <1>1, <1>2 DEF IInv, history, TypeOK, CallsCounted
  <2> QED BY <1>1, <1>2, <2>1, <2>2, <2>3 DEF IInv, redis, history, TypeOK
<1>4. CallsCounted'
  BY <1>1, <1>2 DEF IInv, redis, history, TypeOK, CallsCounted
<1>5. CallsKnow'
  BY <1>1, <1>2, CallType DEF IInv, redis, history, TypeOK, CallsKnow
<1>6. SpentCodesFollowed'
  BY <1>1, <1>2, CallType DEF IInv, redis, history, TypeOK, CallsKnow, SpentCodesFollowed
<1>7. StoredTokenFollowed'
  BY <1>1, <1>2, CallType DEF IInv, redis, history, TypeOK, CallsKnow, StoredTokenFollowed
<1>8. ConnectionsSpent'
  <2>1. inUse \in Int /\ served \in Int
    BY DEF IInv, TypeOK
  <2>2. /\ Cardinality(SpentOne) \in Nat /\ Cardinality(SpentOne') \in Nat
        /\ Cardinality(SpentTwo) \in Nat /\ Cardinality(SpentTwo') \in Nat
        /\ Cardinality(SpentOne') = Cardinality(SpentOne)
        /\ Cardinality(SpentTwo') = Cardinality(SpentTwo)
    BY <1>1, Spent DEF IInv
  <2> QED BY <1>1, <1>2, <2>1, <2>2 DEF IInv, history, ConnectionsSpent
<1> QED BY <1>3, <1>4, <1>5, <1>6, <1>7, <1>8 DEF IInv

\* It gives up waiting, and its code or the refresh token is given up with it.
LEMMA TimeoutOK ==
  ASSUME IInv, NEW p \in Threads, Timeout(p)
  PROVE  IInv'
<1> DEFINE y == None
<1>1. /\ y = None
      /\ monitor = p /\ monitor' = None /\ thread[p] # None /\ thread[p].at = "wait"
      /\ stopped \subseteq stopped' /\ stopped' \subseteq Codes \cup {"storeRefreshToken"}
      /\ thread[p].operation = "storeRefreshToken" => "storeRefreshToken" \in stopped'
      /\ thread[p].got /\ thread[p].operation # "remove" => thread[p].code \in stopped'
      /\ thread' = [thread EXCEPT ![p] = y]
      /\ UNCHANGED <<redis, inUse, calls, restarts, served, tokens, redeemed>>
  <2>1. monitor = p /\ thread[p] # None /\ thread[p].at = "wait"
    BY DEF IInv, TypeOK, Timeout
  <2>2. thread[p].got => thread[p].code \in Codes
    BY <2>1 DEF IInv, CallsKnow
  <2> QED BY <2>1, <2>2 DEF Timeout, StoppedAt, IInv, TypeOK
<1> HIDE DEF y
<1>2. /\ thread' \in [Threads -> CallRecords \cup {None}]
      /\ thread'[p] = y /\ \A q \in Threads \ {p} : thread'[q] = thread[q]
      /\ p \notin Holding /\ p \notin Holding' /\ Cardinality(Holding') = Cardinality(Holding)
      /\ Cardinality(Busy') = Cardinality(Busy) - 1
      /\ Cardinality(Holding) \in Nat /\ Cardinality(Holding') \in Nat
      /\ Cardinality(Busy) \in Nat /\ Cardinality(Busy') \in Nat
  <2>1. (p \in Holding <=> FALSE) /\ thread'[p] = y
    BY <1>1 DEF Holding, IInv, TypeOK
  <2>2. p \in Holding' <=> FALSE
    BY <1>1, <2>1 DEF Holding
  <2> QED BY <1>1, <2>1, <2>2, Counts DEF IInv
<1>3. TypeOK'
  <2>1. /\ inUse' \in 0..PoolSize /\ Cardinality(Holding') <= inUse'
    BY <1>1, <1>2 DEF IInv, TypeOK
  <2>2. /\ monitor' \in Threads \cup {None}
        /\ monitor' # None => thread'[monitor'] # None /\ thread'[monitor'].at = "wait"
    BY <1>1, <1>2 DEF IInv, TypeOK
  <2>3. calls' \in 0..MaxCalls /\ restarts' \in 0..MaxRestarts /\ served' \in 0..MaxCalls
    BY <1>1, <1>2 DEF IInv, history, TypeOK, CallsCounted
  <2> QED BY <1>1, <1>2, <2>1, <2>2, <2>3 DEF IInv, redis, history, TypeOK
<1>4. CallsCounted'
  BY <1>1, <1>2 DEF IInv, redis, history, TypeOK, CallsCounted
<1>5. CallsKnow'
  BY <1>1, <1>2, CallType DEF IInv, redis, history, TypeOK, CallsKnow
<1>6. SpentCodesFollowed'
  BY <1>1, <1>2, CallType DEF IInv, redis, history, TypeOK, CallsKnow, SpentCodesFollowed
<1>7. StoredTokenFollowed'
  BY <1>1, <1>2, CallType DEF IInv, redis, history, TypeOK, CallsKnow, StoredTokenFollowed
<1>8. ConnectionsSpent'
  <2>1. inUse \in Int /\ served \in Int
    BY DEF IInv, TypeOK
  <2>2. /\ Cardinality(SpentOne) \in Nat /\ Cardinality(SpentOne') \in Nat
        /\ Cardinality(SpentTwo) \in Nat /\ Cardinality(SpentTwo') \in Nat
        /\ Cardinality(SpentOne') <= Cardinality(SpentOne)
        /\ Cardinality(SpentTwo') <= Cardinality(SpentTwo)
    BY <1>1, Spent DEF IInv
  <2> QED BY <1>1, <1>2, <2>1, <2>2 DEF IInv, history, ConnectionsSpent
<1> QED BY <1>3, <1>4, <1>5, <1>6, <1>7, <1>8 DEF IInv

-----------------------------------------------------------------------------
(* The operations.                                                          *)

\* What remove reads.
LEMMA GetCodeOK ==
  ASSUME IInv, NEW p \in Threads, GetCode(p)
  PROVE  IInv'
<1> DEFINE y == [thread[p] EXCEPT !.at = "use", !.got = thread[p].code \in codeStore]
<1>1. /\ y \in CallRecords /\ y.at = "use" /\ y.operation = "remove"
      /\ y.code = thread[p].code /\ y.existing = thread[p].existing
      /\ y.got <=> thread[p].code \in codeStore
      /\ thread[p] # None /\ thread[p].at = "get" /\ thread[p].operation = "remove"
      /\ thread' = [thread EXCEPT ![p] = y]
      /\ UNCHANGED <<redis, inUse, monitor, calls, restarts, history>>
  <2>1. thread[p] \in CallRecords /\ thread[p].operation = "remove"
    BY CallType DEF IInv, CallsKnow, GetCode
  <2>2. \A x \in CallRecords, got \in BOOLEAN :
          LET z == [x EXCEPT !.at = "use", !.got = got]
          IN /\ z \in CallRecords /\ z.at = "use" /\ z.got = got
             /\ z.operation = x.operation /\ z.code = x.code /\ z.existing = x.existing
    BY DEF CallRecords
  <2>3. (thread[p].code \in codeStore) \in BOOLEAN
    OBVIOUS
  <2>4. /\ y \in CallRecords /\ y.at = "use" /\ y.got = (thread[p].code \in codeStore)
        /\ y.operation = thread[p].operation /\ y.code = thread[p].code
        /\ y.existing = thread[p].existing
    BY <2>1, <2>2, <2>3
  <2> QED BY <2>1, <2>4 DEF GetCode
<1> HIDE DEF y
<1>2. /\ thread' \in [Threads -> CallRecords \cup {None}]
      /\ thread'[p] = y /\ \A q \in Threads \ {p} : thread'[q] = thread[q]
      /\ p \in Holding /\ p \in Holding' /\ Cardinality(Holding') = Cardinality(Holding)
      /\ Cardinality(Busy') = Cardinality(Busy)
      /\ Cardinality(Holding) \in Nat /\ Cardinality(Holding') \in Nat
      /\ Cardinality(Busy) \in Nat /\ Cardinality(Busy') \in Nat
  <2>1. (p \in Holding <=> TRUE) /\ thread'[p] = y
    BY <1>1 DEF Holding, IInv, TypeOK
  <2>2. p \in Holding' <=> TRUE
    BY <1>1, <2>1 DEF Holding
  <2> QED BY <1>1, <2>1, <2>2, Counts DEF IInv
<1>3. TypeOK'
  <2>1. /\ inUse' \in 0..PoolSize /\ Cardinality(Holding') <= inUse'
    BY <1>1, <1>2 DEF IInv, TypeOK
  <2>2. /\ monitor' \in Threads \cup {None}
        /\ monitor' # None => thread'[monitor'] # None /\ thread'[monitor'].at = "wait"
    BY <1>1, <1>2 DEF IInv, TypeOK
  <2>3. calls' \in 0..MaxCalls /\ restarts' \in 0..MaxRestarts /\ served' \in 0..MaxCalls
    BY <1>1, <1>2 DEF IInv, history, TypeOK, CallsCounted
  <2> QED BY <1>1, <1>2, <2>1, <2>2, <2>3 DEF IInv, redis, history, TypeOK
<1>4. CallsCounted'
  BY <1>1, <1>2 DEF IInv, redis, history, TypeOK, CallsCounted
<1>5. CallsKnow'
  BY <1>1, <1>2, CallType DEF IInv, redis, history, TypeOK, CallsKnow
<1>6. SpentCodesFollowed'
  BY <1>1, <1>2, CallType DEF IInv, redis, history, TypeOK, CallsKnow, SpentCodesFollowed
<1>7. StoredTokenFollowed'
  BY <1>1, <1>2, CallType DEF IInv, redis, history, TypeOK, CallsKnow, StoredTokenFollowed
<1>8. ConnectionsSpent'
  <2>1. inUse \in Int /\ served \in Int
    BY DEF IInv, TypeOK
  <2>2. /\ Cardinality(SpentOne) \in Nat /\ Cardinality(SpentOne') \in Nat
        /\ Cardinality(SpentTwo) \in Nat /\ Cardinality(SpentTwo') \in Nat
        /\ Cardinality(SpentOne') = Cardinality(SpentOne)
        /\ Cardinality(SpentTwo') = Cardinality(SpentTwo)
    BY <1>1, Spent DEF IInv
  <2> QED BY <1>1, <1>2, <2>1, <2>2 DEF IInv, history, ConnectionsSpent
<1> QED BY <1>3, <1>4, <1>5, <1>6, <1>7, <1>8 DEF IInv

\* What remove deletes, the code found.
LEMMA DeleteCodeFoundOK ==
  ASSUME IInv, NEW p \in Threads, DeleteCode(p), thread[p].got
  PROVE  IInv'
<1> DEFINE y == [thread[p] EXCEPT !.operation = "getAccessToken", !.at = "enter"]
<1>1. /\ y \in CallRecords /\ y.at = "enter" /\ y.operation = "getAccessToken"
      /\ y.code = thread[p].code /\ y.got = thread[p].got /\ y.existing = thread[p].existing
      /\ thread[p] # None /\ thread[p].at = "use" /\ thread[p].operation = "remove"
      /\ inUse' = inUse
      /\ thread' = [thread EXCEPT ![p] = y]
      /\ codeStore' = codeStore \ {thread[p].code} /\ UNCHANGED <<accessToken, refreshToken>>
      /\ UNCHANGED <<monitor, calls, restarts, history>>
  <2>0. "getAccessToken" \in Operations
    BY DEF Operations
  <2>1. thread[p] \in CallRecords
    BY CallType DEF IInv, DeleteCode, Use
  <2>2. /\ y \in CallRecords /\ y.at = "enter" /\ y.operation = "getAccessToken"
        /\ y.code = thread[p].code
        /\ y.got = thread[p].got /\ y.existing = thread[p].existing
    BY <2>1, <2>0 DEF CallRecords
  <2>3. /\ Continue(p, "getAccessToken")
        /\ thread[p] # None /\ thread[p].at = "use" /\ thread[p].operation = "remove"
        /\ codeStore' = codeStore \ {thread[p].code} /\ UNCHANGED <<accessToken, refreshToken>>
    BY DEF DeleteCode, Use, redis
  <2>4. inUse' = inUse - Returned(thread[p].operation)
    BY <2>3 DEF Continue
  <2>5. inUse' = inUse
    BY <2>3, <2>4 DEF Returned, IInv, TypeOK
  <2> QED BY <2>2, <2>3, <2>5 DEF Continue
<1> HIDE DEF y
<1>2. /\ thread' \in [Threads -> CallRecords \cup {None}]
      /\ thread'[p] = y /\ \A q \in Threads \ {p} : thread'[q] = thread[q]
      /\ p \in Holding /\ p \notin Holding' /\ Cardinality(Holding') = Cardinality(Holding) - 1
      /\ Cardinality(Busy') = Cardinality(Busy)
      /\ Cardinality(Holding) \in Nat /\ Cardinality(Holding') \in Nat
      /\ Cardinality(Busy) \in Nat /\ Cardinality(Busy') \in Nat
  <2>1. (p \in Holding <=> TRUE) /\ thread'[p] = y
    BY <1>1 DEF Holding, IInv, TypeOK
  <2>2. p \in Holding' <=> FALSE
    BY <1>1, <2>1 DEF Holding
  <2> QED BY <1>1, <2>1, <2>2, Counts DEF IInv
<1>3. TypeOK'
  <2>1. /\ inUse' \in 0..PoolSize /\ Cardinality(Holding') <= inUse'
    BY <1>1, <1>2 DEF IInv, TypeOK
  <2>2. /\ monitor' \in Threads \cup {None}
        /\ monitor' # None => thread'[monitor'] # None /\ thread'[monitor'].at = "wait"
    BY <1>1, <1>2 DEF IInv, TypeOK
  <2>3. calls' \in 0..MaxCalls /\ restarts' \in 0..MaxRestarts /\ served' \in 0..MaxCalls
    BY <1>1, <1>2 DEF IInv, history, TypeOK, CallsCounted
  <2> QED BY <1>1, <1>2, <2>1, <2>2, <2>3 DEF IInv, redis, history, TypeOK
<1>4. CallsCounted'
  BY <1>1, <1>2 DEF IInv, redis, history, TypeOK, CallsCounted
<1>5. CallsKnow'
  BY <1>1, <1>2, CallType DEF IInv, redis, history, TypeOK, CallsKnow
<1>6. SpentCodesFollowed'
  <2> SUFFICES ASSUME NEW c \in Codes, c \notin codeStore'
               PROVE  \/ c \in redeemed' \cup stopped'
                      \/ \E q \in Threads : /\ thread'[q] # None /\ thread'[q].code = c
                                           /\ thread'[q].got /\ thread'[q].operation # "remove"
    BY DEF SpentCodesFollowed
  <2>1. CASE c = thread[p].code
    <3>1. thread'[p] # None /\ thread'[p].code = c /\ thread'[p].got
          /\ thread'[p].operation # "remove"
      BY <1>1, <1>2, <2>1
    <3> QED BY <3>1
  <2>2. CASE c # thread[p].code
    <3>1. c \in Codes \ codeStore
      BY <1>1, <2>2
    <3>2. CASE c \in redeemed \cup stopped
      BY <1>1, <3>2 DEF history
    <3>3. CASE c \notin redeemed \cup stopped
      <4>1. PICK q \in Threads : /\ thread[q] # None /\ thread[q].code = c /\ thread[q].got
                                /\ thread[q].operation # "remove"
        BY <3>1, <3>3 DEF IInv, SpentCodesFollowed
      <4>2. thread'[q] = thread[q]
        BY <1>1, <1>2, <4>1
      <4> QED BY <4>1, <4>2
    <3> QED BY <3>2, <3>3
  <2> QED BY <2>1, <2>2
<1>7. StoredTokenFollowed'
  BY <1>1, <1>2, CallType DEF IInv, redis, history, TypeOK, CallsKnow, StoredTokenFollowed
<1>8. ConnectionsSpent'
  <2>1. inUse \in Int /\ served \in Int
    BY DEF IInv, TypeOK
  <2>2. /\ Cardinality(SpentOne) \in Nat /\ Cardinality(SpentOne') \in Nat
        /\ Cardinality(SpentTwo) \in Nat /\ Cardinality(SpentTwo') \in Nat
        /\ Cardinality(SpentOne') = Cardinality(SpentOne) + 1
        /\ Cardinality(SpentTwo') = Cardinality(SpentTwo)
    BY <1>1, Spent DEF IInv
  <2> QED BY <1>1, <1>2, <2>1, <2>2 DEF IInv, history, ConnectionsSpent
<1> QED BY <1>3, <1>4, <1>5, <1>6, <1>7, <1>8 DEF IInv

\* The code not found, the request is refused.
LEMMA DeleteCodeGoneOK ==
  ASSUME IInv, NEW p \in Threads, DeleteCode(p), ~thread[p].got
  PROVE  IInv'
<1> DEFINE y == None
<1>1. /\ y = None
      /\ thread[p] # None /\ thread[p].at = "use" /\ thread[p].operation = "remove"
      /\ inUse' = inUse
      /\ thread' = [thread EXCEPT ![p] = y]
      /\ codeStore' = codeStore \ {thread[p].code} /\ UNCHANGED <<accessToken, refreshToken>>
      /\ UNCHANGED <<monitor, calls, restarts, stopped>>
      /\ UNCHANGED <<served, tokens, redeemed>>
  BY DEF IInv, TypeOK, DeleteCode, Use, Refuse, Finish, Returned, redis
<1> HIDE DEF y
<1>2. /\ thread' \in [Threads -> CallRecords \cup {None}]
      /\ thread'[p] = y /\ \A q \in Threads \ {p} : thread'[q] = thread[q]
      /\ p \in Holding /\ p \notin Holding' /\ Cardinality(Holding') = Cardinality(Holding) - 1
      /\ Cardinality(Busy') = Cardinality(Busy) - 1
      /\ Cardinality(Holding) \in Nat /\ Cardinality(Holding') \in Nat
      /\ Cardinality(Busy) \in Nat /\ Cardinality(Busy') \in Nat
  <2>1. (p \in Holding <=> TRUE) /\ thread'[p] = y
    BY <1>1 DEF Holding, IInv, TypeOK
  <2>2. p \in Holding' <=> FALSE
    BY <1>1, <2>1 DEF Holding
  <2> QED BY <1>1, <2>1, <2>2, Counts DEF IInv
<1>3. TypeOK'
  <2>1. /\ inUse' \in 0..PoolSize /\ Cardinality(Holding') <= inUse'
    BY <1>1, <1>2 DEF IInv, TypeOK
  <2>2. /\ monitor' \in Threads \cup {None}
        /\ monitor' # None => thread'[monitor'] # None /\ thread'[monitor'].at = "wait"
    BY <1>1, <1>2 DEF IInv, TypeOK
  <2>3. calls' \in 0..MaxCalls /\ restarts' \in 0..MaxRestarts /\ served' \in 0..MaxCalls
    BY <1>1, <1>2 DEF IInv, history, TypeOK, CallsCounted
  <2> QED BY <1>1, <1>2, <2>1, <2>2, <2>3 DEF IInv, redis, history, TypeOK
<1>4. CallsCounted'
  BY <1>1, <1>2 DEF IInv, redis, history, TypeOK, CallsCounted
<1>5. CallsKnow'
  BY <1>1, <1>2, CallType DEF IInv, redis, history, TypeOK, CallsKnow
<1>6. SpentCodesFollowed'
  BY <1>1, <1>2, CallType DEF IInv, redis, history, TypeOK, CallsKnow, SpentCodesFollowed
<1>7. StoredTokenFollowed'
  BY <1>1, <1>2, CallType DEF IInv, redis, history, TypeOK, CallsKnow, StoredTokenFollowed
<1>8. ConnectionsSpent'
  <2>1. inUse \in Int /\ served \in Int
    BY DEF IInv, TypeOK
  <2>2. /\ Cardinality(SpentOne) \in Nat /\ Cardinality(SpentOne') \in Nat
        /\ Cardinality(SpentTwo) \in Nat /\ Cardinality(SpentTwo') \in Nat
        /\ Cardinality(SpentOne') = Cardinality(SpentOne)
        /\ Cardinality(SpentTwo') = Cardinality(SpentTwo)
    BY <1>1, Spent DEF IInv
  <2> QED BY <1>1, <1>2, <2>1, <2>2 DEF IInv, history, ConnectionsSpent
<1> QED BY <1>3, <1>4, <1>5, <1>6, <1>7, <1>8 DEF IInv

\* What getAccessToken finds.
LEMMA GetAccessTokenOK ==
  ASSUME IInv, NEW p \in Threads, GetAccessToken(p)
  PROVE  IInv'
<1> DEFINE y == [thread[p] EXCEPT
      !.operation = IF accessToken THEN "readAuthentication" ELSE "storeAccessToken",
      !.at = "enter", !.existing = accessToken]
<1>1. /\ y \in CallRecords /\ y.at = "enter" /\ y.existing = accessToken
      /\ y.operation \in {"readAuthentication", "storeAccessToken"}
      /\ y.code = thread[p].code /\ y.got = thread[p].got
      /\ thread[p] # None /\ thread[p].at = "use" /\ thread[p].operation = "getAccessToken"
      /\ inUse' = inUse
      /\ thread' = [thread EXCEPT ![p] = y]
      /\ UNCHANGED <<redis, monitor, calls, restarts, history>>
  <2>1. thread[p] \in CallRecords /\ accessToken \in BOOLEAN /\ inUse \in Int
    BY CallType DEF IInv, TypeOK, GetAccessToken, Use
  <2>2. (IF accessToken THEN "readAuthentication" ELSE "storeAccessToken") \in Operations
    BY DEF Operations
  <2>3. /\ y \in CallRecords /\ y.at = "enter" /\ y.existing = accessToken
        /\ y.operation = IF accessToken THEN "readAuthentication" ELSE "storeAccessToken"
        /\ y.code = thread[p].code /\ y.got = thread[p].got
    BY <2>1, <2>2 DEF CallRecords
  <2> QED BY <2>1, <2>3 DEF GetAccessToken, Use, Returned
<1> HIDE DEF y
<1>2. /\ thread' \in [Threads -> CallRecords \cup {None}]
      /\ thread'[p] = y /\ \A q \in Threads \ {p} : thread'[q] = thread[q]
      /\ p \in Holding /\ p \notin Holding' /\ Cardinality(Holding') = Cardinality(Holding) - 1
      /\ Cardinality(Busy') = Cardinality(Busy)
      /\ Cardinality(Holding) \in Nat /\ Cardinality(Holding') \in Nat
      /\ Cardinality(Busy) \in Nat /\ Cardinality(Busy') \in Nat
  <2>1. (p \in Holding <=> TRUE) /\ thread'[p] = y
    BY <1>1 DEF Holding, IInv, TypeOK
  <2>2. p \in Holding' <=> FALSE
    BY <1>1, <2>1 DEF Holding
  <2> QED BY <1>1, <2>1, <2>2, Counts DEF IInv
<1>3. TypeOK'
  <2>1. /\ inUse' \in 0..PoolSize /\ Cardinality(Holding') <= inUse'
    BY <1>1, <1>2 DEF IInv, TypeOK
  <2>2. /\ monitor' \in Threads \cup {None}
        /\ monitor' # None => thread'[monitor'] # None /\ thread'[monitor'].at = "wait"
    BY <1>1, <1>2 DEF IInv, TypeOK
  <2>3. calls' \in 0..MaxCalls /\ restarts' \in 0..MaxRestarts /\ served' \in 0..MaxCalls
    BY <1>1, <1>2 DEF IInv, history, TypeOK, CallsCounted
  <2> QED BY <1>1, <1>2, <2>1, <2>2, <2>3 DEF IInv, redis, history, TypeOK
<1>4. CallsCounted'
  BY <1>1, <1>2 DEF IInv, redis, history, TypeOK, CallsCounted
<1>5. CallsKnow'
  BY <1>1, <1>2, CallType DEF IInv, redis, history, TypeOK, CallsKnow
<1>6. SpentCodesFollowed'
  BY <1>1, <1>2, CallType DEF IInv, redis, history, TypeOK, CallsKnow, SpentCodesFollowed
<1>7. StoredTokenFollowed'
  BY <1>1, <1>2, CallType DEF IInv, redis, history, TypeOK, CallsKnow, StoredTokenFollowed
<1>8. ConnectionsSpent'
  <2>1. inUse \in Int /\ served \in Int
    BY DEF IInv, TypeOK
  <2>2. /\ Cardinality(SpentOne) \in Nat /\ Cardinality(SpentOne') \in Nat
        /\ Cardinality(SpentTwo) \in Nat /\ Cardinality(SpentTwo') \in Nat
        /\ Cardinality(SpentOne') = Cardinality(SpentOne)
        /\ Cardinality(SpentTwo') <= Cardinality(SpentTwo) + 1
    BY <1>1, Spent DEF IInv
  <2> QED BY <1>1, <1>2, <2>1, <2>2 DEF IInv, history, ConnectionsSpent
<1> QED BY <1>3, <1>4, <1>5, <1>6, <1>7, <1>8 DEF IInv

\* The authentication read for a grant.
LEMMA ReadForGrantOK ==
  ASSUME IInv, NEW p \in Threads, ReadAuthentication(p), thread[p].code # None
  PROVE  IInv'
<1> DEFINE y == [thread[p] EXCEPT !.operation = "storeAccessToken", !.at = "enter"]
<1>1. /\ y \in CallRecords /\ y.at = "enter" /\ y.operation = "storeAccessToken"
      /\ y.code = thread[p].code /\ y.got = thread[p].got /\ y.existing = thread[p].existing
      /\ thread[p] # None /\ thread[p].at = "use" /\ thread[p].operation = "readAuthentication"
      /\ inUse' = inUse
      /\ thread' = [thread EXCEPT ![p] = y]
      /\ UNCHANGED redis
      /\ UNCHANGED <<monitor, calls, restarts, history>>
  <2>0. "storeAccessToken" \in Operations
    BY DEF Operations
  <2>1. thread[p] \in CallRecords
    BY CallType DEF IInv, ReadAuthentication, Use
  <2>2. /\ y \in CallRecords /\ y.at = "enter" /\ y.operation = "storeAccessToken"
        /\ y.code = thread[p].code
        /\ y.got = thread[p].got /\ y.existing = thread[p].existing
    BY <2>1, <2>0 DEF CallRecords
  <2>3. /\ Continue(p, "storeAccessToken")
        /\ thread[p] # None /\ thread[p].at = "use" /\ thread[p].operation = "readAuthentication"
        /\ UNCHANGED redis
    BY DEF ReadAuthentication, Use, redis
  <2>4. inUse' = inUse - Returned(thread[p].operation)
    BY <2>3 DEF Continue
  <2>5. inUse' = inUse
    BY <2>3, <2>4 DEF Returned, IInv, TypeOK
  <2> QED BY <2>2, <2>3, <2>5 DEF Continue
<1> HIDE DEF y
<1>2. /\ thread' \in [Threads -> CallRecords \cup {None}]
      /\ thread'[p] = y /\ \A q \in Threads \ {p} : thread'[q] = thread[q]
      /\ p \in Holding /\ p \notin Holding' /\ Cardinality(Holding') = Cardinality(Holding) - 1
      /\ Cardinality(Busy') = Cardinality(Busy)
      /\ Cardinality(Holding) \in Nat /\ Cardinality(Holding') \in Nat
      /\ Cardinality(Busy) \in Nat /\ Cardinality(Busy') \in Nat
  <2>1. (p \in Holding <=> TRUE) /\ thread'[p] = y
    BY <1>1 DEF Holding, IInv, TypeOK
  <2>2. p \in Holding' <=> FALSE
    BY <1>1, <2>1 DEF Holding
  <2> QED BY <1>1, <2>1, <2>2, Counts DEF IInv
<1>3. TypeOK'
  <2>1. /\ inUse' \in 0..PoolSize /\ Cardinality(Holding') <= inUse'
    BY <1>1, <1>2 DEF IInv, TypeOK
  <2>2. /\ monitor' \in Threads \cup {None}
        /\ monitor' # None => thread'[monitor'] # None /\ thread'[monitor'].at = "wait"
    BY <1>1, <1>2 DEF IInv, TypeOK
  <2>3. calls' \in 0..MaxCalls /\ restarts' \in 0..MaxRestarts /\ served' \in 0..MaxCalls
    BY <1>1, <1>2 DEF IInv, history, TypeOK, CallsCounted
  <2> QED BY <1>1, <1>2, <2>1, <2>2, <2>3 DEF IInv, redis, history, TypeOK
<1>4. CallsCounted'
  BY <1>1, <1>2 DEF IInv, redis, history, TypeOK, CallsCounted
<1>5. CallsKnow'
  BY <1>1, <1>2, CallType DEF IInv, redis, history, TypeOK, CallsKnow
<1>6. SpentCodesFollowed'
  BY <1>1, <1>2, CallType DEF IInv, redis, history, TypeOK, CallsKnow, SpentCodesFollowed
<1>7. StoredTokenFollowed'
  BY <1>1, <1>2, CallType DEF IInv, redis, history, TypeOK, CallsKnow, StoredTokenFollowed
<1>8. ConnectionsSpent'
  <2>1. inUse \in Int /\ served \in Int
    BY DEF IInv, TypeOK
  <2>2. /\ Cardinality(SpentOne) \in Nat /\ Cardinality(SpentOne') \in Nat
        /\ Cardinality(SpentTwo) \in Nat /\ Cardinality(SpentTwo') \in Nat
        /\ Cardinality(SpentOne') = Cardinality(SpentOne)
        /\ Cardinality(SpentTwo') = Cardinality(SpentTwo) + 1
    BY <1>1, Spent DEF IInv
  <2> QED BY <1>1, <1>2, <2>1, <2>2 DEF IInv, history, ConnectionsSpent
<1> QED BY <1>3, <1>4, <1>5, <1>6, <1>7, <1>8 DEF IInv

\* The authentication read for loadAuthentication, which answers.
LEMMA ReadForLoadOK ==
  ASSUME IInv, NEW p \in Threads, ReadAuthentication(p), thread[p].code = None
  PROVE  IInv'
<1> DEFINE y == None
<1>1. /\ y = None
      /\ thread[p] # None /\ thread[p].at = "use" /\ thread[p].operation = "readAuthentication"
      /\ inUse' = inUse
      /\ thread' = [thread EXCEPT ![p] = y]
      /\ UNCHANGED redis
      /\ UNCHANGED <<monitor, calls, restarts, stopped>>
      /\ served' = served + 1 /\ tokens' = TRUE
      /\ redeemed' = redeemed \cup ({thread[p].code} \cap Codes)
  BY DEF IInv, TypeOK, ReadAuthentication, Use, Answer, Finish, Returned, redis
<1> HIDE DEF y
<1>2. /\ thread' \in [Threads -> CallRecords \cup {None}]
      /\ thread'[p] = y /\ \A q \in Threads \ {p} : thread'[q] = thread[q]
      /\ p \in Holding /\ p \notin Holding' /\ Cardinality(Holding') = Cardinality(Holding) - 1
      /\ Cardinality(Busy') = Cardinality(Busy) - 1
      /\ Cardinality(Holding) \in Nat /\ Cardinality(Holding') \in Nat
      /\ Cardinality(Busy) \in Nat /\ Cardinality(Busy') \in Nat
  <2>1. (p \in Holding <=> TRUE) /\ thread'[p] = y
    BY <1>1 DEF Holding, IInv, TypeOK
  <2>2. p \in Holding' <=> FALSE
    BY <1>1, <2>1 DEF Holding
  <2> QED BY <1>1, <2>1, <2>2, Counts DEF IInv
<1>3. TypeOK'
  <2>1. /\ inUse' \in 0..PoolSize /\ Cardinality(Holding') <= inUse'
    BY <1>1, <1>2 DEF IInv, TypeOK
  <2>2. /\ monitor' \in Threads \cup {None}
        /\ monitor' # None => thread'[monitor'] # None /\ thread'[monitor'].at = "wait"
    BY <1>1, <1>2 DEF IInv, TypeOK
  <2>3. calls' \in 0..MaxCalls /\ restarts' \in 0..MaxRestarts /\ served' \in 0..MaxCalls
    BY <1>1, <1>2 DEF IInv, history, TypeOK, CallsCounted
  <2> QED BY <1>1, <1>2, <2>1, <2>2, <2>3 DEF IInv, redis, history, TypeOK
<1>4. CallsCounted'
  BY <1>1, <1>2 DEF IInv, redis, history, TypeOK, CallsCounted
<1>5. CallsKnow'
  BY <1>1, <1>2, CallType DEF IInv, redis, history, TypeOK, CallsKnow
<1>6. SpentCodesFollowed'
  BY <1>1, <1>2, CallType DEF IInv, redis, history, TypeOK, CallsKnow, SpentCodesFollowed
<1>7. StoredTokenFollowed'
  BY <1>1, <1>2, CallType DEF IInv, redis, history, TypeOK, CallsKnow, StoredTokenFollowed
<1>8. ConnectionsSpent'
  <2>1. inUse \in Int /\ served \in Int
    BY DEF IInv, TypeOK
  <2>2. /\ Cardinality(SpentOne) \in Nat /\ Cardinality(SpentOne') \in Nat
        /\ Cardinality(SpentTwo) \in Nat /\ Cardinality(SpentTwo') \in Nat
        /\ Cardinality(SpentOne') = Cardinality(SpentOne) - 1
        /\ Cardinality(SpentTwo') = Cardinality(SpentTwo)
    BY <1>1, Spent DEF IInv
  <2> QED BY <1>1, <1>2, <2>1, <2>2 DEF IInv, history, ConnectionsSpent
<1> QED BY <1>3, <1>4, <1>5, <1>6, <1>7, <1>8 DEF IInv

\* loadAuthentication has the token.
LEMMA ReadAccessTokenOK ==
  ASSUME IInv, NEW p \in Threads, ReadAccessToken(p)
  PROVE  IInv'
<1> DEFINE y == [thread[p] EXCEPT !.operation = "readAuthentication", !.at = "enter"]
<1>1. /\ y \in CallRecords /\ y.at = "enter" /\ y.operation = "readAuthentication"
      /\ y.code = thread[p].code /\ y.got = thread[p].got /\ y.existing = thread[p].existing
      /\ thread[p] # None /\ thread[p].at = "use" /\ thread[p].operation = "readAccessToken"
      /\ inUse' = inUse
      /\ thread' = [thread EXCEPT ![p] = y]
      /\ UNCHANGED redis
      /\ UNCHANGED <<monitor, calls, restarts, history>>
  <2>0. "readAuthentication" \in Operations
    BY DEF Operations
  <2>1. thread[p] \in CallRecords
    BY CallType DEF IInv, ReadAccessToken, Use
  <2>2. /\ y \in CallRecords /\ y.at = "enter" /\ y.operation = "readAuthentication"
        /\ y.code = thread[p].code
        /\ y.got = thread[p].got /\ y.existing = thread[p].existing
    BY <2>1, <2>0 DEF CallRecords
  <2>3. /\ Continue(p, "readAuthentication")
        /\ thread[p] # None /\ thread[p].at = "use" /\ thread[p].operation = "readAccessToken"
        /\ UNCHANGED redis
    BY DEF ReadAccessToken, Use, redis
  <2>4. inUse' = inUse - Returned(thread[p].operation)
    BY <2>3 DEF Continue
  <2>5. inUse' = inUse
    BY <2>3, <2>4 DEF Returned, IInv, TypeOK
  <2> QED BY <2>2, <2>3, <2>5 DEF Continue
<1> HIDE DEF y
<1>2. /\ thread' \in [Threads -> CallRecords \cup {None}]
      /\ thread'[p] = y /\ \A q \in Threads \ {p} : thread'[q] = thread[q]
      /\ p \in Holding /\ p \notin Holding' /\ Cardinality(Holding') = Cardinality(Holding) - 1
      /\ Cardinality(Busy') = Cardinality(Busy)
      /\ Cardinality(Holding) \in Nat /\ Cardinality(Holding') \in Nat
      /\ Cardinality(Busy) \in Nat /\ Cardinality(Busy') \in Nat
  <2>1. (p \in Holding <=> TRUE) /\ thread'[p] = y
    BY <1>1 DEF Holding, IInv, TypeOK
  <2>2. p \in Holding' <=> FALSE
    BY <1>1, <2>1 DEF Holding
  <2> QED BY <1>1, <2>1, <2>2, Counts DEF IInv
<1>3. TypeOK'
  <2>1. /\ inUse' \in 0..PoolSize /\ Cardinality(Holding') <= inUse'
    BY <1>1, <1>2 DEF IInv, TypeOK
  <2>2. /\ monitor' \in Threads \cup {None}
        /\ monitor' # None => thread'[monitor'] # None /\ thread'[monitor'].at = "wait"
    BY <1>1, <1>2 DEF IInv, TypeOK
  <2>3. calls' \in 0..MaxCalls /\ restarts' \in 0..MaxRestarts /\ served' \in 0..MaxCalls
    BY <1>1, <1>2 DEF IInv, history, TypeOK, CallsCounted
  <2> QED BY <1>1, <1>2, <2>1, <2>2, <2>3 DEF IInv, redis, history, TypeOK
<1>4. CallsCounted'
  BY <1>1, <1>2 DEF IInv, redis, history, TypeOK, CallsCounted
<1>5. CallsKnow'
  BY <1>1, <1>2, CallType DEF IInv, redis, history, TypeOK, CallsKnow
<1>6. SpentCodesFollowed'
  BY <1>1, <1>2, CallType DEF IInv, redis, history, TypeOK, CallsKnow, SpentCodesFollowed
<1>7. StoredTokenFollowed'
  BY <1>1, <1>2, CallType DEF IInv, redis, history, TypeOK, CallsKnow, StoredTokenFollowed
<1>8. ConnectionsSpent'
  <2>1. inUse \in Int /\ served \in Int
    BY DEF IInv, TypeOK
  <2>2. /\ Cardinality(SpentOne) \in Nat /\ Cardinality(SpentOne') \in Nat
        /\ Cardinality(SpentTwo) \in Nat /\ Cardinality(SpentTwo') \in Nat
        /\ Cardinality(SpentOne') = Cardinality(SpentOne) + 1
        /\ Cardinality(SpentTwo') = Cardinality(SpentTwo)
    BY <1>1, Spent DEF IInv
  <2> QED BY <1>1, <1>2, <2>1, <2>2 DEF IInv, history, ConnectionsSpent
<1> QED BY <1>3, <1>4, <1>5, <1>6, <1>7, <1>8 DEF IInv

\* An existing token is stored again.
LEMMA StoreAgainOK ==
  ASSUME IInv, NEW p \in Threads, StoreAccessToken(p), thread[p].existing
  PROVE  IInv'
<1> DEFINE y == None
<1>1. /\ y = None
      /\ thread[p] # None /\ thread[p].at = "use" /\ thread[p].operation = "storeAccessToken"
      /\ inUse' = inUse - 1
      /\ thread' = [thread EXCEPT ![p] = y]
      /\ accessToken' = TRUE /\ UNCHANGED <<codeStore, refreshToken>>
      /\ UNCHANGED <<monitor, calls, restarts, stopped>>
      /\ served' = served + 1 /\ tokens' = TRUE
      /\ redeemed' = redeemed \cup ({thread[p].code} \cap Codes)
  BY DEF IInv, TypeOK, StoreAccessToken, Use, Answer, Finish, Returned, redis
<1> HIDE DEF y
<1>2. /\ thread' \in [Threads -> CallRecords \cup {None}]
      /\ thread'[p] = y /\ \A q \in Threads \ {p} : thread'[q] = thread[q]
      /\ p \in Holding /\ p \notin Holding' /\ Cardinality(Holding') = Cardinality(Holding) - 1
      /\ Cardinality(Busy') = Cardinality(Busy) - 1
      /\ Cardinality(Holding) \in Nat /\ Cardinality(Holding') \in Nat
      /\ Cardinality(Busy) \in Nat /\ Cardinality(Busy') \in Nat
  <2>1. (p \in Holding <=> TRUE) /\ thread'[p] = y
    BY <1>1 DEF Holding, IInv, TypeOK
  <2>2. p \in Holding' <=> FALSE
    BY <1>1, <2>1 DEF Holding
  <2> QED BY <1>1, <2>1, <2>2, Counts DEF IInv
<1>3. TypeOK'
  <2>1. /\ inUse' \in 0..PoolSize /\ Cardinality(Holding') <= inUse'
    BY <1>1, <1>2 DEF IInv, TypeOK
  <2>2. /\ monitor' \in Threads \cup {None}
        /\ monitor' # None => thread'[monitor'] # None /\ thread'[monitor'].at = "wait"
    BY <1>1, <1>2 DEF IInv, TypeOK
  <2>3. calls' \in 0..MaxCalls /\ restarts' \in 0..MaxRestarts /\ served' \in 0..MaxCalls
    BY <1>1, <1>2 DEF IInv, history, TypeOK, CallsCounted
  <2> QED BY <1>1, <1>2, <2>1, <2>2, <2>3 DEF IInv, redis, history, TypeOK
<1>4. CallsCounted'
  BY <1>1, <1>2 DEF IInv, redis, history, TypeOK, CallsCounted
<1>5. CallsKnow'
  BY <1>1, <1>2, CallType DEF IInv, redis, history, TypeOK, CallsKnow
<1>6. SpentCodesFollowed'
  BY <1>1, <1>2, CallType DEF IInv, redis, history, TypeOK, CallsKnow, SpentCodesFollowed
<1>7. StoredTokenFollowed'
  BY <1>1, <1>2, CallType DEF IInv, redis, history, TypeOK, CallsKnow, StoredTokenFollowed
<1>8. ConnectionsSpent'
  <2>1. inUse \in Int /\ served \in Int
    BY DEF IInv, TypeOK
  <2>2. /\ Cardinality(SpentOne) \in Nat /\ Cardinality(SpentOne') \in Nat
        /\ Cardinality(SpentTwo) \in Nat /\ Cardinality(SpentTwo') \in Nat
        /\ Cardinality(SpentOne') = Cardinality(SpentOne) - 1
        /\ Cardinality(SpentTwo') = Cardinality(SpentTwo) - 1
    BY <1>1, Spent DEF IInv
  <2> QED BY <1>1, <1>2, <2>1, <2>2 DEF IInv, history, ConnectionsSpent
<1> QED BY <1>3, <1>4, <1>5, <1>6, <1>7, <1>8 DEF IInv

\* A new token is stored, and its refresh token is to follow.
LEMMA StoreNewOK ==
  ASSUME IInv, NEW p \in Threads, StoreAccessToken(p), ~thread[p].existing
  PROVE  IInv'
<1> DEFINE y == [thread[p] EXCEPT !.operation = "storeRefreshToken", !.at = "enter"]
<1>1. /\ y \in CallRecords /\ y.at = "enter" /\ y.operation = "storeRefreshToken"
      /\ y.code = thread[p].code /\ y.got = thread[p].got /\ y.existing = thread[p].existing
      /\ thread[p] # None /\ thread[p].at = "use" /\ thread[p].operation = "storeAccessToken"
      /\ inUse' = inUse - 1
      /\ thread' = [thread EXCEPT ![p] = y]
      /\ accessToken' = TRUE /\ UNCHANGED <<codeStore, refreshToken>>
      /\ UNCHANGED <<monitor, calls, restarts, history>>
  <2>0. "storeRefreshToken" \in Operations
    BY DEF Operations
  <2>1. thread[p] \in CallRecords
    BY CallType DEF IInv, StoreAccessToken, Use
  <2>2. /\ y \in CallRecords /\ y.at = "enter" /\ y.operation = "storeRefreshToken"
        /\ y.code = thread[p].code
        /\ y.got = thread[p].got /\ y.existing = thread[p].existing
    BY <2>1, <2>0 DEF CallRecords
  <2>3. /\ Continue(p, "storeRefreshToken")
        /\ thread[p] # None /\ thread[p].at = "use" /\ thread[p].operation = "storeAccessToken"
        /\ accessToken' = TRUE /\ UNCHANGED <<codeStore, refreshToken>>
    BY DEF StoreAccessToken, Use, redis
  <2>4. inUse' = inUse - Returned(thread[p].operation)
    BY <2>3 DEF Continue
  <2>5. inUse' = inUse - 1
    BY <2>3, <2>4 DEF Returned, IInv, TypeOK
  <2> QED BY <2>2, <2>3, <2>5 DEF Continue
<1> HIDE DEF y
<1>2. /\ thread' \in [Threads -> CallRecords \cup {None}]
      /\ thread'[p] = y /\ \A q \in Threads \ {p} : thread'[q] = thread[q]
      /\ p \in Holding /\ p \notin Holding' /\ Cardinality(Holding') = Cardinality(Holding) - 1
      /\ Cardinality(Busy') = Cardinality(Busy)
      /\ Cardinality(Holding) \in Nat /\ Cardinality(Holding') \in Nat
      /\ Cardinality(Busy) \in Nat /\ Cardinality(Busy') \in Nat
  <2>1. (p \in Holding <=> TRUE) /\ thread'[p] = y
    BY <1>1 DEF Holding, IInv, TypeOK
  <2>2. p \in Holding' <=> FALSE
    BY <1>1, <2>1 DEF Holding
  <2> QED BY <1>1, <2>1, <2>2, Counts DEF IInv
<1>3. TypeOK'
  <2>1. /\ inUse' \in 0..PoolSize /\ Cardinality(Holding') <= inUse'
    BY <1>1, <1>2 DEF IInv, TypeOK
  <2>2. /\ monitor' \in Threads \cup {None}
        /\ monitor' # None => thread'[monitor'] # None /\ thread'[monitor'].at = "wait"
    BY <1>1, <1>2 DEF IInv, TypeOK
  <2>3. calls' \in 0..MaxCalls /\ restarts' \in 0..MaxRestarts /\ served' \in 0..MaxCalls
    BY <1>1, <1>2 DEF IInv, history, TypeOK, CallsCounted
  <2> QED BY <1>1, <1>2, <2>1, <2>2, <2>3 DEF IInv, redis, history, TypeOK
<1>4. CallsCounted'
  BY <1>1, <1>2 DEF IInv, redis, history, TypeOK, CallsCounted
<1>5. CallsKnow'
  BY <1>1, <1>2, CallType DEF IInv, redis, history, TypeOK, CallsKnow
<1>6. SpentCodesFollowed'
  BY <1>1, <1>2, CallType DEF IInv, redis, history, TypeOK, CallsKnow, SpentCodesFollowed
<1>7. StoredTokenFollowed'
  BY <1>1, <1>2, CallType DEF IInv, redis, history, TypeOK, CallsKnow, StoredTokenFollowed
<1>8. ConnectionsSpent'
  <2>1. inUse \in Int /\ served \in Int
    BY DEF IInv, TypeOK
  <2>2. /\ Cardinality(SpentOne) \in Nat /\ Cardinality(SpentOne') \in Nat
        /\ Cardinality(SpentTwo) \in Nat /\ Cardinality(SpentTwo') \in Nat
        /\ Cardinality(SpentOne') = Cardinality(SpentOne)
        /\ Cardinality(SpentTwo') = Cardinality(SpentTwo)
    BY <1>1, Spent DEF IInv
  <2> QED BY <1>1, <1>2, <2>1, <2>2 DEF IInv, history, ConnectionsSpent
<1> QED BY <1>3, <1>4, <1>5, <1>6, <1>7, <1>8 DEF IInv

\* The refresh token is stored.
LEMMA StoreRefreshTokenOK ==
  ASSUME IInv, NEW p \in Threads, StoreRefreshToken(p)
  PROVE  IInv'
<1> DEFINE y == None
<1>1. /\ y = None
      /\ thread[p] # None /\ thread[p].at = "use" /\ thread[p].operation = "storeRefreshToken"
      /\ inUse' = inUse - 1
      /\ thread' = [thread EXCEPT ![p] = y]
      /\ refreshToken' = TRUE /\ UNCHANGED <<codeStore, accessToken>>
      /\ UNCHANGED <<monitor, calls, restarts, stopped>>
      /\ served' = served + 1 /\ tokens' = TRUE
      /\ redeemed' = redeemed \cup ({thread[p].code} \cap Codes)
  BY DEF IInv, TypeOK, StoreRefreshToken, Use, Answer, Finish, Returned, redis
<1> HIDE DEF y
<1>2. /\ thread' \in [Threads -> CallRecords \cup {None}]
      /\ thread'[p] = y /\ \A q \in Threads \ {p} : thread'[q] = thread[q]
      /\ p \in Holding /\ p \notin Holding' /\ Cardinality(Holding') = Cardinality(Holding) - 1
      /\ Cardinality(Busy') = Cardinality(Busy) - 1
      /\ Cardinality(Holding) \in Nat /\ Cardinality(Holding') \in Nat
      /\ Cardinality(Busy) \in Nat /\ Cardinality(Busy') \in Nat
  <2>1. (p \in Holding <=> TRUE) /\ thread'[p] = y
    BY <1>1 DEF Holding, IInv, TypeOK
  <2>2. p \in Holding' <=> FALSE
    BY <1>1, <2>1 DEF Holding
  <2> QED BY <1>1, <2>1, <2>2, Counts DEF IInv
<1>3. TypeOK'
  <2>1. /\ inUse' \in 0..PoolSize /\ Cardinality(Holding') <= inUse'
    BY <1>1, <1>2 DEF IInv, TypeOK
  <2>2. /\ monitor' \in Threads \cup {None}
        /\ monitor' # None => thread'[monitor'] # None /\ thread'[monitor'].at = "wait"
    BY <1>1, <1>2 DEF IInv, TypeOK
  <2>3. calls' \in 0..MaxCalls /\ restarts' \in 0..MaxRestarts /\ served' \in 0..MaxCalls
    BY <1>1, <1>2 DEF IInv, history, TypeOK, CallsCounted
  <2> QED BY <1>1, <1>2, <2>1, <2>2, <2>3 DEF IInv, redis, history, TypeOK
<1>4. CallsCounted'
  BY <1>1, <1>2 DEF IInv, redis, history, TypeOK, CallsCounted
<1>5. CallsKnow'
  BY <1>1, <1>2, CallType DEF IInv, redis, history, TypeOK, CallsKnow
<1>6. SpentCodesFollowed'
  BY <1>1, <1>2, CallType DEF IInv, redis, history, TypeOK, CallsKnow, SpentCodesFollowed
<1>7. StoredTokenFollowed'
  BY <1>1, <1>2, CallType DEF IInv, redis, history, TypeOK, CallsKnow, StoredTokenFollowed
<1>8. ConnectionsSpent'
  <2>1. inUse \in Int /\ served \in Int
    BY DEF IInv, TypeOK
  <2>2. /\ Cardinality(SpentOne) \in Nat /\ Cardinality(SpentOne') \in Nat
        /\ Cardinality(SpentTwo) \in Nat /\ Cardinality(SpentTwo') \in Nat
        /\ Cardinality(SpentOne') = Cardinality(SpentOne) - 1
        /\ Cardinality(SpentTwo') = Cardinality(SpentTwo) - 1
    BY <1>1, Spent DEF IInv
  <2> QED BY <1>1, <1>2, <2>1, <2>2 DEF IInv, history, ConnectionsSpent
<1> QED BY <1>3, <1>4, <1>5, <1>6, <1>7, <1>8 DEF IInv

-----------------------------------------------------------------------------
(* The restart, and the invariant.                                          *)

\* What every call leaves behind is recorded; nobody is busy any more.
LEMMA RestartOK ==
  ASSUME IInv, Restart
  PROVE  IInv'
<1>1. \A p \in Threads : thread'[p] = None
  BY DEF Restart
<1>2. /\ Holding' = {} /\ Busy' = {} /\ SpentOne' = {} /\ SpentTwo' = {}
      /\ Cardinality(Holding') = 0 /\ Cardinality(Busy') = 0
      /\ Cardinality(SpentOne') = 0 /\ Cardinality(SpentTwo') = 0
  BY <1>1, FS_EmptySet DEF Holding, Busy, SpentOne, SpentTwo
<1>3. /\ IsFiniteSet(Busy) /\ Cardinality(Busy) \in Nat
  <2>1. Busy \subseteq Threads
    BY DEF Busy
  <2> QED BY <2>1, FS_Subset, FS_CardinalityType
<1>4. /\ stopped \subseteq stopped'
      /\ \A p \in Threads : thread[p] # None => StoppedAt(p) \subseteq stopped'
  BY DEF Restart
<1>5. stopped' \subseteq Codes \cup {"storeRefreshToken"}
  <2>1. \A p \in Threads : thread[p] # None => StoppedAt(p) \subseteq Codes \cup {"storeRefreshToken"}
    BY DEF StoppedAt, IInv, CallsKnow
  <2> QED BY <2>1 DEF Restart, IInv, TypeOK
<1>6. TypeOK'
  BY <1>1, <1>2, <1>5 DEF IInv, TypeOK, Restart, redis
<1>7. CallsCounted'
  BY <1>2, <1>3 DEF IInv, TypeOK, CallsCounted, Restart
<1>8. CallsKnow'
  BY <1>1 DEF CallsKnow
<1>9. SpentCodesFollowed'
  <2> SUFFICES ASSUME NEW c \in Codes \ codeStore
               PROVE  c \in redeemed \cup stopped'
    BY DEF SpentCodesFollowed, Restart, redis
  <2>1. CASE c \in redeemed \cup stopped
    BY <1>4, <2>1
  <2>2. CASE c \notin redeemed \cup stopped
    <3>1. PICK q \in Threads : /\ thread[q] # None /\ thread[q].code = c /\ thread[q].got
                              /\ thread[q].operation # "remove"
      BY <2>2 DEF IInv, SpentCodesFollowed
    <3>2. c \in StoppedAt(q)
      BY <3>1 DEF StoppedAt
    <3> QED BY <1>4, <3>1, <3>2
  <2> QED BY <2>1, <2>2
<1>10. StoredTokenFollowed'
  <2>1. \A p \in Threads : thread[p] # None /\ thread[p].operation = "storeRefreshToken"
                           => "storeRefreshToken" \in stopped'
    BY <1>4 DEF StoppedAt
  <2> QED BY <1>4, <2>1 DEF IInv, StoredTokenFollowed, Restart, redis
<1>11. ConnectionsSpent'
  BY <1>2 DEF ConnectionsSpent, Restart
<1> QED BY <1>6, <1>7, <1>8, <1>9, <1>10, <1>11 DEF IInv

\* Before the calls, all codes are stored and nothing is lent.
LEMMA InitOK == Init => IInv
<1> SUFFICES ASSUME Init PROVE IInv
  OBVIOUS
<1>1. /\ Holding = {} /\ Busy = {} /\ SpentOne = {} /\ SpentTwo = {}
      /\ Cardinality(Holding) = 0 /\ Cardinality(Busy) = 0
      /\ Cardinality(SpentOne) = 0 /\ Cardinality(SpentTwo) = 0
  BY FS_EmptySet DEF Init, Holding, Busy, SpentOne, SpentTwo
<1>2. thread \in [Threads -> CallRecords \cup {None}]
  BY DEF Init
<1>3. inUse \in 0..PoolSize /\ Cardinality(Holding) <= inUse
  BY <1>1 DEF Init
<1>4. TypeOK
  <2>1. calls \in 0..MaxCalls /\ restarts \in 0..MaxRestarts /\ served \in 0..MaxCalls
    BY DEF Init
  <2>2. /\ codeStore \subseteq Codes /\ redeemed \subseteq Codes
        /\ stopped \subseteq Codes \cup {"storeRefreshToken"}
        /\ accessToken \in BOOLEAN /\ refreshToken \in BOOLEAN /\ tokens \in BOOLEAN
    BY DEF Init
  <2>3. monitor = None
    BY DEF Init
  <2> QED BY <1>2, <1>3, <2>1, <2>2, <2>3 DEF TypeOK
<1>5. CallsCounted
  BY <1>1 DEF Init, CallsCounted
<1>6. ConnectionsSpent
  BY <1>1 DEF Init, ConnectionsSpent
<1> QED BY <1>4, <1>5, <1>6 DEF Init, IInv, CallsKnow, SpentCodesFollowed, StoredTokenFollowed

LEMMA StutterOK ==
  ASSUME IInv, UNCHANGED vars
  PROVE  IInv'
BY DEF IInv, vars, TypeOK, Holding, CallsCounted, Busy, CallsKnow,
       ConnectionsSpent, SpentOne, SpentTwo, SpentCodesFollowed, StoredTokenFollowed

\* What a thread does keeps the invariant.
LEMMA StepOK ==
  ASSUME IInv, NEW p \in Threads, Step(p)
  PROVE  IInv'
<1>1. CASE Enter(p)
  BY <1>1, EnterOK
<1>2. CASE GetResource(p)
  BY <1>2, GetResourceOK
<1>3. CASE Timeout(p)
  BY <1>3, TimeoutOK
<1>4. CASE GetCode(p)
  BY <1>4, GetCodeOK
<1>5. CASE DeleteCode(p)
  BY <1>5, DeleteCodeFoundOK, DeleteCodeGoneOK
<1>6. CASE GetAccessToken(p)
  BY <1>6, GetAccessTokenOK
<1>7. CASE ReadAuthentication(p)
  BY <1>7, ReadForGrantOK, ReadForLoadOK
<1>8. CASE ReadAccessToken(p)
  BY <1>8, ReadAccessTokenOK
<1>9. CASE StoreAccessToken(p)
  BY <1>9, StoreAgainOK, StoreNewOK
<1>10. CASE StoreRefreshToken(p)
  BY <1>10, StoreRefreshTokenOK
<1> QED BY <1>1, <1>2, <1>3, <1>4, <1>5, <1>6, <1>7, <1>8, <1>9, <1>10 DEF Step

LEMMA NextOK ==
  ASSUME IInv, [Next]_vars
  PROVE  IInv'
<1>1. ASSUME NEW p \in Threads, LoadAuthentication(p)
      PROVE  IInv'
  <2>1. None \in Codes \cup {None} /\ tokens /\ Start(p, "readAccessToken", None)
    BY <1>1 DEF LoadAuthentication
  <2> QED BY <2>1, StartOK
<1>2. ASSUME NEW p \in Threads, NEW c \in Codes, Exchange(p, c)
      PROVE  IInv'
  <2>1. c # None /\ Start(p, "remove", c)
    BY <1>2 DEF Exchange
  <2> QED BY <2>1, StartOK
<1> QED BY <1>1, <1>2, StepOK, RestartOK, StutterOK DEF Next

\* The inductive invariant of every pool, of any number of threads, codes, calls and
\* restarts.
THEOREM RedisInvariant == Spec => []IInv
BY InitOK, NextOK, PTL DEF Spec

\* The types; no more operations are on a connection than the pool has lent, although
\* operations that are over may hold some too.
THEOREM TypeCorrect == Spec => []TypeOK
<1>1. IInv => TypeOK
  BY DEF IInv
<1> QED BY <1>1, RedisInvariant, PTL

\* A call that is answered costs the pool two connections at least.
THEOREM AnswersCost == Spec => []EveryAnswerCostsTwo
<1>1. ASSUME IInv PROVE EveryAnswerCostsTwo
  <2>1. /\ Holding \subseteq Threads /\ SpentOne \subseteq Threads
        /\ SpentTwo \subseteq Threads
    BY DEF Holding, SpentOne, SpentTwo, Busy
  <2>2. /\ Cardinality(Holding) \in Nat /\ Cardinality(SpentOne) \in Nat
        /\ Cardinality(SpentTwo) \in Nat
    BY <2>1, FS_Subset, FS_CardinalityType
  <2>3. inUse \in Int /\ served \in Int
    BY <1>1 DEF IInv, TypeOK
  <2> QED BY <1>1, <2>2, <2>3 DEF IInv, ConnectionsSpent, EveryAnswerCostsTwo
<1> QED BY <1>1, RedisInvariant, PTL

\* A code that is gone was answered, will be, or was lost by a call that was stopped.
THEOREM SpentCodes == Spec => []SpentCodeAnswered
<1>1. IInv => SpentCodeAnswered
  BY DEF IInv, SpentCodesFollowed, SpentCodeAnswered
<1> QED BY <1>1, RedisInvariant, PTL

\* The refresh token follows the access token, or a call was stopped before it.
THEOREM RefreshTokens == Spec => []RefreshTokenFollows
<1>1. IInv => RefreshTokenFollows
  BY DEF IInv, StoredTokenFollowed, RefreshTokenFollows
<1> QED BY <1>1, RedisInvariant, PTL
=============================================================================
