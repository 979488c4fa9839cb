-------------------------- MODULE AuthorizationCodes --------------------------
(***************************************************************************)
(* The authorization code grant: AuthorizationEndpoint asks the user and    *)
(* issues a code, AuthorizationCodeTokenGranter redeems it, and between     *)
(* them InMemoryAuthorizationCodeServices keeps codes in an Ehcache cache   *)
(* with a time to live, or JdbcAuthorizationCodeServices keeps them in a    *)
(* table where they stay.  Requests are served by threads.                  *)
(*                                                                          *)
(* The AuthorizationRequest that authorize puts into the session is one     *)
(* object: approveOrDeny, in whatever thread, gets that object from the     *)
(* session and changes it in place.                                         *)
(***************************************************************************)
EXTENDS Integers, FiniteSets

CONSTANTS
  Threads,     \* request threads
  Sessions,    \* user sessions
  Requests,    \* AuthorizationRequest objects
  Codes,       \* the UUIDs codes may be given
  Clients,     \* registered OAuth clients
  Redirects,   \* redirect URIs, one for all that start with it
  Registered,  \* the redirect URIs of each client
  TimeToLive,  \* of a code
  MaxTime,     \* bound on the clock
  None

ASSUME CodesAssumption ==
  /\ Registered \in [Clients -> (SUBSET Redirects) \ {{}}]
  /\ TimeToLive \in Nat \ {0}
  /\ MaxTime \in Nat

VARIABLES
  codeServices,  \* which AuthorizationCodeServices are wired
  now,        \* the clock
  session,    \* the session attribute authorizationRequest, or None
  request,    \* the fields of each AuthorizationRequest, None if not created
  codeStore,  \* the cache or table: what each code stands for, when the cache drops it
  thread,     \* what each thread is doing, None when it is idle
  issued,     \* history: the authentication each code was issued for
  said,       \* history: the submissions to each request
  decided,    \* history: what became of each request, when it was decided last
  redeemed    \* history: how often each client has redeemed each code

vars == <<codeServices, now, session, request, codeStore, thread, issued, said, decided,
          redeemed>>

Decisions == {"true", "false"}

\* What a code stands for: the OAuth2Request is made of the request's fields,
\* and decision is, for the properties, what the submission said.
Authentications ==
  [of : Requests, session : Sessions, client : Clients,
   redirect : Redirects \cup {None}, decision : Decisions]

RequestObjects ==
  [session : Sessions, client : Clients, redirect : Redirects \cup {None},
   parameter : Decisions \cup {None}, approved : BOOLEAN]

Submissions ==
  [step : {"setApprovalParameters", "getApprovalParameters", "updateAfterApproval",
           "isApproved", "setApproved", "answer", "setComplete"},
   session : Sessions, of : Requests, decision : Decisions, flag : BOOLEAN]

Redemptions ==
  [step : {"get", "remove"}, code : Codes, client : Clients,
   redirect : Redirects \cup {None}, auth : Authentications \cup {None}]

StoredCodes == [auth : Authentications, expires : Nat]

ASSUME SentinelAssumption ==
  None \notin Requests \cup Clients \cup Decisions \cup {"approved", "denied"}
             \cup Authentications \cup RequestObjects \cup Submissions \cup Redemptions
             \cup StoredCodes

TypeOK ==
  /\ codeServices \in {"InMemory", "Jdbc"}
  /\ now \in Nat
  /\ session \in [Sessions -> Requests \cup {None}]
  /\ request \in [Requests -> RequestObjects \cup {None}]
  /\ codeStore \in [Codes -> StoredCodes \cup {None}]
  /\ thread \in [Threads -> Submissions \cup Redemptions \cup {None}]
  /\ issued \in [Codes -> Authentications \cup {None}]
  /\ said \in [Requests -> SUBSET Decisions]
  /\ decided \in [Requests -> {"approved", "denied", None}]
  /\ redeemed \in [Codes -> [Clients -> Nat]]

Init ==
  /\ codeServices \in {"InMemory", "Jdbc"}
  /\ now = 0
  /\ session = [s \in Sessions |-> None]
  /\ request = [q \in Requests |-> None]
  /\ codeStore = [c \in Codes |-> None]
  /\ thread = [p \in Threads |-> None]
  /\ issued = [c \in Codes |-> None]
  /\ said = [q \in Requests |-> {}]
  /\ decided = [q \in Requests |-> None]
  /\ redeemed = [c \in Codes |-> [client \in Clients |-> 0]]

At(p, step) == thread[p] # None /\ thread[p].step = step
Goto(p, step) == thread' = [thread EXCEPT ![p].step = step]
Idle(p) == thread' = [thread EXCEPT ![p] = None]

-----------------------------------------------------------------------------
(* authorize: a new AuthorizationRequest goes into the session, in place of *)
(* the one a user has not yet decided.  DefaultUserApprovalHandler does not *)
(* remember decisions, so the user is always asked.                         *)

\* DefaultRedirectResolver: a sole registered URI need not be named.
Resolves(client, redirect) ==
  IF redirect = None THEN Cardinality(Registered[client]) = 1
                     ELSE redirect \in Registered[client]

Authorize(s, q, client, redirect) ==
  /\ request[q] = None
  /\ Resolves(client, redirect)
  /\ request' = [request EXCEPT ![q] =
       [session |-> s, client |-> client, redirect |-> redirect,
        parameter |-> None, approved |-> FALSE]]
  /\ session' = [session EXCEPT ![s] = q]
  /\ UNCHANGED <<codeServices, now, codeStore, thread, issued, said, decided, redeemed>>

\* A request that is refused empties the session too.
AuthorizeRefused(s, client, redirect) ==
  /\ ~Resolves(client, redirect)
  /\ session' = [session EXCEPT ![s] = None]
  /\ UNCHANGED <<codeServices, now, request, codeStore, thread, issued, said, decided, redeemed>>

-----------------------------------------------------------------------------
(* approveOrDeny, one access to the AuthorizationRequest at a time.         *)

\* The handler is entered with the session's attribute in its model; without
\* one the submission fails and changes nothing.
Submit(p, s, decision) ==
  /\ thread[p] = None
  /\ session[s] # None
  /\ thread' = [thread EXCEPT ![p] =
       [step |-> "setApprovalParameters", session |-> s, of |-> session[s],
        decision |-> decision, flag |-> FALSE]]
  /\ said' = [said EXCEPT ![session[s]] = @ \cup {decision}]
  /\ UNCHANGED <<codeServices, now, session, request, codeStore, issued, decided, redeemed>>

SetApprovalParameters(p) ==
  /\ At(p, "setApprovalParameters")
  /\ request' = [request EXCEPT ![thread[p].of].parameter = thread[p].decision]
  /\ Goto(p, "getApprovalParameters")
  /\ UNCHANGED <<codeServices, now, session, codeStore, issued, said, decided, redeemed>>

\* MUTANT: whatever the parameter says is a yes.
GetApprovalParameters_AnyValue(p) ==
  /\ At(p, "getApprovalParameters")
  /\ thread' = [thread EXCEPT ![p].step = "updateAfterApproval",
                              ![p].flag = request[thread[p].of].parameter # None]
  /\ UNCHANGED <<codeServices, now, session, request, codeStore, issued, said, decided, redeemed>>

\* MUTANT: a flag is only made of a yes, and left null otherwise.
GetApprovalParameters_Nullable(p) ==
  /\ At(p, "getApprovalParameters")
  /\ thread' = [thread EXCEPT ![p].step = "updateAfterApproval",
       ![p].flag = IF request[thread[p].of].parameter = "true" THEN TRUE ELSE None]
  /\ UNCHANGED <<codeServices, now, session, request, codeStore, issued, said, decided, redeemed>>

\* updateAfterApproval reads the parameters it finds in the request ...
GetApprovalParameters(p) ==
  /\ At(p, "getApprovalParameters")
  /\ LET flag == request[thread[p].of].parameter = "true"
     IN thread' = [thread EXCEPT ![p] = [@ EXCEPT !.step = "updateAfterApproval", !.flag = flag]]
  /\ UNCHANGED <<codeServices, now, session, request, codeStore, issued, said, decided, redeemed>>

\* ... and sets approved, which approveOrDeny reads back and sets again.
SetApproved(p, step, next) ==
  /\ At(p, step)
  /\ request' = [request EXCEPT ![thread[p].of].approved = thread[p].flag]
  /\ Goto(p, next)
  /\ UNCHANGED <<codeServices, now, session, codeStore, issued, said, decided, redeemed>>

IsApproved(p) ==
  /\ At(p, "isApproved")
  /\ LET flag == request[thread[p].of].approved
     IN thread' = [thread EXCEPT ![p] = [@ EXCEPT !.step = "setApproved", !.flag = flag]]
  /\ UNCHANGED <<codeServices, now, session, request, codeStore, issued, said, decided, redeemed>>

Deny(p) ==
  /\ At(p, "answer")
  /\ ~request[thread[p].of].approved
  /\ decided' = [decided EXCEPT ![thread[p].of] = "denied"]
  /\ Goto(p, "setComplete")
  /\ UNCHANGED <<codeServices, now, session, request, codeStore, issued, said, redeemed>>

\* generateCode and createAuthorizationCode.
GenerateCode(p, c) ==
  /\ At(p, "answer") /\ issued[c] = None
  /\ LET q == thread[p].of
         auth == [of |-> q, session |-> request[q].session, client |-> request[q].client,
                  redirect |-> request[q].redirect, decision |-> thread[p].decision]
     IN /\ request[q].approved
        /\ codeStore' = [codeStore EXCEPT ![c] = [auth |-> auth, expires |-> now + TimeToLive]]
        /\ issued' = [issued EXCEPT ![c] = auth]
        /\ decided' = [decided EXCEPT ![q] = "approved"]
  /\ Goto(p, "setComplete")
  /\ UNCHANGED <<codeServices, now, session, request, said, redeemed>>

\* MUTANT: the session is left as it was.
SetComplete_KeepsRequest(p) ==
  /\ At(p, "setComplete")
  /\ Idle(p)
  /\ UNCHANGED <<codeServices, now, session, request, codeStore, issued, said, decided, redeemed>>

\* setComplete in the finally block: the attribute is removed, whatever request
\* another tab has put there meanwhile.
SetComplete(p) ==
  /\ At(p, "setComplete")
  /\ session' = [session EXCEPT ![thread[p].session] = None]
  /\ Idle(p)
  /\ UNCHANGED <<codeServices, now, request, codeStore, issued, said, decided, redeemed>>

-----------------------------------------------------------------------------
(* The token request: consumeAuthorizationCode, then the granter's checks.  *)

Redeem(p, c, client, redirect) ==
  /\ thread[p] = None
  /\ issued[c] # None
  /\ thread' = [thread EXCEPT ![p] =
       [step |-> "get", code |-> c, client |-> client, redirect |-> redirect, auth |-> None]]
  /\ UNCHANGED <<codeServices, now, session, request, codeStore, issued, said, decided, redeemed>>

\* Ehcache: an entry whose time has come is not there.  A row of the table has no
\* time.
Found(c) ==
  /\ codeStore[c] # None
  /\ codeServices = "InMemory" => now < codeStore[c].expires

\* MUTANT: the time to live counts from the last access.
Get_TimeToIdle(p) ==
  /\ At(p, "get")
  /\ LET c == thread[p].code
     IN /\ thread' = [thread EXCEPT ![p].step = "remove",
                        ![p].auth = IF Found(c) THEN codeStore[c].auth ELSE None]
        /\ codeStore' = IF codeStore[c] = None THEN codeStore
                        ELSE [codeStore EXCEPT ![c].expires = now + TimeToLive]
  /\ UNCHANGED <<codeServices, now, session, request, issued, said, decided, redeemed>>

Get(p) ==
  /\ At(p, "get")
  /\ LET c == thread[p].code
         auth == IF Found(c) THEN codeStore[c].auth ELSE None
     IN thread' = [thread EXCEPT ![p] = [@ EXCEPT !.step = "remove", !.auth = auth]]
  /\ UNCHANGED <<codeServices, now, session, request, codeStore, issued, said, decided, redeemed>>

\* The granter's checks.  The redirect URI is compared with those registered for
\* the client, and without one the comparison throws (null.startsWith).
Accepted(o) ==
  /\ o.auth # None
  /\ o.redirect # None /\ o.redirect \in Registered[o.client]
  /\ o.client = o.auth.client

\* The cache drops the code; the table is touched only if the select found a row.
Removed(o) ==
  IF codeServices = "Jdbc" /\ o.auth = None THEN codeStore
                                            ELSE [codeStore EXCEPT ![o.code] = None]

\* The code goes, whether the checks that follow succeed or not.
Remove(p) ==
  /\ At(p, "remove")
  /\ codeStore' = Removed(thread[p])
  /\ LET o == thread[p]
     IN redeemed' = IF Accepted(o) THEN [redeemed EXCEPT ![o.code][o.client] = @ + 1]
                                   ELSE redeemed
  /\ Idle(p)
  /\ UNCHANGED <<codeServices, now, session, request, issued, said, decided>>

Tick ==
  /\ now < MaxTime
  /\ now' = now + 1
  /\ UNCHANGED <<codeServices, session, request, codeStore, thread, issued, said, decided,
                 redeemed>>

Step(p) ==
  \/ SetApprovalParameters(p) \/ GetApprovalParameters(p)
  \/ SetApproved(p, "updateAfterApproval", "isApproved")
  \/ IsApproved(p)
  \/ SetApproved(p, "setApproved", "answer")
  \/ Deny(p) \/ \E c \in Codes : GenerateCode(p, c)
  \/ SetComplete(p)
  \/ Get(p) \/ Remove(p)

Next ==
  \/ \E s \in Sessions, client \in Clients, redirect \in Redirects \cup {None} :
       \/ \E q \in Requests : Authorize(s, q, client, redirect)
       \/ AuthorizeRefused(s, client, redirect)
  \/ \E p \in Threads :
       \/ \E s \in Sessions, decision \in Decisions : Submit(p, s, decision)
       \/ \E c \in Codes, client \in Clients, redirect \in Redirects \cup {None} :
            Redeem(p, c, client, redirect)
       \/ Step(p)
  \/ Tick

Spec == Init /\ [][Next]_vars

-----------------------------------------------------------------------------
(* Properties.                                                              *)

\* A code that was removed or has expired is not accepted again: a client that
\* retries, or that comes after an attempt which failed, gets no token for it.
UsedUpStaysUsedUp ==
  [][\A c \in Codes : issued[c] # None /\ ~Found(c) => ~Found(c)']_vars

\* However the threads of a session mix up their submissions, a code stands for
\* what was asked in that session, and somebody has said yes to it.
NoCodeWithoutApproval ==
  \A c \in Codes : issued[c] # None =>
    LET q == issued[c].of
    IN /\ issued[c].client = request[q].client
       /\ issued[c].session = request[q].session
       /\ "true" \in said[q]

\* DefaultUserApprovalHandler: "Whether the specified request has been approved by
\* the current user".  A submission that said no gets no code.
DecisionHonoured ==
  \A c \in Codes : issued[c] # None => issued[c].decision = "true"

\* AuthorizationCodeServices: "Consume a authorization code.", and
\* "@throws InvalidGrantException If the authorization code is invalid or expired":
\* a code that one token request has consumed is no good to another one.
RedeemedOnce ==
  \A c \in Codes : \A client1, client2 \in Clients :
    /\ redeemed[c][client1] <= 1
    /\ redeemed[c][client1] > 0 /\ redeemed[c][client2] > 0 => client1 = client2

-----------------------------------------------------------------------------
(* The grant as its users see it: a code is used up when it is got from the *)
(* store, and from then on either redeemed or void.                         *)

Got(c) == {p \in Threads : At(p, "remove") /\ thread[p].code = c /\ thread[p].auth # None}

Redeemers(c) ==
  {client \in Clients : redeemed[c][client] > 0}
  \cup {thread[p].client : p \in {x \in Got(c) : Accepted(thread[x])}}

Asker == [q \in Requests |-> IF request[q] = None THEN None ELSE request[q].client]
Origin == [c \in Codes |-> IF issued[c] = None THEN None ELSE issued[c].of]
Valid == {c \in Codes : Found(c) /\ Got(c) = {}}
TheOne(S) == IF S = {} THEN None ELSE CHOOSE x \in S : TRUE
Redeemer == [c \in Codes |-> TheOne(Redeemers(c))]

Grant == INSTANCE CodeGrant WITH
  asker <- Asker, decision <- decided, origin <- Origin, valid <- Valid,
  redeemer <- Redeemer

\* When requests do not overlap, a request is decided once, an approved one gets
\* one code, and a code is redeemed at most once, by the client that asked for it
\* and before it expires, however tabs, retries and wrong clients come in between.
ImplementsCodeGrant == Grant!Spec

-----------------------------------------------------------------------------
(* The inductive invariant.                                                 *)

Submitting(p) == thread[p] # None /\ thread[p].step \notin {"get", "remove"}
Redeeming(p) == thread[p] # None /\ thread[p].step \in {"get", "remove"}

\* A session holds a request of its own.
SessionsHoldRequests ==
  \A s \in Sessions : session[s] # None =>
    request[session[s]] # None /\ request[session[s]].session = s

\* A request is not decided before it is made; the yes in it is somebody's.
RequestsSaid ==
  \A q \in Requests :
    /\ request[q] = None => decided[q] = None
    /\ request[q] # None /\ (request[q].parameter = "true" \/ request[q].approved)
         => "true" \in said[q]

\* A submission is to a request of its session, and the yes in it is somebody's.
SubmissionsSaid ==
  \A p \in Threads : Submitting(p) =>
    LET o == thread[p]
    IN /\ request[o.of] # None /\ request[o.of].session = o.session
       /\ o.decision \in said[o.of]
       /\ o.flag => "true" \in said[o.of]

\* The store has codes as they were issued, and none that was redeemed.
CodesStored ==
  \A c \in Codes :
    /\ issued[c] # None => request[issued[c].of] # None
    /\ codeStore[c] # None => issued[c] # None /\ codeStore[c].auth = issued[c]
    /\ \A client \in Clients : redeemed[c][client] > 0 => issued[c] # None /\ codeStore[c] = None

\* What a token request has got is what was issued; what it has not got is gone.
RedemptionsKnow ==
  \A p \in Threads : Redeeming(p) =>
    LET o == thread[p]
    IN /\ issued[o.code] # None
       /\ o.step = "get" => o.auth = None
       /\ o.step = "remove" /\ o.auth # None => o.auth = issued[o.code]
       /\ o.step = "remove" /\ o.auth = None => ~Found(o.code)

IInv ==
  /\ TypeOK
  /\ SessionsHoldRequests
  /\ RequestsSaid
  /\ SubmissionsSaid
  /\ CodesStored
  /\ RedemptionsKnow
  /\ NoCodeWithoutApproval

-----------------------------------------------------------------------------
(* What more holds when requests do not overlap.                            *)

OneThread == \A p1, p2 \in Threads : p1 = p2

\* Nobody else writes to the request between two steps of a submission.
DecisionKept ==
  \A p \in Threads : Submitting(p) =>
    LET o == thread[p]
        yes == o.decision = "true"
    IN /\ o.step = "getApprovalParameters" => request[o.of].parameter = o.decision
       /\ o.step \in {"updateAfterApproval", "setApproved"} => (o.flag <=> yes)
       /\ o.step \in {"isApproved", "answer"} => (request[o.of].approved <=> yes)

\* A request that is decided is on its way out of the session.
DecidedOnce ==
  /\ \A p \in Threads : Submitting(p) /\ thread[p].step # "setComplete" =>
       decided[thread[p].of] = None
  /\ \A s \in Sessions : session[s] # None /\ decided[session[s]] # None =>
       \E p \in Threads : At(p, "setComplete") /\ thread[p].session = s

OneThreadInv ==
  /\ IInv
  /\ DecisionKept
  /\ DecidedOnce
  /\ DecisionHonoured
=============================================================================
