# MaxKey: models and proofs

MaxKey is a single sign-on server: users log in once, and applications get
their identity over OAuth 2.0 / OpenID Connect, SAML 2.0, CAS, or a simpler
token. This directory holds TLA+ models of the parts that keep *state shared by
concurrent requests*, the configurations that check them with TLC, and proofs
checked with TLAPS.

`PROJECT.json` names, for every definition that stands for code, the lines it
stands for; for every hazard, the line where it bites and the properties about
it.

Paths below are relative to
`src/maxkey-protocols/maxkey-protocol-oauth-2.0/src/main/java/org/maxkey/authz/oauth2/`
unless they start with `src/` or `maxkey-`.

## 1. Inventory

### The system

| Component | State it keeps | Operations | Hard behaviours |
|---|---|---|---|
| In-memory token store (`provider/token/store/InMemoryTokenStore`) | nine maps, a delay queue, an insert counter | store, read, remove access and refresh tokens; `flush` every 1000 inserts; `clear` | each call updates up to nine maps, one after the other, with no lock |
| Token services (`provider/token/DefaultTokenServices`) | none of its own | `createAccessToken`, `refreshAccessToken`, `loadAuthentication`, `revokeToken` | sequences of store calls with expiry checks between them; the store may change between two of them |
| Authorization code grant (`provider/endpoint/AuthorizationEndpoint`, `provider/code/*`) | an `AuthorizationRequest` in the HTTP session; a cache of codes with a time to live | `authorize`, `approveOrDeny`, code redemption | two tabs share a session, two token requests share a code, a code expires while it is redeemed |
| Implicit and client credentials grants | none | straight to `createAccessToken` | as the token services |
| Approvals (`provider/approval/*`) | approvals per user and client, or tokens in their place | remember, look up, revoke | revocation against issue |
| Redis and JDBC stores | the same relations in lists, keys or a table | as the in-memory store | several statements per call, connections of a pool that are not given back, restarts in the middle of a call |
| OpenID Connect (`org/maxkey/authz/oidc`) | none | sign an id token, answer user info | none beyond the token store |
| CAS (`maxkey-protocol-cas`) | service tickets in a cache, Redis or a table | create, consume, validate | a ticket is worth one validation, in time, for one service |
| Login and lockout (`maxkey-core`, `authn`, `authn/realm`) | bad-password count, lock state and login history of each user; the password policy in a field; the user's session | check, count, lock; switch the session, write the history; log out | the count is read before the check and written after it; the policy is cached; writes fail half-way |
| Remember-me (`maxkey-core`, `authn/support/rememberme`) | a record per cookie (JDBC) or per user (in-memory, Redis) | create, validate, update, remove | several browsers of one user, tabs that log in at the same time, a logout meanwhile |
| One-time passwords (`maxkey-core`, `crypto/password/opt`) | issued passwords; the counter of HOTP | produce, validate | use twice, use late, two validations at a time |
| Provisioning (`maxkey-identity-kafka`, `maxkey-connectors`) | none; a thread per message | send a change, apply it | order and loss of messages |
| SAML 2.0, token-based, form-based, desktop, extended API sign-on | none of their own | format and sign a user's data | none across requests |
| Persistence (`maxkey-persistence`), management and sign-on applications, SCIM and REST interfaces | the database | mappers and controllers | input and output |
| Cryptography and keystores, social authentication, client SDK | none | library calls and adapters | none across requests |

Everything else in the repository is vendored JavaScript, style sheets,
documents, database scripts and examples.

### How the parts interact

* `AuthorizationEndpoint` puts a request into the session, asks the user, and
  puts a code into the code cache. `AuthorizationCodeTokenGranter` takes the
  code out and hands the stored authentication to
  `DefaultTokenServices.createAccessToken`. All of it happens in threads of the
  servlet container; the session, the cache and the token store are the only
  things they share.
* The applications' requests for user data end in `loadAuthentication` and
  `readAccessToken` of the same token store.
* `Oauth20AutoConfiguration` (`src/maxkey-web-maxkey/...`) wires it: persistence
  0 is the in-memory store, 1 is JDBC, 2 is Redis; `supportRefreshToken` is true;
  `reuseRefreshToken` keeps its default, true; no authentication manager is given
  to the token services; the endpoint's `userApprovalHandler` is never replaced,
  so it is `DefaultUserApprovalHandler`, which remembers nothing.
* The login writes the lock state that the next login reads; tickets, codes and
  tokens are only issued to a session that has logged in. A login with a password
  gets a new session; one with a remember-me cookie goes on in the session there is.
* `CasAuthorizeEndpoint` keeps the application asked for in the session, and makes
  a ticket of it in a later request; the application hands the ticket to
  `Cas20AuthorizeEndpoint`. `ApplicationAutoConfiguration`, `CasAutoConfiguration`
  and `Oauth20AutoConfiguration` choose in-memory, JDBC or Redis by one number.
* All Redis operations share the pool of one `RedisConnectionFactory`.

### What makes each part correct

* *Token store*: its maps describe the same set of tokens; what is found under
  a key is what was stored for it; a token that was given up stays given up; a
  token that expires can be reached by the flush; assertions in the code hold.
* *Token services*: a refresh token has at most one live access token; a live
  access token's refresh token works; a refresh never widens what was granted;
  no caller is answered with somebody else's token; every call ends, with an
  answer.
* *Code grant*: no code without an approval, what the user said is honoured, a
  code is redeemed at most once, by its client, in time.
* *CAS*: a ticket that has been validated is worth nothing later; the first
  validation in time succeeds; the ticket is for what its user has asked for.
* *Redis*: the pool runs dry after a known number of calls at the earliest, no call
  waits for ever, and what a stopped call leaves behind is known.
* *Login*: the number of wrong passwords that can be tried is bounded whatever the
  threads do, only users who failed are locked, the limit holds for good; a login
  has its row in the history and the logout closes it.
* *Remember-me*: a record that was removed stays removed; a browser whose cookie
  was renewed is not locked out.
* *One-time passwords*: a password is good once. *Provisioning*: the last change
  wins.

## 2. Plan

Order, most important first. Items 1 to 10 are done.

1. `InMemoryTokenStore` — the store, one operator per method.
2. `TokenServices` — the services over the store, one action per call, with its
   invariants; `TokenServicesProofs` — their proofs.
3. `TokenServicesThreads` — the same calls, one map access at a time, in threads.
4. `TokenServicesOneThread` — `TokenServicesThreads` implements `TokenServices`
   when calls do not overlap.
5. `CodeGrant` (abstract) and `AuthorizationCodes` (detailed), with the
   refinement between them, over both the cache and the table of codes.
6. `PasswordLockout` — overlapping logins of one user; `PasswordLockoutProofs`.
7. `LoginSessions` — login, remember-me, history and logout.
8. `ServiceTickets` — CAS tickets in the three stores.
9. `RedisGrants` — codes and tokens over Redis, composed in one call, with the pool
   and restarts.
10. Proofs of the other components: `ServiceTicketsProofs`, `RedisGrantsProofs`,
    `AuthorizationCodesProofs` (with the refinement of `CodeGrant` for one thread),
    `LoginSessionsProofs`, `TokenIndexesProofs` and `TokenServicesThreadsProofs`.
11. Left: the refinement of `TokenServices` by one thread as a theorem;
    proxy-granting tickets of CAS; refresh and removal over Redis.

The abstract specifications are `CodeGrant`, and `TokenServices` itself, which is
the abstract specification of the threads. What was planned and is not going to be
modelled (one-time passwords, approvals, provisioning) is in section 7 with the
reason.

## 3. Modules

| Module | Models |
|---|---|
| `InMemoryTokenStore` | the store as a record of maps, its methods as operators on it |
| `TokenServices` | `DefaultTokenServices`, `TokenApprovalStore.revokeApprovals` and `clear`: one action per call |
| `TokenServicesProofs` | theorems about `TokenServices` |
| `TokenIndexesProofs` | theorems about its indexes by client and user and its expiry queue |
| `TokenServicesThreads` | the calls as sequences of operations on single maps, run by threads |
| `TokenServicesThreadsProofs` | theorems about `TokenServicesThreads` |
| `TokenServicesOneThread` | the refinement from threads to calls |
| `CodeGrant` | what the authorization code grant promises |
| `AuthorizationCodes` | the endpoint, the session, the codes in a cache or a table, and the granter |
| `AuthorizationCodesProofs` | theorems about `AuthorizationCodes`, and the refinement proof |
| `PasswordLockout` | `RealmAuthenticationProvider` and the realm: policy, count of bad passwords, lock |
| `PasswordLockoutProofs` | theorems about `PasswordLockout` |
| `LoginSessions` | sessions, remember-me cookies and stores, login history, logout |
| `LoginSessionsProofs` | theorems about `LoginSessions` |
| `ServiceTickets` | CAS service tickets from the request to the validation |
| `ServiceTicketsProofs` | theorems about `ServiceTickets` |
| `RedisGrants` | the exchange of a code and `loadAuthentication` over Redis and its pool |
| `RedisGrantsProofs` | theorems about `RedisGrants` |
| `MC...` | instances of a module for TLC, with the sets the configurations use |

A definition preceded by `MUTANT` is not part of the model: it is the definition
after it with a plausible bug put in, and shows that the property it is listed
with in `PROJECT.json` can fail.

### `InMemoryTokenStore`

A store is a record with one field for each map, named as in the code. A map is
a total function with `None` for a missing entry; `accessTokenStore` and
`refreshTokenStore` are sets, because the token objects, once made, do not
change. Tokens are identified with the UUIDs they are given.

* `ExtractKey`: the code makes an MD5 digest of the user name (unless client
  only), the client and the scopes *in the iteration order of their set*. So an
  authentication has a `listing`: the approval path leaves a `HashSet`, a
  `scope` parameter is parsed into a `TreeSet`, and two authentications that
  differ in nothing else may have different keys. Digest collisions are left
  out.
* `RemoveAccessTokens(s, T)` is `removeAccessToken` for each token of `T`;
  `removeAccessToken` deletes entries under the token's own keys only, so the
  order does not matter. It deletes the key entry *whatever token that entry
  leads to*, as in the code.
* The user index is filled under client and user and emptied under
  `getName()`: both kinds of bucket are in `Buckets`, and the model shows, as
  the code does, that such entries stay.
* `Flush`: `TokenExpiry.getDelay` is zero at the instant of expiry, while
  `isExpired` is strict; the model keeps that difference.
* A queue entry replaced by `storeAccessToken` is `remove` then `put` with the
  same token; since the expiration of a token does not change, the queue is a
  function from tokens to their delay.

### `TokenServices`

Variables: `now`, `store`, and the objects made so far: `accessToken` (expiration
and refresh token) and `refreshToken` (expiration). An action is a whole call,
with every store call it makes, the `getAccessToken` that may store a token
again, and the flush an insert may cause.

| Action | Code |
|---|---|
| `ReturnExistingAccessToken`, `ReplaceExpiredAccessToken`, `IssueAccessToken` | the three ways through `createAccessToken` |
| `RefreshExpired`, `RefreshInvalidScope`, `RefreshAccessToken` | the three ways through `refreshAccessToken` that change the store |
| `LoadExpiredToken` | `loadAuthentication` of an expired token |
| `RevokeToken`, `RevokeApprovals`, `Clear` | the calls of those names |
| `Tick` | time |

Calls that change nothing (an unknown token, the refresh token of another
client, an authentication that is still good) are stuttering steps. That
`refreshAccessToken` removes the access token *before* it looks at expiry and
scopes is part of the actions. `revokeToken`, `revokeApprovals` and `clear` are
public but the applications have no caller for them; they are modelled so that
the invariants hold for whoever calls them.

`RefreshClients` is the set of clients whose grant types contain
`refresh_token`; it does not change, as details of a client that change in the
middle belong to the management application.

### `TokenServicesThreads`

`stack[p]` is the rest of the call that thread `p` is in. Every access to one of
the maps is an operation and a step of its own; reads carry what they have read
to the later operations that use it, so a stale value is used as in the code. An
operation that throws ends the call (`exception`).

* The collections in the user and client index are plain `HashSet`s inside a
  `ConcurrentHashMap`. An add or remove that overlaps another one on the same
  client may be lost (`Racing`): the outcomes of the data race that the build
  can produce and that these properties can tell apart.
* `expiryMap.put`, `expiryQueue.remove` and `expiryQueue.put` are one operation:
  each thread puts its own entry last, and entries of one token are equal.
* Clients use tokens they have been answered with (`answered`).
* `granted` is a history of what each refresh token was made for.

`revokeApprovals` and `clear` appear only as whole calls, in `TokenServices`.

The section on the inductive invariant says what is true of the operations that a
thread has yet to do (`Justified`, `EarlyEndLosesNothing`, `ExpiryComesLater`); it is
what the proofs in section 6 need, and no part of the model.

### `AuthorizationCodes` and `CodeGrant`

`session` is the session attribute `authorizationRequest`; `request` holds the
fields of each `AuthorizationRequest` *object*, because two threads of one
session hold the same object and change it in place; `codeStore` is the Ehcache
cache, an external component: a get does not find an entry whose time has come.
With `codeServices = "Jdbc"` it is the table, whose rows have no time and are
deleted by the id only if the select found one. `thread` is what a thread is doing.

`approveOrDeny` is one step per access to the shared object: it sets the
approval parameters, the handler reads them back, sets `approved`, the endpoint
reads `approved` and sets it again, decides, and in the `finally` clears the
session attribute, whatever is in it by then. `remove` of the code services is a
get and a remove; the granter's checks of redirect URI and client come after it,
so that a failed attempt costs the code.

Left out: the implicit response type, whose token goes through
`createAccessToken`; validation of scopes; what the redirect back to the client
looks like. A redirect URI stands for all those that start with it.

`CodeGrant` is the promise: a request is decided once, an approved one gets one
code, a code is worth one authentication, for its client, while it is valid.
The refinement mapping (at the end of `AuthorizationCodes`) takes a code as used
up when it has been got from the cache.

### `PasswordLockout`

A login is one step per access to the database or to the realm's field
`passwordPolicy`, in the order of `doInternalAuthenticate`: load the user, get the
policy, compare the *loaded* count with it, compare the password, write the loaded
count plus one. `UpdatePolicy` is the management application, which the sign-on
application does not hear of. A restart forgets the field and the logins under way.
`CountNotWritten` and the other outcome of `LockUser` are the caught exceptions.

`tested` and `lost` are history. Left out: the date checks of
`passwordPolicyValid`, which let a login through or not whatever the count is, and
`ISLOCKED`, which no step of the login reads. `resetBadPasswordCountAndLockout`
and `unlockUser` have no callers, and so no actions.

### `LoginSessions`

One user, because the stores are keyed by user. `session[s]` is the HTTP session;
`attr` says whether `CURRENT_USER_SESSION_ID` is still the id in the row that its
login wrote; a row of the history is named by what became of it. `remembered` is
the remember-me store: one entry per user name in the cache (and in Redis, whose
`save`, `update` and `read` do the same), one row per cookie in the table.

* The requests of one session are served one at a time; a browser without a session
  may have several tabs that log in with the cookie at once (`tab`), each step of
  which is a step: read, `WebContext.setAuthentication`, update with the response.
* Every write of the database or the store may fail, with what the code does then:
  a cookie that cannot be saved is not sent, a history row that cannot be inserted
  ends the login by password after the session was switched.
* A wrong password, and an unknown name, write a row too and overwrite the
  attribute.
* `MaxKeys` bounds the ids and keys known at one time: one that nobody knows any more
  is used again. Left out: the age of cookies and of entries, and the query of the
  user's groups, which is assumed to succeed.

### `ServiceTickets`

`session[b]` is the browser's session with its `casDetails` attribute, which every
request for an application overwrites. A ticket is made of what the session holds by
then, and it is stored before the details are found to be missing. The three stores
differ in `FoundAgain`: `JdbcTicketServices` stores the ticket where its id belongs,
so none is found again. `consumeTicket` is a get and a remove (`Get`, `Remove`).
`Expire` is the time to live, also of the stores' own. The code does not compare the
request's `service` with the ticket, so the model has no such parameter.
Proxy-granting tickets are left out.

### `RedisGrants`

One client and user, whose access token is a Boolean under one key. A call is a
sequence of operations (`thread[p].operation`); each enters the monitor of
`RedisConnectionFactory.getConnection`, waits there for a connection of the pool at
most `maxWait`, and uses it. `Returned` says which operations give it back:
`storeAccessToken` and `storeRefreshToken` do; `remove`, `getAccessToken`,
`readAccessToken` and `readAuthentication` do not. `getAccessToken` calls
`readAuthentication`, with a connection of its own, while it holds the first.
`JedisPool` is external: it lends up to `maxTotal` connections and throws after
`maxWait`. A restart makes a new pool; Redis keeps what it has.

Left out: the expiry of codes and tokens, refreshes and removals, and failures of
Redis itself.

## 4. What is checked

Passing runs:

| Run | Instance | Shows |
|---|---|---|
| `token_services` | 3 access and 2 refresh tokens, a client with a user who grants two sets of scopes and a client on its own, tokens valid 1 and 2, clock to 4, flush at every 3rd insert | the maps agree after every call; the key index is sound; a refresh token has at most one live access token, grants no less than it, and stays in the store with it; removed stays removed; grants only narrow; the indexes and the expiry queue reach every live token |
| `threads` | 2 threads, 3 calls, 2 access and 2 refresh tokens, two sets of scopes, flush at every 2nd insert | `GrantsKeptApart`: however operations interleave, nobody is given, and nothing is stored with, more than the refresh token was made for. `LeftoversWillBeFlushed`: half-removed tokens are still in the expiry queue |
| `threads_end` | 2 threads, 2 calls, a flush at every insert, fairness | `EveryCallEnds`: the flush loop in the middle of an insert ends |
| `one_thread` | 1 thread, 4 calls, 3 access and 2 refresh tokens, three authentications, rotated refresh tokens | `ImplementsTokenServices`: the operations of a call add up to an action of `TokenServices` |
| `codes` | 1 thread, 2 sessions, 2 requests, 2 codes, 2 clients, 2 redirect URIs, clock to 3, cache or table | `ImplementsCodeGrant` and `DecisionHonoured` when requests do not overlap: tabs, retries, wrong clients and late attempts included |
| `codes_threads` | 2 threads in one session, 2 requests, 2 codes, clock to 2, cache or table | a used-up code stays used up; no code without somebody's yes to that very request; types |
| `lockout` | 3 threads on one user, limits 2 and 3, 1 count that is not written, restarts | `WrongPasswordsBounded`: with lost updates the passwords that can be tried are more than the limit, but at most `Guesses`; the bound is tight, one less is violated. `CountWithinLimit`, `LockedOnlyAfterFailures`, and `LimitIsFinal`: nobody at the limit is admitted again |
| `login_sessions` | 2 browsers, 2 tabs, 2 sessions, 3 cookie ids and keys, both kinds of store | `ForgottenStaysForgotten`: after a logout no cookie of the user is good, except that the cache takes an entry back from a cookie login under way. `CookieStaysGood`: replacing the key locks nobody out, whatever fails. `LogoutClosesLogin`, `PasswordLoginRecorded`: login, history and logout belong together |
| `service_tickets` | 2 users of a browser, 2 applications, 2 tickets, 2 threads, three stores | `LateValidationFails`, `FirstValidationSucceeds`: a ticket works first, and not after it has worked. `AskedSinceLogin`: a ticket is for something its own user has asked for |
| `redis_pool` | 3 threads, 2 codes, 5 connections, 4 calls, 1 restart, fairness | `EveryAnswerCostsTwo`: how fast connections go. `SpentCodeAnswered`, `RefreshTokenFollows`: what a call that was stopped half-way leaves in Redis. `EveryCallEnds`: nobody waits for ever, in the monitor or for a second connection |

Runs that find a disagreement between the code and what its comments or
assertions say (listed under `findings`):

| Run | What happens |
|---|---|
| `threads_refresh` | Overlapping calls on one refresh token each remove before the other stores, and two access tokens stay live, against what `removeAccessTokenUsingRefreshToken` is documented to be for. |
| `codes_once` | Two token requests both get a code from the cache before either removes it. |

Three more disagreements came up while modelling. They have no run of their own:

* `getAccessTokenCount` asserts that the token map and the key index have the same
  size. A refresh that narrows the scopes to those of another live token files two
  tokens under one key, without any concurrency.
* The comment of `createAccessToken` says that a new refresh token is only created
  if there was none with the expired access token. If `loadAuthentication` meets the
  expired access token first, it removes it, and `createAccessToken` makes a second
  refresh token beside the first.
* `getAccessToken` reads the key index, then the authentication. If another call
  removes the token in between, `extractKey(null)` throws instead of returning the
  documented null (`NullPointerException` in `TokenServicesThreads`).

And of two submissions of one approval page that overlap, the one that says no may
be answered with a code: `DecisionHonoured` holds in `codes`, where requests do not
overlap, and not with two threads.

## 5. Bounds, symmetry, deadlock, fairness

* *Tokens*. The supply of UUIDs is the bound on how often a new token is made.
  Three access tokens allow an expired one, the one that replaced it, and one
  that a refresh narrowed; two refresh tokens allow one that was rotated out and
  its successor, or two of one user. All the relations that the invariants speak
  of are among two access tokens and one refresh token.
* *Clock* (`MaxTime`). A validity of 1 with a clock to 4 lets an access token be
  valid, due (`expiration = now`, where flush and `isExpired` differ), and expired,
  and its refresh token as well. In the thread runs the clock runs in the middle of
  calls (`ClockRuns`), except where a finding needs none.
* *`FlushInterval`* is 1000 in the code. It is 1 to 3 here, so that flushes occur
  at every point; nothing depends on the number.
* *`MaxCalls`*: three calls on two threads make two overlap while the third one
  has prepared what they work on. In `threads_end` it does not exceed the supply
  of UUIDs, so that no call can get stuck for want of a UUID, which no call of
  the program does.
* *Lockout*: with three threads one can hold an old count while the others use all
  attempts up, twice; two limits let a stale policy be more or less strict.
* *Sessions*: two browsers share one user's entries, two tabs race for one cookie,
  and two sessions are what these can have at a time. With `MaxKeys` 4 the properties
  hold as well; it takes eight times as long.
* *Tickets*: two, so that one is used while the other is granted; two users of one
  browser.
* *Redis*: five connections and three threads let every thread hold one while another
  waits for its second; four calls are enough to lose all of them.
* *Authorization codes*: two requests let one tab overwrite another one's
  request; two codes let a request be answered twice.
* *Symmetry* is used in runs without liveness, on sets whose members no
  definition or configuration singles out.
* `CHECK_DEADLOCK FALSE` stands in the runs with bounded calls and codes: when
  calls, codes and time have run out, nothing is left to do, and in
  `login_sessions`, where tabs wait for a free session or key that the bounds do not
  have. The runs of `TokenServices`, `PasswordLockout` and `ServiceTickets` check for
  deadlock.
* *Fairness*: `WF` of each thread's `Step` only. The container runs a thread that
  serves a request until it has ended. In `TokenServicesThreads` nothing in a call
  waits for another one. In `RedisGrants` threads wait for the monitor of
  `getConnection`, and Java does not promise that a waiting thread gets it; as each
  call enters it a few times only and `MaxCalls` bounds the calls, weak fairness is
  enough, and the run says nothing of a thread that others overtake for ever. No
  request is ever assumed to come, and time need not pass.

## 6. What is proved

### Token services

`TokenServicesProofs` proves, for every set of tokens, clients, users and scopes,
every flush interval, every validity and both settings of the two switches:

| Theorem | Says |
|---|---|
| `TypeCorrect` | the types of the variables |
| `StoreInvariant` | `IInv` |
| `MapsAgree` | `StoresAgree` |
| `LookupIsSound` | `AuthenticationIndexSound` |
| `RefreshIndexComplete` | `RefreshIndexCoversLive` |
| `AtMostOneAccessToken` | `OneAccessTokenPerRefreshToken` |
| `RefreshTokenKept` | `LiveTokenKeepsRefreshToken` |
| `GrantBounded` | `AccessWithinRefreshGrant` |
| `RemovalIsFinal`, `RefreshRemovalIsFinal` | what the store gave up does not come back |
| `GrantsOnlyNarrow` | `RefreshGrantNeverWidens` |

*Assumptions.* `FlushIntervalAssumption`: the flush interval is positive.
`SentinelsAssumption` and `ObjectsAssumption`: null, "never" and "no user" are
none of the values they stand beside. `ServicesAssumption`: the types of the
settings; a validity may be any integer.

*Argument.* None of the properties is inductive alone. That a refresh token has
one live access token rests on `RefreshIndexCoversLive`: the access token that
`removeAccessTokenUsingRefreshToken` finds is every one there is. That again
holds through `createAccessToken` only because a token it stores again was found
live under its own key (`AuthenticationIndexSound`), which needs
`authenticationStore` and `accessTokenStore` to agree (`StoresAgree`), because
`removeAccessToken` finds the key to delete in `authenticationStore`. That a
grant does not widen rests on the refresh token's authentication being there as
long as the refresh token is (`RefreshStoresAgree`), and freshness of new tokens
on live and stored tokens having been made (`LiveTokensCreated`, and the last part
of `RefreshStoresAgree`). `IInv` is the conjunction.

*Layout.* The first lemmas say what each store operator does to each map
(`...Fields`). `Sound(s, obj, X)` is the store part of `IInv` for a store in the
middle of a call, with a set `X` of tokens whose refresh token is still to be
put in order; the second part shows what each operator does to it
(`...Sound`). The third part has one lemma for each action (`...OK`), which
establishes `IInv` and the action's part in the three action properties;
`InvIsIInv` connects the two forms of the invariant.

By `one_thread`, what is proved of `TokenServices` holds for the methods as they
are written, operation by operation, as long as calls do not overlap. The proof
stops there: `threads_refresh` shows that `OneAccessTokenPerRefreshToken` does not
survive overlapping calls.

### Indexes of the token store

`TokenIndexesProofs` builds on those theorems, with the same assumptions:

| Theorem | Says |
|---|---|
| `IndexesInvariant` | `IndexesOK` |
| `IndexesComplete` | `IndexesCoverLive` |
| `ExpiryQueueComplete` | `ExpiryQueueCoversLive` |

No lookup corrects these three structures, so nothing but the order of the calls
keeps them right. `removeAccessToken` empties the buckets of the authentication it
finds in `authenticationStore`, and `storeAccessToken` fills those of the one it is
given. `IndexesOK` says of each live token that it is in the buckets of the
authentication now stored with it, and in the queue with the expiration of its
object; that both are what they should be comes from the invariant of
`TokenServicesProofs`. The case that takes work is `storeAccessToken` of a token that
is live already, as in `ReturnExistingAccessToken`, and the flush that may follow it
in the same call.

### Token services in threads

`TokenServicesThreadsProofs` proves, for any set of threads, any number of calls, any
number of clients, users, scopes and tokens, and with or without a clock that runs in
the middle of calls:

| Theorem | Says |
|---|---|
| `ThreadsInvariant` | `ThreadsInv` |
| `GrantsStayApart` | `GrantsKeptApart` |
| `LeftoversFlushed` | `LeftoversWillBeFlushed` |

The assumptions are those of the token services, and `ThreadsAssumption`: the bound
on calls is a natural number. TLC checked `ThreadsInv` on the instance of `threads`
before it was proved.

*What is given away.* When calls overlap the maps need not agree, so the argument of
`TokenServicesProofs` is of no use. What stays true is that every *operation* a
thread has yet to do is justified by something that no step undoes: the token it is
about was made, and what it is about to store or to answer lies within what the
refresh token was made for (`Justified`). The store holds only what justified
operations have put there, under whatever key (`StoreJustified`), and whatever a read
returns justifies the operations that carry it on. `granted` and `accessToken` never
change once set, so no other thread can take a justification away. This is the type
of `stack` in `ThreadsTypeOK`.

*What is left behind.* `LeftoversWillBeFlushed` speaks of the state with no call under
way. In between, a token may be in a map and not in the queue, but then some thread
is about to queue it, or about to take it out of the map (`HeldTokensCovered`). For
that to survive, a call must not lose an operation that covers: whoever puts an
expiring token into a map has its `putExpiry` still to come, later in the same call
(`ExpiryComesLater`), and the operations that may end a call early by an exception or
a null have nothing of the kind after them (`EarlyEndLosesNothing`). A thread that
takes a token out of the queue, in the flush, pushes the removal from the maps in the
same step.

*Layout.* First what each operation is and what the sequences pushed by calls look
like, then lemmas about replacing the head of a thread's stack, then one lemma for each
kind of step, which shows both parts of the invariant.

### Authorization codes

`AuthorizationCodesProofs` proves, for any number of threads, sessions, requests,
codes, clients and redirect URIs, for the cache and the table:

| Theorem | Says |
|---|---|
| `CodesInvariant` | `IInv` of `AuthorizationCodes` |
| `TypeCorrect` | the types of the variables |
| `CodesApproved` | `NoCodeWithoutApproval` |
| `GoneForGood` | `UsedUpStaysUsedUp` |
| `DecisionsHonoured` | `DecisionHonoured`, if there is one thread |
| `GrantImplemented` | `ImplementsCodeGrant`, if there is one thread |

The assumptions are `CodesAssumption`, every client has a redirect URI and codes are
good for some time, and `SentinelAssumption`. The last two theorems assume `OneThread`
as well: with two, TLC finds a submission that said no answered with a code, and
a code redeemed twice (`codes_once`).

That a code has somebody's yes behind it is not inductive, because `approved` is read
in one step and answered for in another, and other submissions of the same request
write it in between. The invariant follows the yes from `said` to the parameter, to
the request, and to the flag that a submission has read (`RequestsSaid`,
`SubmissionsSaid`); a session holds only requests that were made in it
(`SessionsHoldRequests`). A code that a token request has got is the one that was
issued, and one that it did not get is gone (`RedemptionsKnow`, `CodesStored`).

For one thread, `DecisionKept` says that the request holds what the submission said,
from one step to the next, and `DecidedOnce` that a request that was decided is on its
way out of the session. With these, each step is mapped: `Authorize` is `Ask` of
`CodeGrant`, `GenerateCode` and `Deny` are `Approve` and `Deny`, `Get` is `Redeem` if
the checks that follow will pass, else `Void`, a tick is `Void` of the codes that
expire, and all the rest stutters.

### Sessions and remember-me

`LoginSessionsProofs` proves, for any number of browsers, tabs and sessions, any
supply of cookie ids and keys, and both kinds of store:

| Theorem | Says |
|---|---|
| `SessionsInvariant` | `IInv` of `LoginSessions` |
| `TypeCorrect` | the types of the variables |
| `ForgottenForGood` | `ForgottenStaysForgotten` |
| `CookiesStayGood` | `CookieStaysGood` |
| `LogoutsCloseLogins` | `LogoutClosesLogin` |
| `PasswordLoginsRecorded` | `PasswordLoginRecorded` |

The assumptions are `LoginSessionsAssumption`, that the supply of keys is a number,
and `SentinelAssumption`. `CookieStaysGood` is about browsers with no cookie login
under way; while one is, the record must be there for the update to replace
(`UndisturbedReadable`), and a login that nothing disturbs must be the only one of its
browser (`UndisturbedAlone`), with an id that no other browser has (`IdsOwned`).
`ForgottenStaysForgotten` needs that no login under way has read a record once the
user is forgotten (`ForgottenUnread`). The properties of the history need that a
session serves one browser and one cookie login (`SessionsOwned`,
`LoginsHaveSessions`), and that its attribute leads to the row (`RowsLedTo`).

### Login and lockout

`PasswordLockoutProofs` proves, for any number of users and threads, any set of
limits the policy may have and any number of failed writes:

| Theorem | Says |
|---|---|
| `TypeCorrect` | the types of the variables |
| `LoginInvariant` | `IInv` of `PasswordLockout` |
| `CountBounded` | `CountWithinLimit` |
| `LockJustified` | `LockedOnlyAfterFailures` |
| `LimitLasts` | `LimitIsFinal` |
| `WrongPasswordsAreBounded` | `WrongPasswordsBounded` |

The assumption is `LockoutAssumption`: finitely many threads, limits are natural
numbers, there is one, and null is nothing it stands beside.
`WrongPasswordsAreBounded` also assumes that the limits the policy may have are
finitely many, or there is no largest one; the column is an integer. The invariant
adds to the first four properties what a login knows:
one that has passed the check has a count below *some* limit, because the policy may
have been changed since (`LoginsChecked`), and no count, in the table or loaded,
exceeds the wrong passwords so far (`CountsTested`), although counts are written late
and taken back. There is one lemma for each action, and `LimitKept` is its part in the
action property.

*How many wrong passwords.* A thread that writes its count late takes the count back,
and everybody may try again from there. `TestedCovered` keeps a ledger for that: for
each level of the count, what raising it to this level may have cost. The level
`j + 1` may have cost `Gain`, which is what as many threads as hold no login of the user
with a smaller count (`Rank`) can try with one attempt more: a thread that has loaded
less can still undo the level, and has not been paid for. Every wrong password is paid for in
the ledger, is about to be counted, or was not counted for good.

* Raising the count costs one at each level (`LedgerRaised`).
* Taking it back from `n` to `c + 1` drops the levels above, and books what they cost,
  and the password, on level `c + 1`. This fits, because the thread that wrote could undo
  every one of these levels, and is now a further thread that cannot undo `c + 1`
  (`LedgerTakenBack`).
* A login that starts has loaded the count as it is, so it is below no level there is
  (`CoverKept`).

`CoverBounded` adds up: the levels of the ledger and the threads that are about to
write are part of what all threads can try with all attempts (`LedgerBounded`).
For this the module proves that the recursion of `Guesses` defines a function
(`GuessesUnfold`), by induction over the natural numbers (`NaturalInduction`, for
sets in place of predicates, from the library's theorem that the finite subsets of a
set are well founded).

### CAS tickets

`ServiceTicketsProofs` proves, for any number of browsers, users, applications,
tickets and threads, and for all three stores:

| Theorem | Says |
|---|---|
| `TypeCorrect` | the types, and that a ticket is found as it was issued |
| `TicketInvariant` | `IInv` of `ServiceTickets` |
| `WorksNoLater` | `LateValidationFails` |
| `WorksFirst` | `FirstValidationSucceeds` |
| `GrantedAsAsked` | `AskedSinceLogin` |

The assumption, `SentinelAssumption`, is that null is no application, ticket or
record. Both properties of validations come from what is in the store
(`TicketsKept`): a ticket that was answered for is out of it, and one that is not in
it has expired or was answered for. A thread remembers at `Get` what the store held,
and the invariant says what stays true of it while others go on (`ValidationsKnow`).
`AskedSinceLogin` needs that the attribute of a session is something asked for in
that session (`SessionsAsked`).

### Redis

`RedisGrantsProofs` proves, for a pool of any size and any number of threads, codes,
calls and restarts:

| Theorem | Says |
|---|---|
| `TypeCorrect` | the types, and that no more operations hold a connection than the pool has lent |
| `RedisInvariant` | `IInv` of `RedisGrants` |
| `AnswersCost` | `EveryAnswerCostsTwo` |
| `SpentCodes` | `SpentCodeAnswered` |
| `RefreshTokens` | `RefreshTokenFollows` |

The assumptions are `RedisGrantsAssumption`, finitely many threads and a pool of at
least one connection, and `SentinelAssumption`, that null is no thread, code or call.
`EveryAnswerCostsTwo` is a count over answered calls only, so the invariant adds the
calls on their way: those that hold a connection (`Holding`) and those that have left
one or two behind (`SpentOne`, `SpentTwo`). Together they stay below `inUse`
(`ConnectionsSpent`). The other two properties say of a code or a token that somebody
still cares for it; the invariant says which call that is, and from which operation
on (`SpentCodesFollowed`, `StoredTokenFollowed`), and what a call has read of Redis
that others cannot undo (`CallsKnow`). Each lemma replaces what one thread is doing;
`Counts` and `Spent` say what that does to the counts. `EveryCallEnds` is liveness and
only model-checked.

### What is only model-checked

* `EveryCallEnds`, of the threads and of Redis, is liveness under fairness, which is
  out of the prover's reach.
* `ImplementsTokenServices`. The run remembers the store as it was between calls
  (`settled`), so the invariant of a proof has to say, for every operation of every
  call and of the flushes inside it, how far the store is from the one `TokenServices`
  makes of `settled` in a single step.
  The run has refresh tokens that are replaced; the path that uses them again is run
  operation by operation in `threads`.

Every other property of the passing runs is stated by a theorem above.

## 7. Not modelled

* Token enhancers and id tokens (pure functions of the token), and the
  re-authentication of a user at refresh (no authentication manager is wired).
* One-time passwords: `AbstractOptAuthn` always keeps `InMemoryOptTokenStore`, whose
  `validate` only reads a cache, so a password is good for as long as its interval,
  as often as one likes; the JDBC and Redis stores are never put in its place. The
  time and counter based ones are digests of the clock or of the user's counter,
  which no login advances.
* Approvals: the endpoint keeps `DefaultUserApprovalHandler`; the handlers that
  remember only decide what the confirmation page displays.
* Provisioning: a thread per change sends it to Kafka; the receivers in the
  repository write what they get to the log and apply nothing, so there is no state
  in which order or loss would show.
* `JdbcTokenStore`: what `queryForObject` does with two rows of one authentication
  depends on the keys of tables that no script of the repository creates.
* Refreshes and removals over Redis, proxy-granting tickets of CAS, the expiry of
  remember-me cookies, the captcha and the social logins.
* SAML 2.0 and the other sign-on adapters, persistence mappers, controllers and
  pages, cryptography, social authentication, the client SDK: no state shared by
  requests beyond the database, or work done by libraries.
* The JavaScript, about 266,000 lines of it, is vendored (Bootstrap, jQuery and
  plug-ins) and serves the pages; none of it is the program's own logic, and none is
  modelled. The lines that definitions stand for are Java.

## 8. Running

    tlc -config MCTokenServices.cfg MCTokenServices.tla
    tlapm TokenServicesProofs.tla

and likewise for the other modules of section 3. Each run of `PROJECT.json` takes under
two minutes with two workers; the proofs of each module take one to three minutes.
