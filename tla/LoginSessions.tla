---------------------------- MODULE LoginSessions ----------------------------
(***************************************************************************)
(* The sessions of one user in several browsers: the login with a password, *)
(* which switches the session, the login with a remember-me cookie, which   *)
(* does not, the login history, and the logout.  Every write of the         *)
(* database or of the remember-me store may fail.                           *)
(*                                                                          *)
(* The requests of one session are served one at a time.  The tabs of a     *)
(* browser that has no session yet, as when it is started, log in with the  *)
(* cookie at the same time, each in a session of its own.                   *)
(***************************************************************************)
EXTENDS Integers, FiniteSets

CONSTANTS
  Browsers,
  Tabs,        \* of any browser: threads of cookie logins
  Sessions,    \* HTTP sessions
  MaxKeys,     \* ids and keys of remember-me cookies that are known at one time
  None

ASSUME LoginSessionsAssumption == MaxKeys \in Nat

VARIABLES
  kind,        \* "cache": InMemory- or RedisRemeberMeService, "table": the Jdbc one
  remembered,  \* its entries for the user
  session,     \* the HTTP sessions, None when there is none
  current,     \* the session of each browser, or None
  cookie,      \* the remember-me cookie of each browser, or None
  tab,         \* the cookie logins under way, None when there is none
  forgotten,   \* history: whether the entries were removed since the last was saved,
               \* and whether a cookie login was under way then ("raced")
  disturbed,   \* history: the browsers whose cookie a logout or a second tab met
  leftOpen     \* history: whether a logout has left the row of its login open

vars == <<kind, remembered, session, current, cookie, tab,
          forgotten, disturbed, leftOpen>>

Entries == [id : 1..MaxKeys, key : 1..MaxKeys]

\* attr is CURRENT_USER_SESSION_ID: the id in the row of the login that made the
\* session the user's, or another id; row is what became of that row in HISTORY_LOGIN.
\* page tells whether a tab shows the login page of the session; by and wrong are, for
\* the properties, the way of the login and whether a wrong password came after it.
SessionRecords ==
  [authenticated : BOOLEAN, attr : {"login", "other", None}, page : BOOLEAN,
   row : {"open", "closed", "lost", None}, by : {"password", "cookie", None}, wrong : BOOLEAN]

CookieLogins ==
  [step : {"read", "setAuthentication", "update"}, browser : Browsers,
   session : Sessions \cup {None}, cookie : Entries]

ASSUME SentinelAssumption ==
  None \notin Sessions \cup Entries \cup SessionRecords \cup CookieLogins
             \cup {"login", "other", "open", "closed", "lost", "password", "cookie"}

TypeOK ==
  /\ kind \in {"cache", "table"}
  /\ remembered \subseteq Entries
  /\ kind = "cache" => Cardinality(remembered) <= 1
  /\ session \in [Sessions -> SessionRecords \cup {None}]
  /\ current \in [Browsers -> Sessions \cup {None}]
  /\ \A b \in Browsers : current[b] # None => session[current[b]] # None
  /\ cookie \in [Browsers -> Entries \cup {None}]
  /\ tab \in [Tabs -> CookieLogins \cup {None}]
  /\ forgotten \in {"no", "yes", "raced"}
  /\ disturbed \subseteq Browsers
  /\ leftOpen \in BOOLEAN

Init ==
  /\ kind \in {"cache", "table"}
  /\ remembered = {}
  /\ session = [s \in Sessions |-> None]
  /\ current = [b \in Browsers |-> None]
  /\ cookie = [b \in Browsers |-> None]
  /\ tab = [t \in Tabs |-> None]
  /\ forgotten = "no"
  /\ disturbed = {}
  /\ leftOpen = FALSE

Anonymous ==
  [authenticated |-> FALSE, attr |-> None, page |-> FALSE, row |-> None, by |-> None,
   wrong |-> FALSE]

At(t, step) == tab[t] # None /\ tab[t].step = step
TabsOf(b) == {t \in Tabs : tab[t] # None /\ tab[t].browser = b}

\* No request of the session is being served.
Quiet(s) == \A t \in Tabs : tab[t] # None => tab[t].session # s

\* A session nobody has: request.getSession() creates it.
Fresh(s) == session[s] = None /\ Quiet(s)

\* insertLoginHistory: an id is generated and put into the session, then the row is
\* inserted and the user updated.  Either may fail, and throws.
FailedRow == {"open", "lost"}

\* genId for cookies: an id or key nobody knows.
Known(k) ==
  \/ \E e \in remembered : k \in {e.id, e.key}
  \/ \E b \in Browsers : cookie[b] # None /\ k \in {cookie[b].id, cookie[b].key}
  \/ \E t \in Tabs : tab[t] # None /\ k \in {tab[t].cookie.id, tab[t].cookie.key}

Unknown == {k \in 1..MaxKeys : ~Known(k)}
NextKey == CHOOSE k \in Unknown : TRUE

-----------------------------------------------------------------------------
(* The remember-me store.  The cache has an entry for each user name and    *)
(* never looks at its key; the table has a row for each cookie.             *)

\* MUTANT: the cache has an entry for each cookie.
Saved_ById(entry) == remembered \cup {entry}

Saved(entry) == IF kind = "cache" THEN {entry} ELSE remembered \cup {entry}

\* MUTANT: the row is looked up by the new key.
Updated_ByKey(entry) ==
  IF kind = "cache" THEN {entry}
  ELSE {IF e.key = entry.key THEN entry ELSE e : e \in remembered}

\* MUTANT: a row that is gone is inserted again.
Updated_Inserts(entry) ==
  IF kind = "cache" THEN {entry}
  ELSE {e \in remembered : e.id # entry.id} \cup {entry}

Updated(entry) ==
  IF kind = "cache" THEN {entry}
  ELSE {IF e.id = entry.id THEN entry ELSE e : e \in remembered}

Readable(entry) == IF kind = "cache" THEN remembered # {} ELSE entry \in remembered

-----------------------------------------------------------------------------
(* GET /login: with a cookie a login is tried, and the page is shown when   *)
(* there is none or its entry is not found.                                 *)

ShowPage(b, s) ==
  /\ session' = IF session[s] = None
                THEN [session EXCEPT ![s] = [Anonymous EXCEPT !.page = TRUE]]
                ELSE [session EXCEPT ![s].page = TRUE]
  /\ current' = [current EXCEPT ![b] = s]

LoginPage(b, s) ==
  /\ cookie[b] = None
  /\ IF current[b] = None THEN Fresh(s)
     ELSE current[b] = s /\ Quiet(s) /\ ~session[s].authenticated
  /\ ShowPage(b, s)
  /\ UNCHANGED <<kind, remembered, cookie, tab, forgotten, disturbed, leftOpen>>

CookieLogin(t, b) ==
  /\ tab[t] = None /\ cookie[b] # None
  /\ current[b] # None => Quiet(current[b]) /\ ~session[current[b]].authenticated
  /\ tab' = [tab EXCEPT ![t] =
       [step |-> "read", browser |-> b, session |-> current[b], cookie |-> cookie[b]]]
  /\ disturbed' = IF TabsOf(b) = {} THEN disturbed ELSE disturbed \cup {b}
  /\ UNCHANGED <<kind, remembered, session, current, cookie, forgotten, leftOpen>>

Serves(t, s) == IF tab[t].session = None THEN Fresh(s) ELSE tab[t].session = s

ReadFound(t, s) ==
  /\ At(t, "read") /\ Serves(t, s)
  /\ Readable(tab[t].cookie)
  /\ tab' = [tab EXCEPT ![t] = [@ EXCEPT !.step = "setAuthentication", !.session = s]]
  /\ UNCHANGED <<kind, remembered, session, current, cookie, forgotten,
                 disturbed, leftOpen>>

ReadNothing(t, s) ==
  /\ At(t, "read") /\ Serves(t, s)
  /\ ~Readable(tab[t].cookie)
  /\ ShowPage(tab[t].browser, s)
  /\ tab' = [tab EXCEPT ![t] = None]
  /\ UNCHANGED <<kind, remembered, cookie, forgotten, disturbed, leftOpen>>

\* WebContext.setAuthentication: the session is that of the user before the row of
\* the history is inserted, and stays so when that fails.
ByCookie(s, row) ==
  [authenticated |-> TRUE, attr |-> "login", row |-> row, by |-> "cookie", wrong |-> FALSE,
   page |-> session[s] # None /\ session[s].page]

SetAuthentication(t) ==
  /\ At(t, "setAuthentication")
  /\ LET s == tab[t].session
     IN \/ /\ session' = [session EXCEPT ![s] = ByCookie(s, "open")]
           /\ tab' = [tab EXCEPT ![t].step = "update"]
           /\ UNCHANGED current
        \/ /\ \E row \in FailedRow : session' = [session EXCEPT ![s] = ByCookie(s, row)]
           /\ tab' = [tab EXCEPT ![t] = None]
           /\ current' = [current EXCEPT ![tab[t].browser] = s]
  /\ UNCHANGED <<kind, remembered, cookie, forgotten, disturbed, leftOpen>>

\* updateRemeberMe and the response; without the update there is no new cookie.
Update(t) ==
  /\ At(t, "update") /\ Unknown # {}
  /\ LET b == tab[t].browser
         entry == [tab[t].cookie EXCEPT !.key = NextKey]
     IN /\ \/ /\ remembered' = Updated(entry)
              /\ cookie' = [cookie EXCEPT ![b] = entry]
           \/ UNCHANGED <<remembered, cookie>>
        /\ current' = [current EXCEPT ![b] = tab[t].session]
  /\ tab' = [tab EXCEPT ![t] = None]
  /\ UNCHANGED <<kind, session, forgotten, disturbed, leftOpen>>

-----------------------------------------------------------------------------
(* logon.do: a form of the current session's login page.                    *)

Form(b) == current[b] # None /\ Quiet(current[b]) /\ session[current[b]].page

\* setBadPasswordCount, and userinfoValid for an unknown name, insert a row too and so
\* overwrite the attribute.
WrongPassword(b) ==
  /\ Form(b)
  /\ session' = [session EXCEPT ![current[b]] = [@ EXCEPT !.attr = "other", !.wrong = TRUE]]
  /\ UNCHANGED <<kind, remembered, current, cookie, tab, forgotten, disturbed, leftOpen>>

\* createRemeberMe; when the entry cannot be saved the login goes on without.
NewCookie(b) ==
  /\ Unknown # {}
  /\ LET entry == [id |-> NextKey, key |-> NextKey]
     IN /\ remembered' = Saved(entry)
        /\ cookie' = [cookie EXCEPT ![b] = entry]
  /\ forgotten' = "no"
  /\ disturbed' = IF TabsOf(b) = {} THEN disturbed \ {b} ELSE disturbed

NoNewCookie == UNCHANGED <<remembered, cookie, forgotten, disturbed>>

ByPassword(row) ==
  [authenticated |-> TRUE, attr |-> "login", page |-> FALSE, row |-> row,
   by |-> "password", wrong |-> FALSE]

Unrecorded == [Anonymous EXCEPT !.attr = "other"]

\* MUTANT: the attribute is set to the container's session id after the history.
SwitchSession_OwnId(s) ==
  \E new \in {[ByPassword("open") EXCEPT !.attr = "other"], Unrecorded} :
    session' = [session EXCEPT ![s] = new]

\* MUTANT: the user is put into the new session before the history is written.
SwitchSession_UserFirst(s) ==
  \E row \in FailedRow : session' = [session EXCEPT ![s] = ByPassword(row)]

\* The old session is invalidated; the new one becomes the user's once the history
\* is written.
SwitchSession(s) ==
  \E new \in {ByPassword("open"), Unrecorded} : session' = [session EXCEPT ![s] = new]

Logon(b) ==
  /\ Form(b)
  /\ NewCookie(b) \/ NoNewCookie
  /\ SwitchSession(current[b])
  /\ UNCHANGED <<kind, current, tab, leftOpen>>

-----------------------------------------------------------------------------
(* Logout and the end of sessions.                                          *)

LoggedIn(b) ==
  current[b] # None /\ Quiet(current[b]) /\ session[current[b]].authenticated

Forget(b) ==
  /\ remembered' = {}
  /\ cookie' = [cookie EXCEPT ![b] = None]
  /\ forgotten' = IF \E t \in Tabs : At(t, "setAuthentication") \/ At(t, "update")
                  THEN "raced" ELSE "yes"
  /\ disturbed' = Browsers

\* HISTORY_LOGOUT_UPDATE_STATEMENT goes by the attribute.
Closed(record) ==
  IF record.attr = "login" /\ record.row = "open"
  THEN [record EXCEPT !.row = "closed"] ELSE record

EndSession(b) ==
  /\ session' = [session EXCEPT ![current[b]] = None]
  /\ current' = [current EXCEPT ![b] = None]

Logout(b) ==
  /\ LoggedIn(b)
  /\ Forget(b)
  /\ LET record == session[current[b]]
     IN leftOpen' = (leftOpen \/ (~record.wrong /\ Closed(record).row = "open"))
  /\ EndSession(b)
  /\ UNCHANGED <<kind, tab>>

\* The cookie goes with the response, whatever fails afterwards: the removal of the
\* entry, or one of the two updates.  The session then stays.
LogoutFails(b) ==
  /\ LoggedIn(b)
  /\ \/ /\ cookie' = [cookie EXCEPT ![b] = None]
        /\ UNCHANGED <<remembered, session, forgotten, disturbed>>
     \/ /\ Forget(b)
        /\ session' \in {session, [session EXCEPT ![current[b]] = Closed(@)]}
  /\ UNCHANGED <<kind, current, tab, leftOpen>>

LogoutAnonymous(b) ==
  /\ current[b] # None /\ Quiet(current[b]) /\ ~session[current[b]].authenticated
  /\ EndSession(b)
  /\ UNCHANGED <<kind, remembered, cookie, tab, forgotten, disturbed, leftOpen>>

\* The container drops a session; no listener closes its row.
Expire(s) ==
  /\ session[s] # None /\ Quiet(s)
  /\ session' = [session EXCEPT ![s] = None]
  /\ current' = [b \in Browsers |-> IF current[b] = s THEN None ELSE current[b]]
  /\ UNCHANGED <<kind, remembered, cookie, tab, forgotten, disturbed, leftOpen>>

Next ==
  \/ \E b \in Browsers :
       \/ \E s \in Sessions : LoginPage(b, s)
       \/ \E t \in Tabs : CookieLogin(t, b)
       \/ WrongPassword(b) \/ Logon(b)
       \/ Logout(b) \/ LogoutFails(b) \/ LogoutAnonymous(b)
  \/ \E t \in Tabs :
       \/ \E s \in Sessions : ReadFound(t, s) \/ ReadNothing(t, s)
       \/ SetAuthentication(t) \/ Update(t)
  \/ \E s \in Sessions : Expire(s)

Spec == Init /\ [][Next]_vars

-----------------------------------------------------------------------------
(* Properties.                                                              *)

\* removeRemeberMe forgets the user in every browser.  Only in the cache, whose
\* update also inserts, does a cookie login that had read the entry before bring the
\* entry back.
ForgottenStaysForgotten ==
  /\ forgotten = "yes" => remembered = {}
  /\ forgotten = "raced" /\ kind = "table" => remembered = {}

\* Although every login replaces the key, a browser is not locked out by it: unless
\* a logout or a second tab interferes, its cookie is found again, whichever of the
\* writes have failed.
CookieStaysGood ==
  \A b \in Browsers : cookie[b] # None /\ b \notin disturbed /\ TabsOf(b) = {}
    => Readable(cookie[b])

\* A logout closes the row of the login that it ends: the attribute still leads to
\* it, unless a wrong password was sent from a login page left open in that session.
LogoutClosesLogin == ~leftOpen

\* Nobody has a session by password without a row in the login history.
PasswordLoginRecorded ==
  \A s \in Sessions : session[s] # None /\ session[s].by = "password"
    => session[s].row \in {"open", "closed"}

-----------------------------------------------------------------------------
(* The inductive invariant.                                                 *)

\* A session is that of one browser, and serves one cookie login.
SessionsOwned ==
  /\ \A b1, b2 \in Browsers : current[b1] # None /\ current[b1] = current[b2] => b1 = b2
  /\ \A t \in Tabs, b \in Browsers :
       tab[t] # None /\ tab[t].session # None /\ tab[t].session = current[b]
         => tab[t].browser = b
  /\ \A t1, t2 \in Tabs :
       tab[t1] # None /\ tab[t2] # None /\ tab[t1].session # None
         /\ tab[t1].session = tab[t2].session => t1 = t2

\* A cookie login that goes on has its session, and that is the user's by the update.
LoginsHaveSessions ==
  \A t \in Tabs : tab[t] # None =>
    /\ tab[t].step # "read" => tab[t].session # None
    /\ tab[t].step = "update" => session[tab[t].session] # None

\* No two browsers were given the same id.
IdsOwned ==
  /\ \A b1, b2 \in Browsers :
       cookie[b1] # None /\ cookie[b2] # None /\ cookie[b1].id = cookie[b2].id => b1 = b2
  /\ \A t \in Tabs, b \in Browsers :
       tab[t] # None /\ cookie[b] # None /\ tab[t].cookie.id = cookie[b].id
         => tab[t].browser = b
  /\ \A t1, t2 \in Tabs :
       tab[t1] # None /\ tab[t2] # None /\ tab[t1].cookie.id = tab[t2].cookie.id
         => tab[t1].browser = tab[t2].browser

\* A cookie login that nothing disturbs is the browser's only one, in its session if
\* it has one, with the cookie it still has.
UndisturbedAlone ==
  \A t \in Tabs : tab[t] # None /\ tab[t].browser \notin disturbed =>
    /\ tab[t].cookie = cookie[tab[t].browser]
    /\ current[tab[t].browser] \in {None, tab[t].session}
    /\ \A t2 \in Tabs : tab[t2] # None /\ tab[t2].browser = tab[t].browser => t2 = t

\* Even while it is in use, a cookie that nothing disturbs is found.
UndisturbedReadable ==
  \A b \in Browsers : cookie[b] # None /\ b \notin disturbed => Readable(cookie[b])

\* Once the user is forgotten no cookie login has read anything.
ForgottenUnread ==
  forgotten = "yes" => \A t \in Tabs : tab[t] # None => tab[t].step = "read"

\* The attribute of a session leads to its open row, but for a wrong password.
RowsLedTo ==
  \A s \in Sessions : session[s] # None /\ session[s].row = "open" /\ ~session[s].wrong
    => session[s].attr = "login"

IInv ==
  /\ TypeOK
  /\ SessionsOwned
  /\ LoginsHaveSessions
  /\ IdsOwned
  /\ UndisturbedAlone
  /\ UndisturbedReadable
  /\ ForgottenUnread
  /\ RowsLedTo
  /\ ForgottenStaysForgotten
  /\ LogoutClosesLogin
  /\ PasswordLoginRecorded
=============================================================================
