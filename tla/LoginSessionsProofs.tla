-------------------------- MODULE LoginSessionsProofs --------------------------
(***************************************************************************)
(* Proofs about LoginSessions.                                              *)
(***************************************************************************)
EXTENDS LoginSessions, FiniteSetTheorems, TLAPS

USE LoginSessionsAssumption, SentinelAssumption

-----------------------------------------------------------------------------
(* What the variables hold.                                                 *)

LEMMA TabType ==
  ASSUME TypeOK, NEW t \in Tabs, tab[t] # None
  PROVE  /\ tab[t] \in CookieLogins
         /\ tab[t].step \in {"read", "setAuthentication", "update"}
         /\ tab[t].browser \in Browsers /\ tab[t].session \in Sessions \cup {None}
         /\ tab[t].cookie \in Entries /\ tab[t].cookie.id \in 1..MaxKeys
<1>1. tab[t] \in CookieLogins
  BY DEF TypeOK
<1> QED BY <1>1 DEF CookieLogins, Entries

LEMMA SessionType ==
  ASSUME TypeOK, NEW s \in Sessions, session[s] # None
  PROVE  /\ session[s] \in SessionRecords
         /\ session[s].authenticated \in BOOLEAN /\ session[s].page \in BOOLEAN
         /\ session[s].wrong \in BOOLEAN
         /\ session[s].attr \in {"login", "other", None}
         /\ session[s].row \in {"open", "closed", "lost", None}
         /\ session[s].by \in {"password", "cookie", None}
<1>1. session[s] \in SessionRecords
  BY DEF TypeOK
<1> QED BY <1>1 DEF SessionRecords

LEMMA CookieType ==
  ASSUME TypeOK, NEW b \in Browsers, cookie[b] # None
  PROVE  cookie[b] \in Entries /\ cookie[b].id \in 1..MaxKeys /\ cookie[b].key \in 1..MaxKeys
<1>1. cookie[b] \in Entries
  BY DEF TypeOK
<1> QED BY <1>1 DEF Entries

\* The browser's session is there.
LEMMA CurrentType ==
  ASSUME TypeOK, NEW b \in Browsers, current[b] # None
  PROVE  current[b] \in Sessions /\ session[current[b]] # None
BY DEF TypeOK

\* genId: the id of a new cookie is nobody's.
LEMMA NextKeyUnknown ==
  ASSUME TypeOK, Unknown # {}
  PROVE  /\ NextKey \in 1..MaxKeys
         /\ \A e \in remembered : e.id # NextKey
         /\ \A b \in Browsers : cookie[b] # None => cookie[b].id # NextKey
         /\ \A t \in Tabs : tab[t] # None => tab[t].cookie.id # NextKey
<1>1. NextKey \in Unknown
  BY DEF NextKey
<1> QED BY <1>1 DEF Unknown, Known

-----------------------------------------------------------------------------
(* Lemmas about parts of a step.                                            *)

\* A session that is made, changed or ended.
LEMMA SessionChanges ==
  ASSUME IInv, NEW s \in Sessions, NEW r \in SessionRecords \cup {None},
         r # None /\ r.row = "open" /\ ~r.wrong => r.attr = "login",
         r # None /\ r.by = "password" => r.row \in {"open", "closed"},
         session' = [session EXCEPT ![s] = r]
  PROVE  /\ session' \in [Sessions -> SessionRecords \cup {None}]
         /\ session'[s] = r /\ \A x \in Sessions \ {s} : session'[x] = session[x]
         /\ RowsLedTo' /\ PasswordLoginRecorded'
<1>1. /\ session' \in [Sessions -> SessionRecords \cup {None}]
      /\ session'[s] = r /\ \A x \in Sessions \ {s} : session'[x] = session[x]
  BY DEF IInv, TypeOK
<1> QED BY <1>1 DEF IInv, RowsLedTo, PasswordLoginRecorded

\* removeRemeberMe, and the cookie that the response expires.
LEMMA ForgetStep ==
  ASSUME IInv, NEW b \in Browsers, Forget(b), UNCHANGED <<kind, tab>>
  PROVE  /\ remembered' \subseteq Entries
         /\ kind = "cache" => Cardinality(remembered') <= 1
         /\ cookie' \in [Browsers -> Entries \cup {None}]
         /\ forgotten' \in {"no", "yes", "raced"} /\ disturbed' \subseteq Browsers
         /\ IdsOwned' /\ UndisturbedAlone' /\ UndisturbedReadable'
         /\ ForgottenUnread' /\ ForgottenStaysForgotten'
<1>1. /\ remembered' = {} /\ cookie' = [cookie EXCEPT ![b] = None] /\ disturbed' = Browsers
      /\ forgotten' \in {"yes", "raced"}
      /\ forgotten' = "yes" => ~\E t \in Tabs : At(t, "setAuthentication") \/ At(t, "update")
  BY DEF Forget
<1>2. \A x \in Browsers : cookie'[x] # None => cookie'[x] = cookie[x]
  BY <1>1 DEF IInv, TypeOK
<1>3. /\ remembered' \subseteq Entries
      /\ kind = "cache" => Cardinality(remembered') <= 1
      /\ cookie' \in [Browsers -> Entries \cup {None}]
  BY <1>1, FS_EmptySet DEF IInv, TypeOK
<1>4. IdsOwned'
  BY <1>2 DEF IInv, IdsOwned
<1>5. UndisturbedAlone'
  BY <1>1, TabType DEF IInv, UndisturbedAlone
<1>6. UndisturbedReadable'
  BY <1>1 DEF UndisturbedReadable
<1>7. ForgottenUnread'
  BY <1>1, TabType DEF IInv, ForgottenUnread, At
<1>8. ForgottenStaysForgotten'
  BY <1>1 DEF ForgottenStaysForgotten
<1> QED BY <1>1, <1>3, <1>4, <1>5, <1>6, <1>7, <1>8

\* The browser's session ends, by itself or by a logout.
LEMMA EndSessionStep ==
  ASSUME IInv, NEW b \in Browsers, current[b] # None, Quiet(current[b]), EndSession(b),
         UNCHANGED tab
  PROVE  /\ session' \in [Sessions -> SessionRecords \cup {None}]
         /\ current' \in [Browsers -> Sessions \cup {None}]
         /\ \A x \in Browsers : current'[x] # None =>
              current'[x] = current[x] /\ session'[current'[x]] # None
         /\ SessionsOwned' /\ LoginsHaveSessions' /\ RowsLedTo' /\ PasswordLoginRecorded'
<1> DEFINE s == current[b]
<1>1. /\ s \in Sessions
      /\ session' = [session EXCEPT ![s] = None] /\ current' = [current EXCEPT ![b] = None]
  BY CurrentType DEF EndSession, IInv
<1>2. /\ session' \in [Sessions -> SessionRecords \cup {None}]
      /\ session'[s] = None /\ \A x \in Sessions \ {s} : session'[x] = session[x]
      /\ RowsLedTo' /\ PasswordLoginRecorded'
  BY <1>1, SessionChanges
<1>3. /\ current' \in [Browsers -> Sessions \cup {None}]
      /\ current'[b] = None /\ \A x \in Browsers \ {b} : current'[x] = current[x]
  BY <1>1 DEF IInv, TypeOK
<1>4. \A x \in Browsers : current'[x] # None =>
        current'[x] = current[x] /\ session'[current'[x]] # None
  BY <1>2, <1>3, CurrentType DEF IInv, SessionsOwned
<1>5. SessionsOwned'
  BY <1>4 DEF IInv, SessionsOwned
<1>6. LoginsHaveSessions'
  BY <1>2, TabType DEF IInv, LoginsHaveSessions, Quiet
<1> QED BY <1>2, <1>3, <1>4, <1>5, <1>6

\* The login page is shown in a session, new or not.
LEMMA ShowPageStep ==
  ASSUME IInv, NEW b \in Browsers, NEW s \in Sessions, ShowPage(b, s)
  PROVE  /\ session' \in [Sessions -> SessionRecords \cup {None}]
         /\ session'[s] # None /\ \A x \in Sessions \ {s} : session'[x] = session[x]
         /\ current' \in [Browsers -> Sessions \cup {None}]
         /\ current'[b] = s /\ \A x \in Browsers \ {b} : current'[x] = current[x]
         /\ RowsLedTo' /\ PasswordLoginRecorded'
<1> DEFINE r == IF session[s] = None THEN [Anonymous EXCEPT !.page = TRUE]
                                     ELSE [session[s] EXCEPT !.page = TRUE]
<1>1. /\ r \in SessionRecords
      /\ r.row = "open" /\ ~r.wrong => r.attr = "login"
      /\ r.by = "password" => r.row \in {"open", "closed"}
  <2>1. CASE session[s] = None
    <3>1. r = [Anonymous EXCEPT !.page = TRUE]
      BY <2>1
    <3>2. [Anonymous EXCEPT !.page = TRUE] \in SessionRecords
      BY DEF Anonymous, SessionRecords
    <3>3. [Anonymous EXCEPT !.page = TRUE].row = None /\ [Anonymous EXCEPT !.page = TRUE].by = None
      BY DEF Anonymous
    <3> QED BY <3>1, <3>2, <3>3
  <2>2. CASE session[s] # None
    <3> DEFINE y == [session[s] EXCEPT !.page = TRUE]
    <3>1. /\ y \in SessionRecords
          /\ y.row = session[s].row /\ y.wrong = session[s].wrong
          /\ y.attr = session[s].attr /\ y.by = session[s].by
      BY <2>2, SessionType DEF IInv, SessionRecords
    <3>2. r = y
      BY <2>2
    <3> HIDE DEF r, y
    <3> QED BY <2>2, <3>1, <3>2 DEF IInv, RowsLedTo, PasswordLoginRecorded
  <2> QED BY <2>1, <2>2
<1>2. session' = [session EXCEPT ![s] = r]
  BY DEF ShowPage
<1>3. current' = [current EXCEPT ![b] = s]
  BY DEF ShowPage
<1> HIDE DEF r
<1>4. /\ session' \in [Sessions -> SessionRecords \cup {None}]
      /\ session'[s] = r /\ \A x \in Sessions \ {s} : session'[x] = session[x]
      /\ RowsLedTo' /\ PasswordLoginRecorded'
  BY <1>1, <1>2, SessionChanges
<1>5. /\ current' \in [Browsers -> Sessions \cup {None}]
      /\ current'[b] = s /\ \A x \in Browsers \ {b} : current'[x] = current[x]
  BY <1>3 DEF IInv, TypeOK
<1> QED BY <1>1, <1>4, <1>5

-----------------------------------------------------------------------------
(* GET /login.                                                              *)

LEMMA LoginPageOK ==
  ASSUME IInv, NEW b \in Browsers, NEW s \in Sessions, LoginPage(b, s)
  PROVE  IInv'
<1>1. /\ cookie[b] = None /\ Quiet(s)
      /\ \A x \in Browsers \ {b} : current[x] # s
  <2>1. CASE current[b] = None
    BY <2>1, CurrentType DEF LoginPage, Fresh, IInv
  <2>2. CASE current[b] # None
    BY <2>2 DEF LoginPage, IInv, SessionsOwned
  <2> QED BY <2>1, <2>2 DEF LoginPage
<1>2. UNCHANGED <<kind, remembered, cookie, tab, forgotten, disturbed, leftOpen>>
  BY DEF LoginPage
<1>3. /\ session' \in [Sessions -> SessionRecords \cup {None}]
      /\ session'[s] # None /\ \A x \in Sessions \ {s} : session'[x] = session[x]
      /\ current' \in [Browsers -> Sessions \cup {None}]
      /\ current'[b] = s /\ \A x \in Browsers \ {b} : current'[x] = current[x]
      /\ RowsLedTo' /\ PasswordLoginRecorded'
  BY ShowPageStep DEF LoginPage
<1>4. TypeOK'
  BY <1>2, <1>3 DEF IInv, TypeOK
<1>5. SessionsOwned'
  BY <1>1, <1>2, <1>3 DEF IInv, SessionsOwned, Quiet
<1>6. LoginsHaveSessions'
  BY <1>2, <1>3, TabType DEF IInv, LoginsHaveSessions
<1>7. UndisturbedAlone'
  <2>1. \A t \in Tabs : tab[t] # None /\ tab[t].browser \notin disturbed => tab[t].browser # b
    BY <1>1, TabType DEF IInv, UndisturbedAlone
  <2> QED BY <1>2, <1>3, <2>1, TabType DEF IInv, UndisturbedAlone
<1> QED BY <1>2, <1>3, <1>4, <1>5, <1>6, <1>7 DEF IInv, IdsOwned, UndisturbedReadable, Readable,
     ForgottenUnread, ForgottenStaysForgotten, LogoutClosesLogin

LEMMA CookieLoginOK ==
  ASSUME IInv, NEW t \in Tabs, NEW b \in Browsers, CookieLogin(t, b)
  PROVE  IInv'
<1> DEFINE y == [step |-> "read", browser |-> b, session |-> current[b], cookie |-> cookie[b]]
<1>1. /\ tab[t] = None /\ cookie[b] # None /\ cookie[b] \in Entries
      /\ current[b] # None => Quiet(current[b])
  BY CookieType DEF CookieLogin, IInv
<1>2. /\ y \in CookieLogins /\ y # None
      /\ y.step = "read" /\ y.browser = b /\ y.session = current[b] /\ y.cookie = cookie[b]
  <2>1. y \in CookieLogins
    BY <1>1 DEF IInv, TypeOK, CookieLogins
  <2> QED BY <2>1
<1>3. /\ tab' = [tab EXCEPT ![t] = y]
      /\ disturbed' = IF TabsOf(b) = {} THEN disturbed ELSE disturbed \cup {b}
      /\ UNCHANGED <<kind, remembered, session, current, cookie, forgotten, leftOpen>>
  BY DEF CookieLogin
<1> HIDE DEF y
<1>4. /\ tab' \in [Tabs -> CookieLogins \cup {None}]
      /\ tab'[t] = y /\ \A x \in Tabs \ {t} : tab'[x] = tab[x]
  BY <1>2, <1>3 DEF IInv, TypeOK
<1>5. /\ disturbed \subseteq disturbed' /\ disturbed' \subseteq Browsers
      /\ b \notin disturbed' => \A x \in Tabs : tab[x] # None => tab[x].browser # b
  BY <1>3 DEF IInv, TypeOK, TabsOf
<1>6. TypeOK'
  BY <1>3, <1>4, <1>5 DEF IInv, TypeOK
<1>7. SessionsOwned'
  BY <1>1, <1>2, <1>3, <1>4 DEF IInv, SessionsOwned, Quiet
<1>8. LoginsHaveSessions'
  BY <1>2, <1>3, <1>4 DEF IInv, LoginsHaveSessions
<1>9. IdsOwned'
  <2>1. \A x \in Tabs : tab[x] # None /\ tab[x].cookie.id = y.cookie.id => tab[x].browser = b
    BY <1>1, <1>2 DEF IInv, IdsOwned
  <2>2. \A x \in Browsers : cookie[x] # None /\ cookie[x].id = y.cookie.id => x = b
    BY <1>1, <1>2 DEF IInv, IdsOwned
  <2> QED BY <1>2, <1>3, <1>4, <2>1, <2>2 DEF IInv, IdsOwned
<1>10. UndisturbedAlone'
  BY <1>2, <1>3, <1>4, <1>5 DEF IInv, UndisturbedAlone
<1>11. UndisturbedReadable'
  BY <1>3, <1>5 DEF IInv, UndisturbedReadable, Readable
<1>12. ForgottenUnread'
  BY <1>2, <1>3, <1>4 DEF IInv, ForgottenUnread
<1> QED BY <1>3, <1>6, <1>7, <1>8, <1>9, <1>10, <1>11, <1>12 DEF IInv, RowsLedTo,
     ForgottenStaysForgotten, LogoutClosesLogin, PasswordLoginRecorded

-----------------------------------------------------------------------------
(* The cookie login, step by step.                                          *)

\* The session that a tab is served in is nobody else's.
LEMMA ServedAlone ==
  ASSUME IInv, NEW t \in Tabs, tab[t] # None, NEW s \in Sessions, Serves(t, s)
  PROVE  /\ \A x \in Tabs \ {t} : tab[x] # None => tab[x].session # s
         /\ \A x \in Browsers \ {tab[t].browser} : current[x] # s
         /\ tab[t].session \in {None, s}
<1>1. CASE tab[t].session = None
  BY <1>1, CurrentType DEF Serves, Fresh, Quiet, IInv
<1>2. CASE tab[t].session # None
  BY <1>2 DEF Serves, IInv, SessionsOwned
<1> QED BY <1>1, <1>2

\* A cookie login ends in its session, which is the browser's from then on.
LEMMA TabEnds ==
  ASSUME IInv, NEW t \in Tabs, tab[t] # None, NEW s \in Sessions, Serves(t, s),
         tab' = [tab EXCEPT ![t] = None], current'[tab[t].browser] = s,
         \A x \in Browsers \ {tab[t].browser} :
           current'[x] = current[x] /\ cookie'[x] = cookie[x],
         UNCHANGED <<forgotten, disturbed>>
  PROVE  /\ tab' \in [Tabs -> CookieLogins \cup {None}]
         /\ tab'[t] = None /\ \A x \in Tabs \ {t} : tab'[x] = tab[x]
         /\ SessionsOwned' /\ UndisturbedAlone' /\ ForgottenUnread'
<1>1. /\ tab' \in [Tabs -> CookieLogins \cup {None}]
      /\ tab'[t] = None /\ \A x \in Tabs \ {t} : tab'[x] = tab[x]
  BY DEF IInv, TypeOK
<1>2. /\ \A x \in Tabs \ {t} : tab[x] # None => tab[x].session # s
      /\ \A x \in Browsers \ {tab[t].browser} : current[x] # s
      /\ tab[t].browser \in Browsers
  BY ServedAlone, TabType DEF IInv
<1>3. SessionsOwned'
  BY <1>1, <1>2, TabType DEF IInv, SessionsOwned
<1>4. UndisturbedAlone'
  <2>1. \A x \in Tabs \ {t} : tab[x] # None /\ tab[x].browser \notin disturbed =>
          tab[x].browser \in Browsers \ {tab[t].browser}
    BY TabType DEF IInv, UndisturbedAlone
  <2> QED BY <1>1, <2>1 DEF IInv, UndisturbedAlone
<1>5. ForgottenUnread'
  BY <1>1 DEF IInv, ForgottenUnread
<1> QED BY <1>1, <1>3, <1>4, <1>5

LEMMA ReadFoundOK ==
  ASSUME IInv, NEW t \in Tabs, NEW s \in Sessions, ReadFound(t, s)
  PROVE  IInv'
<1> DEFINE y == [tab[t] EXCEPT !.step = "setAuthentication", !.session = s]
<1>1. /\ tab[t] # None /\ tab[t] \in CookieLogins /\ Serves(t, s)
      /\ Readable(tab[t].cookie)
  BY TabType, Zenon DEF ReadFound, At, IInv
<1>2. /\ y \in CookieLogins
      /\ y.step = "setAuthentication" /\ y.session = s
      /\ y.browser = tab[t].browser /\ y.cookie = tab[t].cookie
  <2>1. "setAuthentication" \in {"read", "setAuthentication", "update"} /\ s \in Sessions \cup {None}
    OBVIOUS
  <2> QED BY <1>1, <2>1, Zenon DEF CookieLogins
<1>3. /\ tab' = [tab EXCEPT ![t] = y]
      /\ UNCHANGED <<kind, remembered, session, current, cookie, forgotten, disturbed, leftOpen>>
  BY Zenon DEF ReadFound
<1> HIDE DEF y
<1>4. /\ tab' \in [Tabs -> CookieLogins \cup {None}]
      /\ y # None /\ tab'[t] = y /\ \A x \in Tabs \ {t} : tab'[x] = tab[x]
  BY <1>2, <1>3 DEF IInv, TypeOK
<1>5. /\ \A x \in Tabs \ {t} : tab[x] # None => tab[x].session # s
      /\ \A x \in Browsers \ {tab[t].browser} : current[x] # s
      /\ tab[t].session \in {None, s} /\ tab[t].browser \in Browsers
  BY <1>1, ServedAlone, TabType DEF IInv
<1>6. TypeOK'
  BY <1>3, <1>4 DEF IInv, TypeOK
<1>7. SessionsOwned'
  BY <1>2, <1>3, <1>4, <1>5 DEF IInv, SessionsOwned
<1>8. LoginsHaveSessions'
  BY <1>2, <1>3, <1>4 DEF IInv, LoginsHaveSessions
<1>9. IdsOwned'
  BY <1>1, <1>2, <1>3, <1>4 DEF IInv, IdsOwned
<1>10. UndisturbedAlone'
  BY <1>1, <1>2, <1>3, <1>4, <1>5 DEF IInv, UndisturbedAlone
<1>11. ForgottenUnread'
  BY <1>1, <1>3 DEF IInv, ForgottenUnread, ForgottenStaysForgotten, Readable
<1> QED BY <1>3, <1>6, <1>7, <1>8, <1>9, <1>10, <1>11 DEF IInv, UndisturbedReadable, Readable,
     RowsLedTo, ForgottenStaysForgotten, LogoutClosesLogin, PasswordLoginRecorded

LEMMA ReadNothingOK ==
  ASSUME IInv, NEW t \in Tabs, NEW s \in Sessions, ReadNothing(t, s)
  PROVE  IInv'
<1> DEFINE b == tab[t].browser
<1>1. /\ tab[t] # None /\ Serves(t, s) /\ b \in Browsers
      /\ tab' = [tab EXCEPT ![t] = None] /\ ShowPage(b, s)
      /\ UNCHANGED <<kind, remembered, cookie, forgotten, disturbed, leftOpen>>
  BY TabType DEF ReadNothing, At, IInv
<1>2. /\ session' \in [Sessions -> SessionRecords \cup {None}]
      /\ session'[s] # None /\ \A x \in Sessions \ {s} : session'[x] = session[x]
      /\ current' \in [Browsers -> Sessions \cup {None}]
      /\ current'[b] = s /\ \A x \in Browsers \ {b} : current'[x] = current[x]
      /\ RowsLedTo' /\ PasswordLoginRecorded'
  BY <1>1, ShowPageStep
<1>3. /\ tab' \in [Tabs -> CookieLogins \cup {None}]
      /\ tab'[t] = None /\ \A x \in Tabs \ {t} : tab'[x] = tab[x]
      /\ SessionsOwned' /\ UndisturbedAlone' /\ ForgottenUnread'
  BY <1>1, <1>2, TabEnds
<1>4. TypeOK'
  BY <1>1, <1>2, <1>3 DEF IInv, TypeOK
<1>5. LoginsHaveSessions'
  BY <1>2, <1>3, TabType DEF IInv, LoginsHaveSessions
<1>6. IdsOwned'
  BY <1>1, <1>3 DEF IInv, IdsOwned
<1> QED BY <1>1, <1>2, <1>3, <1>4, <1>5, <1>6 DEF IInv, UndisturbedReadable, Readable,
     ForgottenStaysForgotten, LogoutClosesLogin

LEMMA SetAuthenticationOK ==
  ASSUME IInv, NEW t \in Tabs, SetAuthentication(t)
  PROVE  IInv'
<1>1. /\ tab[t] # None /\ tab[t] \in CookieLogins /\ tab[t].browser \in Browsers
      /\ tab[t].step = "setAuthentication" /\ tab[t].session \in Sessions
  BY TabType DEF SetAuthentication, At, IInv, LoginsHaveSessions
<1>2. PICK s \in Sessions : s = tab[t].session
  BY <1>1
<1>3. PICK row \in {"open", "lost"} :
        /\ session' = [session EXCEPT ![s] = ByCookie(s, row)]
        /\ \/ /\ tab' = [tab EXCEPT ![t].step = "update"]
              /\ UNCHANGED current
           \/ /\ tab' = [tab EXCEPT ![t] = None]
              /\ current' = [current EXCEPT ![tab[t].browser] = s]
  BY <1>2 DEF SetAuthentication, FailedRow
<1>4. UNCHANGED <<kind, remembered, cookie, forgotten, disturbed, leftOpen>>
  BY DEF SetAuthentication
<1>5. /\ session' \in [Sessions -> SessionRecords \cup {None}]
      /\ session'[s] # None /\ \A x \in Sessions \ {s} : session'[x] = session[x]
      /\ RowsLedTo' /\ PasswordLoginRecorded'
  <2> DEFINE r == ByCookie(s, row)
  <2>1. /\ r \in SessionRecords /\ r # None
        /\ r.row = row /\ r.attr = "login" /\ r.by = "cookie"
    <3>1. r \in SessionRecords
      BY SessionType DEF ByCookie, SessionRecords, IInv
    <3> QED BY <3>1 DEF ByCookie
  <2>2. session' = [session EXCEPT ![s] = r]
    BY <1>3
  <2> HIDE DEF r
  <2> QED BY <2>1, <2>2, SessionChanges
<1>6. \A x \in Tabs : tab[x] # None /\ tab[x].step = "update" => session'[tab[x].session] # None
  BY <1>5, TabType DEF IInv, LoginsHaveSessions
<1>7. CASE tab' = [tab EXCEPT ![t].step = "update"] /\ UNCHANGED current
  <2> DEFINE y == [tab[t] EXCEPT !.step = "update"]
  <2>1. /\ y \in CookieLogins /\ y # None
        /\ y.step = "update" /\ y.session = tab[t].session
        /\ y.browser = tab[t].browser /\ y.cookie = tab[t].cookie
    <3>1. /\ y \in CookieLogins
          /\ y.step = "update" /\ y.session = tab[t].session
          /\ y.browser = tab[t].browser /\ y.cookie = tab[t].cookie
      BY <1>1 DEF CookieLogins
    <3> QED BY <3>1
  <2>2. tab' = [tab EXCEPT ![t] = y]
    BY <1>7
  <2> HIDE DEF y
  <2>3. /\ tab' \in [Tabs -> CookieLogins \cup {None}]
        /\ tab'[t] = y /\ \A x \in Tabs \ {t} : tab'[x] = tab[x]
    BY <2>1, <2>2 DEF IInv, TypeOK
  <2>4. TypeOK'
    BY <1>4, <1>5, <1>7, <2>3 DEF IInv, TypeOK
  <2>5. SessionsOwned'
    BY <1>1, <1>7, <2>1, <2>3 DEF IInv, SessionsOwned
  <2>6. LoginsHaveSessions'
    BY <1>1, <1>2, <1>5, <1>6, <2>1, <2>3 DEF IInv, LoginsHaveSessions
  <2>7. IdsOwned'
    BY <1>1, <1>4, <2>1, <2>3 DEF IInv, IdsOwned
  <2>8. UndisturbedAlone'
    BY <1>1, <1>4, <1>7, <2>1, <2>3 DEF IInv, UndisturbedAlone
  <2>9. ForgottenUnread'
    BY <1>1, <1>4 DEF IInv, ForgottenUnread
  <2> QED BY <1>4, <1>5, <2>4, <2>5, <2>6, <2>7, <2>8, <2>9 DEF IInv, UndisturbedReadable,
       Readable, ForgottenStaysForgotten, LogoutClosesLogin
<1>8. CASE /\ tab' = [tab EXCEPT ![t] = None]
           /\ current' = [current EXCEPT ![tab[t].browser] = s]
  <2>1. /\ current' \in [Browsers -> Sessions \cup {None}]
        /\ current'[tab[t].browser] = s
        /\ \A x \in Browsers \ {tab[t].browser} : current'[x] = current[x]
    BY <1>1, <1>8 DEF IInv, TypeOK
  <2>2. Serves(t, s)
    BY <1>2 DEF Serves
  <2>3. /\ tab' \in [Tabs -> CookieLogins \cup {None}]
        /\ tab'[t] = None /\ \A x \in Tabs \ {t} : tab'[x] = tab[x]
        /\ SessionsOwned' /\ UndisturbedAlone' /\ ForgottenUnread'
    BY <1>1, <1>4, <1>8, <2>1, <2>2, TabEnds
  <2>4. TypeOK'
    BY <1>4, <1>5, <2>1, <2>3 DEF IInv, TypeOK
  <2>5. LoginsHaveSessions'
    BY <1>6, <2>3 DEF IInv, LoginsHaveSessions
  <2>6. IdsOwned'
    BY <1>4, <2>3 DEF IInv, IdsOwned
  <2> QED BY <1>4, <1>5, <2>3, <2>4, <2>5, <2>6 DEF IInv, UndisturbedReadable, Readable,
       ForgottenStaysForgotten, LogoutClosesLogin
<1> QED BY <1>3, <1>7, <1>8

\* The entry that the cookie login used gets a new key and keeps its id.
LEMMA UpdateOK ==
  ASSUME IInv, NEW t \in Tabs, Update(t)
  PROVE  IInv'
<1> DEFINE entry == [tab[t].cookie EXCEPT !.key = NextKey]
<1>1. /\ tab[t] # None /\ tab[t].step = "update" /\ tab[t].cookie \in Entries
      /\ tab[t].browser \in Browsers /\ tab[t].session \in Sessions
      /\ session[tab[t].session] # None
  BY TabType DEF Update, At, IInv, LoginsHaveSessions
<1>2. PICK b \in Browsers, s \in Sessions : b = tab[t].browser /\ s = tab[t].session
  BY <1>1
<1>3. entry \in Entries /\ entry # None /\ entry.id = tab[t].cookie.id
  <2>1. NextKey \in 1..MaxKeys
    BY NextKeyUnknown DEF Update, IInv
  <2>2. entry \in Entries /\ entry.id = tab[t].cookie.id
    BY <1>1, <2>1 DEF Entries
  <2> QED BY <2>2
<1>4. /\ \/ remembered' = Updated(entry) /\ cookie' = [cookie EXCEPT ![b] = entry]
         \/ UNCHANGED <<remembered, cookie>>
      /\ current' = [current EXCEPT ![b] = s]
      /\ tab' = [tab EXCEPT ![t] = None]
      /\ UNCHANGED <<kind, session, forgotten, disturbed, leftOpen>>
  BY <1>2 DEF Update
<1> HIDE DEF entry
<1>5. /\ current' \in [Browsers -> Sessions \cup {None}]
      /\ current'[b] = s /\ \A x \in Browsers \ {b} : current'[x] = current[x]
      /\ cookie' \in [Browsers -> Entries \cup {None}]
      /\ \A x \in Browsers \ {b} : cookie'[x] = cookie[x]
      /\ cookie'[b] = entry \/ cookie'[b] = cookie[b]
  BY <1>3, <1>4 DEF IInv, TypeOK
<1>6. Serves(t, s)
  BY <1>2 DEF Serves
<1>7. /\ tab' \in [Tabs -> CookieLogins \cup {None}]
      /\ tab'[t] = None /\ \A x \in Tabs \ {t} : tab'[x] = tab[x]
      /\ SessionsOwned' /\ UndisturbedAlone' /\ ForgottenUnread'
  BY <1>1, <1>2, <1>4, <1>5, <1>6, TabEnds
<1>8. remembered' \subseteq Entries /\ (kind = "cache" => Cardinality(remembered') <= 1)
  <2>1. CASE remembered' = Updated(entry)
    <3>1. Updated(entry) \subseteq Entries
      BY <1>3 DEF Updated, IInv, TypeOK
    <3>2. kind = "cache" => Cardinality(Updated(entry)) <= 1
      BY FS_Singleton DEF Updated
    <3> QED BY <2>1, <3>1, <3>2
  <2>2. CASE UNCHANGED remembered
    BY <2>2 DEF IInv, TypeOK
  <2> QED BY <1>4, <2>1, <2>2
<1>9. TypeOK'
  BY <1>1, <1>2, <1>4, <1>5, <1>7, <1>8 DEF IInv, TypeOK
<1>10. LoginsHaveSessions'
  BY <1>4, <1>7 DEF IInv, LoginsHaveSessions
<1>11. IdsOwned'
  <2>1. /\ \A x \in Browsers : cookie[x] # None /\ cookie[x].id = entry.id => x = b
        /\ \A x \in Tabs : tab[x] # None /\ tab[x].cookie.id = entry.id => tab[x].browser = b
    BY <1>1, <1>2, <1>3 DEF IInv, IdsOwned
  <2> QED BY <1>5, <1>7, <2>1 DEF IInv, IdsOwned
<1>12. UndisturbedReadable'
  <2>1. CASE UNCHANGED <<remembered, cookie>>
    BY <1>4, <2>1 DEF IInv, UndisturbedReadable, Readable
  <2>2. CASE remembered' = Updated(entry) /\ cookie' = [cookie EXCEPT ![b] = entry]
    <3>1. CASE kind = "cache"
      BY <1>4, <2>2, <3>1 DEF UndisturbedReadable, Readable, Updated
    <3>2. CASE kind # "cache"
      <4> SUFFICES ASSUME NEW x \in Browsers, cookie'[x] # None, x \notin disturbed
                   PROVE  cookie'[x] \in Updated(entry)
        BY <1>4, <2>2, <3>2 DEF UndisturbedReadable, Readable
      <4>1. CASE x = b
        <5>1. tab[t].cookie \in remembered
          BY <1>1, <1>2, <3>2, <4>1 DEF IInv, UndisturbedAlone, UndisturbedReadable, Readable
        <5>2. cookie'[b] = entry
          BY <2>2 DEF IInv, TypeOK
        <5> QED BY <1>3, <3>2, <4>1, <5>1, <5>2 DEF Updated
      <4>2. CASE x # b
        <5>1. cookie'[x] = cookie[x] /\ cookie[x] \in remembered
          BY <1>5, <3>2, <4>2 DEF IInv, UndisturbedReadable, Readable
        <5>2. cookie[x].id # entry.id
          BY <1>1, <1>2, <1>3, <4>2, <5>1 DEF IInv, IdsOwned
        <5> QED BY <3>2, <5>1, <5>2 DEF Updated
      <4> QED BY <4>1, <4>2
    <3> QED BY <3>1, <3>2
  <2> QED BY <1>4, <2>1, <2>2
<1>13. ForgottenStaysForgotten'
  <2>1. forgotten # "yes"
    BY <1>1 DEF IInv, ForgottenUnread
  <2> QED BY <1>4, <2>1 DEF IInv, ForgottenStaysForgotten, Updated
<1> QED BY <1>4, <1>7, <1>9, <1>10, <1>11, <1>12, <1>13 DEF IInv, RowsLedTo, LogoutClosesLogin,
     PasswordLoginRecorded

-----------------------------------------------------------------------------
(* logon.do.                                                                *)

\* The form of a login page: its session serves no cookie login.
LEMMA FormStep ==
  ASSUME IInv, NEW b \in Browsers, current[b] # None, Quiet(current[b])
  PROVE  /\ current[b] \in Sessions /\ session[current[b]] # None
         /\ b \notin disturbed => \A t \in Tabs : tab[t] # None => tab[t].browser # b
BY CurrentType DEF Quiet, IInv, UndisturbedAlone

LEMMA WrongPasswordOK ==
  ASSUME IInv, NEW b \in Browsers, WrongPassword(b)
  PROVE  IInv'
<1> DEFINE s == current[b]
           r == [session[s] EXCEPT !.attr = "other", !.wrong = TRUE]
<1>1. s \in Sessions /\ session[s] # None /\ session[s] \in SessionRecords
  BY FormStep, SessionType, Zenon DEF WrongPassword, Form, IInv
<1>2. /\ r \in SessionRecords /\ r.wrong = TRUE
      /\ r.by = session[s].by /\ r.row = session[s].row
  <2>1. "other" \in {"login", "other", None} /\ TRUE \in BOOLEAN
    OBVIOUS
  <2> QED BY <1>1, <2>1, Zenon DEF SessionRecords
<1>3. /\ session' = [session EXCEPT ![s] = r]
      /\ UNCHANGED <<kind, remembered, current, cookie, tab, forgotten, disturbed, leftOpen>>
  BY Zenon DEF WrongPassword
<1> HIDE DEF r
<1>4. /\ session' \in [Sessions -> SessionRecords \cup {None}]
      /\ session'[s] = r /\ \A x \in Sessions \ {s} : session'[x] = session[x]
      /\ RowsLedTo' /\ PasswordLoginRecorded'
  BY <1>1, <1>2, <1>3, SessionChanges DEF IInv, PasswordLoginRecorded
<1>5. r # None
  BY <1>2
<1> HIDE DEF s
<1>6. \A x \in Sessions : session[x] # None => session'[x] # None
  BY <1>4, <1>5
<1>7. TypeOK'
  BY <1>3, <1>4, <1>6 DEF IInv, TypeOK
<1>8. LoginsHaveSessions'
  BY <1>3, <1>6, TabType DEF IInv, LoginsHaveSessions
<1> QED BY <1>3, <1>4, <1>7, <1>8 DEF IInv, SessionsOwned, IdsOwned, UndisturbedAlone,
     UndisturbedReadable, Readable, ForgottenUnread, ForgottenStaysForgotten, LogoutClosesLogin

\* A new entry for the user, and a new cookie for the browser.
LEMMA NewCookieStep ==
  ASSUME IInv, NEW b \in Browsers, current[b] # None, Quiet(current[b]), NewCookie(b),
         UNCHANGED <<kind, tab, current>>
  PROVE  /\ remembered' \subseteq Entries
         /\ kind = "cache" => Cardinality(remembered') <= 1
         /\ cookie' \in [Browsers -> Entries \cup {None}]
         /\ forgotten' = "no" /\ disturbed' \subseteq Browsers
         /\ IdsOwned' /\ UndisturbedAlone' /\ UndisturbedReadable'
<1> DEFINE entry == [id |-> NextKey, key |-> NextKey]
<1>1. Unknown # {} /\ NextKey \in 1..MaxKeys
  BY NextKeyUnknown DEF NewCookie, IInv
<1>2. entry \in Entries /\ entry # None /\ entry.id = NextKey
  <2>1. entry \in Entries
    BY <1>1 DEF Entries
  <2> QED BY <2>1
<1>3. /\ remembered' = Saved(entry) /\ cookie' = [cookie EXCEPT ![b] = entry]
      /\ forgotten' = "no"
      /\ disturbed' = IF TabsOf(b) = {} THEN disturbed \ {b} ELSE disturbed
  BY DEF NewCookie
<1> HIDE DEF entry
<1>4. /\ cookie' \in [Browsers -> Entries \cup {None}]
      /\ cookie'[b] = entry /\ \A x \in Browsers \ {b} : cookie'[x] = cookie[x]
  BY <1>2, <1>3 DEF IInv, TypeOK
<1>5. remembered' \subseteq Entries /\ (kind = "cache" => Cardinality(remembered') <= 1)
  <2>1. Saved(entry) \subseteq Entries
    BY <1>2 DEF Saved, IInv, TypeOK
  <2>2. kind = "cache" => Cardinality(Saved(entry)) <= 1
    <3>1. Cardinality({entry}) = 1
      BY FS_Singleton
    <3> QED BY <3>1 DEF Saved
  <2> QED BY <1>3, <2>1, <2>2
<1>6. disturbed' \subseteq Browsers
  BY <1>3 DEF IInv, TypeOK
<1>7. IdsOwned'
  <2>1. /\ \A x \in Browsers : cookie[x] # None => cookie[x].id # entry.id
        /\ \A t \in Tabs : tab[t] # None => tab[t].cookie.id # entry.id
    BY <1>1, <1>2, NextKeyUnknown DEF IInv
  <2> QED BY <1>4, <2>1 DEF IInv, IdsOwned
<1>8. UndisturbedAlone'
  <2>1. \A t \in Tabs : tab[t] # None /\ tab[t].browser \notin disturbed' =>
          tab[t].browser \in Browsers \ {b} /\ tab[t].browser \notin disturbed
    <3> SUFFICES ASSUME NEW t \in Tabs, tab[t] # None, tab[t].browser \notin disturbed'
                 PROVE  tab[t].browser \in Browsers \ {b} /\ tab[t].browser \notin disturbed
      OBVIOUS
    <3>1. tab[t].browser \in Browsers
      BY TabType DEF IInv
    <3>2. CASE TabsOf(b) = {}
      <4>1. tab[t].browser # b
        BY <3>2 DEF TabsOf
      <4> QED BY <1>3, <3>1, <3>2, <4>1
    <3>3. CASE TabsOf(b) # {}
      <4>1. tab[t].browser \notin disturbed
        BY <1>3, <3>3
      <4>2. tab[t].browser # b
        <5> SUFFICES ASSUME tab[t].browser = b PROVE FALSE
          OBVIOUS
        <5>1. current[b] \in {None, tab[t].session}
          BY <4>1, <3>1 DEF IInv, UndisturbedAlone
        <5> QED BY <5>1 DEF Quiet
      <4> QED BY <3>1, <4>1, <4>2
    <3> QED BY <3>2, <3>3
  <2> QED BY <1>4, <2>1 DEF IInv, UndisturbedAlone
<1>9. UndisturbedReadable'
  BY <1>3, <1>4 DEF IInv, UndisturbedReadable, Readable, Saved
<1> QED BY <1>3, <1>4, <1>5, <1>6, <1>7, <1>8, <1>9

LEMMA LogonOK ==
  ASSUME IInv, NEW b \in Browsers, Logon(b)
  PROVE  IInv'
<1> DEFINE s == current[b]
<1>1. /\ s \in Sessions /\ s # None /\ Quiet(s) /\ SwitchSession(s)
      /\ UNCHANGED <<kind, current, tab, leftOpen>>
  BY FormStep DEF Logon, Form
<1>2. /\ session' \in [Sessions -> SessionRecords \cup {None}]
      /\ session'[s] # None /\ \A x \in Sessions \ {s} : session'[x] = session[x]
      /\ RowsLedTo' /\ PasswordLoginRecorded'
  <2>1. PICK r \in {ByPassword("open"), Unrecorded} : session' = [session EXCEPT ![s] = r]
    BY <1>1 DEF SwitchSession
  <2>2. /\ r \in SessionRecords /\ r # None
        /\ r.row = "open" => r.attr = "login"
        /\ r.by = "password" => r.row = "open"
    <3>1. CASE r = ByPassword("open")
      <4>1. r \in SessionRecords
        BY <3>1 DEF ByPassword, SessionRecords
      <4>2. r.row = "open" /\ r.attr = "login"
        BY <3>1 DEF ByPassword
      <4> QED BY <4>1, <4>2
    <3>2. CASE r = Unrecorded
      <4>1. r \in SessionRecords
        BY <3>2 DEF Unrecorded, Anonymous, SessionRecords
      <4>2. r.row = None /\ r.by = None
        BY <3>2 DEF Unrecorded, Anonymous
      <4> QED BY <4>1, <4>2
    <3> QED BY <3>1, <3>2
  <2> QED BY <1>1, <2>1, <2>2, SessionChanges
<1> HIDE DEF s
<1>3. /\ remembered' \subseteq Entries /\ (kind = "cache" => Cardinality(remembered') <= 1)
      /\ cookie' \in [Browsers -> Entries \cup {None}]
      /\ forgotten' \in {"no", "yes", "raced"} /\ disturbed' \subseteq Browsers
      /\ IdsOwned' /\ UndisturbedAlone' /\ UndisturbedReadable'
      /\ ForgottenUnread' /\ ForgottenStaysForgotten'
  <2>1. CASE NewCookie(b)
    <3>1. /\ remembered' \subseteq Entries /\ (kind = "cache" => Cardinality(remembered') <= 1)
          /\ cookie' \in [Browsers -> Entries \cup {None}]
          /\ forgotten' = "no" /\ disturbed' \subseteq Browsers
          /\ IdsOwned' /\ UndisturbedAlone' /\ UndisturbedReadable'
      BY <1>1, <2>1, NewCookieStep DEF s
    <3> QED BY <3>1 DEF ForgottenUnread, ForgottenStaysForgotten
  <2>2. CASE NoNewCookie
    BY <1>1, <2>2 DEF NoNewCookie, IInv, TypeOK, IdsOwned, UndisturbedAlone, UndisturbedReadable,
       Readable, ForgottenUnread, ForgottenStaysForgotten
  <2> QED BY <2>1, <2>2 DEF Logon
<1>4. \A x \in Sessions : session[x] # None => session'[x] # None
  BY <1>2
<1>5. TypeOK'
  BY <1>1, <1>2, <1>3, <1>4 DEF IInv, TypeOK
<1>6. LoginsHaveSessions'
  BY <1>1, <1>4, TabType DEF IInv, LoginsHaveSessions
<1> QED BY <1>1, <1>2, <1>3, <1>5, <1>6 DEF IInv, SessionsOwned, LogoutClosesLogin

-----------------------------------------------------------------------------
(* Logout and the end of sessions.                                          *)

LEMMA LogoutOK ==
  ASSUME IInv, NEW b \in Browsers, Logout(b)
  PROVE  IInv'
<1>1. /\ current[b] # None /\ Quiet(current[b]) /\ Forget(b) /\ EndSession(b)
      /\ UNCHANGED <<kind, tab>>
  BY DEF Logout, LoggedIn
<1>2. leftOpen' = FALSE
  <2> DEFINE record == session[current[b]]
  <2>1. current[b] \in Sessions /\ record # None /\ record \in SessionRecords
    BY <1>1, FormStep, SessionType DEF IInv
  <2>2. ~record.wrong => Closed(record).row # "open"
    <3>1. CASE record.row = "open" /\ record.attr = "login"
      BY <2>1, <3>1 DEF Closed, SessionRecords
    <3>2. CASE record.row # "open"
      BY <3>2 DEF Closed
    <3> QED BY <2>1, <3>1, <3>2 DEF IInv, RowsLedTo
  <2>3. leftOpen' = (leftOpen \/ (~record.wrong /\ Closed(record).row = "open"))
    BY DEF Logout
  <2> QED BY <2>2, <2>3 DEF IInv, LogoutClosesLogin
<1>3. /\ remembered' \subseteq Entries /\ (kind = "cache" => Cardinality(remembered') <= 1)
      /\ cookie' \in [Browsers -> Entries \cup {None}]
      /\ forgotten' \in {"no", "yes", "raced"} /\ disturbed' \subseteq Browsers
      /\ IdsOwned' /\ UndisturbedReadable'
      /\ ForgottenUnread' /\ ForgottenStaysForgotten'
      /\ UndisturbedAlone'
  BY <1>1, ForgetStep
<1>4. /\ session' \in [Sessions -> SessionRecords \cup {None}]
      /\ current' \in [Browsers -> Sessions \cup {None}]
      /\ \A x \in Browsers : current'[x] # None =>
           current'[x] = current[x] /\ session'[current'[x]] # None
      /\ SessionsOwned' /\ LoginsHaveSessions' /\ RowsLedTo' /\ PasswordLoginRecorded'
  BY <1>1, EndSessionStep
<1>5. TypeOK'
  BY <1>1, <1>2, <1>3, <1>4 DEF IInv, TypeOK
<1> QED BY <1>2, <1>3, <1>4, <1>5 DEF IInv, LogoutClosesLogin

LEMMA LogoutFailsOK ==
  ASSUME IInv, NEW b \in Browsers, LogoutFails(b)
  PROVE  IInv'
<1> DEFINE s == current[b]
<1>1. /\ s \in Sessions /\ session[s] # None /\ session[s] \in SessionRecords
      /\ s # None /\ Quiet(s)
      /\ b \notin disturbed => \A t \in Tabs : tab[t] # None => tab[t].browser # b
      /\ UNCHANGED <<kind, current, tab, leftOpen>>
  BY FormStep, SessionType DEF LogoutFails, LoggedIn, IInv
<1>2. CASE /\ cookie' = [cookie EXCEPT ![b] = None]
           /\ UNCHANGED <<remembered, session, forgotten, disturbed>>
  <2>1. /\ cookie' \in [Browsers -> Entries \cup {None}] /\ cookie'[b] = None
        /\ \A x \in Browsers \ {b} : cookie'[x] = cookie[x]
    BY <1>2 DEF IInv, TypeOK
  <2>2. TypeOK'
    BY <1>1, <1>2, <2>1 DEF IInv, TypeOK
  <2>3. IdsOwned'
    BY <1>1, <2>1 DEF IInv, IdsOwned
  <2>4. UndisturbedAlone'
    <3>1. \A t \in Tabs : tab[t] # None /\ tab[t].browser \notin disturbed =>
            tab[t].browser \in Browsers \ {b}
      BY <1>1, TabType DEF IInv
    <3> QED BY <1>1, <1>2, <2>1, <3>1 DEF IInv, UndisturbedAlone
  <2>5. UndisturbedReadable'
    BY <1>1, <1>2, <2>1 DEF IInv, UndisturbedReadable, Readable
  <2> HIDE DEF s
  <2> QED BY <1>1, <1>2, <2>2, <2>3, <2>4, <2>5 DEF IInv, SessionsOwned, LoginsHaveSessions,
       ForgottenUnread, RowsLedTo, ForgottenStaysForgotten, LogoutClosesLogin, PasswordLoginRecorded
<1>3. CASE Forget(b) /\ session' \in {session, [session EXCEPT ![s] = Closed(@)]}
  <2>1. /\ remembered' \subseteq Entries /\ (kind = "cache" => Cardinality(remembered') <= 1)
        /\ cookie' \in [Browsers -> Entries \cup {None}]
        /\ forgotten' \in {"no", "yes", "raced"} /\ disturbed' \subseteq Browsers
        /\ IdsOwned' /\ UndisturbedReadable'
        /\ ForgottenUnread' /\ ForgottenStaysForgotten'
        /\ UndisturbedAlone'
    BY <1>1, <1>3, ForgetStep
  <2>2. PICK r \in {session[s], Closed(session[s])} : session' = [session EXCEPT ![s] = r]
    BY <1>1, <1>3 DEF IInv, TypeOK
  <2>3. /\ r \in SessionRecords /\ r # None
        /\ r.row = "open" => session[s].row = "open" /\ r.attr = session[s].attr
                             /\ r.wrong = session[s].wrong
        /\ r.by = session[s].by /\ (r.row = session[s].row \/ r.row = "closed")
    <3> DEFINE o == session[s]
               y == [o EXCEPT !.row = "closed"]
    <3>1. y \in SessionRecords /\ y.row = "closed" /\ y.by = o.by
      BY <1>1 DEF SessionRecords
    <3>2. r = o \/ r = y
      BY <2>2 DEF Closed
    <3> HIDE DEF o, y
    <3> QED BY <1>1, <3>1, <3>2 DEF o
  <2>4. /\ session' \in [Sessions -> SessionRecords \cup {None}]
        /\ session'[s] = r /\ \A x \in Sessions \ {s} : session'[x] = session[x]
        /\ RowsLedTo' /\ PasswordLoginRecorded'
    BY <1>1, <2>2, <2>3, SessionChanges DEF IInv, RowsLedTo, PasswordLoginRecorded
  <2> HIDE DEF s
  <2>5. \A x \in Sessions : session[x] # None => session'[x] # None
    BY <2>3, <2>4
  <2>6. TypeOK'
    BY <1>1, <2>1, <2>4, <2>5 DEF IInv, TypeOK
  <2>7. LoginsHaveSessions'
    BY <1>1, <2>5, TabType DEF IInv, LoginsHaveSessions
  <2> QED BY <1>1, <2>1, <2>4, <2>6, <2>7 DEF IInv, SessionsOwned, LogoutClosesLogin
<1> QED BY <1>2, <1>3 DEF LogoutFails

LEMMA LogoutAnonymousOK ==
  ASSUME IInv, NEW b \in Browsers, LogoutAnonymous(b)
  PROVE  IInv'
<1>1. /\ current[b] # None /\ Quiet(current[b]) /\ EndSession(b)
      /\ UNCHANGED <<kind, remembered, cookie, tab, forgotten, disturbed, leftOpen>>
  BY DEF LogoutAnonymous
<1>2. /\ session' \in [Sessions -> SessionRecords \cup {None}]
      /\ current' \in [Browsers -> Sessions \cup {None}]
      /\ \A x \in Browsers : current'[x] # None =>
           current'[x] = current[x] /\ session'[current'[x]] # None
      /\ SessionsOwned' /\ LoginsHaveSessions' /\ RowsLedTo' /\ PasswordLoginRecorded'
  BY <1>1, EndSessionStep
<1>3. TypeOK'
  BY <1>1, <1>2 DEF IInv, TypeOK
<1>4. UndisturbedAlone'
  BY <1>1, <1>2, TabType DEF IInv, UndisturbedAlone
<1> QED BY <1>1, <1>2, <1>3, <1>4 DEF IInv, IdsOwned, UndisturbedReadable, Readable,
     ForgottenUnread, ForgottenStaysForgotten, LogoutClosesLogin

LEMMA ExpireOK ==
  ASSUME IInv, NEW s \in Sessions, Expire(s)
  PROVE  IInv'
<1>1. /\ Quiet(s) /\ session' = [session EXCEPT ![s] = None]
      /\ current' = [b \in Browsers |-> IF current[b] = s THEN None ELSE current[b]]
      /\ UNCHANGED <<kind, remembered, cookie, tab, forgotten, disturbed, leftOpen>>
  BY DEF Expire
<1>2. /\ session' \in [Sessions -> SessionRecords \cup {None}]
      /\ session'[s] = None /\ \A x \in Sessions \ {s} : session'[x] = session[x]
      /\ RowsLedTo' /\ PasswordLoginRecorded'
  BY <1>1, SessionChanges
<1>3. /\ current' \in [Browsers -> Sessions \cup {None}]
      /\ \A x \in Browsers : current'[x] # None => current'[x] = current[x] /\ current'[x] # s
      /\ \A x \in Browsers : current'[x] \in {current[x], None}
  BY <1>1 DEF IInv, TypeOK
<1>4. TypeOK'
  <2>1. \A x \in Browsers : current'[x] # None => session'[current'[x]] # None
    <3> SUFFICES ASSUME NEW x \in Browsers, current'[x] # None
                 PROVE  session'[current'[x]] # None
      OBVIOUS
    <3>1. current'[x] = current[x] /\ current[x] # s /\ current[x] # None
      BY <1>3
    <3>2. current[x] \in Sessions /\ session[current[x]] # None
      BY <3>1 DEF IInv, TypeOK
    <3> QED BY <1>2, <3>1, <3>2
  <2> QED BY <1>1, <1>2, <1>3, <2>1 DEF IInv, TypeOK
<1>5. SessionsOwned'
  BY <1>1, <1>3 DEF IInv, SessionsOwned
<1>6. LoginsHaveSessions'
  BY <1>1, <1>2, TabType DEF IInv, LoginsHaveSessions, Quiet
<1>7. UndisturbedAlone'
  BY <1>1, <1>3, TabType DEF IInv, UndisturbedAlone
<1> QED BY <1>1, <1>2, <1>4, <1>5, <1>6, <1>7 DEF IInv, IdsOwned, UndisturbedReadable, Readable,
     ForgottenUnread, ForgottenStaysForgotten, LogoutClosesLogin

-----------------------------------------------------------------------------
(* The invariant.                                                           *)

LEMMA InitOK == Init => IInv
<1> SUFFICES ASSUME Init PROVE IInv
  OBVIOUS
<1>1. TypeOK
  <2>1. Cardinality({}) = 0
    BY FS_EmptySet
  <2>2. remembered \subseteq Entries /\ Cardinality(remembered) <= 1
    BY <2>1 DEF Init
  <2> QED BY <2>2 DEF Init, TypeOK
<1> QED BY <1>1 DEF Init, IInv, SessionsOwned, LoginsHaveSessions, IdsOwned, UndisturbedAlone,
     UndisturbedReadable, ForgottenUnread, RowsLedTo, ForgottenStaysForgotten, LogoutClosesLogin,
     PasswordLoginRecorded

LEMMA NextOK == IInv /\ [Next]_vars => IInv'
<1> SUFFICES ASSUME IInv, [Next]_vars PROVE IInv'
  OBVIOUS
<1>1. CASE UNCHANGED vars
  BY <1>1 DEF vars, IInv, TypeOK, SessionsOwned, LoginsHaveSessions, IdsOwned, UndisturbedAlone,
     UndisturbedReadable, Readable, ForgottenUnread, RowsLedTo, ForgottenStaysForgotten,
     LogoutClosesLogin, PasswordLoginRecorded
<1>2. CASE \E b \in Browsers :
             \/ \E s \in Sessions : LoginPage(b, s)
             \/ \E t \in Tabs : CookieLogin(t, b)
             \/ WrongPassword(b) \/ Logon(b)
             \/ Logout(b) \/ LogoutFails(b) \/ LogoutAnonymous(b)
  BY <1>2, LoginPageOK, CookieLoginOK, WrongPasswordOK, LogonOK, LogoutOK, LogoutFailsOK,
     LogoutAnonymousOK
<1>3. CASE \E t \in Tabs :
             \/ \E s \in Sessions : ReadFound(t, s) \/ ReadNothing(t, s)
             \/ SetAuthentication(t) \/ Update(t)
  BY <1>3, ReadFoundOK, ReadNothingOK, SetAuthenticationOK, UpdateOK
<1>4. CASE \E s \in Sessions : Expire(s)
  BY <1>4, ExpireOK
<1> QED BY <1>1, <1>2, <1>3, <1>4 DEF Next

\* The parts of IInv hold in every state, however many browsers, tabs and sessions there
\* are and whichever remember-me store is wired.
THEOREM SessionsInvariant == Spec => []IInv
  BY InitOK, NextOK, PTL DEF Spec

\* Type correctness: among others, the cache has at most one entry, and the session of a
\* browser is there.
THEOREM TypeCorrect == Spec => []TypeOK
<1>1. IInv => TypeOK
  BY DEF IInv
<1> QED BY <1>1, SessionsInvariant, PTL

\* removeRemeberMe: the entries of the user stay gone until the next login with a
\* password, but for a cookie login that puts back into the cache what it had read.
THEOREM ForgottenForGood == Spec => []ForgottenStaysForgotten
<1>1. IInv => ForgottenStaysForgotten
  BY DEF IInv
<1> QED BY <1>1, SessionsInvariant, PTL

\* updateRemeberMe: whatever fails, a browser that neither a logout nor a second tab
\* disturbs is not locked out by the change of the key.
THEOREM CookiesStayGood == Spec => []CookieStaysGood
<1>1. IInv => CookieStaysGood
  BY DEF IInv, UndisturbedReadable, CookieStaysGood
<1> QED BY <1>1, SessionsInvariant, PTL

\* The logout closes the row of the login that it ends.
THEOREM LogoutsCloseLogins == Spec => []LogoutClosesLogin
<1>1. IInv => LogoutClosesLogin
  BY DEF IInv
<1> QED BY <1>1, SessionsInvariant, PTL

\* Nobody is logged in by password without a row of the login history.
THEOREM PasswordLoginsRecorded == Spec => []PasswordLoginRecorded
<1>1. IInv => PasswordLoginRecorded
  BY DEF IInv
<1> QED BY <1>1, SessionsInvariant, PTL

=============================================================================
