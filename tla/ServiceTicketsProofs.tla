------------------------- MODULE ServiceTicketsProofs -------------------------
(***************************************************************************)
(* Proofs about ServiceTickets, one lemma for each action.  The user's side *)
(* touches sessions and new tickets only, the application's side tickets    *)
(* that are there; the parts of the invariant follow that division.         *)
(***************************************************************************)
EXTENDS ServiceTickets, TLAPS

USE SentinelAssumption

\* What a session holds, when there is one.
LEMMA SessionType ==
  ASSUME TypeOK, NEW b \in Browsers, session[b] # None
  PROVE  session[b] \in CasSessions /\ session[b].user \in Users
         /\ session[b].casDetails \in Apps \cup {None}
<1>1. session[b] \in CasSessions
  BY DEF TypeOK
<1> QED BY <1>1 DEF CasSessions

\* What a thread is doing, when it validates.
LEMMA ValidationType ==
  ASSUME TypeOK, NEW p \in Threads, thread[p] # None
  PROVE  thread[p] \in Validations /\ thread[p].step \in {"get", "remove"}
         /\ thread[p].id \in Tickets /\ thread[p].late \in BOOLEAN
         /\ thread[p].ticket \in ServiceTickets \cup {None}
<1>1. thread[p] \in Validations
  BY DEF TypeOK
<1> QED BY <1>1 DEF Validations

\* What a ticket was issued for.
LEMMA GrantType ==
  ASSUME TypeOK, NEW t \in Tickets, issued[t] # None
  PROVE  issued[t] \in Grants /\ issued[t].ticket \in ServiceTickets
         /\ issued[t].asked \in SUBSET Apps
         /\ issued[t].ticket.app \in Apps \cup {None}
<1>1. issued[t] \in Grants
  BY DEF TypeOK
<1>2. issued[t].ticket \in ServiceTickets /\ issued[t].asked \in SUBSET Apps
  BY <1>1 DEF Grants
<1> QED BY <1>1, <1>2 DEF ServiceTickets

-----------------------------------------------------------------------------
(* The user's side: validations and what the store holds do not change.     *)

\* The login starts a session in which nothing has been asked for.
LEMMA LoginOK ==
  ASSUME IInv, NEW b \in Browsers, NEW u \in Users, Login(b, u)
  PROVE  IInv'
<1> DEFINE s == [user |-> u, casDetails |-> None]
<1>1. /\ s \in CasSessions /\ s.casDetails = None
      /\ session' = [session EXCEPT ![b] = s]
  BY DEF CasSessions, Login, NewSession
<1> HIDE DEF s
<1>2. TypeOK'
  BY <1>1 DEF IInv, Login, TypeOK
<1>3. SessionsAsked'
  BY <1>1 DEF IInv, Login, TypeOK, SessionsAsked
<1>4. TicketsKept'
  BY <1>1 DEF IInv, Login, TypeOK, TicketsKept, ValidationsKnow
<1>5. ValidationsKnow'
  BY <1>1 DEF IInv, Login, TypeOK, ValidationsKnow
<1>6. LateValidationFails'
  BY <1>1 DEF IInv, Login, TypeOK, LateValidationFails, ValidationsKnow, TicketsKept, At
<1>7. FirstValidationSucceeds'
  BY <1>1 DEF IInv, Login, TypeOK, FirstValidationSucceeds, TicketsKept, ValidationsKnow, At
<1>8. AskedSinceLogin'
  BY <1>1 DEF IInv, Login, TypeOK, AskedSinceLogin, SessionsAsked
<1> QED BY <1>2, <1>3, <1>4, <1>5, <1>6, <1>7, <1>8 DEF IInv

\* The logout ends it.
LEMMA LogoutOK ==
  ASSUME IInv, NEW b \in Browsers, Logout(b)
  PROVE  IInv'
<1>1. session' = [session EXCEPT ![b] = None]
  BY DEF Logout, LoggedOut
<1>2. TypeOK'
  BY <1>1 DEF IInv, Logout, TypeOK
<1>3. SessionsAsked'
  BY <1>1 DEF IInv, Logout, TypeOK, SessionsAsked
<1>4. TicketsKept'
  BY <1>1 DEF IInv, Logout, TypeOK, TicketsKept, ValidationsKnow
<1>5. ValidationsKnow'
  BY <1>1 DEF IInv, Logout, TypeOK, ValidationsKnow
<1>6. LateValidationFails'
  BY <1>1 DEF IInv, Logout, TypeOK, LateValidationFails, ValidationsKnow, TicketsKept, At
<1>7. FirstValidationSucceeds'
  BY <1>1 DEF IInv, Logout, TypeOK, FirstValidationSucceeds, TicketsKept, ValidationsKnow, At
<1>8. AskedSinceLogin'
  BY <1>1 DEF IInv, Logout, TypeOK, AskedSinceLogin, SessionsAsked
<1> QED BY <1>2, <1>3, <1>4, <1>5, <1>6, <1>7, <1>8 DEF IInv

\* The attribute is overwritten with what is asked for.
LEMMA BuildCasModelAndViewOK ==
  ASSUME IInv, NEW b \in Browsers, NEW app \in Apps \cup {None}, BuildCasModelAndView(b, app)
  PROVE  IInv'
<1> DEFINE s == [session[b] EXCEPT !.casDetails = app]
<1>1. /\ s \in CasSessions /\ s.casDetails = app
      /\ session' = [session EXCEPT ![b] = s]
      /\ asked' = [asked EXCEPT ![b] = @ \cup ({app} \ {None})]
  <2>1. \A x \in CasSessions : LET y == [x EXCEPT !.casDetails = app]
                              IN y \in CasSessions /\ y.casDetails = app
    BY DEF CasSessions
  <2>2. session[b] \in CasSessions
    BY SessionType DEF IInv, BuildCasModelAndView
  <2> QED BY <2>1, <2>2 DEF BuildCasModelAndView
<1> HIDE DEF s
<1>2. TypeOK'
  BY <1>1 DEF IInv, BuildCasModelAndView, TypeOK
<1>3. SessionsAsked'
  BY <1>1 DEF IInv, BuildCasModelAndView, TypeOK, SessionsAsked
<1>4. TicketsKept'
  BY <1>1 DEF IInv, BuildCasModelAndView, TypeOK, TicketsKept, ValidationsKnow
<1>5. ValidationsKnow'
  BY <1>1 DEF IInv, BuildCasModelAndView, TypeOK, ValidationsKnow
<1>6. LateValidationFails'
  BY <1>1 DEF IInv, BuildCasModelAndView, TypeOK,
              LateValidationFails, ValidationsKnow, TicketsKept, At
<1>7. FirstValidationSucceeds'
  BY <1>1 DEF IInv, BuildCasModelAndView, TypeOK,
              FirstValidationSucceeds, TicketsKept, ValidationsKnow, At
<1>8. AskedSinceLogin'
  BY <1>1 DEF IInv, BuildCasModelAndView, TypeOK, AskedSinceLogin, SessionsAsked
<1> QED BY <1>2, <1>3, <1>4, <1>5, <1>6, <1>7, <1>8 DEF IInv

\* A ticket is new, and it is granted what the session holds.
LEMMA GrantingTicketOK ==
  ASSUME IInv, NEW b \in Browsers, NEW t \in Tickets, GrantingTicket(b, t)
  PROVE  IInv'
<1> DEFINE k == [user |-> session[b].user, app |-> session[b].casDetails]
           g == [ticket |-> k, asked |-> asked[b]]
<1>1. /\ k \in ServiceTickets /\ k.app = session[b].casDetails
      /\ g \in Grants /\ g.ticket = k /\ g.asked = asked[b]
      /\ issued[t] = None /\ session[b] # None
      /\ issued' = [issued EXCEPT ![t] = g]
      /\ ticketStore' = [ticketStore EXCEPT ![t] = IF kind = "jdbc" THEN None ELSE k]
      /\ UNCHANGED <<kind, session, asked, thread, expired, answered>>
  <2>1. k \in ServiceTickets
    BY SessionType DEF IInv, GrantingTicket, ServiceTickets
  <2>2. asked[b] \in SUBSET Apps
    BY DEF IInv, TypeOK
  <2> QED BY <2>1, <2>2 DEF GrantingTicket, FoundAgain, Grants
<1> HIDE DEF k, g
<1>2. TypeOK'
  BY <1>1 DEF IInv, vars, TypeOK
<1>3. SessionsAsked'
  BY <1>1 DEF IInv, vars, TypeOK, SessionsAsked
<1>4. TicketsKept'
  BY <1>1 DEF IInv, vars, TypeOK, TicketsKept, ValidationsKnow
<1>5. ValidationsKnow'
  BY <1>1 DEF IInv, vars, TypeOK, ValidationsKnow
<1>6. LateValidationFails'
  BY <1>1 DEF IInv, vars, TypeOK, LateValidationFails, ValidationsKnow, TicketsKept, At
<1>7. FirstValidationSucceeds'
  BY <1>1 DEF IInv, vars, TypeOK, FirstValidationSucceeds, TicketsKept, ValidationsKnow, At
<1>8. AskedSinceLogin'
  BY <1>1 DEF IInv, vars, TypeOK, AskedSinceLogin, SessionsAsked
<1> QED BY <1>2, <1>3, <1>4, <1>5, <1>6, <1>7, <1>8 DEF IInv

-----------------------------------------------------------------------------
(* The application's side.                                                  *)

\* A validation that starts knows whether the ticket has worked before.
LEMMA ValidateOK ==
  ASSUME IInv, NEW p \in Threads, NEW t \in Tickets, Validate(p, t)
  PROVE  IInv'
<1> DEFINE o == [step |-> "get", id |-> t, late |-> t \in answered, ticket |-> None]
<1>1. /\ o \in Validations /\ o.step = "get" /\ o.id = t
      /\ o.late = (t \in answered) /\ o.ticket = None
      /\ thread' = [thread EXCEPT ![p] = o]
  BY DEF Validations, Validate
<1> HIDE DEF o
<1>2. TypeOK'
  BY <1>1 DEF IInv, Validate, TypeOK
<1>3. SessionsAsked'
  BY <1>1 DEF IInv, Validate, TypeOK, SessionsAsked
<1>4. TicketsKept'
  BY <1>1 DEF IInv, Validate, TypeOK, TicketsKept, ValidationsKnow
<1>5. ValidationsKnow'
  BY <1>1 DEF IInv, Validate, TypeOK, ValidationsKnow
<1>6. LateValidationFails'
  BY <1>1 DEF IInv, Validate, TypeOK, LateValidationFails, ValidationsKnow, TicketsKept, At
<1>7. FirstValidationSucceeds'
  BY <1>1 DEF IInv, Validate, TypeOK, FirstValidationSucceeds, TicketsKept, ValidationsKnow, At
<1>8. AskedSinceLogin'
  BY <1>1 DEF IInv, Validate, TypeOK, AskedSinceLogin, SessionsAsked
<1> QED BY <1>2, <1>3, <1>4, <1>5, <1>6, <1>7, <1>8 DEF IInv

\* It gets what the store holds.
LEMMA GetOK ==
  ASSUME IInv, NEW p \in Threads, Get(p)
  PROVE  IInv'
<1> DEFINE k == ticketStore[thread[p].id]
           o == [thread[p] EXCEPT !.step = "remove", !.ticket = k]
<1>1. /\ thread[p] # None /\ o \in Validations /\ o.step = "remove"
      /\ o.id = thread[p].id /\ o.late = thread[p].late /\ o.ticket = k
      /\ thread' = [thread EXCEPT ![p] = o]
      /\ UNCHANGED <<kind, session, asked, issued, ticketStore, expired, answered>>
  <2>1. k \in ServiceTickets \cup {None} /\ thread[p] \in Validations
    BY ValidationType DEF IInv, TypeOK, Get, At
  <2> HIDE DEF k
  <2>2. \A x \in Validations : LET y == [x EXCEPT !.step = "remove", !.ticket = k]
                              IN /\ y \in Validations /\ y.step = "remove"
                                 /\ y.id = x.id /\ y.late = x.late /\ y.ticket = k
    BY <2>1 DEF Validations
  <2>3. thread' = [thread EXCEPT ![p] = o]
    BY DEF Get, k
  <2> QED BY <2>1, <2>2, <2>3 DEF Get, At
<1> HIDE DEF o
<1>2. TypeOK'
  BY <1>1 DEF IInv, vars, TypeOK
<1>3. SessionsAsked'
  BY <1>1 DEF IInv, vars, TypeOK, SessionsAsked
<1>4. TicketsKept'
  BY <1>1 DEF IInv, vars, TypeOK, TicketsKept, ValidationsKnow
<1>5. ValidationsKnow'
  BY <1>1 DEF IInv, vars, TypeOK, ValidationsKnow
<1>6. LateValidationFails'
  BY <1>1 DEF IInv, vars, TypeOK, LateValidationFails, ValidationsKnow, TicketsKept, At
<1>7. FirstValidationSucceeds'
  <2>1. o.id \in Tickets /\ issued[o.id] # None
    BY <1>1, ValidationType DEF IInv, ValidationsKnow
  <2>2. thread'[p] = o /\ \A q \in Threads \ {p} : thread'[q] = thread[q]
    BY <1>1 DEF IInv, TypeOK
  <2>3. o.ticket = None => kind = "jdbc" \/ o.id \in expired \/ o.id \in answered
    BY <1>1, <2>1 DEF IInv, TicketsKept
  <2> QED BY <1>1, <2>2, <2>3 DEF IInv, FirstValidationSucceeds, At
<1>8. AskedSinceLogin'
  BY <1>1 DEF IInv, vars, TypeOK, AskedSinceLogin, SessionsAsked
<1> QED BY <1>2, <1>3, <1>4, <1>5, <1>6, <1>7, <1>8 DEF IInv

\* An answer takes the ticket out of the store.
LEMMA RemoveOK ==
  ASSUME IInv, NEW p \in Threads, Remove(p)
  PROVE  IInv'
<1>1. /\ thread[p] # None /\ thread[p].id \in Tickets /\ issued[thread[p].id] # None
      /\ ticketStore' = [ticketStore EXCEPT ![thread[p].id] = None]
  BY ValidationType DEF IInv, Remove, Removed, At, ValidationsKnow
<1>2. TypeOK'
  BY <1>1 DEF IInv, Remove, TypeOK
<1>3. SessionsAsked'
  BY <1>1 DEF IInv, Remove, TypeOK, SessionsAsked
<1>4. TicketsKept'
  BY <1>1 DEF IInv, Remove, TypeOK, TicketsKept, ValidationsKnow
<1>5. ValidationsKnow'
  BY <1>1 DEF IInv, Remove, TypeOK, ValidationsKnow
<1>6. LateValidationFails'
  BY <1>1 DEF IInv, Remove, TypeOK, LateValidationFails, ValidationsKnow, TicketsKept, At
<1>7. FirstValidationSucceeds'
  BY <1>1 DEF IInv, Remove, TypeOK, FirstValidationSucceeds, TicketsKept, ValidationsKnow, At
<1>8. AskedSinceLogin'
  BY <1>1 DEF IInv, Remove, TypeOK, AskedSinceLogin, SessionsAsked
<1> QED BY <1>2, <1>3, <1>4, <1>5, <1>6, <1>7, <1>8 DEF IInv

\* So does the time to live.
LEMMA ExpireOK ==
  ASSUME IInv, NEW t \in Tickets, Expire(t)
  PROVE  IInv'
<1>1. issued[t] # None
  BY DEF IInv, Expire, TicketsKept
<1>2. TypeOK'
  BY <1>1 DEF IInv, Expire, TypeOK
<1>3. SessionsAsked'
  BY <1>1 DEF IInv, Expire, TypeOK, SessionsAsked
<1>4. TicketsKept'
  BY <1>1 DEF IInv, Expire, TypeOK, TicketsKept, ValidationsKnow
<1>5. ValidationsKnow'
  BY <1>1 DEF IInv, Expire, TypeOK, ValidationsKnow
<1>6. LateValidationFails'
  BY <1>1 DEF IInv, Expire, TypeOK, LateValidationFails, ValidationsKnow, TicketsKept, At
<1>7. FirstValidationSucceeds'
  BY <1>1 DEF IInv, Expire, TypeOK, FirstValidationSucceeds, TicketsKept, ValidationsKnow, At
<1>8. AskedSinceLogin'
  BY <1>1 DEF IInv, Expire, TypeOK, AskedSinceLogin, SessionsAsked
<1> QED BY <1>2, <1>3, <1>4, <1>5, <1>6, <1>7, <1>8 DEF IInv

-----------------------------------------------------------------------------
(* The invariant.                                                           *)

\* At the start there are no tickets.
LEMMA InitOK == Init => IInv
  BY DEF Init, IInv, TypeOK, SessionsAsked, TicketsKept, ValidationsKnow, LateValidationFails,
         FirstValidationSucceeds, AskedSinceLogin, At

\* Every step preserves the invariant.
LEMMA NextOK == IInv /\ [Next]_vars => IInv'
<1> SUFFICES ASSUME IInv, [Next]_vars
             PROVE  IInv'
  OBVIOUS
<1>1. ASSUME NEW b \in Browsers, NEW u \in Users, Login(b, u)
      PROVE  IInv'
  BY <1>1, LoginOK
<1>2. ASSUME NEW b \in Browsers, Logout(b)
      PROVE  IInv'
  BY <1>2, LogoutOK
<1>3. ASSUME NEW b \in Browsers, NEW app \in Apps \cup {None}, BuildCasModelAndView(b, app)
      PROVE  IInv'
  BY <1>3, BuildCasModelAndViewOK
<1>4. ASSUME NEW b \in Browsers, NEW t \in Tickets, GrantingTicket(b, t)
      PROVE  IInv'
  BY <1>4, GrantingTicketOK
<1>5. ASSUME NEW p \in Threads, NEW t \in Tickets, Validate(p, t)
      PROVE  IInv'
  BY <1>5, ValidateOK
<1>6. ASSUME NEW p \in Threads, Get(p) \/ Remove(p)
      PROVE  IInv'
  BY <1>6, GetOK, RemoveOK
<1>7. ASSUME NEW t \in Tickets, Expire(t)
      PROVE  IInv'
  BY <1>7, ExpireOK
<1>8. CASE UNCHANGED vars
  BY <1>8 DEF vars, IInv, TypeOK, SessionsAsked, TicketsKept, ValidationsKnow, LateValidationFails,
              FirstValidationSucceeds, AskedSinceLogin, At
<1> QED BY <1>1, <1>2, <1>3, <1>4, <1>5, <1>6, <1>7, <1>8 DEF Next

\* The inductive invariant: what is in the store, and what each validation knows.
THEOREM TicketInvariant == Spec => []IInv
<1> QED BY InitOK, NextOK, PTL DEF Spec

\* The types of the variables, and that a ticket is found as it was issued.
THEOREM TypeCorrect == Spec => []TypeOK
<1>1. IInv => TypeOK
  BY DEF IInv
<1> QED BY TicketInvariant, <1>1, PTL

\* A validation that begins after another one was answered does not get the ticket.
THEOREM WorksNoLater == Spec => []LateValidationFails
<1>1. IInv => LateValidationFails
  BY DEF IInv
<1> QED BY TicketInvariant, <1>1, PTL

\* Only the time to live or another validation keeps one from getting its ticket.
THEOREM WorksFirst == Spec => []FirstValidationSucceeds
<1>1. IInv => FirstValidationSucceeds
  BY DEF IInv
<1> QED BY TicketInvariant, <1>1, PTL

\* A ticket is for an application that its user has asked for since logging in.
THEOREM GrantedAsAsked == Spec => []AskedSinceLogin
<1>1. IInv => AskedSinceLogin
  BY DEF IInv
<1> QED BY TicketInvariant, <1>1, PTL
=============================================================================
