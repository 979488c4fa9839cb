---------------------------- MODULE ServiceTickets ----------------------------
(***************************************************************************)
(* CAS single sign-on: a request for an application puts its details into   *)
(* the user's session, the granting endpoint makes a service ticket of what *)
(* the session holds by then, and the application validates the ticket,     *)
(* perhaps more than once and in several threads.                           *)
(***************************************************************************)
EXTENDS FiniteSets

CONSTANTS
  Browsers,
  Users,
  Apps,        \* applications with CAS details
  Tickets,     \* the ids service tickets may be given
  Threads,     \* of validation requests
  None

VARIABLES
  kind,        \* the TicketServices that are wired: "memory", "redis" or "jdbc"
  session,     \* of each browser: its user and its attribute, None without a user
  asked,       \* history: the applications asked for since the login of the session
  issued,      \* history: each ticket, and what had been asked when it was granted
  ticketStore, \* the ticket found under each id, None when there is none
  thread,      \* the validations under way
  expired,     \* history: the tickets whose time to live has passed
  answered     \* history: the tickets for which a validation has been answered

vars == <<kind, session, asked, issued, ticketStore, thread, expired, answered>>

\* ServiceTicketImpl: the authentication and the details, which may be null.
ServiceTickets == [user : Users, app : Apps \cup {None}]
CasSessions == [user : Users, casDetails : Apps \cup {None}]
Validations ==
  [step : {"get", "remove"}, id : Tickets, late : BOOLEAN, ticket : ServiceTickets \cup {None}]
Grants == [ticket : ServiceTickets, asked : SUBSET Apps]

ASSUME SentinelAssumption == None \notin Apps \cup ServiceTickets \cup Grants

TypeOK ==
  /\ kind \in {"memory", "redis", "jdbc"}
  /\ session \in [Browsers -> CasSessions \cup {None}]
  /\ asked \in [Browsers -> SUBSET Apps]
  /\ issued \in [Tickets -> Grants \cup {None}]
  /\ ticketStore \in [Tickets -> ServiceTickets \cup {None}]
  /\ thread \in [Threads -> Validations \cup {None}]
  /\ expired \subseteq Tickets
  /\ answered \subseteq Tickets
  /\ \A t \in Tickets : ticketStore[t] # None => ticketStore[t] = issued[t].ticket

Init ==
  /\ kind \in {"memory", "redis", "jdbc"}
  /\ session = [b \in Browsers |-> None]
  /\ asked = [b \in Browsers |-> {}]
  /\ issued = [t \in Tickets |-> None]
  /\ ticketStore = [t \in Tickets |-> None]
  /\ thread = [p \in Threads |-> None]
  /\ expired = {}
  /\ answered = {}

At(p, step) == thread[p] # None /\ thread[p].step = step

-----------------------------------------------------------------------------
(* The user's side.  All of it needs a user in the session.                 *)

\* MUTANT: the session goes on after the login.
NewSession_Kept(b, u) ==
  IF session[b] = None THEN [user |-> u, casDetails |-> None]
                       ELSE [session[b] EXCEPT !.user = u]

\* The login switches the session, also when a user of the same browser was logged in.
NewSession(b, u) == [user |-> u, casDetails |-> None]

Login(b, u) ==
  /\ session' = [session EXCEPT ![b] = NewSession(b, u)]
  /\ asked' = [asked EXCEPT ![b] = {}]
  /\ UNCHANGED <<kind, issued, ticketStore, thread, expired, answered>>

\* MUTANT: only the user is taken out of the session.
LoggedOut_Anonymous(b) == [session EXCEPT ![b].user = None]

LoggedOut(b) == [session EXCEPT ![b] = None]

Logout(b) ==
  /\ session[b] # None
  /\ session' = LoggedOut(b)
  /\ asked' = [asked EXCEPT ![b] = {}]
  /\ UNCHANGED <<kind, issued, ticketStore, thread, expired, answered>>

\* casLogin and authorize.  When no details are found the attribute is set to null
\* before the request fails.
BuildCasModelAndView(b, app) ==
  /\ session[b] # None
  /\ session' = [session EXCEPT ![b].casDetails = app]
  /\ asked' = [asked EXCEPT ![b] = @ \cup ({app} \ {None})]
  /\ UNCHANGED <<kind, issued, ticketStore, thread, expired, answered>>

\* MUTANT: the ticket is stored without the prefix that remove puts before its id.
FoundAgain_NoPrefix(ticket) == IF kind \in {"redis", "jdbc"} THEN None ELSE ticket

\* JdbcTicketServices inserts the ticket itself in the place of its id, so that no
\* ticket is found under its id.
FoundAgain(ticket) == IF kind = "jdbc" THEN None ELSE ticket

\* The ticket is stored before the details are found to be missing; it then stays
\* in the store, and nobody is told its id.
GrantingTicket(b, t) ==
  /\ session[b] # None /\ issued[t] = None
  /\ LET ticket == [user |-> session[b].user, app |-> session[b].casDetails]
     IN /\ issued' = [issued EXCEPT ![t] = [ticket |-> ticket, asked |-> asked[b]]]
        /\ ticketStore' = [ticketStore EXCEPT ![t] = FoundAgain(ticket)]
  /\ UNCHANGED <<kind, session, asked, thread, expired, answered>>

-----------------------------------------------------------------------------
(* The application's side: consumeTicket is a get followed by a remove.     *)

Validate(p, t) ==
  /\ thread[p] = None
  /\ issued[t] # None /\ issued[t].ticket.app # None
  /\ thread' = [thread EXCEPT ![p] =
       [step |-> "get", id |-> t, late |-> t \in answered, ticket |-> None]]
  /\ UNCHANGED <<kind, session, asked, issued, ticketStore, expired, answered>>

Get(p) ==
  /\ At(p, "get")
  /\ thread' = [thread EXCEPT ![p].step = "remove", ![p].ticket = ticketStore[thread[p].id]]
  /\ UNCHANGED <<kind, session, asked, issued, ticketStore, expired, answered>>

\* MUTANT: the ticket is put back for the next validation.
Removed_PutsBack(p) == [ticketStore EXCEPT ![thread[p].id] = thread[p].ticket]

Removed(p) == [ticketStore EXCEPT ![thread[p].id] = None]

\* The answer is a success when the ticket was got.
Remove(p) ==
  /\ At(p, "remove")
  /\ ticketStore' = Removed(p)
  /\ answered' = answered \cup {thread[p].id}
  /\ thread' = [thread EXCEPT ![p] = None]
  /\ UNCHANGED <<kind, session, asked, issued, expired>>

Expire(t) ==
  /\ ticketStore[t] # None
  /\ ticketStore' = [ticketStore EXCEPT ![t] = None]
  /\ expired' = expired \cup {t}
  /\ UNCHANGED <<kind, session, asked, issued, thread, answered>>

Next ==
  \/ \E b \in Browsers :
       \/ \E u \in Users : Login(b, u)
       \/ Logout(b)
       \/ \E app \in Apps \cup {None} : BuildCasModelAndView(b, app)
       \/ \E t \in Tickets : GrantingTicket(b, t)
  \/ \E p \in Threads :
       \/ \E t \in Tickets : Validate(p, t)
       \/ Get(p) \/ Remove(p)
  \/ \E t \in Tickets : Expire(t)

Spec == Init /\ [][Next]_vars

-----------------------------------------------------------------------------
(* Properties.                                                              *)

\* consumeTicket: validations of one ticket may succeed more than once only when they
\* overlap; one that begins after another was answered does not get the ticket.
LateValidationFails ==
  \A p \in Threads : At(p, "remove") /\ thread[p].late => thread[p].ticket = None

\* In the stores that find their tickets, the first validation succeeds: nothing but
\* the time to live or another validation of the same ticket takes it away.
FirstValidationSucceeds ==
  \A p \in Threads : At(p, "remove") /\ thread[p].ticket = None
    => \/ kind = "jdbc"
       \/ thread[p].id \in expired
       \/ thread[p].id \in answered

\* A ticket is for an application that its own user has asked for since logging in:
\* what another user of the browser asked for is not granted to this one, and a tab
\* whose request was overwritten gets a ticket for what the other tab has asked for.
AskedSinceLogin ==
  \A t \in Tickets : issued[t] # None /\ issued[t].ticket.app # None
    => issued[t].ticket.app \in issued[t].asked

-----------------------------------------------------------------------------
(* The inductive invariant.                                                 *)

\* The attribute of a session is what was asked for in it.
SessionsAsked ==
  \A b \in Browsers : session[b] # None /\ session[b].casDetails # None
    => session[b].casDetails \in asked[b]

\* A ticket is in the store until it has expired or a validation was answered.
TicketsKept ==
  /\ \A t \in answered : issued[t] # None /\ ticketStore[t] = None
  /\ \A t \in Tickets :
       /\ ticketStore[t] # None => issued[t] # None
       /\ issued[t] # None /\ ticketStore[t] = None
            => kind = "jdbc" \/ t \in expired \/ t \in answered

\* What a validation knows of its ticket.
ValidationsKnow ==
  \A p \in Threads : thread[p] # None =>
    /\ issued[thread[p].id] # None
    /\ thread[p].late => thread[p].id \in answered

IInv ==
  /\ TypeOK
  /\ SessionsAsked
  /\ TicketsKept
  /\ ValidationsKnow
  /\ LateValidationFails
  /\ FirstValidationSucceeds
  /\ AskedSinceLogin
=============================================================================
