------------------------------ MODULE CodeGrant ------------------------------
(***************************************************************************)
(* What the authorization code grant promises: a request is decided once,   *)
(* an approved request is worth one code, and a code is worth one           *)
(* authentication, for the client it was issued to, as long as it is valid. *)
(* AuthorizationCodes is the program.                                       *)
(***************************************************************************)
EXTENDS Naturals

CONSTANTS
  Requests,   \* authorization requests
  Codes,      \* authorization codes
  Clients,    \* registered OAuth clients
  None

VARIABLES
  asker,      \* the client of each request, None before there is a request
  decision,   \* what became of each request: "approved", "denied" or None
  origin,     \* the request each code was issued for, None before it is issued
  valid,      \* the codes that may still be redeemed
  redeemer    \* the client that redeemed each code, or None

vars == <<asker, decision, origin, valid, redeemer>>

Init ==
  /\ asker = [q \in Requests |-> None]
  /\ decision = [q \in Requests |-> None]
  /\ origin = [c \in Codes |-> None]
  /\ valid = {}
  /\ redeemer = [c \in Codes |-> None]

Ask(q, client) ==
  /\ asker[q] = None
  /\ asker' = [asker EXCEPT ![q] = client]
  /\ UNCHANGED <<decision, origin, valid, redeemer>>

Approve(q, c) ==
  /\ asker[q] # None /\ decision[q] = None /\ origin[c] = None
  /\ decision' = [decision EXCEPT ![q] = "approved"]
  /\ origin' = [origin EXCEPT ![c] = q]
  /\ valid' = valid \cup {c}
  /\ UNCHANGED <<asker, redeemer>>

Deny(q) ==
  /\ asker[q] # None /\ decision[q] = None
  /\ decision' = [decision EXCEPT ![q] = "denied"]
  /\ UNCHANGED <<asker, origin, valid, redeemer>>

Redeem(c) ==
  /\ c \in valid /\ redeemer[c] = None
  /\ valid' = valid \ {c}
  /\ redeemer' = [redeemer EXCEPT ![c] = asker[origin[c]]]
  /\ UNCHANGED <<asker, decision, origin>>

\* Codes that expire, or that a failed attempt uses up.
Void(C) ==
  /\ C # {} /\ C \subseteq valid
  /\ valid' = valid \ C
  /\ UNCHANGED <<asker, decision, origin, redeemer>>

Next ==
  \/ \E q \in Requests :
       \/ Deny(q)
       \/ \E client \in Clients : Ask(q, client)
       \/ \E c \in Codes : Approve(q, c)
  \/ \E c \in Codes : Redeem(c)
  \/ \E C \in SUBSET Codes : Void(C)

Spec == Init /\ [][Next]_vars
=============================================================================
