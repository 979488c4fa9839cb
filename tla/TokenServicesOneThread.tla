------------------------ MODULE TokenServicesOneThread ------------------------
(***************************************************************************)
(* With one thread, and time that only passes between calls, the operations *)
(* of TokenServicesThreads add up to the calls of TokenServices: the store  *)
(* as it is between calls goes through steps of TokenServices.  What is     *)
(* proved of TokenServices thus holds for the methods as they are written,  *)
(* operation by operation, as long as calls do not overlap.                 *)
(***************************************************************************)
EXTENDS TokenServicesThreads

VARIABLE settled   \* store and token objects when no call was under way last

oneThreadVars == <<threadVars, settled>>

Current == [store |-> store, accessToken |-> accessToken, refreshToken |-> refreshToken]

OneThreadInit == ThreadsInit /\ settled = Current

OneThreadNext ==
  /\ ThreadsNext
  /\ settled' = IF Idle' THEN Current' ELSE settled

OneThreadSpec == OneThreadInit /\ [][OneThreadNext]_oneThreadVars

Atomic == INSTANCE TokenServices
  WITH store <- settled.store, accessToken <- settled.accessToken,
       refreshToken <- settled.refreshToken

\* Every call of the detailed methods has the effect of one action of
\* TokenServices, whichever branch it takes and whatever it flushes on the way.
ImplementsTokenServices == Atomic!Spec
=============================================================================
