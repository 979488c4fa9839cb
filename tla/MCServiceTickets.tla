--------------------------- MODULE MCServiceTickets ---------------------------
(* An instance of ServiceTickets for TLC.                                   *)
EXTENDS ServiceTickets, TLC

Symmetry == Permutations(Users) \cup Permutations(Apps)
            \cup Permutations(Tickets) \cup Permutations(Threads)
=============================================================================
