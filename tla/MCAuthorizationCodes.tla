------------------------- MODULE MCAuthorizationCodes -------------------------
(* Instances of AuthorizationCodes for TLC.                                 *)
EXTENDS AuthorizationCodes, TLC

CONSTANTS c1, c2, uri1, uri2

\* One client with one redirect URI, which it need not name, and one with two.
OneAndTwo == [c \in Clients |-> IF c = c1 THEN {uri1} ELSE {uri1, uri2}]

Symmetry == Permutations(Threads) \cup Permutations(Sessions)
            \cup Permutations(Requests) \cup Permutations(Codes)
=============================================================================
