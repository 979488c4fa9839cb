--------------------------- MODULE MCLoginSessions ---------------------------
(* An instance of LoginSessions for TLC.                                    *)
EXTENDS LoginSessions, TLC

Symmetry == Permutations(Browsers) \cup Permutations(Tabs) \cup Permutations(Sessions)
=============================================================================
