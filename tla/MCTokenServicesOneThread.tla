----------------------- MODULE MCTokenServicesOneThread -----------------------
(* Instances of TokenServicesOneThread for TLC.                             *)
EXTENDS TokenServicesOneThread, TLC

CONSTANTS c1, c2, u1, rd, wr

Auth(c, u, sc) == [client |-> c, user |-> u, scope |-> sc, listing |-> "hashed"]

\* A user who grants one client two sets of scopes, and a client of its own
\* that gets no refresh tokens.
MixedGrants == {Auth(c1, u1, {rd, wr}), Auth(c1, u1, {rd}), Auth(c2, NoUser, {rd})}

ShortAccess == [c \in Clients |-> 1]
LongRefresh == [c \in Clients |-> 2]

Symmetry == Permutations(AccessTokens) \cup Permutations(RefreshTokens)
=============================================================================
