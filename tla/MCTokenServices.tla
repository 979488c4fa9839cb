--------------------------- MODULE MCTokenServices ---------------------------
(* Instances of TokenServices for TLC.                                      *)
EXTENDS TokenServices, TLC

CONSTANTS c1, c2, u1, rd, wr

Auth(c, u, sc) == [client |-> c, user |-> u, scope |-> sc, listing |-> "hashed"]

\* One user who grants one client two scopes: the tokens of one refresh token,
\* narrowed or not.
NarrowingGrants == {Auth(c1, u1, {rd, wr}), Auth(c1, u1, {rd})}

\* And a client acting for itself, which gets no refresh tokens.
MixedGrants == NarrowingGrants \cup {Auth(c2, NoUser, {rd})}

ShortAccess == [c \in Clients |-> 1]
LongRefresh == [c \in Clients |-> 2]

Symmetry == Permutations(AccessTokens) \cup Permutations(RefreshTokens)
=============================================================================
