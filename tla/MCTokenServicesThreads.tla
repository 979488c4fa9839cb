------------------------ MODULE MCTokenServicesThreads ------------------------
(* Instances of TokenServicesThreads for TLC.                               *)
EXTENDS TokenServicesThreads, TLC

CONSTANTS c1, c2, u1, rd, wr

Auth(c, u, sc) == [client |-> c, user |-> u, scope |-> sc, listing |-> "hashed"]

OneGrant == {Auth(c1, u1, {rd})}
NarrowingGrants == {Auth(c1, u1, {rd, wr}), Auth(c1, u1, {rd})}

ShortAccess == [c \in Clients |-> 1]
EverlastingRefresh == [c \in Clients |-> 0]

ThreadSymmetry == Permutations(Threads) \cup Permutations(AccessTokens)
                  \cup Permutations(RefreshTokens)
=============================================================================
