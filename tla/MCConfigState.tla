--------------------------- MODULE MCConfigState ---------------------------
EXTENDS ConfigState, TLC

CONSTANTS p, q, a, b, c, r1, r2

MCprovider == (a :> p) @@ (b :> p) @@ (c :> q)
MCRequests == {r1, r2}

RequestSymmetry == Permutations(MCRequests)
=============================================================================
