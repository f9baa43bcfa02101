--------------------------- MODULE MCKeySelection ---------------------------
EXTENDS KeySelection

CONSTANT m

MCPositions == {0, 1}
MCAllowed == m :> {0, 1}
MCSymmetry == Permutations(Requests) \cup Permutations(Sessions) \cup Permutations(Accounts)
=============================================================================
