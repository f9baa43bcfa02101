---------------------------- MODULE MCThreadStore ---------------------------
EXTENDS ThreadStore, TLC

CONSTANTS t1, t2, t3, t4, i1, i2, i3

\* Ids are interchangeable, and so are turns: no definition names one.
MCSymmetry == Permutations({t1, t2, t3, t4}) \cup Permutations({i1, i2, i3})
=============================================================================
