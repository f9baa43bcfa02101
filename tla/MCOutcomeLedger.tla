-------------------------- MODULE MCOutcomeLedger --------------------------
EXTENDS OutcomeLedger, TLC

CONSTANTS a, b, c

Report(s, w, f) == [status |-> s, words |-> w, first |-> f]

\* A success with and without words, one nobody saw a token of, a failure, a
\* failure without a text, a client that left before and after words.
MCReports ==
  {Report("ok", 0, TRUE), Report("ok", 1, TRUE), Report("ok", 0, FALSE),
   Report("blank", 0, FALSE), Report("gone", 0, FALSE), Report("gone", 1, TRUE)}

MCSymmetry == Permutations({a, b})
=============================================================================
