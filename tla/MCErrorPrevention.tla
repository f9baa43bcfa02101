-------------------------- MODULE MCErrorPrevention --------------------------
(* Constants of the model-checked instances of ErrorPrevention.            *)
EXTENDS ErrorPrevention, TLC

MCOneType == [t \in {"timeout"} |-> 1]
MCTwoTypes == [t \in {"timeout", "auth"} |-> IF t = "auth" THEN 2 ELSE 1]
MCOnlyDisable == {TRUE}
MCSymmetry == Permutations(Attempts)
=============================================================================
