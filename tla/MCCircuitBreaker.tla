-------------------------- MODULE MCCircuitBreaker --------------------------
(* Constants of the model-checked instances of CircuitBreaker.             *)
EXTENDS CircuitBreaker, TLC

MCOneConn == {0}
MCTwoConns == {0, 1}
MCThresholds == {1, 2}
MCResets == {0, 3}
MCSymmetry == Permutations(Attempts)
=============================================================================
