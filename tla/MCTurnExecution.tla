------------------------- MODULE MCTurnExecution --------------------------
(* Model-checking instance of TurnExecution.                               *)
EXTENDS TurnExecution, TLC

CONSTANTS e1, e2, e3, r1

OneExecution == {e1}
TwoExecutions == {e1, e2}
ThreeExecutions == {e1, e2, e3}
ExecutionSymmetry == Permutations(Executions)

NoReset == {}
OneReset == {r1}
=============================================================================
