---------------------------- MODULE MCGoalStore ----------------------------
EXTENDS GoalStore, TLC

Symmetry == Permutations(Procs) \cup Permutations(Objectives)
=============================================================================
