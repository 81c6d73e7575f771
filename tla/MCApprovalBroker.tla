------------------------- MODULE MCApprovalBroker -------------------------
(* Model-checking instances of ApprovalBroker.                             *)
EXTENDS ApprovalBroker, TLC

CONSTANTS c1, c2, s1, s2

TwoCalls == {c1, c2}
TwoSessions == {s1, s2}

Symmetry == Permutations(Calls) \cup Permutations(Sessions)
=============================================================================
