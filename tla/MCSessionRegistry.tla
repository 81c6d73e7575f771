------------------------ MODULE MCSessionRegistry ------------------------
(* Model-checking instances of SessionRegistry.                            *)
EXTENDS SessionRegistry, TLC

CONSTANTS s1, s2, u1, u2, r1

OneSession == {s1}
TwoSessions == {s1, s2}
TwoSubmits == {u1, u2}
OneRetirer == {r1}

RegistrySymmetry ==
    Permutations(Sessions) \cup Permutations(Submits) \cup Permutations(Retirers)
=============================================================================
