--------------------------- MODULE MCDurableRuns ---------------------------
(* Model-checking instance of DurableRuns.                                 *)
EXTENDS DurableRuns, TLC

CONSTANTS m1, g1, h1, h2, c1

OneMessage == {m1}
OneRequest == {g1}
TwoHosts == {h1, h2}
OneClient == {c1}
HostSymmetry == Permutations(Hosts)
=============================================================================
