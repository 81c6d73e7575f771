--------------------------- MODULE MCSuspension ---------------------------
(* Model-checking instance of Suspension: two units of work, two hosts     *)
(* preparing concurrently.                                                 *)
EXTENDS Suspension

CONSTANTS w1, w2, h1, h2, l1, l2

MCWorkers == {w1, w2}
MCHosts == {h1, h2}
MCLeaseIds == {l1, l2}
=============================================================================
