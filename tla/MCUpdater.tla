----------------------------- MODULE MCUpdater -----------------------------
(* Three manifests: two releases in order, each revoking the one before,   *)
(* and another manifest that claims the second one's sequence.             *)
EXTENDS Updater, TLC

First == [sequence |-> 1, version |-> 1, revokes |-> {0}]
Second == [sequence |-> 2, version |-> 2, revokes |-> {1}]
Conflicting == [sequence |-> 2, version |-> 2, revokes |-> {}]

MCManifests == {First, Second, Conflicting}
OneManifest == {First}

\* Nothing is stated of what happens after a download has met another run.
Undisturbed == ~disturbed

Symmetry == Permutations(Updaters) \cup Permutations(Checkers)
=============================================================================
