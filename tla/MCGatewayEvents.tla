-------------------------- MODULE MCGatewayEvents --------------------------
EXTENDS GatewayEvents, TLC

CONSTANTS c1

\* A device may read, or read and write.
MCGrants == {{"read"}, {"read", "write"}}

\* A broadcast for everyone, a large one for writers, and one for c1 alone.
MCDrafts == {[audience |-> Broadcast, scope |-> Anyone, size |-> 1],
             [audience |-> Broadcast, scope |-> "write", size |-> 2],
             [audience |-> c1, scope |-> Anyone, size |-> 1]}

Symmetry == Permutations(Publishers)
=============================================================================
