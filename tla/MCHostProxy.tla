----------------------------- MODULE MCHostProxy -----------------------------
EXTENDS HostProxy, TLC

NoneOrOne == {{}} \cup {{t} : t \in Targets}
Symmetry == Permutations(Commands) \cup Permutations(Pids) \cup Permutations(Targets)
=============================================================================
