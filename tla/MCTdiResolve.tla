---------------------------- MODULE MCTdiResolve ---------------------------
EXTENDS TdiResolve, TLC

Symmetry == Permutations(ThreadIds)
=============================================================================
