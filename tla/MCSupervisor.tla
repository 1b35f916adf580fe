---------------------------- MODULE MCSupervisor ----------------------------
EXTENDS OperationSupervisor, TLC
Symmetry == Permutations(Clients) \cup Permutations(Closers)
=============================================================================
