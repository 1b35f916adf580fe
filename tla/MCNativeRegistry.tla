-------------------------- MODULE MCNativeRegistry --------------------------
EXTENDS NativeRequestRegistry, TLC
Symmetry == Permutations(Ids)
=============================================================================
