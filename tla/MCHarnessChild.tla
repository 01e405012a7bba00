--------------------------- MODULE MCHarnessChild ---------------------------
EXTENDS HarnessChild, TLC
ChildSymmetry == Permutations(Windows) \cup Permutations(Spawns)
=============================================================================
