--------------------------- MODULE MCRemoteOutbox ---------------------------
EXTENDS RemoteOutbox, TLC
OutboxSymmetry == Permutations(Messages) \cup Permutations(Creates) \cup Permutations(Tabs)
=============================================================================
