---------------------------- MODULE MCRemoteSync ----------------------------
(* RemoteSync on small instances. *)
EXTENDS RemoteSync, TLC

Symmetry == Permutations(Ids \ Mine) \cup Permutations(Transfers)
=============================================================================
