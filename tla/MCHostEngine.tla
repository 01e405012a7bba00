---------------------------- MODULE MCHostEngine ----------------------------
(* HostEngine on small instances. *)
EXTENDS HostEngine, TLC

Symmetry == Permutations(Commands)
=============================================================================
