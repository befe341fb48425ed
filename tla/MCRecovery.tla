----------------------------- MODULE MCRecovery ------------------------------
(* Recovery on small sets: the values of its constants and a symmetry. *)
EXTENDS Recovery, TLC

ProcSymmetry == Permutations(Proc)
=============================================================================
