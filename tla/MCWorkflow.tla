----------------------------- MODULE MCWorkflow ------------------------------
(* Workflow on small sets: the values of its constants and a symmetry. *)
EXTENDS Workflow, TLC

WorkflowSymmetry == Permutations(Proc) \cup Permutations(Message)
=============================================================================
