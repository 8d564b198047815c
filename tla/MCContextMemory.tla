---------------------------- MODULE MCContextMemory ----------------------------
(* Symmetry for the runs of ContextMemory.                                 *)
EXTENDS ContextMemory, TLC

Symmetry == Permutations(Executions) \cup Permutations(Calls)
=============================================================================
