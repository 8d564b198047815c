------------------------ MODULE MCExecutionLifecycle ------------------------
(* Model values and symmetry for the runs of ExecutionLifecycle.           *)
EXTENDS ExecutionLifecycle, TLC

Symmetry == Permutations(Runners) \cup Permutations(Clients) \cup Permutations(Executions)
=============================================================================
