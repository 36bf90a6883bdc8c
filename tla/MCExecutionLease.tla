-------------------------- MODULE MCExecutionLease --------------------------
(* Model-checking instances of ExecutionLease. *)
EXTENDS ExecutionLease, TLC

Symmetry == Permutations(Procs)
=============================================================================
