--------------------------- MODULE MCOrderIntents ---------------------------
(* Model-checking instances of OrderIntents. *)
EXTENDS OrderIntents, TLC

Symmetry == Permutations(Procs)
=============================================================================
