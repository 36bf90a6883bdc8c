-------------------------- MODULE MCResidualFlatten --------------------------
(* Model-checking instances of ResidualFlatten. *)
EXTENDS ResidualFlatten, TLC

CONSTANTS s, c                     \* a short leg and the long that covers it

Symmetry == Permutations(Procs) \cup Permutations(Prices)

Uneven == s :> 2 @@ c :> 1
=============================================================================
