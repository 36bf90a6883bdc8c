--------------------------- MODULE MCTradingSession ---------------------------
(* Instances of TradingSession for TLC. *)
EXTENDS TradingSession, TLC

Symmetry == Permutations(Sessions) \cup Permutations(Entries)
=============================================================================
