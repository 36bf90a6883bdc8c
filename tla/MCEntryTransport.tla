-------------------------- MODULE MCEntryTransport --------------------------
(* Model-checking instances of EntryTransport. *)
EXTENDS EntryTransport, TLC

\* The attempts are interchangeable: no definition singles one out (OverCapital
\* is empty where this is used), and the properties it is used with are invariants.
AttemptSymmetry == Permutations(Attempts)
=============================================================================
