--------------------------- MODULE MCReservations ---------------------------
EXTENDS Reservations, TLC

CONSTANTS p1, p2, a, b, k

\* Two processes want one contract, and a measurement is off by one unit,
\* ahead or behind.
TwoProcesses == (a :> p1) @@ (b :> p2)
OneContract == (a :> {k}) @@ (b :> {k})
AheadOrBehind == {-1, 1}

Swap == {[x \in {a, b, p1, p2} |-> x], (a :> b) @@ (b :> a) @@ (p1 :> p2) @@ (p2 :> p1)}
=============================================================================
