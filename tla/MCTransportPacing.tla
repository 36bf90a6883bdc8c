------------------------- MODULE MCTransportPacing -------------------------
(* Model-checking instances of TransportPacing. *)
EXTENDS TransportPacing
=============================================================================
