-------------------------- MODULE MCOrderProjection --------------------------
(* The instance TLC checks: a two-unit order, so that a partial fill exists. *)
EXTENDS OrderProjection
=============================================================================
