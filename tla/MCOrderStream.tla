---------------------------- MODULE MCOrderStream ----------------------------
(* Model-checking instances of OrderStream. *)
EXTENDS OrderStream
=============================================================================
