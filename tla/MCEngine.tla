------------------------------ MODULE MCEngine ------------------------------
(* The engine on a chain of at most MaxBlock blocks. *)
EXTENDS Engine
=============================================================================
