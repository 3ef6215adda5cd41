-------------------------- MODULE MCCircuitBreaker --------------------------
(***************************************************************************)
(* The instance of CircuitBreaker for TLC.                                 *)
(***************************************************************************)
EXTENDS CircuitBreaker
=============================================================================
