------------------------------ MODULE MCTraces ------------------------------
(***************************************************************************)
(* Instance of Traces for TLC: two stages that call the LLM and one that  *)
(* does not, as pick_hook, compose_message and validate_output; the row    *)
(* takes the costs over after the first and after the last of them.        *)
(***************************************************************************)
EXTENDS Traces, TLC

Symmetry == Permutations(Jobs)
=============================================================================
