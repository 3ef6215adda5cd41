----------------------------- MODULE MCLLMCalls -----------------------------
(***************************************************************************)
(* Instances of LLMCalls for TLC.                                          *)
(***************************************************************************)
EXTENDS LLMCalls
=============================================================================
