----------------------------- MODULE MCPipeline -----------------------------
(***************************************************************************)
(* Instances of Pipeline for TLC.                                          *)
(***************************************************************************)
EXTENDS Pipeline, TLC

\* Two jobs of one key, the first with a webhook
CONSTANTS j1, j2, k1
OneKey == [j \in Jobs |-> k1]
=============================================================================
