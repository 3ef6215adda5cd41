------------------------------ MODULE MCBudget ------------------------------
(***************************************************************************)
(* The instance of Budget for TLC.                                         *)
(***************************************************************************)
EXTENDS Budget, TLC

\* A key with a ceiling above the worker's limit
CONSTANT k
HighCeiling == k :> 16

\* Requests are interchangeable
Symmetry == Permutations(Requests)
=============================================================================
