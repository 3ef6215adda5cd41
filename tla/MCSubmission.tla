---------------------------- MODULE MCSubmission ----------------------------
(***************************************************************************)
(* Instances of Submission for TLC.                                        *)
(***************************************************************************)
EXTENDS Submission, TLC

\* Requests and prospects are interchangeable where no liveness is checked
Symmetry == Permutations(Requests) \cup Permutations(Prospects)
=============================================================================
