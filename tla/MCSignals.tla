----------------------------- MODULE MCSignals ------------------------------
(***************************************************************************)
(* Instances of Signals for TLC.                                           *)
(***************************************************************************)
EXTENDS Signals, TLC

CONSTANTS j1, j2

\* Two people, of one domain or of two
OneDomain == j1 :> "stripe" @@ j2 :> "stripe"
TwoDomains == j1 :> "stripe" @@ j2 :> "linear"
TwoPersons == j1 :> "jane" @@ j2 :> "john"
=============================================================================
