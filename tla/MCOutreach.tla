----------------------------- MODULE MCOutreach -----------------------------
(***************************************************************************)
(* Instance of Outreach for TLC.                                           *)
(***************************************************************************)
EXTENDS Outreach
=============================================================================
