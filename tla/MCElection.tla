----------------------------- MODULE MCElection -----------------------------
(***************************************************************************)
(* The contract with the votes cast so far, for TLC.                       *)
(***************************************************************************)
EXTENDS EvotingElection, MCEvoting
=============================================================================
