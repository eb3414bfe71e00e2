------------------------------ MODULE MCShell ------------------------------
(***************************************************************************)
(* Small instances of a browser and the backend for TLC.                   *)
(***************************************************************************)
EXTENDS AppShell, MCAuth
=============================================================================
