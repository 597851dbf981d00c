------------------------------- MODULE MCWebSync -------------------------------
(***************************************************************************)
(* Instances of WebSync.                                                   *)
(***************************************************************************)
EXTENDS WebSync
=============================================================================
