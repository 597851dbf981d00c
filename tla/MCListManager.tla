---------------------------- MODULE MCListManager ----------------------------
(***************************************************************************)
(* Instances of ListManager for TLC: the requests the web app makes.       *)
(***************************************************************************)
EXTENDS WebRequests, TLC

Symmetry == Permutations(Users)
=============================================================================
