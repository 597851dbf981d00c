------------------------------- MODULE MCHandlers -------------------------------
(***************************************************************************)
(* Instances of Handlers.                                                  *)
(***************************************************************************)
EXTENDS Handlers, TLC

\* Nothing in Handlers tells users or requests apart.
Symmetry == Permutations(Users) \cup Permutations(Requests)
=============================================================================
