----------------------------- MODULE MCConfigSync -----------------------------
(***************************************************************************)
(* Instances of ConfigSync.                                                *)
(***************************************************************************)
EXTENDS ConfigSync, TLC

Symmetry == Permutations(Hooks)
=============================================================================
