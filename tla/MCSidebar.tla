------------------------------- MODULE MCSidebar -------------------------------
(***************************************************************************)
(* Instances of Sidebar.                                                   *)
(***************************************************************************)
EXTENDS Sidebar, TLC

\* Nothing in Sidebar tells todos apart.
Symmetry == Permutations(Todos)
=============================================================================
