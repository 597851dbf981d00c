------------------------------- MODULE MCAddForm -------------------------------
(***************************************************************************)
(* Instances of AddForm: two posts that say the same and one that says     *)
(* nothing.                                                                *)
(***************************************************************************)
EXTENDS AddForm

CONSTANTS p1, p2, p3, a, b

Says == [p \in Posts |-> IF p = p3 THEN Empty ELSE a]
=============================================================================
