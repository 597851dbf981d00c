---------------------------- MODULE MCSharedTodos ----------------------------
(***************************************************************************)
(* An instance of SeenTodos for TLC.                                       *)
(***************************************************************************)
EXTENDS MCListManager, SeenTodos
=============================================================================
