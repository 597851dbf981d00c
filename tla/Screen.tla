--------------------------------- MODULE Screen ---------------------------------
(***************************************************************************)
(* What the parts of the web app's sidebar have in common.                 *)
(***************************************************************************)

CONSTANT Todos     \* todos that can come onto the screen

\* The lists of a user: his todos, those others sent him, those he sent.
Lists == {"my", "in", "out"}
=============================================================================
