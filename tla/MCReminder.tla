------------------------------ MODULE MCReminder ------------------------------
(***************************************************************************)
(* Instances of Reminder: an hour has two ticks and a day five; time runs  *)
(* for about a day, from before one midnight to before the next.           *)
(***************************************************************************)
EXTENDS Reminder, TLC

Symmetry == Permutations(Tabs) \cup Permutations(Requests)
=============================================================================
