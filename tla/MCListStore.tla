----------------------------- MODULE MCListStore -----------------------------
(***************************************************************************)
(* Instances of ListStore for TLC, and the refinement of AtomicList.       *)
(***************************************************************************)
EXTENDS ListStore

\* An error is an error to the abstract list, whatever its reason.
Answer(how) == IF how \in {"none", "ok"} THEN how ELSE "failed"

Atomic == INSTANCE AtomicList WITH
            list <- ListOf(stored),
            answer <- [r \in Requests |-> Answer(outcome[r])]

\* The concurrent lists implement the atomic ones: no update of a list is
\* lost, none is applied to a stale list, and an error leaves the list alone.
ImplementsAtomicList == Atomic!Spec
=============================================================================
