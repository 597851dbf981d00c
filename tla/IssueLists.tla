----------------------------- MODULE IssueLists -----------------------------
(***************************************************************************)
(* One todo list as the store sees it: a sequence of references, each a    *)
(* record whose field `issue' is the id of the todo it stands for          *)
(* (server/store.go, IssueRef).  What the other fields hold does not       *)
(* matter here.  The operators are the pure part of AddReference,          *)
(* RemoveReference, PopReference and BumpReference: what each of them      *)
(* computes between reading a list and writing it back.                    *)
(***************************************************************************)
EXTENDS Integers, Sequences, SequencesExt

\* The positions at which a list refers to a todo.
Positions(list, id) == {i \in 1..Len(list) : list[i].issue = id}

Holds(list, id) == Positions(list, id) # {}

\* The first of them: every search loop of the store stops there.
PositionOf(list, id) ==
    CHOOSE i \in Positions(list, id) : \A j \in Positions(list, id) : i <= j

\* A list refers to a todo at most once.  The store's loops rely on it:
\* RemoveReference deletes inside a range over the list it is ranging over.
IdsUnique(list) ==
    \A i, j \in 1..Len(list) : list[i].issue = list[j].issue => i = j

-----------------------------------------------------------------------------
(* What a successful call makes of the list. *)

AddRef(list, ref) == Append(list, ref)

RemoveRef(list, id) == RemoveAt(list, PositionOf(list, id))

PopRef(list) == Tail(list)

\* BumpReference's search ends on the last position when nothing matches:
\* its test for "not found" compares the index with the length, which the
\* index of a range loop over a non-empty list never reaches.
BumpFrom(list, id) == IF Holds(list, id) THEN PositionOf(list, id) ELSE Len(list)

\* A slip: the tail kept from i on instead of i + 1.
BumpRef_KeepsOld(list, id) == <<list[BumpFrom(list, id)]>> \o list

BumpRef(list, id) ==
    LET i == BumpFrom(list, id) IN <<list[i]>> \o RemoveAt(list, i)

-----------------------------------------------------------------------------
(* The four calls as values: [kind, ref].  `ref' is the reference to add;  *)
(* of the others, remove and bump only use its todo, pop nothing of it.    *)

Kinds == {"add", "remove", "pop", "bump"}

\* The list is left alone and the caller gets "already exists" or
\* "cannot find issue".
Refuses(list, op) ==
    \/ op.kind = "add" /\ Holds(list, op.ref.issue)
    \/ op.kind = "remove" /\ ~Holds(list, op.ref.issue)
    \/ op.kind \in {"pop", "bump"} /\ list = <<>>

Effect(list, op) ==
    CASE op.kind = "add"    -> AddRef(list, op.ref)
      [] op.kind = "remove" -> RemoveRef(list, op.ref.issue)
      [] op.kind = "pop"    -> PopRef(list)
      [] op.kind = "bump"   -> BumpRef(list, op.ref.issue)
=============================================================================
