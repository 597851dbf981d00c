----------------------------- MODULE SharedTodos -----------------------------
(***************************************************************************)
(* What users see of the todo lists: a todo is ONE thing, kept by its      *)
(* author or sent to somebody who may accept it.  That the server keeps    *)
(* two records of a sent todo, and references to them in two users' lists, *)
(* does not show.                                                          *)
(***************************************************************************)
CONSTANTS Users, Texts, Ids, NoUser

VARIABLE todos   \* a set of [id, author, holder, state, text]

Todo ==
    [id : Ids, author : Users, holder : Users \cup {NoUser},
     state : {"own", "pending", "accepted"}, text : Texts]

Init == todos = {}

Create ==
    \E id \in Ids, u \in Users, text \in Texts, v \in Users \cup {NoUser} :
        /\ \A t \in todos : t.id # id
        /\ v # u
        /\ todos' = todos \cup
             {[id |-> id, author |-> u, holder |-> v,
               state |-> IF v = NoUser THEN "own" ELSE "pending", text |-> text]}

\* Exactly one todo becomes another one.
Becomes(t, new) == todos' = (todos \ {t}) \cup {new}

Edit == \E t \in todos, text \in Texts : Becomes(t, [t EXCEPT !.text = text])

Accept ==
    \E t \in todos : t.state = "pending" /\ Becomes(t, [t EXCEPT !.state = "accepted"])

\* Its author sends it to another user, whoever has it now ...
Reassign ==
    \E t \in todos, v \in Users :
        /\ v # t.author
        /\ Becomes(t, [t EXCEPT !.holder = v, !.state = "pending"])

\* ... or takes it back.
TakeBack ==
    \E t \in todos :
        /\ t.state # "own"
        /\ Becomes(t, [t EXCEPT !.holder = NoUser, !.state = "own"])

\* Completed, removed or popped: it is gone for both users.
End == \E t \in todos : todos' = todos \ {t}

Next == Create \/ Edit \/ Accept \/ Reassign \/ TakeBack \/ End

Spec == Init /\ [][Next]_todos
=============================================================================
