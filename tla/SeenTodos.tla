------------------------------ MODULE SeenTodos ------------------------------
(***************************************************************************)
(* The list manager implements SharedTodos, one request at a time.  A      *)
(* request takes many steps; what users see is taken between requests.     *)
(***************************************************************************)
EXTENDS WebRequests

VARIABLE shown   \* the todos as they were when nobody was in the middle of something

\* The author's reference stands for the todo.
TodoOf(u, l, ref) ==
    [id |-> ref.issue, author |-> u, holder |-> ref.fuser,
     state |-> CASE l = "My" -> "own"
                 [] l = "Out" /\ Holds(lists[ref.fuser].In, ref.fissue) -> "pending"
                 [] OTHER -> "accepted",
     text |-> issues[ref.issue]]

Authored(u, l) == {i \in 1..Len(lists[u][l]) : l = "Out" \/ lists[u][l][i].fuser = NoUser}

Visible ==
    UNION {{TodoOf(u, l, lists[u][l][i]) : i \in Authored(u, l)} : u \in Users, l \in {"My", "Out"}}

SeenInit == Init /\ shown = {}

SeenNext ==
    /\ WebNext
    /\ shown' = IF Quiet' THEN Visible' ELSE shown

SeenSpec == SeenInit /\ [][SeenNext]_<<vars, shown>>

Shared == INSTANCE SharedTodos WITH Ids <- IssueIds, todos <- shown

\* Each request changes at most one todo, as one of the abstract steps does,
\* or nothing at all; a request that fails is a request that did not happen.
ImplementsSharedTodos == Shared!Spec
=============================================================================
