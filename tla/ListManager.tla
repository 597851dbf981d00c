----------------------------- MODULE ListManager -----------------------------
(***************************************************************************)
(* The todo logic of server/list.go: every operation of the list manager   *)
(* as the sequence of store calls it makes, for any number of requests     *)
(* that the server handles at the same time.                               *)
(*                                                                         *)
(* One step is one store call.  That the calls on a list are atomic is     *)
(* what ListStore shows; its errors (a failing key-value store, retries    *)
(* used up) appear here as Trouble.  A label of `pc' names the operation   *)
(* and the call that comes next; "ok" and "err" are the two ways to answer.*)
(***************************************************************************)
EXTENDS IssueLists, FiniteSets

CONSTANTS
    Users,
    Requests,      \* requests in flight
    Texts,         \* message and description of a todo, taken together
    NoUser,        \* the empty user id
    Gone,          \* no record under the todo's key, or a nil *Issue
    MaxIssues,     \* bound: todo ids that newIssue hands out
    MaxFaults,     \* bound: store calls that fail
    MaxCrashes,    \* bound: requests that die half way
    Troubled       \* the operations whose store calls may fail

IssueIds == 1..MaxIssues
NoIssue == 0

ASSUME BoundsAssumption ==
    MaxIssues \in Nat /\ MaxFaults \in Nat /\ MaxCrashes \in Nat
ASSUME SentinelAssumption == NoUser \notin Users /\ Gone \notin Texts

Lists == {"My", "In", "Out"}

\* IssueRef: a todo, and the user and todo at the other end of it, if any.
Ref == [issue : IssueIds, fuser : Users \cup {NoUser}, fissue : IssueIds \cup {NoIssue}]
NoRef == [issue |-> NoIssue, fuser |-> NoUser, fissue |-> NoIssue]

Operations ==
    {"Add", "Send", "Complete", "Remove", "Pop", "Edit", "Assign", "Accept", "Bump", "List"}

\* What a request carries: its arguments, then the local variables of the
\* handler.  `issue' is the todo it works on and `twin' the copy it creates
\* for another user.
NoReq ==
    [kind |-> "none", user |-> NoUser, issue |-> NoIssue, to |-> NoUser, text |-> Gone,
     twin |-> NoIssue, look |-> 1, list |-> "My", ref |-> NoRef, flist |-> "My",
     got |-> Gone, page |-> <<>>, seen |-> {}]

VARIABLES
    lists,     \* lists[u][l]: the references of user u's list l
    issues,    \* issues[id]: the text of the record of a todo, or Gone
    born,      \* ids handed out so far
    pc, req,   \* where each request is, and what it carries
    faults,    \* store calls that have failed
    crashes,   \* requests that have died
    owner,     \* history: the user each id was made for
    held       \* history: the todos a List request's user has had throughout

store == <<lists, issues>>
vars == <<lists, issues, born, pc, req, faults, crashes, owner, held>>

Init ==
    /\ lists = [u \in Users |-> [l \in Lists |-> <<>>]]
    /\ issues = [id \in IssueIds |-> Gone]
    /\ born = 0
    /\ pc = [r \in Requests |-> "idle"]
    /\ req = [r \in Requests |-> NoReq]
    /\ faults = 0
    /\ crashes = 0
    /\ owner = [id \in IssueIds |-> NoUser]
    /\ held = [r \in Requests |-> {}]

-----------------------------------------------------------------------------
(* Store calls.  `ok' and `err' are the labels at which the handler goes   *)
(* on; where the code only logs an error they are the same.                *)

At(r, label) == pc[r] = label
Goto(r, label) == pc' = [pc EXCEPT ![r] = label]
Kept == UNCHANGED req     \* the request keeps its local variables

\* A branch between two store calls.
Proceed(r, label) == Goto(r, label) /\ UNCHANGED <<store, faults>>

\* The key-value store answers with an error, or retries are used up.
Trouble(r) ==
    /\ req[r].kind \in Troubled
    /\ faults < MaxFaults
    /\ faults' = faults + 1

SaveIssue(r, id, text, ok, err) ==
    \/ /\ issues' = [issues EXCEPT ![id] = text]
       /\ Goto(r, ok)
       /\ UNCHANGED <<lists, faults>>
    \/ /\ Trouble(r)
       /\ Goto(r, err)
       /\ UNCHANGED store

\* A slip: the record is left behind.
DropIssue_Forgotten(r, id, next) == Proceed(r, next)

\* RemoveIssue: a deletion finds nothing to complain about in a missing key.
DropIssue(r, id, next) == SaveIssue(r, id, Gone, next, next)

GetIssue(r, id, ok, err) ==
    /\ \/ issues[id] # Gone /\ Goto(r, ok) /\ UNCHANGED faults
       \/ issues[id] = Gone /\ Goto(r, err) /\ UNCHANGED faults
       \/ Trouble(r) /\ Goto(r, err)
    /\ UNCHANGED store

\* GetAndRemoveIssue is two calls; its callers only log an error of either
\* and go on with nil.  First the record is read ...
TakeIssue(r, id, drop, next) ==
    /\ \/ /\ issues[id] # Gone
          /\ req' = [req EXCEPT ![r].got = issues[id]]
          /\ Goto(r, drop)
          /\ UNCHANGED faults
       \/ /\ \/ issues[id] = Gone /\ UNCHANGED faults
             \/ Trouble(r)
          /\ req' = [req EXCEPT ![r].got = Gone]
          /\ Goto(r, next)
    /\ UNCHANGED store

\* ... then it is deleted, if it is still there.
DropTaken(r, id, next) ==
    /\ Goto(r, next)
    /\ \/ issues' = [issues EXCEPT ![id] = Gone] /\ Kept /\ UNCHANGED faults
       \/ Trouble(r) /\ req' = [req EXCEPT ![r].got = Gone] /\ UNCHANGED issues
    /\ UNCHANGED lists

\* A call that changes one list, or is refused by it, or fails.
ChangeList(r, u, l, op, ok, err) ==
    /\ \/ /\ ~Refuses(lists[u][l], op)
          /\ lists' = [lists EXCEPT ![u][l] = Effect(@, op)]
          /\ Goto(r, ok)
          /\ UNCHANGED faults
       \/ /\ \/ Refuses(lists[u][l], op) /\ UNCHANGED faults
             \/ Trouble(r)
          /\ Goto(r, err)
          /\ UNCHANGED lists
    /\ UNCHANGED issues

\* A slip: the two foreign ids, both strings, the other way round.
AddReference_Swapped(r, u, id, l, fuser, fissue, ok, err) ==
    ChangeList(r, u, l,
        [kind |-> "add", ref |-> [issue |-> id, fuser |-> fissue, fissue |-> fuser]], ok, err)

AddReference(r, u, id, l, fuser, fissue, ok, err) ==
    ChangeList(r, u, l,
        [kind |-> "add", ref |-> [issue |-> id, fuser |-> fuser, fissue |-> fissue]], ok, err)

\* A slip: the caller logs the error and goes on.
RemoveReference_Logged(r, u, id, l, ok, err) ==
    ChangeList(r, u, l, [kind |-> "remove", ref |-> [NoRef EXCEPT !.issue = id]], ok, ok)

RemoveReference(r, u, id, l, ok, err) ==
    ChangeList(r, u, l, [kind |-> "remove", ref |-> [NoRef EXCEPT !.issue = id]], ok, err)

BumpReference(r, u, id, l, ok, err) ==
    ChangeList(r, u, l, [kind |-> "bump", ref |-> [NoRef EXCEPT !.issue = id]], ok, err)

\* PopReference; the reference popped is the request's from here on.
PopReference(r, u, l, ok, err) ==
    /\ \/ /\ lists[u][l] # <<>>
          /\ lists' = [lists EXCEPT ![u][l] = PopRef(@)]
          /\ req' = [req EXCEPT ![r].issue = Head(lists[u][l]).issue, ![r].ref = Head(lists[u][l])]
          /\ Goto(r, ok)
          /\ UNCHANGED faults
       \/ /\ \/ lists[u][l] = <<>> /\ UNCHANGED faults
             \/ Trouble(r)
          /\ Goto(r, err)
          /\ UNCHANGED <<lists, req>>
    /\ UNCHANGED issues

RefIn(u, l, id) == lists[u][l][PositionOf(lists[u][l], id)]

\* A slip: the test for nil is dropped where the inbox is looked into.
GetReference_Unchecked(r, l, ok, err) ==
    LET found == Holds(lists[req[r].user][l], req[r].issue) IN
    /\ Goto(r, IF found \/ l = "In" THEN ok ELSE err)
    /\ req' = [req EXCEPT ![r].ref = IF found THEN RefIn(req[r].user, l, req[r].issue) ELSE NoRef]
    /\ UNCHANGED <<store, faults>>

\* GetIssueReference, of the todo of the request
GetReference(r, l, ok, err) ==
    /\ \/ /\ Holds(lists[req[r].user][l], req[r].issue)
          /\ req' = [req EXCEPT ![r].ref = RefIn(req[r].user, l, req[r].issue)]
          /\ Goto(r, ok)
          /\ UNCHANGED faults
       \/ /\ \/ ~Holds(lists[req[r].user][l], req[r].issue) /\ UNCHANGED faults
             \/ Trouble(r)
          /\ Goto(r, err)
          /\ UNCHANGED req
    /\ UNCHANGED store

\* GetIssueListAndReference reads the three lists one after the other, each
\* read a step: a todo can change lists in between.  An error counts as "not
\* there", and a todo found nowhere gets MyListKey (the empty string).
SearchOrder == <<"My", "Out", "In">>
Searched(r) == SearchOrder[req[r].look]

Search(r, u, id, hit, miss, whenFound, whenLost) ==
    /\ \/ /\ Holds(lists[u][Searched(r)], id)
          /\ Goto(r, hit)
          /\ req' = [req EXCEPT ![r] = [whenFound EXCEPT !.look = 1]]
          /\ UNCHANGED faults
       \/ /\ \/ ~Holds(lists[u][Searched(r)], id) /\ UNCHANGED faults
             \/ Trouble(r)
          /\ \/ /\ req[r].look < 3
                /\ req' = [req EXCEPT ![r].look = @ + 1]
                /\ UNCHANGED pc
             \/ /\ req[r].look = 3
                /\ req' = [req EXCEPT ![r] = [whenLost EXCEPT !.look = 1]]
                /\ Goto(r, miss)
    /\ UNCHANGED store

\* The search for the todo of the request, in its user's lists ...
FindOwn(r, hit, miss) ==
    LET q == req[r] IN
    Search(r, q.user, q.issue, hit, miss,
           [q EXCEPT !.list = Searched(r), !.ref = RefIn(q.user, Searched(r), q.issue)],
           [q EXCEPT !.list = "My", !.ref = NoRef])

\* A slip: the answer goes into the wrong variable.
FindForeign_IntoList(r, hit, miss) ==
    LET q == req[r] IN
    Search(r, q.ref.fuser, q.ref.fissue, hit, miss, [q EXCEPT !.list = Searched(r)], q)

\* ... and for the todo at its other end.
FindForeign(r, hit, miss) ==
    LET q == req[r] IN
    Search(r, q.ref.fuser, q.ref.fissue, hit, miss,
           [q EXCEPT !.flist = Searched(r)], [q EXCEPT !.flist = "My"])

-----------------------------------------------------------------------------
(* The operations. *)

AddIssue(r) ==
    LET q == req[r] IN
    /\ \/ At(r, "Add.save") /\ SaveIssue(r, q.issue, q.text, "Add.list", "err")
       \/ At(r, "Add.list")
          /\ AddReference(r, q.user, q.issue, "My", NoUser, NoIssue, "ok", "Add.undo")
       \/ At(r, "Add.undo") /\ DropIssue(r, q.issue, "err")
    /\ Kept

\* An error undoes what was done; the errors of that are only logged.
SendIssue(r) ==
    LET q == req[r] IN
    /\ \/ At(r, "Send.save") /\ SaveIssue(r, q.issue, q.text, "Send.saveTwin", "err")
       \/ At(r, "Send.saveTwin") /\ SaveIssue(r, q.twin, q.text, "Send.out", "Send.undo")
       \/ At(r, "Send.out")
          /\ AddReference(r, q.user, q.issue, "Out", q.to, q.twin, "Send.in", "Send.undo2")
       \/ At(r, "Send.in")
          /\ AddReference(r, q.to, q.twin, "In", q.user, q.issue, "ok", "Send.undo3")
       \/ At(r, "Send.undo") /\ DropIssue(r, q.issue, "err")
       \/ At(r, "Send.undo2") /\ DropIssue(r, q.issue, "Send.undo2Twin")
       \/ At(r, "Send.undo2Twin") /\ DropIssue(r, q.twin, "err")
       \/ At(r, "Send.undo3") /\ DropIssue(r, q.issue, "Send.undo3Twin")
       \/ At(r, "Send.undo3Twin") /\ DropIssue(r, q.twin, "Send.undo3Out")
       \/ At(r, "Send.undo3Out") /\ RemoveReference(r, q.user, q.issue, "Out", "err", "err")
    /\ Kept

\* A slip: the id of the todo for the id of the copy.
Copy_Own(q) == q.issue

\* The copy at the other end.
Copy(q) == q.ref.fissue

\* Without another end, ending a todo ends here.  Only removing looks where
\* the copy is.
OtherEnd(q) ==
    CASE q.ref.fuser = NoUser -> "ok"
      [] q.ref.fuser # NoUser /\ q.kind = "Remove" -> "End.ffind"
      [] OTHER -> "End.funlist"

\* The first half of CompleteIssue, RemoveIssue and PopIssue: unlist and drop
\* the todo.
EndTodo(r) ==
    LET q == req[r] IN
    \/ At(r, "End.find") /\ FindOwn(r, "End.unlist", "err")
    \/ At(r, "End.unlist")
       /\ RemoveReference(r, q.user, q.issue, q.list, "End.take", "err") /\ Kept
    \/ At(r, "End.pop") /\ PopReference(r, q.user, "My", "End.take", "err")
    \/ At(r, "End.take") /\ TakeIssue(r, q.issue, "End.drop", OtherEnd(q))
    \/ At(r, "End.drop") /\ DropTaken(r, q.issue, OtherEnd(q))

\* The second half: the same for the copy, with errors only logged.
\* Completing and popping take it to be in the other user's sent list.
EndCopy(r) ==
    LET q == req[r] IN
    \/ At(r, "End.ffind") /\ FindForeign(r, "End.funlist", "End.funlist")
    \/ /\ At(r, "End.funlist")
       /\ RemoveReference(r, q.ref.fuser, Copy(q), IF q.kind = "Remove" THEN q.flist ELSE "Out",
                          "End.ftake", "End.ftake")
       /\ Kept
    \/ At(r, "End.ftake") /\ TakeIssue(r, Copy(q), "End.fdrop", "ok")
    \/ At(r, "End.fdrop") /\ DropTaken(r, Copy(q), "ok")

\* The copy at the other end first, then the todo itself.
EditIssue(r) ==
    LET q == req[r] IN
    \/ At(r, "Edit.find") /\ FindOwn(r, "Edit.found", "err")
    \/ /\ \/ At(r, "Edit.get") /\ GetIssue(r, q.issue, "Edit.find", "err")
          \/ At(r, "Edit.found") /\ q.ref.fissue = NoIssue /\ Proceed(r, "Edit.save")
          \/ At(r, "Edit.found") /\ q.ref.fissue # NoIssue /\ Proceed(r, "Edit.fget")
          \/ At(r, "Edit.fget") /\ GetIssue(r, Copy(q), "Edit.fsave", "Edit.save")
          \/ At(r, "Edit.fsave") /\ SaveIssue(r, Copy(q), q.text, "Edit.save", "Edit.save")
          \/ At(r, "Edit.save") /\ SaveIssue(r, q.issue, q.text, "ok", "err")
       /\ Kept

\* A received todo, accepted or not, is not its holder's to assign.
Received(q) == q.list = "In" \/ (q.list = "My" /\ q.ref.fissue # NoIssue)

\* Only a todo of one's own that is assigned to oneself stays where it is.
Route(q) == IF q.user = q.to /\ q.list # "Out" THEN "Assign.save" ELSE "Assign.unlist"

\* The first half of ChangeAssignment: take the todo from whom it was sent to.
\* No error undoes anything.
TakeBack(r) ==
    LET q == req[r] IN
    \/ /\ At(r, "Assign.get")
       /\ GetIssue(r, q.issue, "Assign.find", "err")
       /\ req' = [req EXCEPT ![r].text = issues[q.issue]]
    \/ At(r, "Assign.find") /\ FindOwn(r, "Assign.found", "err")
    \/ /\ At(r, "Assign.found")
       /\ Proceed(r, CASE Received(q) -> "err"
                       [] ~Received(q) /\ q.ref.fuser # NoUser -> "Assign.ffind"
                       [] OTHER -> Route(q))
       /\ Kept
    \/ At(r, "Assign.ffind") /\ FindForeign(r, "Assign.funlist", "err")
    \/ At(r, "Assign.funlist")
       /\ RemoveReference(r, q.ref.fuser, Copy(q), q.flist, "Assign.ftake", "err") /\ Kept
    \/ At(r, "Assign.ftake") /\ TakeIssue(r, Copy(q), "Assign.fdrop", Route(q))
    \/ At(r, "Assign.fdrop") /\ DropTaken(r, Copy(q), Route(q))

\* The second half: move it to the own list, or send it anew.
AssignAnew(r) ==
    LET q == req[r] IN
    /\ \/ At(r, "Assign.unlist")
          /\ RemoveReference(r, q.user, q.issue, q.list,
                             IF q.user = q.to THEN "Assign.my" ELSE "Assign.save", "err")
       \/ At(r, "Assign.my")
          /\ AddReference(r, q.user, q.issue, "My", NoUser, NoIssue, "ok", "err")
       \/ At(r, "Assign.save") /\ SaveIssue(r, q.twin, q.text, "Assign.out", "err")
       \/ At(r, "Assign.out")
          /\ AddReference(r, q.user, q.issue, "Out", q.to, q.twin, "Assign.in", "err")
       \/ At(r, "Assign.in")
          /\ AddReference(r, q.to, q.twin, "In", q.user, q.issue, "ok", "err")
    /\ Kept

\* Into the own list before out of the inbox.
AcceptIssue(r) ==
    LET q == req[r] IN
    \/ At(r, "Accept.ref") /\ GetReference(r, "In", "Accept.my", "err")
    \/ /\ \/ At(r, "Accept.get") /\ GetIssue(r, q.issue, "Accept.ref", "err")
          \/ At(r, "Accept.my")
             /\ AddReference(r, q.user, q.issue, "My", q.ref.fuser, Copy(q), "Accept.in", "err")
          \/ At(r, "Accept.in") /\ RemoveReference(r, q.user, q.issue, "In", "ok", "Accept.undo")
          \/ At(r, "Accept.undo") /\ RemoveReference(r, q.user, q.issue, "My", "err", "err")
       /\ Kept

\* That the copy is not there any more is only logged.
BumpIssue(r) ==
    LET q == req[r] IN
    \/ At(r, "Bump.ref") /\ GetReference(r, "Out", "Bump.bump", "err")
    \/ /\ \/ At(r, "Bump.bump") /\ BumpReference(r, q.ref.fuser, Copy(q), "In", "Bump.get", "err")
          \/ At(r, "Bump.get") /\ GetIssue(r, Copy(q), "ok", "ok")
       /\ Kept

\* A slip: the own list before the inbox.
ListOrder_MyFirst == <<"My", "In", "Out">>

\* GetAllList reads one list after the other; GetIssueList reads the list,
\* then the record of each of its todos, and leaves out those without one.
ListOrder == <<"In", "My", "Out">>

GetAllList(r) ==
    LET q == req[r] IN
    /\ \/ /\ At(r, "List.read")
          /\ \/ /\ req' = [req EXCEPT ![r].page = lists[q.user][ListOrder[q.look]]]
                /\ Goto(r, "List.get")
                /\ UNCHANGED faults
             \/ Trouble(r) /\ Goto(r, "err") /\ Kept
       \/ /\ At(r, "List.get")
          /\ q.page # <<>>
          /\ LET id == Head(q.page).issue IN
             \/ /\ req' = [req EXCEPT ![r].page = Tail(@),
                         ![r].seen = IF issues[id] = Gone THEN @ ELSE @ \cup {id}]
                /\ UNCHANGED faults
             \/ Trouble(r) /\ req' = [req EXCEPT ![r].page = Tail(@)]
          /\ Goto(r, "List.get")
       \/ /\ At(r, "List.get")
          /\ q.page = <<>>
          /\ Goto(r, IF q.look < 3 THEN "List.read" ELSE "ok")
          /\ req' = [req EXCEPT ![r].look = IF @ < 3 THEN @ + 1 ELSE @]
          /\ UNCHANGED faults
    /\ UNCHANGED store

-----------------------------------------------------------------------------

\* A request arrives.  Each user in `makers' gets a fresh id (newIssue).
Arrive(r, label, q, makers) ==
    /\ pc[r] = "idle"
    /\ Goto(r, label)
    /\ req' = [req EXCEPT ![r] = q]
    /\ born + Len(makers) <= MaxIssues
    /\ born' = born + Len(makers)
    /\ owner' = [id \in IssueIds |->
                   IF id \in born + 1 .. born + Len(makers) THEN makers[id - born] ELSE owner[id]]

\* The ids a client can name: any it has ever seen, of any user's todos.
Known == 1..born

BeginNew(r) ==
    \E u \in Users, text \in Texts :
        LET q == [NoReq EXCEPT !.user = u, !.issue = born + 1, !.text = text] IN
        \/ Arrive(r, "Add.save", [q EXCEPT !.kind = "Add"], <<u>>)
        \/ \E v \in Users \ {u} :       \* the callers turn a todo to oneself into an Add
              Arrive(r, "Send.save",
                     [q EXCEPT !.kind = "Send", !.to = v, !.twin = born + 2], <<u, v>>)

BeginEnd(r) ==
    \E u \in Users :
        \/ \E id \in Known, kind \in {"Complete", "Remove"} :
              Arrive(r, "End.find", [NoReq EXCEPT !.kind = kind, !.user = u, !.issue = id], <<>>)
        \/ Arrive(r, "End.pop", [NoReq EXCEPT !.kind = "Pop", !.user = u], <<>>)

BeginChange(r) ==
    \E u \in Users, id \in Known :
        LET q == [NoReq EXCEPT !.user = u, !.issue = id] IN
        \/ \E text \in Texts : Arrive(r, "Edit.get", [q EXCEPT !.kind = "Edit", !.text = text], <<>>)
        \/ \E v \in Users :
              Arrive(r, "Assign.get", [q EXCEPT !.kind = "Assign", !.to = v, !.twin = born + 1], <<v>>)
        \/ Arrive(r, "Accept.get", [q EXCEPT !.kind = "Accept"], <<>>)
        \/ Arrive(r, "Bump.ref", [q EXCEPT !.kind = "Bump"], <<>>)

BeginList(r) ==
    \E u \in Users : Arrive(r, "List.read", [NoReq EXCEPT !.kind = "List", !.user = u], <<>>)

Begin(r) ==
    /\ BeginNew(r) \/ BeginEnd(r) \/ BeginChange(r) \/ BeginList(r)
    /\ UNCHANGED <<lists, issues, faults, crashes>>

\* The handler has its answer; the next request may come.
Return(r) ==
    /\ pc[r] \in {"ok", "err"}
    /\ Goto(r, "idle")
    /\ req' = [req EXCEPT ![r] = NoReq]
    /\ UNCHANGED <<lists, issues, born, faults, crashes, owner>>

\* The plugin is stopped, or the handler panics, between two store calls.
Crash(r) ==
    /\ pc[r] \notin {"idle", "ok", "err"}
    /\ crashes < MaxCrashes
    /\ crashes' = crashes + 1
    /\ Goto(r, "idle")
    /\ req' = [req EXCEPT ![r] = NoReq]
    /\ UNCHANGED <<lists, issues, born, faults, owner>>

\* The next store call of a handler.
Step(r) ==
    /\ \/ AddIssue(r) \/ SendIssue(r) \/ EndTodo(r) \/ EndCopy(r) \/ EditIssue(r)
       \/ TakeBack(r) \/ AssignAnew(r) \/ AcceptIssue(r) \/ BumpIssue(r) \/ GetAllList(r)
    /\ UNCHANGED <<born, crashes, owner>>

\* What a user has: the todos with a record in one of the user's lists.
HeldBy(u) ==
    {id \in IssueIds : issues[id] # Gone /\ \E l \in Lists : Holds(lists[u][l], id)}

TrackHeld ==
    held' = [r \in Requests |->
        CASE req'[r].kind # "List" -> {}
          [] req'[r].kind = "List" /\ pc[r] = "idle" -> HeldBy(req'[r].user)
          [] req[r].kind = "List" /\ pc[r] \in {"ok", "err"} -> held[r]
          [] OTHER -> held[r] \cap HeldBy(req[r].user)']

Next ==
    /\ \E r \in Requests : Begin(r) \/ Step(r) \/ Return(r) \/ Crash(r)
    /\ TrackHeld

Spec == Init /\ [][Next]_vars

-----------------------------------------------------------------------------
(* Properties *)

ReqType ==
    [kind : Operations \cup {"none"}, user : Users \cup {NoUser},
     issue : IssueIds \cup {NoIssue}, to : Users \cup {NoUser}, text : Texts \cup {Gone},
     twin : IssueIds \cup {NoIssue}, look : 1..3, list : Lists, ref : Ref \cup {NoRef},
     flist : Lists, got : Texts \cup {Gone}, page : Seq(Ref), seen : SUBSET IssueIds]

\* Where a request can be: between two requests, at the call it makes next,
\* or at its answer.
Labels ==
    {"idle", "ok", "err", "Add.save", "Add.list", "Add.undo",
     "Send.save", "Send.saveTwin", "Send.out", "Send.in", "Send.undo", "Send.undo2",
     "Send.undo2Twin", "Send.undo3", "Send.undo3Twin", "Send.undo3Out",
     "End.find", "End.unlist", "End.pop", "End.take", "End.drop",
     "End.ffind", "End.funlist", "End.ftake", "End.fdrop",
     "Edit.get", "Edit.find", "Edit.found", "Edit.fget", "Edit.fsave", "Edit.save",
     "Assign.get", "Assign.find", "Assign.found", "Assign.ffind", "Assign.funlist",
     "Assign.ftake", "Assign.fdrop", "Assign.unlist", "Assign.my", "Assign.save",
     "Assign.out", "Assign.in", "Accept.get", "Accept.ref", "Accept.my", "Accept.in",
     "Accept.undo", "Bump.ref", "Bump.bump", "Bump.get", "List.read", "List.get"}

TypeOK ==
    /\ lists \in [Users -> [Lists -> Seq(Ref)]]
    /\ issues \in [IssueIds -> Texts \cup {Gone}]
    /\ born \in 0..MaxIssues
    /\ pc \in [Requests -> Labels]
    /\ req \in [Requests -> ReqType]
    /\ faults \in 0..MaxFaults
    /\ crashes \in 0..MaxCrashes
    /\ owner \in [IssueIds -> Users \cup {NoUser}]
    /\ held \in [Requests -> SUBSET IssueIds]

\* Under every interleaving of requests, failing calls and dying handlers, a
\* todo is only ever listed for the user it was made for, and a reference
\* that points to another user names a todo of that user.  Clients may name
\* any todo: it is the look-ups in the caller's own lists that keep them from
\* moving or answering for todos of others.
OwnersOnly ==
    \A u \in Users, l \in Lists : \A i \in 1..Len(lists[u][l]) :
        LET ref == lists[u][l][i] IN
        /\ owner[ref.issue] = u
        /\ ref.fuser # NoUser => owner[ref.fissue] = ref.fuser

\* Nobody is in the middle of something.
Quiet == \A r \in Requests : pc[r] \in {"idle", "ok", "err"}

Listings(id) == {at \in Users \X Lists : Holds(lists[at[1]][at[2]], id)}

\* Between requests, a todo with a record is in exactly one list, and a todo
\* without one in none: nothing leaks and no list points to nothing.
RecordsMatchLists ==
    Quiet => \A id \in IssueIds :
        Cardinality(Listings(id)) = (IF issues[id] = Gone THEN 0 ELSE 1)

\* The two copies of a sent todo point to each other: the sender's from the
\* sent list, the receiver's from the inbox or, once accepted, the own list.
Linked ==
    Quiet => \A u \in Users, l \in Lists : \A i \in 1..Len(lists[u][l]) :
        LET ref == lists[u][l][i]
            back == [issue |-> ref.fissue, fuser |-> u, fissue |-> ref.issue]
        IN  IF ref.fuser = NoUser THEN l = "My"
            ELSE \E m \in IF l = "Out" THEN {"My", "In"} ELSE {"Out"} :
                    \E j \in 1..Len(lists[ref.fuser][m]) : lists[ref.fuser][m][j] = back

\* Whatever call of an operation failed, no list shows a todo without a record.
\* (The ending operations do leave such a reference: they only log that the
\* other user's list could not be changed.)
NothingDangles ==
    Quiet => \A u \in Users, l \in Lists : \A i \in 1..Len(lists[u][l]) :
        issues[lists[u][l][i].issue] # Gone

\* The users to whom u's todo id has been given.
Receivers(u, id) ==
    {v \in Users : \E m \in {"My", "In"} : \E i \in 1..Len(lists[v][m]) :
        lists[v][m][i].fuser = u /\ lists[v][m][i].fissue = id}

\* A todo is never with two receivers, though an assignment that fails half way
\* is tried again and again: what ChangeAssignment loses, it loses before it gives.
OneReceiver ==
    Quiet => \A u \in Users : \A id \in IssueIds : Cardinality(Receivers(u, id)) <= 1

\* Both copies of a sent todo say the same: an edit reaches both.
CopiesAgree ==
    Quiet => \A u \in Users, l \in Lists : \A i \in 1..Len(lists[u][l]) :
        LET ref == lists[u][l][i] IN
        ref.fuser # NoUser => issues[ref.fissue] = issues[ref.issue]

\* A successful completion, removal or pop hands its handler the todo it
\* ended: handleComplete, handleRemove and runPopCommand dereference it.
EndedTodoIsReturned ==
    \A r \in Requests :
        pc[r] = "ok" /\ req[r].kind \in {"Complete", "Remove", "Pop"} => req[r].got # Gone

\* A todo that its user has from the first read of a listing to the last is
\* in the listing, even while it is being accepted: AcceptIssue adds before
\* it removes, and GetAllList reads the inbox before the own list.
ListingMissesNothing ==
    \A r \in Requests : pc[r] = "ok" /\ req[r].kind = "List" => held[r] \subseteq req[r].seen
=============================================================================
