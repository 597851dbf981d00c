------------------------------ MODULE WebRequests ------------------------------
(***************************************************************************)
(* ListManager, asked for what the web app offers.                         *)
(***************************************************************************)
EXTENDS ListManager

\* A request arrives.
Begins(r) == pc[r] = "idle" /\ pc'[r] # "idle"

\* What the web app offers for a todo in the list where it is shown
\* (webapp/src/utils.js): a sent todo has no completion button.
CanComplete(u, id) == \E l \in {"My", "In"} : Holds(lists[u][l], id)

CanRemove(u, id) ==
    \/ \E l \in {"My", "In"} : Holds(lists[u][l], id)
    \/ /\ Holds(lists[u].Out, id)
       /\ LET ref == RefIn(u, "Out", id) IN Holds(lists[ref.fuser].In, ref.fissue)

OnlyShown ==
    \A r \in Requests : Begins(r) =>
        LET q == req'[r] IN
        /\ q.kind = "Complete" => CanComplete(q.user, q.issue)
        /\ q.kind = "Remove" => CanRemove(q.user, q.issue)

\* Only a sent todo is assigned to oneself: taken back.
SelfFromSent ==
    \A r \in Requests : Begins(r) =>
        LET q == req'[r] IN
        q.kind = "Assign" /\ q.to = q.user => Holds(lists[q.user].Out, q.issue)

\* The handlers that die are those whose store calls may fail.
TroubledDie ==
    crashes' > crashes => \A r \in Requests : pc'[r] # pc[r] => req[r].kind \in Troubled

WebNext == Next /\ OnlyShown /\ SelfFromSent /\ TroubledDie

WebSpec == Init /\ [][WebNext]_vars

\* The answer is not there yet.
Busy(r) == pc[r] \notin {"idle", "ok", "err"}

\* Requests that do not overlap.
OneAtATime == \A r, s \in Requests : Busy(r) /\ Busy(s) => r = s

\* Where an operation undoes what it has done.
Undoing ==
    {"Add.undo", "Send.undo", "Send.undo2", "Send.undo2Twin", "Send.undo3", "Send.undo3Twin",
     "Send.undo3Out", "Accept.undo"}

\* The calls that undo something do not fail.
RollbacksWork == \A r \in Requests : pc[r] \in Undoing /\ pc'[r] # pc[r] => faults' = faults

SequentialSpec == WebSpec /\ []OneAtATime /\ [][RollbacksWork]_vars

\* The operations that a failing call leaves as if nothing had happened.
Reversible == {"Add", "Send", "Accept", "Bump", "List"}

\* The operations that a failing call, or the death of their handler, leaves
\* with something lost at most.
Lossy == {"Add", "Edit", "Assign", "Bump", "List"}
=============================================================================
