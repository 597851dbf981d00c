----------------------------- MODULE MCConcurrent -----------------------------
(***************************************************************************)
(* Requests of the list manager that overlap.  Not every two of them may:  *)
(* the instance covers, one beside the other, three mixes of requests.     *)
(***************************************************************************)
EXTENDS MCListManager

VARIABLE mix   \* the operations that are asked for

vars2 == <<vars, mix>>

\* Two users at work: all that is done to a todo but editing, reassigning and
\* removing it.
Working == {"Add", "Send", "Complete", "Pop", "Accept", "Bump"}

\* Todos that are passed on to others while they are accepted.
Passing == {"Send", "Assign", "Accept"}

\* Listings beside whatever does not pass a todo on.
Watching == {"Add", "Send", "Complete", "Remove", "Edit", "Accept", "Bump", "List"}

\* Passing a todo on twice takes a third user and four ids.
Ids(m) == IF m = Passing THEN MaxIssues ELSE MaxIssues - 1
Crew(m) == IF m = Passing THEN Cardinality(Users) ELSE 2

\* Those who have had a todo, and those who ask for something.
Involved == ({owner[id] : id \in IssueIds} \cup {req[r].user : r \in Requests}) \ {NoUser}

\* Beside a listing only one request changes anything.
OneChanges(r) ==
    "List" \in mix /\ req'[r].kind # "List"
        => \A q \in Requests \ {r} : pc[q] # "idle" => req[q].kind = "List"

\* Nobody takes a todo back while it may be accepted.
FromMix ==
    \A r \in Requests : Begins(r) =>
        /\ req'[r].kind \in mix
        /\ req'[r].kind = "Assign" => req'[r].to # req'[r].user
        /\ OneChanges(r)

MixedInit == Init /\ mix \in {Working, Passing, Watching}

MixedNext ==
    /\ WebNext /\ FromMix
    /\ born' <= Ids(mix) /\ Cardinality(Involved') <= Crew(mix)
    /\ UNCHANGED mix

MixedSpec == MixedInit /\ [][MixedNext]_vars2
=============================================================================
