------------------------------- MODULE Refreshes -------------------------------
(***************************************************************************)
(* What the server promises the web apps: whoever's lists a request        *)
(* changes is owed a refresh event for it, which is published some time    *)
(* after the change, unless the request fails half way or the handler dies *)
(* in between.                                                             *)
(***************************************************************************)
EXTENDS Naturals

CONSTANTS
    Users,
    Views,      \* what the lists of a user can show
    MostEvents  \* the most events one request sends to one user

ASSUME EventsAssumption == MostEvents \in Nat

VARIABLES
    lists,      \* lists[u]: what the server would answer user u
    owed,       \* owed[u]: the refresh events still to be sent to u
    failures    \* what has failed so far at the server

serverVars == <<lists, owed, failures>>

ServerInit ==
    /\ lists \in [Users -> Views]
    /\ owed = [u \in Users |-> 0]
    /\ failures = 0

\* A request changes lists.
Change ==
    /\ lists' \in [Users -> Views]
    /\ \E more \in [Users -> 0..MostEvents] :
        /\ owed' = [u \in Users |-> owed[u] + more[u]]
        /\ \A u \in Users : lists'[u] # lists[u] => more[u] > 0
    /\ UNCHANGED failures

\* A request fails half way: it has changed the lists of the users us, too, maybe
\* for a moment only, and sends them nothing.
HalfDone(us) ==
    /\ lists' \in [Users -> Views]
    /\ \E more \in [Users -> 0..MostEvents] :
        /\ owed' = [u \in Users |-> owed[u] + more[u]]
        /\ \A u \in Users : lists'[u] # lists[u] => more[u] > 0 \/ u \in us
    /\ failures' = failures + 1

\* sendRefreshEvent
Publish(u) ==
    /\ owed[u] > 0
    /\ owed' = [owed EXCEPT ![u] = @ - 1]
    /\ UNCHANGED <<lists, failures>>

\* A handler dies: the users us never get what it had for them.
Forget(us) ==
    /\ us # {}
    /\ \E less \in [Users -> 0..MostEvents] :
        /\ \A u \in Users : less[u] <= owed[u] /\ (less[u] > 0 <=> u \in us)
        /\ owed' = [u \in Users |-> owed[u] - less[u]]
    /\ UNCHANGED <<lists, failures>>

ServerNext ==
    \/ Change
    \/ \E u \in Users : Publish(u)
    \/ \E us \in SUBSET Users : Forget(us) \/ HalfDone(us)

ServerSpec == ServerInit /\ [][ServerNext]_serverVars
=============================================================================
