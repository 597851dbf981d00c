-------------------------------- MODULE WebSync --------------------------------
(***************************************************************************)
(* The todo lists on the screens of the web app: fetchAllIssueLists, asked *)
(* for by refresh events, reconnections, the sidebar and clicks, and what  *)
(* the answers do to the store.  Nothing ties an answer to its question:   *)
(* whichever comes last is what the user sees.                             *)
(***************************************************************************)
EXTENDS Refreshes, Sequences

CONSTANTS
    Broken,     \* the store after the answer was an error object
    MaxChanges, MaxAsks, MaxDrops, MaxLosses    \* bounds, see below

ASSUME WebAssumption ==
    /\ Broken \notin Views
    /\ MaxChanges \in Nat /\ MaxAsks \in Nat /\ MaxDrops \in Nat /\ MaxLosses \in Nat

VARIABLES
    screen,     \* screen[u]: allIssues in u's web app
    online,     \* online[u]: the websocket is connected
    events,     \* events[u]: refresh events on their way to u
    asked,      \* asked[u]: fetches the server has not handled yet
    answers,    \* answers[u]: answers on their way, in the order they were made
    behind,     \* history: u's app has seen the last of a fetch, and then got
                \*          an older answer, or something was lost or failed
    changes, asks, drops, losses    \* what has happened so far, to be bounded

appVars == <<screen, online, events, asked, answers, behind>>
counters == <<changes, asks, drops, losses>>
vars == <<serverVars, appVars, counters>>

\* The lists as they were read, and whether something later came before them.
Answer == [lists : Views, old : BOOLEAN]

\* Web apps start by fetching, with their event handlers in place.
Init ==
    /\ ServerInit
    /\ screen \in [Users -> Views]
    /\ online = [u \in Users |-> TRUE]
    /\ events = [u \in Users |-> 0]
    /\ asked = [u \in Users |-> 1]
    /\ answers = [u \in Users |-> <<>>]
    /\ behind = [u \in Users |-> FALSE]
    /\ changes = 0 /\ asks = 0 /\ drops = 0 /\ losses = 0

-----------------------------------------------------------------------------
(* The server *)

ServerChange ==
    /\ changes < MaxChanges
    /\ changes' = changes + 1
    /\ Change
    /\ UNCHANGED <<appVars, asks, drops, losses>>

\* An event for a user who is not connected goes nowhere.
PublishRefresh(u) ==
    /\ Publish(u)
    /\ events' = [events EXCEPT ![u] = IF online[u] THEN @ + 1 ELSE @]
    /\ UNCHANGED <<screen, online, asked, answers, behind, counters>>

\* All that was made before is now older than something that was missed.
Overtaken(a) == [j \in 1..Len(a) |-> [a[j] EXCEPT !.old = TRUE]]

\* The apps of us should have been told, and are not.
Missed(us) ==
    /\ losses < MaxLosses
    /\ losses' = losses + 1
    /\ behind' = [u \in Users |-> behind[u] \/ u \in us]
    /\ answers' = [u \in Users |-> IF u \in us THEN Overtaken(answers[u]) ELSE answers[u]]
    /\ UNCHANGED <<screen, online, events, asked, changes, asks, drops>>

HandlerDies(us) == Forget(us) /\ Missed(us)

\* A store call fails half way through a request.
RequestFails(us) == HalfDone(us) /\ Missed(us)

\* The three lists are read one after the other: while a request is at work
\* the answer may show some of its changes and not others.
Readable(u) == IF owed[u] > 0 THEN Views ELSE {lists[u]}

\* handleLists
Serve(u) ==
    /\ asked[u] > 0
    /\ asked' = [asked EXCEPT ![u] = @ - 1]
    /\ \E v \in Readable(u) :
          answers' = [answers EXCEPT ![u] = Append(@, [lists |-> v, old |-> FALSE])]
    /\ UNCHANGED <<serverVars, screen, online, events, behind, counters>>

-----------------------------------------------------------------------------
(* The web app *)

\* A slip: an event that comes while a fetch is under way asks for none.
Ask_OneAtATime(u) ==
    asked' = [asked EXCEPT ![u] = IF @ > 0 \/ answers[u] # <<>> THEN @ ELSE @ + 1]

\* fetchAllIssueLists: the request.
Ask(u) == asked' = [asked EXCEPT ![u] = @ + 1]

\* The handler of the refresh event.
Refresh(u) ==
    /\ events[u] > 0
    /\ events' = [events EXCEPT ![u] = @ - 1]
    /\ Ask(u)
    /\ UNCHANGED <<serverVars, screen, online, answers, behind, counters>>

\* The sidebar is shown, a slash command lists, or somebody clicks who has not
\* for an hour.
AskUnprompted(u) ==
    /\ asks < MaxAsks
    /\ asks' = asks + 1
    /\ Ask(u)
    /\ UNCHANGED <<serverVars, screen, online, events, answers, behind, changes, drops, losses>>

Disconnect(u) ==
    /\ online[u] /\ drops < MaxDrops
    /\ drops' = drops + 1
    /\ online' = [online EXCEPT ![u] = FALSE]
    /\ events' = [events EXCEPT ![u] = 0]
    /\ UNCHANGED <<serverVars, screen, asked, answers, behind, changes, asks, losses>>

\* A slip: no handler for reconnections.
Reconnect_Quiet(u) ==
    /\ ~online[u]
    /\ online' = [online EXCEPT ![u] = TRUE]
    /\ UNCHANGED <<serverVars, screen, events, asked, answers, behind, counters>>

Reconnect(u) ==
    /\ ~online[u]
    /\ online' = [online EXCEPT ![u] = TRUE]
    /\ Ask(u)
    /\ UNCHANGED <<serverVars, screen, events, answers, behind, counters>>

\* Answer i is taken out; those made before it are old from now on.
Without(a, i) ==
    [j \in 1 .. Len(a) - 1 |-> IF j < i THEN [a[j] EXCEPT !.old = TRUE] ELSE a[j + 1]]

\* The answer replaces the lists, GET_ALL_ISSUES.
Receive(u) ==
    \E i \in 1..Len(answers[u]) :
        /\ screen' = [screen EXCEPT ![u] = answers[u][i].lists]
        /\ behind' = [behind EXCEPT ![u] = answers[u][i].old]
        /\ answers' = [answers EXCEPT ![u] = Without(@, i)]
        /\ UNCHANGED <<serverVars, online, events, asked, counters>>

\* What is left of a fetch that failed, as far as it got.
Failed(u) ==
    /\ losses < MaxLosses
    /\ losses' = losses + 1
    /\ behind' = [behind EXCEPT ![u] = TRUE]
    /\ \/ /\ asked[u] > 0
          /\ asked' = [asked EXCEPT ![u] = @ - 1]
          /\ answers' = [answers EXCEPT ![u] = Overtaken(@)]
       \/ /\ \E i \in 1..Len(answers[u]) : answers' = [answers EXCEPT ![u] = Without(@, i)]
          /\ UNCHANGED asked
    /\ UNCHANGED <<serverVars, online, events, changes, asks, drops>>

\* The network fails: the app keeps what it shows, and does not try again.
FetchFails(u) == Failed(u) /\ UNCHANGED screen

\* The server answers with an error, which replaces the lists like any answer.
ServerErrs(u) == Failed(u) /\ screen' = [screen EXCEPT ![u] = Broken]

Next ==
    \/ ServerChange
    \/ \E us \in SUBSET Users : HandlerDies(us) \/ RequestFails(us)
    \/ \E u \in Users :
        \/ PublishRefresh(u) \/ Serve(u)
        \/ Refresh(u) \/ AskUnprompted(u) \/ Disconnect(u) \/ Reconnect(u)
        \/ Receive(u) \/ FetchFails(u) \/ ServerErrs(u)

Spec == Init /\ [][Next]_vars

\* The server runs its handlers, the browser its callbacks, and connections
\* that were lost come back.
FairSpec ==
    /\ Spec
    /\ \A u \in Users :
        /\ WF_vars(PublishRefresh(u)) /\ WF_vars(Serve(u))
        /\ WF_vars(Refresh(u)) /\ WF_vars(Reconnect(u)) /\ WF_vars(Receive(u))

-----------------------------------------------------------------------------
(* Properties *)

TypeOK ==
    /\ lists \in [Users -> Views]
    /\ owed \in [Users -> Nat]
    /\ failures \in Nat
    /\ screen \in [Users -> Views \cup {Broken}]
    /\ online \in [Users -> BOOLEAN]
    /\ events \in [Users -> Nat]
    /\ asked \in [Users -> Nat]
    /\ answers \in [Users -> Seq(Answer)]
    /\ behind \in [Users -> BOOLEAN]
    /\ changes \in Nat /\ asks \in Nat /\ drops \in Nat /\ losses \in Nat

\* More news is on its way to u's screen, or will be when u is back online.
Expecting(u) == owed[u] > 0 \/ events[u] > 0 \/ ~online[u] \/ asked[u] > 0

Settled(u) == ~Expecting(u) /\ answers[u] = <<>>

\* A screen on which nothing more will come shows the lists as they are, unless
\* the last that came of a fetch was overtaken by a later one, or was a failure,
\* or a request failed half way or its handler died: no other order of changes,
\* events, answers and lost connections leaves a stale screen.
StaleHasReason == \A u \in Users : Settled(u) /\ screen[u] # lists[u] => behind[u]

\* Before the screen has settled, an answer that nothing outdated is there,
\* too, or will be asked for.
LastWord(u) ==
    LET a == answers[u] IN
    IF a = <<>> THEN behind[u] \/ screen[u] = lists[u]
    ELSE a[Len(a)].old \/ a[Len(a)].lists = lists[u]

NewsIsComing == \A u \in Users : Expecting(u) \/ LastWord(u)

\* When the changes stop, every screen comes to show the lists, through lost
\* connections and changes during a fetch, unless it ends up behind in one of
\* the ways above.
EventuallyFresh == \A u \in Users : <>[](screen[u] = lists[u] \/ behind[u])
=============================================================================
