-------------------------------- MODULE Reminder --------------------------------
(***************************************************************************)
(* The daily reminder of one user, who has the plugin open in several      *)
(* browser tabs.  A tab asks for it when its page is loaded and with the   *)
(* first click after an hour without one; the handler of the listing reads *)
(* when the user was last reminded, compares, posts, and saves the time.   *)
(* Nothing keeps two listings apart.                                       *)
(*                                                                         *)
(* Time is counted in ticks.  A tab's clock is the server's.  Days are     *)
(* those of UTC: the handler takes the offset of the user's zone from a    *)
(* header that the web app never sends, and takes zero when it is missing. *)
(***************************************************************************)
EXTENDS Integers, FiniteSets

CONSTANTS
    Tabs,
    Requests,   \* listings the server can work on at the same time
    Hour,       \* ticks in an hour
    Day,        \* ticks in a day
    Start, End, \* bound: the time begins and stops here
    MaxLoads,   \* bound: pages loaded
    MaxClicks,  \* bound: clicks in them
    MaxFaults,  \* bound: failing calls, of the key-value store or to post
    MaxPosts    \* bound: reminders

Times == Start..End
Never == 0      \* what getLastReminderTimeForUser returns when nothing is stored

ASSUME TimeAssumption ==
    /\ Hour \in Nat \ {0} /\ Day \in Nat \ {0}
    /\ Start \in Nat /\ End \in Nat /\ Start <= End
ASSUME NeverIsLongAgo == Start - Never >= Hour /\ Start \div Day > Never \div Day
ASSUME BoundAssumption == 
    MaxLoads \in Nat /\ MaxClicks \in Nat /\ MaxFaults \in Nat /\ MaxPosts \in Nat

VARIABLES
    now,
    activity,   \* activity[t]: lastActivityTime
    wanted,     \* getReminderPreference
    last,       \* the time stored under reminderKey
    req,        \* req[r]: a listing with ?reminder=true
    loads, clicks, faults,  \* so far
    posts,      \* history: the reminders posted: which, when, after which saved ones
    saved,      \* history: those whose time has been saved
    asked       \* history: asked[t]: when t asked last, since it was loaded

vars == <<now, activity, wanted, last, req, loads, clicks, faults, posts, saved, asked>>

NotAsked == Start - 1

\* lastActivityTime = Number.MAX_SAFE_INTEGER: no time is an hour after it.
NoActivity == End + 1

\* A slip: no activity yet is activity long ago.
Loaded_LongAgo == Never
Loaded == NoActivity

\* A listing with ?reminder=true: the time it has read, the reminders saved by
\* then, and the one it has posted.
Listing(at) == [at |-> at, last |-> Never, after |-> {}, post |-> 0]
NoReq == Listing("none")

Init ==
    /\ now = Start
    /\ activity = [t \in Tabs |-> Loaded]
    /\ wanted = TRUE
    /\ last = Never
    /\ req = [r \in Requests |-> NoReq]
    /\ loads = 0 /\ clicks = 0 /\ faults = 0
    /\ posts = {}
    /\ saved = {}
    /\ asked = [t \in Tabs |-> NotAsked]

Tick ==
    /\ now < End
    /\ now' = now + 1
    /\ UNCHANGED <<activity, wanted, last, req, loads, clicks, faults, posts, saved, asked>>

-----------------------------------------------------------------------------
(* The web app *)

\* fetchAllIssueLists(true)
Fetch(t, r) ==
    /\ req[r] = NoReq
    /\ req' = [req EXCEPT ![r] = Listing("list")]
    /\ asked' = [asked EXCEPT ![t] = now]

\* initialize: the page is loaded, or loaded again.
Load(t, r) ==
    /\ loads < MaxLoads /\ loads' = loads + 1
    /\ activity' = [activity EXCEPT ![t] = Loaded]
    /\ Fetch(t, r)
    /\ UNCHANGED <<now, wanted, last, clicks, faults, posts, saved>>

\* activityFunc
Click(t) ==
    /\ clicks < MaxClicks /\ clicks' = clicks + 1
    /\ activity' = [activity EXCEPT ![t] = now]
    /\ IF now - activity[t] > Hour
       THEN \E r \in Requests : Fetch(t, r)
       ELSE UNCHANGED <<req, asked>>
    /\ UNCHANGED <<now, wanted, last, loads, faults, posts, saved>>

-----------------------------------------------------------------------------
(* The server *)

Fails == faults < MaxFaults /\ faults' = faults + 1

\* GetAllList and getReminderPreference, which is TRUE when it cannot be read.
ReadPreference(r) ==
    /\ req[r].at = "list"
    /\ \/ /\ req' = [req EXCEPT ![r] = NoReq]      \* no todos of one's own
          /\ UNCHANGED faults
       \/ /\ req' = [req EXCEPT ![r] = IF wanted THEN [@ EXCEPT !.at = "last"] ELSE NoReq]
          /\ UNCHANGED faults
       \/ /\ Fails
          /\ req' = [req EXCEPT ![r].at = "last"]
    /\ UNCHANGED <<now, activity, wanted, last, loads, clicks, posts, saved, asked>>

\* getLastReminderTimeForUser; its error is the answer to the listing.
ReadLast(r) ==
    /\ req[r].at = "last"
    /\ \/ /\ req' = [req EXCEPT ![r].at = "due", ![r].last = last, ![r].after = saved]
          /\ UNCHANGED faults
       \/ /\ Fails
          /\ req' = [req EXCEPT ![r] = NoReq]
    /\ UNCHANGED <<now, activity, wanted, last, loads, clicks, posts, saved, asked>>

\* The day of a time: the missing header is an offset of zero.
Date(time) == time \div Day

\* A slip: around midnight one reminder follows the other.
Due_AnyNextDay(time, before) == Date(time) # Date(before)

\* A slip: an hour without a reminder is enough.
Due_AnyHour(time, before) == time - before >= Hour

\* "if it's the next day and been more than an hour since the last post"
Due(time, before) == time - before >= Hour /\ Date(time) # Date(before)

\* PostBotDM logs its error: a reminder that could not be posted is saved as if
\* it had been.
Remind(r) ==
    /\ req[r].at = "due"
    /\ Cardinality(posts) < MaxPosts
    /\ LET n == Cardinality(posts) + 1 IN
       \/ /\ Due(now, req[r].last)
          /\ req' = [req EXCEPT ![r].at = "post", ![r].post = n]
          /\ posts' = posts \cup {[n |-> n, time |-> now, after |-> req[r].after]}
          /\ UNCHANGED faults
       \/ /\ Due(now, req[r].last)
          /\ Fails
          /\ req' = [req EXCEPT ![r].at = "post"]
          /\ UNCHANGED posts
       \/ /\ ~Due(now, req[r].last)
          /\ req' = [req EXCEPT ![r] = NoReq]
          /\ UNCHANGED <<posts, faults>>
    /\ UNCHANGED <<now, activity, wanted, last, loads, clicks, saved, asked>>

\* saveLastReminderTimeForUser stores the time it has become; an error is logged.
SaveLast(r) ==
    /\ req[r].at = "post"
    /\ \/ /\ last' = now
          /\ saved' = saved \cup ({req[r].post} \ {0})
          /\ UNCHANGED faults
       \/ Fails /\ UNCHANGED <<last, saved>>
    /\ req' = [req EXCEPT ![r] = NoReq]
    /\ UNCHANGED <<now, activity, wanted, loads, clicks, posts, asked>>

\* /todo settings summary on, off
SetPreference ==
    /\ wanted' = ~wanted
    /\ UNCHANGED <<now, activity, last, req, loads, clicks, faults, posts, saved, asked>>

Next ==
    \/ Tick
    \/ \E t \in Tabs : Click(t) \/ \E r \in Requests : Load(t, r)
    \/ \E r \in Requests : ReadPreference(r) \/ ReadLast(r) \/ Remind(r) \/ SaveLast(r)
    \/ SetPreference

Spec == Init /\ [][Next]_vars

-----------------------------------------------------------------------------
(* Properties *)

TypeOK ==
    /\ now \in Times
    /\ activity \in [Tabs -> Times \cup {NoActivity}]
    /\ wanted \in BOOLEAN
    /\ last \in Times \cup {Never}
    /\ req \in [Requests -> [at : {"none", "list", "last", "due", "post"},
                             last : Times \cup {Never}, after : SUBSET (1..MaxPosts),
                             post : 0..MaxPosts]]
    /\ loads \in 0..MaxLoads /\ clicks \in 0..MaxClicks /\ faults \in 0..MaxFaults
    /\ posts \subseteq [n : 1..MaxPosts, time : Times, after : SUBSET (1..MaxPosts)]
    /\ saved \subseteq 1..MaxPosts
    /\ asked \in [Tabs -> Times \cup {NotAsked}]

\* A reminder and any that was saved before its handler read the time are an
\* hour apart, and on different days of UTC: whatever the other listings do in
\* between.
RemindersApart ==
    \A p \in posts : \A q \in posts : q.n \in p.after =>
        p.time - q.time >= Hour /\ Date(p.time) # Date(q.time)

\* However often a user's pages ask on one day, the day's reminders are no more
\* than the listings that were at work together, and one more for each
\* failing call.
RemindersPerDay ==
    \A p \in posts :
        Cardinality({q \in posts : Date(q.time) = Date(p.time)}) <= Cardinality(Requests) + faults

\* A tab that has been loaded once asks for the reminder again only when more
\* than an hour has passed: clicking does not keep the server busy.
TabsAskHourly ==
    [][\A t \in Tabs : asked'[t] # asked[t] /\ asked[t] # NotAsked /\ activity'[t] # Loaded
         => now - asked[t] > Hour]_vars
=============================================================================
