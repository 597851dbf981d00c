----------------------------- MODULE PluginProofs ------------------------------
(***************************************************************************)
(* What the plugin does at the same time as itself: listings of one user   *)
(* that remind, and configuration hooks.                                   *)
(*                                                                          *)
(* The daily reminder, for any tabs, listings and lengths of hour and day: *)
(* however listings interleave, a reminder respects every one that was     *)
(* saved before its handler looked, and a tab asks hourly.                 *)
(*                                                                         *)
(* The state does not say what a handler relies on when it posts; Inv      *)
(* does.  The time it read was no later than now and no earlier than any   *)
(* reminder saved by then, and reminders are numbered without gaps, so the *)
(* number it is about to give is in nobody's set of saved ones.            *)
(*                                                                          *)
(* The configuration on the screens, for any hooks, clients, changes and   *)
(* losses: only what ShownUnlessRaced names keeps a screen from showing    *)
(* the setting.                                                            *)
(*                                                                         *)
(* A hook that runs alone holds the setting, or is followed by another, or *)
(* the load after its own failed (HookTells).  A screen that was spared    *)
(* the races has the active configuration as the last event on its way, as *)
(* the answer it waits for, or on display - except while a hook has        *)
(* replaced the configuration and not yet sent its event (Followed).       *)
(***************************************************************************)
EXTENDS Reminder, ConfigSync, FiniteSetTheorems, SequenceTheorems, TLAPS

-----------------------------------------------------------------------------
(* The daily reminder                                                      *)

Req == [at : {"none", "list", "last", "due", "post"}, last : Times \cup {Never},
        after : SUBSET (1..MaxPosts), post : 0..MaxPosts]
Post == [n : 1..MaxPosts, time : Times, after : SUBSET (1..MaxPosts)]

Count == Cardinality(posts)

\* Reminders are numbered from one, and what refers to them to those there are.
Numbered ==
    /\ IsFiniteSet(posts)
    /\ saved \subseteq 1..Count
    /\ \A p \in posts : p.n \in 1..Count /\ p.after \subseteq 1..Count
    /\ \A r \in Requests :
        /\ req[r].after \subseteq 1..Count
        /\ req[r].post # 0 => req[r].post \in 1..Count

\* The times that are stored or were read are past, and not before the
\* reminders they stand for.
Timely ==
    /\ last <= now
    /\ \A q \in posts : q.time <= now /\ (q.n \in saved => q.time <= last)
    /\ \A r \in Requests :
        /\ req[r].last <= now
        /\ \A q \in posts : q.n \in req[r].after => q.time <= req[r].last

\* A tab has been active since it asked.
Active == \A t \in Tabs : asked[t] <= activity[t] /\ asked[t] <= now

Inv == TypeOK /\ Numbered /\ Timely /\ Active

-----------------------------------------------------------------------------
(* Days follow each other. *)

LEMMA DivIsMonotonic ==
    ASSUME NEW a \in Int, NEW b \in Int, NEW d \in Nat, d > 0, a <= b
    PROVE  a \div d <= b \div d
OBVIOUS

LEMMA DueMeansLater ==
    ASSUME NEW q \in Int, NEW before \in Int, NEW time \in Int,
           q <= before, before <= time, Due(time, before)
    PROVE  time - q >= Hour /\ Date(time) # Date(q)
<1>1. q \div Day <= before \div Day /\ before \div Day <= time \div Day
  BY DivIsMonotonic, TimeAssumption
<1>2. /\ q \div Day \in Int
      /\ before \div Day \in Int
      /\ time \div Day \in Int
  BY TimeAssumption
<1>3. time \div Day # before \div Day /\ time - before >= Hour
  BY DEF Due, Date
<1>4. time \div Day # q \div Day
  BY <1>1, <1>2, <1>3
<1>5. QED
  BY <1>3, <1>4, TimeAssumption DEF Date

-----------------------------------------------------------------------------
(* The invariant holds at the start and survives every step. *)

LEMMA InitInv == Init => Inv
<1> SUFFICES ASSUME Init PROVE Inv
  OBVIOUS
<1>1. NoReq \in Req /\ Loaded \in Times \cup {NoActivity}
  BY TimeAssumption, BoundAssumption DEF NoReq, Listing, Req, Loaded, NoActivity, Times
<1>2. TypeOK
  BY <1>1, TimeAssumption, BoundAssumption DEF Init, TypeOK, Times, Req, NotAsked
<1>3. Numbered
  BY FS_EmptySet, BoundAssumption DEF Init, Numbered, Count, NoReq, Listing
<1>4. Timely
  BY TimeAssumption DEF Init, Timely, NoReq, Listing, Never
<1>5. Active
  BY TimeAssumption DEF Init, Active, NotAsked, Loaded, NoActivity
<1>6. QED
  BY <1>2, <1>3, <1>4, <1>5 DEF Inv

LEMMA TickKeeps == Inv /\ Tick => Inv'
<1> SUFFICES ASSUME Inv, Tick PROVE Inv'
  OBVIOUS
<1>1. TypeOK'
  BY TimeAssumption DEF Inv, TypeOK, Tick, Times
<1>2. Numbered'
  BY DEF Inv, Numbered, Count, Tick
<1>3. Timely'
  BY TimeAssumption DEF Inv, TypeOK, Timely, Tick, Times, Never
<1>4. Active'
  BY TimeAssumption DEF Inv, TypeOK, Active, Tick, Times, NotAsked
<1>5. QED
  BY <1>1, <1>2, <1>3, <1>4 DEF Inv

\* A new listing knows nothing yet.
LEMMA FetchFacts ==
    ASSUME Inv, NEW t \in Tabs, NEW r \in Requests, Fetch(t, r), UNCHANGED <<posts, saved, now, last>>
    PROVE  /\ req' \in [Requests -> Req]
           /\ asked' \in [Tabs -> Times \cup {NotAsked}]
           /\ Numbered'
           /\ Timely'
<1> DEFINE new == Listing("list")
<1>1. new \in Req /\ new.after = {} /\ new.last = Never /\ new.post = 0
  BY BoundAssumption DEF Req, Listing
<1>2. req \in [Requests -> Req] /\ req' = [req EXCEPT ![r] = new]
  BY DEF Inv, TypeOK, Req, Fetch
<1> HIDE DEF new
<1>3. req' \in [Requests -> Req] /\ \A x \in Requests : req'[x] = req[x] \/ req'[x] = new
  BY <1>1, <1>2
<1>4. asked' \in [Tabs -> Times \cup {NotAsked}]
  BY DEF Inv, TypeOK, Fetch
<1>5. Numbered'
  BY <1>1, <1>3 DEF Inv, Numbered, Count
<1>6. Timely'
  BY <1>1, <1>3, TimeAssumption DEF Inv, TypeOK, Timely, Times, Never
<1>7. QED
  BY <1>3, <1>4, <1>5, <1>6

LEMMA LoadKeeps ==
    ASSUME Inv, NEW t \in Tabs, NEW r \in Requests, Load(t, r)
    PROVE  Inv'
<1>1. Fetch(t, r) /\ UNCHANGED <<posts, saved, now, last>>
  BY DEF Load
<1>2. /\ req' \in [Requests -> Req]
      /\ asked' \in [Tabs -> Times \cup {NotAsked}]
      /\ Numbered' /\ Timely'
  BY <1>1, FetchFacts
<1>3. TypeOK'
  <2>1. activity' \in [Tabs -> Times \cup {NoActivity}]
    BY DEF Inv, TypeOK, Load, Loaded
  <2>2. loads' \in 0..MaxLoads
    BY BoundAssumption DEF Inv, TypeOK, Load
  <2>3. UNCHANGED <<now, wanted, last, clicks, faults, posts, saved>>
    BY DEF Load
  <2>4. QED
    BY <1>2, <2>1, <2>2, <2>3 DEF Inv, TypeOK, Req
<1>4. Active'
  <2> SUFFICES ASSUME NEW s \in Tabs PROVE asked'[s] <= activity'[s] /\ asked'[s] <= now'
    BY DEF Active
  <2>1. CASE s = t
    BY <2>1, TimeAssumption DEF Inv, TypeOK, Load, Fetch, Loaded, NoActivity, Times
  <2>2. CASE s # t
    BY <2>2 DEF Inv, TypeOK, Active, Load, Fetch
  <2>3. QED
    BY <2>1, <2>2
<1>5. QED
  BY <1>2, <1>3, <1>4 DEF Inv

LEMMA ClickKeeps ==
    ASSUME Inv, NEW t \in Tabs, Click(t)
    PROVE  Inv'
<1>1. now - activity[t] > Hour => \E r \in Requests : Fetch(t, r)
  BY DEF Click
<1>2. ~(now - activity[t] > Hour) => UNCHANGED <<req, asked>>
  BY DEF Click
<1>3. UNCHANGED <<posts, saved, now, last>>
  BY DEF Click
<1>4. /\ req' \in [Requests -> Req]
      /\ asked' \in [Tabs -> Times \cup {NotAsked}]
      /\ Numbered' /\ Timely'
  <2>1. CASE now - activity[t] > Hour
    BY <1>1, <1>3, <2>1, FetchFacts
  <2>2. CASE ~(now - activity[t] > Hour)
    BY <1>2, <1>3, <2>2 DEF Inv, TypeOK, Req, Numbered, Count, Timely
  <2>3. QED
    BY <2>1, <2>2
<1>5. TypeOK'
  <2>1. activity' \in [Tabs -> Times \cup {NoActivity}]
    BY DEF Inv, TypeOK, Click
  <2>2. clicks' \in 0..MaxClicks
    BY BoundAssumption DEF Inv, TypeOK, Click
  <2>3. UNCHANGED <<now, wanted, last, loads, faults, posts, saved>>
    BY DEF Click
  <2>4. QED
    BY <1>4, <2>1, <2>2, <2>3 DEF Inv, TypeOK, Req
<1>6. Active'
  <2> SUFFICES ASSUME NEW s \in Tabs PROVE asked'[s] <= activity'[s] /\ asked'[s] <= now'
    BY DEF Active
  <2>1. asked' = asked \/ asked' = [asked EXCEPT ![t] = now]
    BY <1>1, <1>2 DEF Fetch
  <2>2. CASE s = t
    BY <2>1, <2>2, TimeAssumption DEF Inv, TypeOK, Active, Click, NotAsked, NoActivity, Times
  <2>3. CASE s # t
    BY <2>1, <2>3 DEF Inv, TypeOK, Active, Click
  <2>4. QED
    BY <2>2, <2>3
<1>7. QED
  BY <1>4, <1>5, <1>6 DEF Inv

LEMMA ReadPreferenceKeeps ==
    ASSUME Inv, NEW r \in Requests, ReadPreference(r)
    PROVE  Inv'
<1>1. req \in [Requests -> Req]
  BY DEF Inv, TypeOK, Req
<1>2. PICK new \in {NoReq, [req[r] EXCEPT !.at = "last"]} : req' = [req EXCEPT ![r] = new]
  BY <1>1 DEF ReadPreference
<1>3. new \in Req /\ new.post \in {0, req[r].post} /\ new.after \subseteq req[r].after /\ (new.last = Never \/ new.last = req[r].last)
  BY <1>1, <1>2, BoundAssumption DEF NoReq, Listing, Req
<1>4. req' \in [Requests -> Req] /\ \A x \in Requests : req'[x] = IF x = r THEN new ELSE req[x]
  BY <1>1, <1>2, <1>3
<1>5. UNCHANGED <<now, activity, wanted, last, loads, clicks, posts, saved, asked>>
  BY DEF ReadPreference
<1>6. faults' \in 0..MaxFaults
  BY BoundAssumption DEF Inv, TypeOK, ReadPreference, Fails
<1>7. TypeOK'
  BY <1>4, <1>5, <1>6 DEF Inv, TypeOK, Req
<1>8. Numbered'
  BY <1>3, <1>4, <1>5 DEF Inv, Numbered, Count
<1>9. new.last <= now /\ \A q \in posts : q.n \in new.after => q.time <= new.last
  BY <1>2, <1>1, TimeAssumption DEF Inv, TypeOK, Timely, NoReq, Listing, Never, Times, Req
<1>10. Timely'
  BY <1>4, <1>5, <1>9 DEF Inv, Timely
<1>11. Active'
  BY <1>5 DEF Inv, Active
<1>12. QED
  BY <1>7, <1>8, <1>10, <1>11 DEF Inv

LEMMA ReadLastKeeps ==
    ASSUME Inv, NEW r \in Requests, ReadLast(r)
    PROVE  Inv'
<1>1. req \in [Requests -> Req]
  BY DEF Inv, TypeOK, Req
<1>2. PICK new \in {NoReq, [req[r] EXCEPT !.at = "due", !.last = last, !.after = saved]} :
          req' = [req EXCEPT ![r] = new]
  BY <1>1 DEF ReadLast
<1>3. new \in Req /\ new.post \in {0, req[r].post} /\ new.after \subseteq saved
      /\ (new.after # {} => new.last = last) /\ new.last \in {last, Never}
  <2>1. last \in Times \cup {Never} /\ saved \in SUBSET (1..MaxPosts) /\ req[r] \in Req
    BY <1>1 DEF Inv, TypeOK
  <2>2. CASE new = NoReq
    BY <2>1, <2>2, BoundAssumption DEF NoReq, Listing, Req
  <2>3. CASE new = [req[r] EXCEPT !.at = "due", !.last = last, !.after = saved]
    BY <2>1, <2>3 DEF Req
  <2>4. QED
    BY <1>2, <2>2, <2>3
<1>4. req' \in [Requests -> Req] /\ \A x \in Requests : req'[x] = IF x = r THEN new ELSE req[x]
  BY <1>1, <1>2, <1>3
<1>5. UNCHANGED <<now, activity, wanted, last, loads, clicks, posts, saved, asked>>
  BY DEF ReadLast
<1>6. faults' \in 0..MaxFaults
  BY BoundAssumption DEF Inv, TypeOK, ReadLast, Fails
<1>7. TypeOK'
  BY <1>4, <1>5, <1>6 DEF Inv, TypeOK, Req
<1>8. Numbered'
  BY <1>3, <1>4, <1>5 DEF Inv, Numbered, Count
<1>9. new.last <= now /\ \A q \in posts : q.n \in new.after => q.time <= new.last
  BY <1>3, TimeAssumption DEF Inv, TypeOK, Timely, Never, Times
<1>10. Timely'
  BY <1>4, <1>5, <1>9 DEF Inv, Timely
<1>11. Active'
  BY <1>5 DEF Inv, Active
<1>12. QED
  BY <1>7, <1>8, <1>10, <1>11 DEF Inv

-----------------------------------------------------------------------------

\* The handler has a post more to show, or gives up.
LEMMA RemindFacts ==
    ASSUME Inv, NEW r \in Requests, Remind(r), posts' # posts,
           NEW n, n = Count + 1
    PROVE  /\ n \in 1..MaxPosts /\ Count' = n /\ IsFiniteSet(posts')
           /\ posts' = posts \cup
                {[n |-> n, time |-> now, after |-> req[r].after]}
           /\ \A x \in Requests : req'[x] =
                IF x = r THEN [req[r] EXCEPT !.at = "post", !.post = n] ELSE req[x]
           /\ req' \in [Requests -> Req]
<1> DEFINE p == [n |-> n, time |-> now, after |-> req[r].after]
<1>1. IsFiniteSet(posts) /\ Count \in Nat
  BY FS_CardinalityType DEF Inv, Numbered, Count
<1>2. posts' = posts \cup {p} /\ n \in 1..MaxPosts
  BY <1>1, BoundAssumption DEF Remind, Count
<1>3. p \notin posts
  BY <1>1 DEF Inv, Numbered
<1> HIDE DEF p
<1>4. IsFiniteSet(posts') /\ Count' = n
  BY <1>1, <1>2, <1>3, FS_AddElement DEF Count
<1>5. req' = [req EXCEPT ![r] = [req[r] EXCEPT !.at = "post", !.post = n]]
  BY DEF Remind, Count
<1>6. [req[r] EXCEPT !.at = "post", !.post = n] \in Req /\ req \in [Requests -> Req]
  <2>1. req \in [Requests -> Req] /\ n \in 0..MaxPosts
    BY <1>2, BoundAssumption DEF Inv, TypeOK, Req
  <2>2. QED
    BY <2>1 DEF Req
<1>7. QED
  BY <1>2, <1>4, <1>5, <1>6 DEF p

LEMMA RemindKeeps ==
    ASSUME Inv, NEW r \in Requests, Remind(r)
    PROVE  Inv'
<1>1. UNCHANGED <<now, activity, wanted, last, loads, clicks, saved, asked>>
  BY DEF Remind
<1>6. faults' \in 0..MaxFaults
  BY BoundAssumption DEF Inv, TypeOK, Remind, Fails
<1>2. Active'
  BY <1>1 DEF Inv, Active
<1>3. CASE posts' # posts
  <2> DEFINE n == Count + 1
             p == [n |-> n, time |-> now, after |-> req[r].after]
  <2>1. /\ n \in 1..MaxPosts /\ Count' = n /\ IsFiniteSet(posts')
        /\ posts' = posts \cup {p}
        /\ \A x \in Requests : req'[x] =
             IF x = r THEN [req[r] EXCEPT !.at = "post", !.post = n] ELSE req[x]
        /\ req' \in [Requests -> Req]
    BY <1>3, RemindFacts
  <2>2. p \in Post /\ p.n = n /\ p.time = now /\ p.after = req[r].after /\ Count \in Nat
        /\ req[r] \in Req
    BY <2>1, FS_CardinalityType DEF Inv, TypeOK, Numbered, Count, Post, Req
  <2>3. n = Count + 1
    OBVIOUS
  <2>4. /\ [req[r] EXCEPT !.at = "post", !.post = n].after = req[r].after
        /\ [req[r] EXCEPT !.at = "post", !.post = n].last = req[r].last
        /\ [req[r] EXCEPT !.at = "post", !.post = n].post = n
    BY <2>2 DEF Req
  <2>5. \A x \in Requests : /\ req'[x].after = req[x].after /\ req'[x].last = req[x].last
                            /\ (req'[x].post = n \/ req'[x] = req[x])
    BY <2>1, <2>4
  <2> HIDE DEF p, n
  <2>6. TypeOK'
    BY <1>1, <1>6, <2>1, <2>2 DEF Inv, TypeOK, Req, Post
  <2>7. 1..Count \subseteq 1..n /\ n \in 1..n /\ n \notin 1..Count
    BY <2>2, <2>3
  <2>8. Numbered'
    <3>1. saved' \subseteq 1..Count'
      BY <1>1, <2>1, <2>7 DEF Inv, Numbered
    <3>2. \A q \in posts' : q.n \in 1..Count' /\ q.after \subseteq 1..Count'
      BY <2>1, <2>2, <2>7 DEF Inv, Numbered
    <3>3. \A x \in Requests : /\ req'[x].after \subseteq 1..Count'
                              /\ req'[x].post # 0 => req'[x].post \in 1..Count'
      BY <2>1, <2>5, <2>7 DEF Inv, Numbered
    <3>4. QED
      BY <2>1, <3>1, <3>2, <3>3 DEF Numbered
  <2>9. Timely'
    <3>1. n \notin saved /\ \A x \in Requests : n \notin req[x].after
      BY <2>7 DEF Inv, Numbered
    <3>2. last' <= now' /\ \A q \in posts' : q.time <= now' /\ (q.n \in saved' => q.time <= last')
      BY <1>1, <2>1, <2>2, <3>1, TimeAssumption DEF Inv, TypeOK, Timely, Times
    <3>3. \A x \in Requests :
            /\ req'[x].last <= now'
            /\ \A q \in posts' : q.n \in req'[x].after => q.time <= req'[x].last
      BY <1>1, <2>1, <2>2, <2>5, <3>1 DEF Inv, Timely
    <3>4. QED
      BY <3>2, <3>3 DEF Timely
  <2>10. QED
    BY <1>2, <2>6, <2>8, <2>9 DEF Inv
<1>4. CASE posts' = posts
  <2>1. PICK new \in {NoReq, [req[r] EXCEPT !.at = "post"]} : req' = [req EXCEPT ![r] = new]
    <3>1. req' \in {[req EXCEPT ![r] = NoReq], [req EXCEPT ![r].at = "post"]}
      <4>1. CASE Due(now, req[r].last)
        <5>1. Count + 1 \notin {p.n : p \in posts}
          BY FS_CardinalityType DEF Inv, Numbered, Count
        <5>2. posts # posts \cup {[n |-> Count + 1, time |-> now, after |-> req[r].after]}
          <6> DEFINE new == [n |-> Count + 1, time |-> now, after |-> req[r].after]
          <6>1. new.n = Count + 1
            OBVIOUS
          <6>2. new \notin posts
            BY <5>1, <6>1
          <6>3. QED
            BY <6>2
        <5>3. QED
          BY <1>4, <4>1, <5>2 DEF Remind, Count
      <4>2. CASE ~Due(now, req[r].last)
        BY <4>2 DEF Remind
      <4>3. QED
        BY <4>1, <4>2
    <3>2. QED
      BY <3>1
  <2>2. /\ new \in Req
        /\ new.after \subseteq req[r].after /\ new.post \in {0, req[r].post}
        /\ new.last = req[r].last \/ (new.last = Never /\ new.after = {})
    BY <2>1, BoundAssumption DEF Inv, TypeOK, NoReq, Listing, Req
  <2>3. req' \in [Requests -> Req] /\ \A x \in Requests : req'[x] = IF x = r THEN new ELSE req[x]
    BY <2>1, <2>2 DEF Inv, TypeOK, Req
  <2>4. TypeOK'
    BY <1>1, <1>6, <1>4, <2>3 DEF Inv, TypeOK, Req
  <2>5. Numbered'
    BY <1>1, <1>4, <2>2, <2>3 DEF Inv, Numbered, Count
  <2>6. Timely'
    BY <1>1, <1>4, <2>2, <2>3, TimeAssumption DEF Inv, TypeOK, Timely, Never, Times
  <2>7. QED
    BY <1>2, <2>4, <2>5, <2>6 DEF Inv
<1>5. QED
  BY <1>3, <1>4

\* What is saved is no earlier than the reminder it is saved for.
LEMMA SaveLastKeeps ==
    ASSUME Inv, NEW r \in Requests, SaveLast(r)
    PROVE  Inv'
<1>1. UNCHANGED <<now, activity, wanted, loads, clicks, posts, asked>>
  BY DEF SaveLast
<1>2. \/ last' = now /\ saved' = saved \cup ({req[r].post} \ {0})
      \/ last' = last /\ saved' = saved
  BY DEF SaveLast
<1>3. NoReq \in Req /\ NoReq.after = {} /\ NoReq.last = Never /\ NoReq.post = 0
  BY BoundAssumption DEF NoReq, Listing, Req
<1>4. req' \in [Requests -> Req] /\ \A x \in Requests : req'[x] = IF x = r THEN NoReq ELSE req[x]
  BY <1>3 DEF Inv, TypeOK, Req, SaveLast
<1>5. (req[r].post # 0 => req[r].post \in 1..Count) /\ Count' = Count
  BY <1>1 DEF Inv, Numbered, SaveLast, Count
<1>6. saved' \subseteq 1..Count /\ saved' \subseteq 1..MaxPosts
  <2>1. req[r].post \in 0..MaxPosts /\ saved \subseteq 1..MaxPosts /\ saved \subseteq 1..Count
    BY DEF Inv, TypeOK, Numbered
  <2>2. {req[r].post} \ {0} \subseteq 1..Count /\ {req[r].post} \ {0} \subseteq 1..MaxPosts
    BY <2>1, <1>5, BoundAssumption
  <2>3. QED
    BY <1>2, <2>1, <2>2
<1>7. faults' \in 0..MaxFaults
  BY BoundAssumption DEF Inv, TypeOK, SaveLast, Fails
<1>8. TypeOK'
  BY <1>1, <1>2, <1>4, <1>6, <1>7 DEF Inv, TypeOK, Req
<1>9. Numbered'
  BY <1>1, <1>3, <1>4, <1>5, <1>6 DEF Inv, Numbered
<1>10. Timely'
  <2>1. last' <= now' /\ \A q \in posts' : q.time <= now' /\ (q.n \in saved' => q.time <= last')
    BY <1>1, <1>2, TimeAssumption DEF Inv, TypeOK, Timely, Times
  <2>2. \A x \in Requests :
          /\ req'[x].last <= now'
          /\ \A q \in posts' : q.n \in req'[x].after => q.time <= req'[x].last
    BY <1>1, <1>3, <1>4, TimeAssumption DEF Inv, TypeOK, Timely, Never, Times
  <2>3. QED
    BY <2>1, <2>2 DEF Timely
<1>11. Active'
  BY <1>1 DEF Inv, Active
<1>12. QED
  BY <1>8, <1>9, <1>10, <1>11 DEF Inv

LEMMA NextKeeps == Inv /\ [Next]_vars => Inv'
<1> SUFFICES ASSUME Inv, [Next]_vars PROVE Inv'
  OBVIOUS
<1>1. CASE Tick
  BY <1>1, TickKeeps
<1>2. ASSUME NEW t \in Tabs, Click(t) PROVE Inv'
  BY <1>2, ClickKeeps
<1>3. ASSUME NEW t \in Tabs, NEW r \in Requests, Load(t, r) PROVE Inv'
  BY <1>3, LoadKeeps
<1>4. ASSUME NEW r \in Requests, ReadPreference(r) PROVE Inv'
  BY <1>4, ReadPreferenceKeeps
<1>5. ASSUME NEW r \in Requests, ReadLast(r) PROVE Inv'
  BY <1>5, ReadLastKeeps
<1>6. ASSUME NEW r \in Requests, Remind(r) PROVE Inv'
  BY <1>6, RemindKeeps
<1>7. ASSUME NEW r \in Requests, SaveLast(r) PROVE Inv'
  BY <1>7, SaveLastKeeps
<1>8. CASE SetPreference \/ UNCHANGED vars
  <2>1. UNCHANGED <<now, activity, last, req, loads, clicks, faults, posts, saved, asked>>
    BY <1>8 DEF SetPreference, vars
  <2>2. wanted' \in BOOLEAN
    BY <1>8 DEF SetPreference, vars, Inv, TypeOK
  <2>3. QED
    BY <2>1, <2>2 DEF Inv, TypeOK, Numbered, Count, Timely, Active
<1>9. QED
  BY <1>1, <1>2, <1>3, <1>4, <1>5, <1>6, <1>7, <1>8 DEF Next

LEMMA InvHolds == Spec => []Inv
BY InitInv, NextKeeps, PTL DEF Spec

-----------------------------------------------------------------------------
(* The theorems *)

\* Tabs, listings and times keep their types, for any number of them: what the
\* browsers keep in lastActivityTime and the server under reminderKey.
THEOREM TypeCorrect == Spec => []TypeOK
<1>1. Inv => TypeOK
  BY DEF Inv
<1>2. QED
  BY <1>1, InvHolds, PTL

\* The invariant that carries over what the new reminder owes to those before it.
LEMMA RemindersStayApart == Inv /\ RemindersApart /\ [Next]_vars => RemindersApart'
<1> SUFFICES ASSUME Inv, RemindersApart, [Next]_vars PROVE RemindersApart'
  OBVIOUS
<1>1. CASE posts' = posts
  BY <1>1 DEF RemindersApart
<1>2. ASSUME NEW r \in Requests, Remind(r), Due(now, req[r].last), posts' # posts
      PROVE  RemindersApart'
  <2> DEFINE n == Count + 1
             p == [n |-> n, time |-> now, after |-> req[r].after]
  <2>1. posts' = posts \cup {p}
    BY <1>2, RemindFacts
  <2>2. p.n = n /\ p.time = now /\ p.after = req[r].after
    OBVIOUS
  <2>3. n \notin 1..Count
    BY FS_CardinalityType DEF Inv, Numbered, Count
  <2> HIDE DEF p, n
  <2>4. \A q \in posts : n \notin q.after
    BY <2>3 DEF Inv, Numbered
  <2>5. n \notin req[r].after
    BY <2>3 DEF Inv, Numbered
  <2>6. ASSUME NEW q \in posts, q.n \in req[r].after
        PROVE  now - q.time >= Hour /\ Date(now) # Date(q.time)
    <3>1. q.time \in Int /\ req[r].last \in Int /\ now \in Int
      <4>1. req[r] \in Req /\ q \in Post /\ now \in Times
        BY DEF Inv, TypeOK, Req, Post
      <4>2. Times \cup {Never} \subseteq Int
        BY TimeAssumption DEF Times, Never
      <4>3. req[r].last \in Times \cup {Never} /\ q.time \in Times
        BY <4>1 DEF Req, Post
      <4>4. QED
        BY <4>1, <4>2, <4>3
    <3>2. q.time <= req[r].last /\ req[r].last <= now
      BY <2>6 DEF Inv, Timely
    <3>3. QED
      BY <1>2, <3>1, <3>2, DueMeansLater
  <2>7. QED
    BY <2>1, <2>2, <2>4, <2>5, <2>6 DEF RemindersApart
<1>3. posts' = posts \/ \E r \in Requests : Remind(r) /\ Due(now, req[r].last) /\ posts' # posts
  BY DEF Next, vars, Tick, Click, Load, ReadPreference, ReadLast, Remind, SaveLast, SetPreference
<1>4. QED
  BY <1>1, <1>2, <1>3

\* However many listings of a user run at once, and with
\* whatever store calls failing: a reminder is an hour and a day apart from every
\* one whose time was saved before its handler read it.
THEOREM RemindersAreApart == Spec => []RemindersApart
<1>1. Init => RemindersApart
  BY DEF Init, RemindersApart
<1>2. QED
  BY <1>1, RemindersStayApart, InvHolds, PTL DEF Spec

\* However often a page is clicked in, it asks for the reminder again only after
\* more than an hour (activityFunc, whose first time is no time).
THEOREM TabsAsk == Spec => TabsAskHourly
<1>1. ASSUME Inv, [Next]_vars
      PROVE  [\A t \in Tabs : asked'[t] # asked[t] /\ asked[t] # NotAsked /\ activity'[t] # Loaded
                => now - asked[t] > Hour]_vars
  <2> SUFFICES ASSUME NEW t \in Tabs, asked'[t] # asked[t], activity'[t] # Loaded, Next
               PROVE  now - asked[t] > Hour
    BY <1>1 DEF vars
  <2>1. \/ \E s \in Tabs : Click(s)
        \/ \E s \in Tabs : \E r \in Requests : Load(s, r)
    BY DEF Next, Tick, ReadPreference, ReadLast, Remind, SaveLast, SetPreference
  <2>2. ASSUME NEW s \in Tabs, NEW r \in Requests, Load(s, r) PROVE FALSE
    BY <1>1, <2>2 DEF Load, Fetch, Inv, TypeOK
  <2>3. PICK s \in Tabs : Click(s)
    BY <2>1, <2>2
  <2>4. s = t /\ now - activity[t] > Hour
    BY <1>1, <2>3 DEF Click, Fetch, Inv, TypeOK
  <2>5. asked[t] <= activity[t] /\ now \in Int /\ asked[t] \in Int /\ activity[t] \in Int
    BY <1>1, TimeAssumption DEF Inv, Active, TypeOK, Times, NotAsked, NoActivity
  <2>6. QED
    BY <2>4, <2>5, TimeAssumption
<1>2. QED
  BY <1>1, InvHolds, PTL DEF Spec, TabsAskHourly

-----------------------------------------------------------------------------
(* The configuration                                                       *)

HookTells ==
    /\ \A h \in Hooks : hook[h].alone =>
        /\ \A g \in Hooks : g # h => hook[g] = NoHook
        /\ hook[h].at \in {"same", "send"} => hook[h].loaded = active
        /\ due = 0 /\ ~failed => hook[h].loaded = setting
    /\ ~overlapped =>
        /\ \A h \in Hooks : hook[h] # NoHook => hook[h].alone
        /\ due = 0 /\ ~failed /\ (\A h \in Hooks : hook[h] = NoHook) => active = setting

\* A hook that runs is somewhere and has loaded something.
Running ==
    \A h \in Hooks :
        hook[h] # NoHook => hook[h].at # "none" /\ hook[h].loaded \in Choices

Sending == \E h \in Hooks : hook[h].at = "send"

\* A client that was hit by a race, or has nothing to show yet.
Excused(c) == c \in missed \cup overtaken \/ fetch[c].at = "unloaded"

UpToDate(c) ==
    /\ socket[c] # <<>> => socket[c][Len(socket[c])] = active
    /\ fetch[c].at = "answered" => fetch[c].answer = active
    /\ fetch[c].at = "none" /\ socket[c] = <<>> => sidebar[c] = active

Followed ==
    ~overlapped /\ ~Sending /\ active # Nil =>
        \A c \in Clients : Excused(c) \/ UpToDate(c)

\* A page that is not loaded has no socket.
Unloaded == \A c \in Clients : fetch[c].at = "unloaded" => socket[c] = <<>> /\ ~online[c]

\* A socket that is down delivers nothing.
Offline == \A c \in Clients : ~online[c] => socket[c] = <<>>

\* An answer that is kept is one.
Answers == \A c \in Clients : fetch[c].at = "answered" => fetch[c].answer \in Choices

\* What is sent is a configuration.
ActiveLoaded == \A h \in Hooks : hook[h].at = "send" => active # Nil

ConfigInv == ConfigTypeOK /\ Running /\ ActiveLoaded /\ Answers /\ Unloaded /\ Offline /\ HookTells /\ Followed

Hook == [at : {"none", "loaded", "differs", "same", "send"}, loaded : Choices \cup {Nil}, alone : BOOLEAN]
Fetching == [at : {"unloaded", "none", "asked", "answered"}, answer : Choices \cup {Nil}]

ServerVars == <<setting, active, due, hook, failed, overlapped>>
ClientVars == <<sidebar, fetch, socket, online, missed, overtaken>>

LEMMA NilIsNoChoice == Nil \notin Choices
BY DEF Nil, Choices

-----------------------------------------------------------------------------
(* What a step does not touch *)

LEMMA ServerRests ==
    ASSUME ConfigInv, UNCHANGED ServerVars
    PROVE  Running' /\ ActiveLoaded' /\ HookTells' /\ Sending' = Sending
BY DEF ConfigInv, ServerVars, Running, ActiveLoaded, HookTells, Sending, NoHook

LEMMA ClientsRest ==
    ASSUME ConfigInv, UNCHANGED ClientVars
    PROVE  /\ Answers' /\ Unloaded' /\ Offline'
           /\ \A c \in Clients : Excused(c)' = Excused(c)
           /\ active' = active => \A c \in Clients : UpToDate(c)' = UpToDate(c)
BY DEF ConfigInv, ClientVars, Answers, Unloaded, Offline, Excused, UpToDate

LEMMA ConfigInitInv == ConfigInit => ConfigInv
<1> SUFFICES ASSUME ConfigInit PROVE ConfigInv
  OBVIOUS
<1>1. NoHook \in Hook /\ [NoFetch EXCEPT !.at = "unloaded"] \in Fetching
  BY DEF NoHook, NoFetch, Hook, Fetching
<1>2. ConfigTypeOK
  <2>1. hook \in [Hooks -> Hook] /\ fetch \in [Clients -> Fetching]
    BY <1>1 DEF ConfigInit
  <2>2. sidebar \in [Clients -> Choices] /\ socket \in [Clients -> Seq(Choices)]
    BY DEF ConfigInit, Choices
  <2>3. due \in 0..(changes + 1) /\ changes \in 0..MaxChanges /\ drops \in 0..MaxDrops
    BY ChangesAssumption DEF ConfigInit
  <2>4. online \in [Clients -> BOOLEAN] /\ overlapped \in BOOLEAN /\ failed \in BOOLEAN
    BY DEF ConfigInit
  <2>5. setting \in Choices /\ active \in Choices \cup {Nil} /\ missed = {} /\ overtaken = {}
    BY DEF ConfigInit
  <2>6. QED
    BY <2>1, <2>2, <2>3, <2>4, <2>5 DEF ConfigTypeOK, Hook, Fetching
<1>3. \A c \in Clients : fetch[c].at = "unloaded"
  BY DEF ConfigInit, NoFetch
<1>4. Answers /\ Unloaded /\ Offline /\ Followed
  BY <1>3 DEF ConfigInit, Answers, Unloaded, Offline, Followed, Nil
<1>5. Running /\ ActiveLoaded /\ HookTells
  BY DEF ConfigInit, Running, ActiveLoaded, HookTells, NoHook
<1>6. QED
  BY <1>2, <1>4, <1>5 DEF ConfigInv

-----------------------------------------------------------------------------
(* The server's steps *)

LEMMA ChangeKeeps == ConfigInv /\ Change => ConfigInv'
<1> SUFFICES ASSUME ConfigInv, Change PROVE ConfigInv'
  OBVIOUS
<1>1. UNCHANGED ClientVars /\ UNCHANGED <<active, hook, drops, failed, overlapped>>
  BY DEF Change, ClientVars
<1>2. setting' \in Choices
  BY DEF Change
<1>3. due' # 0 /\ due' \in 0..(changes' + 1) /\ changes' \in 0..MaxChanges
  BY ChangesAssumption DEF Change, ConfigInv, ConfigTypeOK
<1>4. ConfigTypeOK'
  BY <1>1, <1>2, <1>3 DEF ConfigInv, ConfigTypeOK, ClientVars
<1>5. Running' /\ ActiveLoaded' /\ HookTells' /\ Sending' = Sending
  BY <1>1, <1>3 DEF ConfigInv, Running, ActiveLoaded, HookTells, NoHook, Sending
<1>6. Answers' /\ Unloaded' /\ Offline' /\ Followed'
  BY <1>1, <1>5, ClientsRest DEF ConfigInv, Followed
<1>7. QED
  BY <1>4, <1>5, <1>6 DEF ConfigInv

\* A step of hook h that leaves the clients alone.
LEMMA HookMoves ==
    ASSUME ConfigInv, NEW h \in Hooks, NEW new \in Hook, hook' = [hook EXCEPT ![h] = new]
    PROVE  hook' \in [Hooks -> Hook] /\ \A g \in Hooks : hook'[g] = IF g = h THEN new ELSE hook[g]
BY DEF ConfigInv, ConfigTypeOK, Hook

LEMMA LoadConfigurationKeeps ==
    ASSUME ConfigInv, NEW h \in Hooks, LoadConfiguration(h)
    PROVE  ConfigInv'
<1> DEFINE new == [at |-> "loaded", loaded |-> setting, alone |-> \A f \in Hooks : hook[f] = NoHook]
           left(g) == [hook[g] EXCEPT !.alone = FALSE]
<1>1. new \in Hook /\ new # NoHook /\ new.at = "loaded" /\ new.loaded = setting /\ setting \in Choices
      /\ (new.alone <=> \A f \in Hooks : hook[f] = NoHook)
  BY DEF Hook, NoHook, ConfigInv, ConfigTypeOK
<1>2. \A g \in Hooks : /\ left(g) \in Hook /\ ~left(g).alone
                       /\ left(g).at = hook[g].at /\ left(g).loaded = hook[g].loaded
                       /\ left(g) = NoHook <=> hook[g] = NoHook
  <2> SUFFICES ASSUME NEW g \in Hooks
               PROVE  /\ left(g) \in Hook /\ ~left(g).alone
                      /\ left(g).at = hook[g].at /\ left(g).loaded = hook[g].loaded
                      /\ left(g) = NoHook <=> hook[g] = NoHook
    OBVIOUS
  <2>1. hook[g] \in Hook
    BY DEF ConfigInv, ConfigTypeOK, Hook
  <2>2. /\ left(g) \in Hook /\ ~left(g).alone
        /\ left(g).at = hook[g].at /\ left(g).loaded = hook[g].loaded
    BY <2>1 DEF Hook
  <2>3. hook[g] = NoHook => left(g) = NoHook
    <3>1. NoHook \in Hook /\ NoHook.alone = FALSE
      BY DEF NoHook, Hook
    <3>2. ASSUME NEW x \in Hook, x.alone = FALSE PROVE [x EXCEPT !.alone = FALSE] = x
      BY <3>2 DEF Hook
    <3>3. QED
      BY <3>1, <3>2
  <2>4. hook[g] # NoHook => left(g) # NoHook
    BY <2>2 DEF ConfigInv, Running, NoHook
  <2>5. QED
    BY <2>2, <2>3, <2>4
<1>3. /\ hook' \in [Hooks -> Hook]
      /\ \A g \in Hooks : hook'[g] = IF g = h THEN new ELSE left(g)
  <2>1. hook' = [g \in Hooks |-> IF g = h THEN new ELSE left(g)]
    BY DEF LoadConfiguration
  <2> HIDE DEF new, left
  <2>2. QED
    BY <1>1, <1>2, <2>1
<1> HIDE DEF new, left
<1>4. UNCHANGED ClientVars /\ UNCHANGED <<setting, active, changes, drops>> /\ failed' = FALSE
  BY DEF LoadConfiguration, ClientVars
<1>5. overlapped' = (overlapped \/ \E g \in Hooks : hook[g] # NoHook)
  BY DEF LoadConfiguration
<1>6. due' \in 0..(changes' + 1)
  BY DEF LoadConfiguration, ConfigInv, ConfigTypeOK
<1>7. ConfigTypeOK'
  <2>1. overlapped' \in BOOLEAN
    BY <1>5 DEF ConfigInv, ConfigTypeOK
  <2>2. QED
    BY <1>3, <1>4, <1>6, <2>1 DEF ConfigInv, ConfigTypeOK, ClientVars, Hook
<1>8. Running' /\ ActiveLoaded'
  <2>1. \A g \in Hooks : g # h => hook'[g].at = hook[g].at /\ hook'[g].loaded = hook[g].loaded
                                 /\ (hook'[g] # NoHook => hook[g] # NoHook)
    BY <1>2, <1>3
  <2>2. hook'[h].at = "loaded" /\ hook'[h].loaded \in Choices
    BY <1>1, <1>3
  <2>3. QED
    BY <1>4, <2>1, <2>2 DEF ConfigInv, Running, ActiveLoaded
<1>9. HookTells'
  <2>1. ASSUME NEW f \in Hooks, hook'[f].alone
        PROVE  f = h /\ \A g \in Hooks : g # h => hook'[g] = NoHook
    BY <1>1, <1>2, <1>3, <2>1
  <2>2. ASSUME ~overlapped', NEW f \in Hooks, hook'[f] # NoHook
        PROVE  hook'[f].alone
    BY <1>1, <1>2, <1>3, <1>5, <2>2
  <2>3. hook'[h] # NoHook
    BY <1>1, <1>3
  <2>4. QED
    BY <1>1, <1>3, <1>4, <2>1, <2>2, <2>3 DEF HookTells, NoHook
<1>10. Answers' /\ Unloaded' /\ Offline' /\ Followed'
  <2>1. hook[h].at # "send"
    BY DEF LoadConfiguration, NoHook
  <2>2. Sending => Sending'
    BY <1>2, <1>3, <2>1 DEF Sending
  <2>3. overlapped => overlapped'
    BY <1>5
  <2>4. QED
    BY <1>4, <2>2, <2>3, ClientsRest DEF ConfigInv, Followed
<1>11. QED
  BY <1>7, <1>8, <1>9, <1>10 DEF ConfigInv

LEMMA LoadFailsKeeps == ConfigInv /\ LoadFails => ConfigInv'
<1> SUFFICES ASSUME ConfigInv, LoadFails PROVE ConfigInv'
  OBVIOUS
<1>1. UNCHANGED ClientVars /\ UNCHANGED <<setting, active, hook, changes, overlapped>> /\ failed' = TRUE
  BY DEF LoadFails, ClientVars
<1>2. due' \in 0..(changes' + 1) /\ drops' \in 0..MaxDrops
  BY ChangesAssumption DEF LoadFails, ConfigInv, ConfigTypeOK
<1>3. ConfigTypeOK'
  BY <1>1, <1>2 DEF ConfigInv, ConfigTypeOK, ClientVars
<1>4. Running' /\ ActiveLoaded' /\ HookTells' /\ Sending' = Sending
  BY <1>1 DEF ConfigInv, Running, ActiveLoaded, HookTells, NoHook, Sending
<1>5. Answers' /\ Unloaded' /\ Offline' /\ Followed'
  BY <1>1, <1>4, ClientsRest DEF ConfigInv, Followed
<1>6. QED
  BY <1>3, <1>4, <1>5 DEF ConfigInv

LEMMA CompareKeeps ==
    ASSUME ConfigInv, NEW h \in Hooks, Compare(h)
    PROVE  ConfigInv'
<1>1. PICK at \in {"differs", "same"} :
          /\ hook' = [hook EXCEPT ![h].at = at]
          /\ at = "same" => hook[h].loaded = active
  BY DEF Compare, Changed
<1> DEFINE new == [hook[h] EXCEPT !.at = at]
<1>2. new \in Hook /\ new # NoHook /\ new.at = at /\ new.loaded = hook[h].loaded
      /\ new.alone = hook[h].alone
  BY <1>1 DEF Hook, NoHook, ConfigInv, ConfigTypeOK
<1>3. hook[h].at = "loaded" /\ hook[h] # NoHook /\ hook[h].loaded \in Choices
  BY DEF Compare, ConfigInv, Running, NoHook
<1>4. /\ hook' \in [Hooks -> Hook]
      /\ \A g \in Hooks : hook'[g] = IF g = h THEN new ELSE hook[g]
  <2>1. hook' = [hook EXCEPT ![h] = new]
    BY <1>1
  <2> HIDE DEF new
  <2>2. QED
    BY <1>2, <2>1, HookMoves
<1> HIDE DEF new
<1>5. UNCHANGED ClientVars /\ UNCHANGED <<setting, active, due, changes, drops, failed, overlapped>>
  BY DEF Compare, ClientVars
<1>6. ConfigTypeOK'
  BY <1>4, <1>5 DEF ConfigInv, ConfigTypeOK, ClientVars, Hook
<1>7. Running' /\ ActiveLoaded'
  BY <1>1, <1>2, <1>3, <1>4, <1>5 DEF ConfigInv, Running, ActiveLoaded, NoHook
<1>8. \A g \in Hooks : /\ (hook'[g] # NoHook) = (hook[g] # NoHook)
                       /\ hook'[g].loaded = hook[g].loaded /\ hook'[g].alone = hook[g].alone
  BY <1>2, <1>3, <1>4
<1>9. HookTells'
  <2>1. \A g \in Hooks : hook[g].alone /\ hook'[g].at \in {"same", "send"} => hook'[g].loaded = active
    BY <1>1, <1>2, <1>4 DEF ConfigInv, HookTells
  <2>2. QED
    BY <1>5, <1>8, <2>1 DEF ConfigInv, HookTells
<1>10. Answers' /\ Unloaded' /\ Offline' /\ Followed'
  <2>1. Sending => Sending'
    BY <1>3, <1>4 DEF Sending
  <2>2. QED
    BY <1>5, <2>1, ClientsRest DEF ConfigInv, Followed
<1>11. QED
  BY <1>6, <1>7, <1>9, <1>10 DEF ConfigInv

LEMMA ReplaceKeeps ==
    ASSUME ConfigInv, NEW h \in Hooks, Replace(h)
    PROVE  ConfigInv'
<1> DEFINE new == IF hook[h].at = "differs" THEN [hook[h] EXCEPT !.at = "send"] ELSE NoHook
<1>1. hook[h].at \in {"differs", "same"} /\ hook[h] # NoHook /\ hook[h].loaded \in Choices
  BY DEF Replace, ConfigInv, Running, NoHook
<1>2. /\ new \in Hook
      /\ hook[h].at = "differs" => new # NoHook /\ new.at = "send"
                                  /\ new.loaded = hook[h].loaded /\ new.alone = hook[h].alone
      /\ hook[h].at = "same" => new = NoHook
  BY <1>1 DEF Hook, NoHook, ConfigInv, ConfigTypeOK, Nil
<1>3. /\ hook' \in [Hooks -> Hook]
      /\ \A g \in Hooks : hook'[g] = IF g = h THEN new ELSE hook[g]
  <2>1. hook' = [hook EXCEPT ![h] = new]
    BY DEF Replace
  <2> HIDE DEF new
  <2>2. QED
    BY <1>2, <2>1, HookMoves
<1> HIDE DEF new
<1>4. UNCHANGED ClientVars /\ UNCHANGED <<setting, due, changes, drops, failed, overlapped>>
      /\ active' = hook[h].loaded
  BY DEF Replace, ClientVars
<1>5. ConfigTypeOK'
  BY <1>1, <1>3, <1>4 DEF ConfigInv, ConfigTypeOK, ClientVars, Hook
<1>6. Running' /\ ActiveLoaded'
  BY <1>1, <1>2, <1>3, <1>4, NilIsNoChoice DEF ConfigInv, Running, ActiveLoaded, NoHook
<1>7. HookTells'
  <2>1. \A g \in Hooks : g # h => ~hook[g].alone /\ hook'[g] = hook[g]
    BY <1>1, <1>3 DEF ConfigInv, HookTells
  <2>2. ~NoHook.alone /\ NoHook.at \notin {"same", "send"}
    BY DEF NoHook
  <2>3. ASSUME NEW f \in Hooks, hook'[f].alone
        PROVE  /\ \A g \in Hooks : g # f => hook'[g] = NoHook
               /\ hook'[f].at \in {"same", "send"} => hook'[f].loaded = active'
               /\ due' = 0 /\ ~failed' => hook'[f].loaded = setting'
    <3>1. f = h /\ hook'[h] = new /\ hook[h].at = "differs" /\ hook[h].alone
      BY <1>1, <1>2, <1>3, <2>1, <2>2, <2>3
    <3>2. QED
      BY <1>2, <1>3, <1>4, <3>1 DEF ConfigInv, HookTells
  <2>4. ASSUME ~overlapped'
        PROVE  /\ \A f \in Hooks : hook'[f] # NoHook => hook'[f].alone
               /\ due' = 0 /\ ~failed' /\ (\A f \in Hooks : hook'[f] = NoHook) => active' = setting'
    <3>1. hook[h].alone /\ \A g \in Hooks : g # h => hook'[g] = NoHook
      BY <1>1, <1>3, <1>4, <2>4 DEF ConfigInv, HookTells
    <3>2. due' = 0 /\ ~failed' => active' = setting'
      BY <1>4, <3>1 DEF ConfigInv, HookTells
    <3>3. \A f \in Hooks : hook'[f] # NoHook => hook'[f].alone
      BY <1>1, <1>2, <1>3, <3>1
    <3>4. QED
      BY <3>2, <3>3
  <2>5. QED
    BY <2>3, <2>4 DEF HookTells
<1>8. Answers' /\ Unloaded' /\ Offline' /\ \A c \in Clients : Excused(c)' = Excused(c)
  BY <1>4, ClientsRest
<1>9. Followed'
  <2> SUFFICES ASSUME ~overlapped, ~Sending', NEW c \in Clients, ~Excused(c)
               PROVE  UpToDate(c)'
    BY <1>4, <1>8 DEF Followed
  <2>1. hook[h].at = "same"
    BY <1>1, <1>2, <1>3 DEF Sending
  <2>2. active' = active /\ active # Nil
    BY <1>1, <1>4, <2>1, NilIsNoChoice DEF ConfigInv, HookTells
  <2>3. ~Sending
    <3>1. \A g \in Hooks : g # h => hook'[g] = hook[g]
      BY <1>3
    <3>2. QED
      BY <2>1, <3>1 DEF Sending
  <2>4. UpToDate(c)
    BY <2>2, <2>3 DEF ConfigInv, Followed
  <2>5. QED
    BY <1>4, <2>2, <2>4, ClientsRest
<1>10. QED
  BY <1>5, <1>6, <1>7, <1>8, <1>9 DEF ConfigInv

\* The event reaches every client that is online, and brings it up to date.
LEMMA SendEventKeeps ==
    ASSUME ConfigInv, NEW h \in Hooks, SendEvent(h)
    PROVE  ConfigInv'
<1>1. hook[h].at = "send" /\ hook[h] # NoHook
  BY DEF SendEvent, NoHook
<1>2. NoHook \in Hook /\ NoHook.at = "none"
  BY DEF Hook, NoHook
<1>3. /\ hook' \in [Hooks -> Hook]
      /\ \A g \in Hooks : hook'[g] = IF g = h THEN NoHook ELSE hook[g]
  BY <1>2, HookMoves DEF SendEvent
<1>4. UNCHANGED <<setting, active, due, sidebar, fetch, online, changes, drops, failed>>
      /\ overlapped' = (overlapped /\ ~hook[h].alone)
  BY DEF SendEvent
<1>5. active \in Choices
  BY <1>1 DEF ConfigInv, ConfigTypeOK, ActiveLoaded
<1>6. /\ \A c \in Clients : socket'[c] = IF online[c] THEN Append(socket[c], active) ELSE socket[c]
      /\ socket' \in [Clients -> Seq(Choices)]
  <2>1. socket' = [c \in Clients |-> IF online[c] THEN Append(socket[c], active) ELSE socket[c]]
    BY DEF SendEvent
  <2>2. \A c \in Clients : socket[c] \in Seq(Choices)
    BY DEF ConfigInv, ConfigTypeOK
  <2>3. \A c \in Clients : Append(socket[c], active) \in Seq(Choices)
    BY <1>5, <2>2
  <2>4. QED
    BY <2>1, <2>2, <2>3
<1>7. /\ missed' = {c \in Clients : fetch[c].at = "none" /\ ~online[c]}
      /\ overtaken' = {c \in Clients : fetch[c].at = "answered"}
  BY DEF SendEvent
<1>8. ConfigTypeOK'
  <2>1. overlapped' \in BOOLEAN
    BY <1>3, <1>4 DEF ConfigInv, ConfigTypeOK
  <2>2. QED
    BY <1>3, <1>4, <1>6, <1>7, <2>1 DEF ConfigInv, ConfigTypeOK, Hook
<1>9. Running' /\ ActiveLoaded'
  BY <1>2, <1>3, <1>4 DEF ConfigInv, Running, ActiveLoaded
<1>10. HookTells'
  <2>1. \A g \in Hooks : hook'[g].alone => g # h /\ hook[g].alone
    BY <1>3 DEF NoHook
  <2>2. \A g \in Hooks : ~hook'[g].alone
    BY <1>1, <2>1 DEF ConfigInv, HookTells
  <2>3. ASSUME ~overlapped'
        PROVE  /\ \A g \in Hooks : hook'[g] = NoHook
               /\ due' = 0 /\ ~failed' => active' = setting'
    <3>1. hook[h].alone
      BY <1>1, <1>4, <2>3 DEF ConfigInv, HookTells
    <3>2. QED
      BY <1>1, <1>3, <1>4, <3>1 DEF ConfigInv, HookTells
  <2>4. QED
    BY <2>2, <2>3 DEF HookTells
<1>11. Answers'
  BY <1>4 DEF ConfigInv, Answers
<1>12. Unloaded' /\ Offline'
  BY <1>4, <1>6 DEF ConfigInv, Unloaded, Offline
<1>13. Followed'
  <2> SUFFICES ASSUME NEW c \in Clients, ~Excused(c)' PROVE UpToDate(c)'
    BY DEF Followed
  <2>1. fetch[c].at \notin {"answered", "unloaded"} /\ (online[c] \/ fetch[c].at # "none")
    BY <1>4, <1>7 DEF Excused
  <2>2. CASE online[c]
    <3>1. socket'[c] = Append(socket[c], active) /\ socket[c] \in Seq(Choices)
      BY <1>6, <2>2 DEF ConfigInv, ConfigTypeOK
    <3>2. socket'[c] # <<>> /\ socket'[c][Len(socket'[c])] = active
      BY <1>5, <3>1
    <3>3. QED
      BY <1>4, <2>1, <3>2 DEF UpToDate
  <2>3. CASE ~online[c]
    BY <1>4, <1>6, <2>1, <2>3 DEF ConfigInv, Offline, UpToDate
  <2>4. QED
    BY <2>2, <2>3
<1>14. QED
  BY <1>8, <1>9, <1>10, <1>11, <1>12, <1>13 DEF ConfigInv

-----------------------------------------------------------------------------
(* The clients' steps *)

\* A step of client c that leaves the server and the other clients alone.
LEMMA ClientMoves ==
    ASSUME ConfigInv, NEW c \in Clients, UNCHANGED ServerVars, ConfigTypeOK',
           missed \subseteq missed', overtaken' = overtaken,
           \A d \in Clients : d # c =>
               /\ sidebar'[d] = sidebar[d] /\ fetch'[d] = fetch[d]
               /\ socket'[d] = socket[d] /\ online'[d] = online[d],
           fetch'[c].at = "answered" => fetch'[c].answer \in Choices,
           fetch'[c].at = "unloaded" => socket'[c] = <<>> /\ ~online'[c],
           ~online'[c] => socket'[c] = <<>>,
           ~overlapped /\ ~Sending /\ active # Nil /\ ~Excused(c)' => UpToDate(c)'
    PROVE  ConfigInv'
<1>1. Running' /\ ActiveLoaded' /\ HookTells' /\ Sending' = Sending /\ active' = active /\ overlapped' = overlapped
  BY ServerRests DEF ServerVars
<1>2. Answers'
  BY DEF ConfigInv, Answers
<1>3. Unloaded' /\ Offline'
  BY DEF ConfigInv, Unloaded, Offline
<1>4. Followed'
  <2> SUFFICES ASSUME ~overlapped, ~Sending, active # Nil, NEW d \in Clients, ~Excused(d)'
               PROVE  UpToDate(d)'
    BY <1>1 DEF Followed
  <2>1. CASE d = c
    BY <2>1
  <2>2. CASE d # c
    <3>1. ~Excused(d)
      BY <2>2 DEF Excused
    <3>2. UpToDate(d)
      BY <3>1 DEF ConfigInv, Followed
    <3>3. QED
      BY <1>1, <2>2, <3>2 DEF UpToDate
  <2>3. QED
    BY <2>1, <2>2
<1>5. QED
  BY <1>1, <1>2, <1>3, <1>4 DEF ConfigInv

LEMMA OpenKeeps ==
    ASSUME ConfigInv, NEW c \in Clients, Open(c)
    PROVE  ConfigInv'
<1>1. fetch[c].at = "unloaded" /\ socket[c] = <<>>
  BY DEF Open, ConfigInv, Unloaded
<1>2. fetch' \in [Clients -> Fetching] /\ fetch'[c].at = "asked"
      /\ \A d \in Clients : d # c => fetch'[d] = fetch[d]
  BY DEF Open, ConfigInv, ConfigTypeOK, Fetching
<1>3. online' \in [Clients -> BOOLEAN] /\ \A d \in Clients : d # c => online'[d] = online[d]
  BY DEF Open, ConfigInv, ConfigTypeOK
<1>4. UNCHANGED <<setting, active, due, hook, sidebar, socket, changes, drops, failed, overlapped, missed, overtaken>>
  BY DEF Open
<1>5. ConfigTypeOK'
  BY <1>2, <1>3, <1>4 DEF ConfigInv, ConfigTypeOK, Fetching
<1>6. UpToDate(c)'
  BY <1>1, <1>2, <1>4 DEF UpToDate
<1>7. ~online'[c] => socket'[c] = <<>>
  BY <1>1, <1>4 DEF Open, ConfigInv
<1>8. QED
  BY <1>2, <1>3, <1>4, <1>5, <1>6, <1>7, ClientMoves DEF ServerVars

LEMMA AnswerKeeps ==
    ASSUME ConfigInv, NEW c \in Clients, Answer(c)
    PROVE  ConfigInv'
<1> DEFINE new == IF active = Nil THEN NoFetch ELSE [at |-> "answered", answer |-> active]
<1>1. active \in Choices \cup {Nil}
  BY DEF ConfigInv, ConfigTypeOK
<1>2. /\ new \in Fetching
      /\ active = Nil => new.at = "none"
      /\ active # Nil => new.at = "answered" /\ new.answer = active
  BY <1>1 DEF Fetching, NoFetch
<1>3. fetch' = [fetch EXCEPT ![c] = new]
  BY DEF Answer
<1> HIDE DEF new
<1>4. fetch' \in [Clients -> Fetching] /\ fetch'[c] = new
      /\ \A d \in Clients : d # c => fetch'[d] = fetch[d]
  BY <1>2, <1>3 DEF ConfigInv, ConfigTypeOK, Fetching
<1>5. UNCHANGED <<setting, active, due, hook, sidebar, socket, online, changes, drops, failed, overlapped, missed, overtaken>>
  BY DEF Answer
<1>6. ConfigTypeOK'
  BY <1>4, <1>5 DEF ConfigInv, ConfigTypeOK, Fetching
<1>7. ASSUME ~overlapped, ~Sending, active # Nil, ~Excused(c)'
      PROVE  UpToDate(c)'
  <2>1. ~Excused(c)
    BY <1>5, <1>7 DEF Excused, Answer
  <2>2. UpToDate(c)
    BY <1>7, <2>1 DEF ConfigInv, Followed
  <2>3. QED
    BY <1>2, <1>4, <1>5, <1>7, <2>2 DEF UpToDate
<1>8. fetch'[c].at = "answered" => fetch'[c].answer \in Choices
  BY <1>1, <1>2, <1>4
<1>9. fetch'[c].at # "unloaded"
  BY <1>2, <1>4
<1>10. ~online'[c] => socket'[c] = <<>>
  BY <1>5 DEF ConfigInv, Offline
<1>11. QED
  BY <1>4, <1>5, <1>6, <1>7, <1>8, <1>9, <1>10, ClientMoves DEF ServerVars

LEMMA AnsweredKeeps ==
    ASSUME ConfigInv, NEW c \in Clients, Answered(c)
    PROVE  ConfigInv'
<1>1. fetch[c].at = "answered" /\ fetch[c].answer \in Choices
  BY DEF Answered, ConfigInv, Answers
<1>2. NoFetch \in Fetching /\ NoFetch.at = "none"
  BY DEF Fetching, NoFetch
<1>3. fetch' \in [Clients -> Fetching] /\ fetch'[c] = NoFetch
      /\ \A d \in Clients : d # c => fetch'[d] = fetch[d]
  BY <1>2 DEF Answered, ConfigInv, ConfigTypeOK, Fetching
<1>4. sidebar' \in [Clients -> Choices] /\ sidebar'[c] = fetch[c].answer
      /\ \A d \in Clients : d # c => sidebar'[d] = sidebar[d]
  BY <1>1 DEF Answered, ConfigInv, ConfigTypeOK
<1>5. UNCHANGED <<setting, active, due, hook, socket, online, changes, drops, failed, overlapped, missed, overtaken>>
  BY DEF Answered
<1>6. ConfigTypeOK'
  BY <1>3, <1>4, <1>5 DEF ConfigInv, ConfigTypeOK, Fetching
<1>7. ASSUME ~overlapped, ~Sending, active # Nil, ~Excused(c)'
      PROVE  UpToDate(c)'
  <2>1. UpToDate(c)
    BY <1>1, <1>5, <1>7 DEF ConfigInv, Followed, Excused
  <2>2. QED
    BY <1>1, <1>2, <1>3, <1>4, <1>5, <2>1 DEF UpToDate
<1>8. ~online'[c] => socket'[c] = <<>>
  BY <1>5 DEF ConfigInv, Offline
<1>9. QED
  BY <1>2, <1>3, <1>4, <1>5, <1>6, <1>7, <1>8, ClientMoves DEF ServerVars

LEMMA FetchFailsKeeps ==
    ASSUME ConfigInv, NEW c \in Clients, FetchFails(c)
    PROVE  ConfigInv'
<1>1. NoFetch \in Fetching /\ NoFetch.at = "none"
  BY DEF Fetching, NoFetch
<1>2. fetch' \in [Clients -> Fetching] /\ fetch'[c] = NoFetch
      /\ \A d \in Clients : d # c => fetch'[d] = fetch[d]
  BY <1>1 DEF FetchFails, ConfigInv, ConfigTypeOK, Fetching
<1>3. UNCHANGED <<setting, active, due, hook, socket, online, changes, failed, overlapped, overtaken>>
      /\ missed' = missed \cup {c}
  BY DEF FetchFails
<1>4. drops' \in 0..MaxDrops
  BY ChangesAssumption DEF FetchFails, ConfigInv, ConfigTypeOK
<1>5. sidebar' \in [Clients -> Choices] /\ \A d \in Clients : d # c => sidebar'[d] = sidebar[d]
  BY DEF FetchFails, ConfigInv, ConfigTypeOK, Choices
<1>6. ConfigTypeOK'
  BY <1>2, <1>3, <1>4, <1>5 DEF ConfigInv, ConfigTypeOK, Fetching
<1>7. Excused(c)'
  BY <1>3 DEF Excused
<1>8. ~online'[c] => socket'[c] = <<>>
  BY <1>3 DEF ConfigInv, Offline
<1>9. QED
  BY <1>1, <1>2, <1>3, <1>5, <1>6, <1>7, <1>8, ClientMoves DEF ServerVars

LEMMA DeliverKeeps ==
    ASSUME ConfigInv, NEW c \in Clients, Deliver(c)
    PROVE  ConfigInv'
<1> DEFINE s == socket[c]
<1>1. s \in Seq(Choices) /\ s # <<>>
  BY DEF Deliver, ConfigInv, ConfigTypeOK
<1>2. /\ Head(s) \in Choices /\ Tail(s) \in Seq(Choices)
      /\ Tail(s) = <<>> => Head(s) = s[Len(s)]
      /\ Tail(s) # <<>> => Tail(s)[Len(Tail(s))] = s[Len(s)]
  <2> HIDE DEF s
  <2>1. /\ Head(s) \in Choices /\ Tail(s) \in Seq(Choices)
        /\ Len(Tail(s)) = Len(s) - 1
        /\ \A i \in 1..Len(Tail(s)) : Tail(s)[i] = s[i + 1]
    BY <1>1, HeadTailProperties
  <2>2. Len(s) \in Nat /\ Len(s) # 0 /\ Len(Tail(s)) \in Nat /\ Head(s) = s[1]
    BY <1>1, <2>1
  <2>3. Tail(s) = <<>> => Len(s) = 1
    <3>1. Len(<<>>) = 0
      OBVIOUS
    <3>2. Tail(s) = <<>> => Len(Tail(s)) = 0
      BY <3>1
    <3>3. QED
      BY <2>1, <2>2, <3>2
  <2>4. Tail(s) # <<>> => Len(Tail(s)) \in 1..Len(Tail(s))
    BY <2>1, <2>2
  <2>5. Len(Tail(s)) + 1 = Len(s)
    BY <2>1, <2>2
  <2>6. Tail(s) # <<>> => Tail(s)[Len(Tail(s))] = s[Len(s)]
    BY <2>1, <2>4, <2>5
  <2>7. QED
    BY <2>1, <2>2, <2>3, <2>6
<1>3. socket' \in [Clients -> Seq(Choices)] /\ socket'[c] = Tail(s)
      /\ \A d \in Clients : d # c => socket'[d] = socket[d]
  <2>1. socket' = [socket EXCEPT ![c] = Tail(s)] /\ socket \in [Clients -> Seq(Choices)]
    BY DEF Deliver, ConfigInv, ConfigTypeOK
  <2> HIDE DEF s
  <2>2. QED
    BY <1>2, <2>1
<1>4. sidebar' \in [Clients -> Choices] /\ sidebar'[c] = Head(s)
      /\ \A d \in Clients : d # c => sidebar'[d] = sidebar[d]
  <2>1. sidebar' = [sidebar EXCEPT ![c] = Head(s)] /\ sidebar \in [Clients -> Choices]
    BY DEF Deliver, ConfigInv, ConfigTypeOK
  <2> HIDE DEF s
  <2>2. QED
    BY <1>2, <2>1
<1>5. UNCHANGED <<setting, active, due, hook, fetch, online, changes, drops, failed, overlapped, missed, overtaken>>
  BY DEF Deliver
<1>6. ConfigTypeOK'
  BY <1>3, <1>4, <1>5 DEF ConfigInv, ConfigTypeOK
<1>7. fetch[c].at # "unloaded"
  BY <1>1 DEF ConfigInv, Unloaded
<1>8. ASSUME ~overlapped, ~Sending, active # Nil, ~Excused(c)'
      PROVE  UpToDate(c)'
  <2>1. UpToDate(c)
    BY <1>5, <1>8 DEF ConfigInv, Followed, Excused
  <2>2. s[Len(s)] = active /\ fetch[c].at = "answered" => fetch[c].answer = active
    BY <1>1, <2>1 DEF UpToDate
  <2>3. s[Len(s)] = active
    BY <1>1, <2>1 DEF UpToDate
  <2> HIDE DEF s
  <2>4. (Tail(s) = <<>> => Head(s) = active) /\ (Tail(s) # <<>> => Tail(s)[Len(Tail(s))] = active)
    BY <1>2, <2>3
  <2>5. QED
    BY <1>3, <1>4, <1>5, <2>2, <2>3, <2>4 DEF UpToDate
<1>9. fetch'[c].at = "answered" => fetch'[c].answer \in Choices
  BY <1>5 DEF ConfigInv, Answers
<1> HIDE DEF s
<1>10. ~online'[c] => socket'[c] = <<>>
  BY <1>5 DEF Deliver, ConfigInv, Offline
<1>11. QED
  BY <1>3, <1>4, <1>5, <1>6, <1>7, <1>8, <1>9, <1>10, ClientMoves DEF ServerVars

LEMMA DropKeeps ==
    ASSUME ConfigInv, NEW c \in Clients, Drop(c)
    PROVE  ConfigInv'
<1>1. online[c] /\ fetch[c].at # "unloaded"
  BY DEF Drop, ConfigInv, Unloaded
<1>2. online' \in [Clients -> BOOLEAN] /\ \A d \in Clients : d # c => online'[d] = online[d]
  BY DEF Drop, ConfigInv, ConfigTypeOK
<1>3. socket' \in [Clients -> Seq(Choices)] /\ socket'[c] = <<>>
      /\ \A d \in Clients : d # c => socket'[d] = socket[d]
  <2>1. socket' = [socket EXCEPT ![c] = <<>>] /\ socket \in [Clients -> Seq(Choices)] /\ <<>> \in Seq(Choices)
    BY DEF Drop, ConfigInv, ConfigTypeOK
  <2>2. QED
    BY <2>1
<1>4. UNCHANGED <<setting, active, due, hook, sidebar, fetch, changes, failed, overlapped, overtaken>>
      /\ missed' = IF socket[c] # <<>> /\ fetch[c].at = "none" THEN missed \cup {c} ELSE missed
  BY DEF Drop
<1>5. drops' \in 0..MaxDrops
  BY ChangesAssumption DEF Drop, ConfigInv, ConfigTypeOK
<1>6. ConfigTypeOK'
  BY <1>2, <1>3, <1>4, <1>5 DEF ConfigInv, ConfigTypeOK
<1>7. ASSUME ~overlapped, ~Sending, active # Nil, ~Excused(c)'
      PROVE  UpToDate(c)'
  <2>1. ~Excused(c) /\ (socket[c] = <<>> \/ fetch[c].at # "none")
    BY <1>4, <1>7 DEF Excused
  <2>2. UpToDate(c)
    BY <1>7, <2>1 DEF ConfigInv, Followed
  <2>3. QED
    BY <1>3, <1>4, <2>1, <2>2 DEF UpToDate
<1>8. fetch'[c].at = "answered" => fetch'[c].answer \in Choices
  BY <1>4 DEF ConfigInv, Answers
<1>9. missed \subseteq missed'
  BY <1>4
<1>10. QED
  BY <1>1, <1>2, <1>3, <1>4, <1>6, <1>7, <1>8, <1>9, ClientMoves DEF ServerVars

LEMMA ReconnectKeeps ==
    ASSUME ConfigInv, NEW c \in Clients, Reconnect(c)
    PROVE  ConfigInv'
<1>1. online' \in [Clients -> BOOLEAN] /\ \A d \in Clients : d # c => online'[d] = online[d]
  BY DEF Reconnect, ConfigInv, ConfigTypeOK
<1>2. UNCHANGED <<setting, active, due, hook, sidebar, fetch, socket, changes, drops, failed, overlapped, missed, overtaken>>
  BY DEF Reconnect
<1>3. ConfigTypeOK'
  BY <1>1, <1>2 DEF ConfigInv, ConfigTypeOK
<1>4. fetch'[c].at # "unloaded" /\ (fetch'[c].at = "answered" => fetch'[c].answer \in Choices)
  BY <1>2 DEF Reconnect, ConfigInv, Answers
<1>5. ASSUME ~overlapped, ~Sending, active # Nil, ~Excused(c)'
      PROVE  UpToDate(c)'
  BY <1>2, <1>5 DEF ConfigInv, Followed, Excused, UpToDate
<1>6. ~online'[c] => socket'[c] = <<>>
  BY <1>2 DEF Reconnect, ConfigInv, ConfigTypeOK
<1>7. QED
  BY <1>1, <1>2, <1>3, <1>4, <1>5, <1>6, ClientMoves DEF ServerVars

LEMMA ConfigNextKeeps == ConfigInv /\ [ConfigNext]_configVars => ConfigInv'
<1> SUFFICES ASSUME ConfigInv, [ConfigNext]_configVars PROVE ConfigInv'
  OBVIOUS
<1>1. CASE Change
  BY <1>1, ChangeKeeps
<1>0. CASE LoadFails
  BY <1>0, LoadFailsKeeps
<1>2. ASSUME NEW h \in Hooks, LoadConfiguration(h) PROVE ConfigInv'
  BY <1>2, LoadConfigurationKeeps
<1>3. ASSUME NEW h \in Hooks, Compare(h) PROVE ConfigInv'
  BY <1>3, CompareKeeps
<1>4. ASSUME NEW h \in Hooks, Replace(h) PROVE ConfigInv'
  BY <1>4, ReplaceKeeps
<1>5. ASSUME NEW h \in Hooks, SendEvent(h) PROVE ConfigInv'
  BY <1>5, SendEventKeeps
<1>6. ASSUME NEW c \in Clients, Open(c) PROVE ConfigInv'
  BY <1>6, OpenKeeps
<1>7. ASSUME NEW c \in Clients, Answer(c) PROVE ConfigInv'
  BY <1>7, AnswerKeeps
<1>8. ASSUME NEW c \in Clients, Answered(c) PROVE ConfigInv'
  BY <1>8, AnsweredKeeps
<1>9. ASSUME NEW c \in Clients, FetchFails(c) PROVE ConfigInv'
  BY <1>9, FetchFailsKeeps
<1>10. ASSUME NEW c \in Clients, Deliver(c) PROVE ConfigInv'
  BY <1>10, DeliverKeeps
<1>11. ASSUME NEW c \in Clients, Drop(c) PROVE ConfigInv'
  BY <1>11, DropKeeps
<1>12. ASSUME NEW c \in Clients, Reconnect(c) PROVE ConfigInv'
  BY <1>12, ReconnectKeeps
<1>13. CASE UNCHANGED configVars
  <2>1. UNCHANGED ServerVars /\ UNCHANGED ClientVars /\ UNCHANGED <<changes, drops>>
    BY <1>13 DEF configVars, ServerVars, ClientVars
  <2>2. ConfigTypeOK'
    BY <2>1 DEF ConfigInv, ConfigTypeOK, ServerVars, ClientVars
  <2>3. QED
    BY <2>1, <2>2, ServerRests, ClientsRest DEF ConfigInv, Followed, ServerVars
<1>14. QED
  BY <1>0, <1>1, <1>2, <1>3, <1>4, <1>5, <1>6, <1>7, <1>8, <1>9, <1>10, <1>11, <1>12, <1>13 DEF ConfigNext

LEMMA ConfigInvHolds == ConfigSpec => []ConfigInv
BY ConfigInitInv, ConfigNextKeeps, PTL DEF ConfigSpec

-----------------------------------------------------------------------------
(* The theorems *)

\* The server never sends, and no page ever keeps, anything but a
\* configuration, though handleConfig may be asked before there is one.
THEOREM ConfigTypeCorrect == ConfigSpec => []ConfigTypeOK
<1>1. ConfigInv => ConfigTypeOK
  BY DEF ConfigInv
<1>2. QED
  BY <1>1, ConfigInvHolds, PTL

\* However many hooks, pages, changes, failures and lost connections: a page at
\* rest shows the setting unless the latest load failed, hooks overlapped and none
\* that ran alone has sent an event since (OnConfigurationChange compares without
\* the lock), or the page lost the latest event or got no answer since
\* (updateConfig), or that event overtook its answer.
THEOREM SettingIsShown == ConfigSpec => []ShownUnlessRaced
<1>1. ASSUME ConfigInv PROVE ShownUnlessRaced
  <2> SUFFICES ASSUME NEW c \in Clients, AtRest, fetch[c].at = "none", socket[c] = <<>>,
                      ~failed, ~overlapped, c \notin missed \cup overtaken
               PROVE  sidebar[c] = setting
    BY DEF ShownUnlessRaced
  <2>1. active = setting /\ setting \in Choices
    BY <1>1 DEF ConfigInv, HookTells, AtRest, ConfigTypeOK
  <2>2. ~Sending
    BY DEF AtRest, Sending, NoHook
  <2>3. UpToDate(c)
    BY <1>1, <2>1, <2>2, NilIsNoChoice DEF ConfigInv, Followed, Excused
  <2>4. QED
    BY <2>1, <2>3 DEF UpToDate
<1>2. QED
  BY <1>1, ConfigInvHolds, PTL
=============================================================================
