----------------------------- MODULE WebSyncProofs -----------------------------
(***************************************************************************)
(* Screens that have settled are up to date, for any number of users,      *)
(* views, changes, lost connections and failures.                          *)
(***************************************************************************)
EXTENDS WebSync, SequenceTheorems, TLAPS

LEMMA OvertakenFacts ==
    ASSUME NEW a \in Seq(Answer)
    PROVE  /\ Overtaken(a) \in Seq(Answer)
           /\ Len(Overtaken(a)) = Len(a)
           /\ \A j \in 1..Len(a) : Overtaken(a)[j].old
           /\ a = <<>> <=> Overtaken(a) = <<>>
<1>1. \A j \in 1..Len(a) : a[j] \in Answer
  OBVIOUS
<1>2. \A j \in 1..Len(a) : [a[j] EXCEPT !.old = TRUE] \in Answer /\ [a[j] EXCEPT !.old = TRUE].old
  BY <1>1 DEF Answer
<1>3. Len(a) \in Nat
  OBVIOUS
<1> DEFINE o == Overtaken(a)
<1>4. o \in Seq(Answer) /\ Len(o) = Len(a) /\ \A j \in 1..Len(a) : o[j] = [a[j] EXCEPT !.old = TRUE]
  BY <1>2, <1>3 DEF Overtaken
<1>5. \A j \in 1..Len(a) : o[j].old
  BY <1>2, <1>4
<1> HIDE DEF o
<1>6. a = <<>> <=> o = <<>>
  BY <1>4, EmptySeq
<1> QED
  BY <1>4, <1>5, <1>6 DEF o

\* Taking out an answer ages those before it and leaves the last one last.
LEMMA WithoutFacts ==
    ASSUME NEW a \in Seq(Answer), NEW i \in 1..Len(a)
    PROVE  /\ Without(a, i) \in Seq(Answer)
           /\ Len(Without(a, i)) = Len(a) - 1
           /\ i = Len(a) => \A j \in 1..(Len(a) - 1) : Without(a, i)[j].old
           /\ i # Len(a) => Without(a, i)[Len(a) - 1] = a[Len(a)]
<1>1. \A j \in 1..Len(a) : a[j] \in Answer
  OBVIOUS
<1>2. \A j \in 1..Len(a) : [a[j] EXCEPT !.old = TRUE] \in Answer /\ [a[j] EXCEPT !.old = TRUE].old
  BY <1>1 DEF Answer
<1>3. Len(a) \in Nat /\ Len(a) - 1 \in Nat
  OBVIOUS
<1> DEFINE e(j) == IF j < i THEN [a[j] EXCEPT !.old = TRUE] ELSE a[j + 1]
           w == Without(a, i)
<1>4. \A j \in 1..(Len(a) - 1) : e(j) \in Answer
  BY <1>1, <1>2, <1>3
<1>5. w = [j \in 1..(Len(a) - 1) |-> e(j)]
  BY DEF Without
<1> HIDE DEF e, w
<1>6. w \in Seq(Answer) /\ Len(w) = Len(a) - 1 /\ \A j \in 1..(Len(a) - 1) : w[j] = e(j)
  BY <1>3, <1>4, <1>5
<1>7. i = Len(a) => \A j \in 1..(Len(a) - 1) : e(j).old
  BY <1>2, <1>3 DEF e
<1>8. i # Len(a) => e(Len(a) - 1) = a[Len(a)] /\ Len(a) - 1 \in 1..(Len(a) - 1)
  BY <1>3 DEF e
<1> QED
  BY <1>6, <1>7, <1>8 DEF w

LEMMA TypeStep == TypeOK /\ [Next]_vars => TypeOK'
<1> SUFFICES ASSUME TypeOK, [Next]_vars PROVE TypeOK'
  OBVIOUS
<1> USE DEF TypeOK
<1>1. ASSUME ServerChange PROVE TypeOK'
  <2>1. PICK more \in [Users -> 0..MostEvents] : owed' = [u \in Users |-> owed[u] + more[u]]
    BY <1>1 DEF ServerChange, Change
  <2>2. owed' \in [Users -> Nat]
    BY <2>1, EventsAssumption
  <2> QED
    BY <1>1, <2>2 DEF ServerChange, Change, appVars
<1>2. ASSUME NEW us \in SUBSET Users, HandlerDies(us) PROVE TypeOK'
  <2>1. owed' \in [Users -> Nat]
    <3>1. PICK less \in [Users -> 0..MostEvents] :
            /\ \A u \in Users : less[u] <= owed[u] /\ (less[u] > 0 <=> u \in us)
            /\ owed' = [u \in Users |-> owed[u] - less[u]]
      BY <1>2 DEF HandlerDies, Forget
    <3>2. \A u \in Users : owed[u] - less[u] \in Nat
      BY <3>1, EventsAssumption
    <3> QED
      BY <3>1, <3>2
  <2>2. answers' \in [Users -> Seq(Answer)]
    BY <1>2, OvertakenFacts DEF HandlerDies, Missed
  <2> QED
    BY <1>2, <2>1, <2>2 DEF HandlerDies, Missed, Forget
<1>3. ASSUME NEW u \in Users, PublishRefresh(u) PROVE TypeOK'
  BY <1>3 DEF PublishRefresh, Publish, counters
<1>4. ASSUME NEW u \in Users, Serve(u) PROVE TypeOK'
  <2>1. PICK v \in Readable(u) :
            answers' = [answers EXCEPT ![u] = Append(@, [lists |-> v, old |-> FALSE])]
    BY <1>4 DEF Serve
  <2>2. [lists |-> v, old |-> FALSE] \in Answer
    BY DEF Answer, Readable
  <2>3. answers' \in [Users -> Seq(Answer)]
    BY <2>1, <2>2
  <2> QED
    BY <1>4, <2>3 DEF Serve, serverVars, counters
<1>5. ASSUME NEW u \in Users, Refresh(u) PROVE TypeOK'
  BY <1>5 DEF Refresh, Ask, serverVars, counters
<1>6. ASSUME NEW u \in Users, AskUnprompted(u) PROVE TypeOK'
  BY <1>6 DEF AskUnprompted, Ask, serverVars
<1>7. ASSUME NEW u \in Users, Disconnect(u) PROVE TypeOK'
  BY <1>7 DEF Disconnect, serverVars
<1>8. ASSUME NEW u \in Users, Reconnect(u) PROVE TypeOK'
  BY <1>8 DEF Reconnect, Ask, serverVars, counters
<1>9. ASSUME NEW u \in Users, Receive(u) PROVE TypeOK'
  <2>1. PICK i \in 1..Len(answers[u]) :
            /\ screen' = [screen EXCEPT ![u] = answers[u][i].lists]
            /\ behind' = [behind EXCEPT ![u] = answers[u][i].old]
            /\ answers' = [answers EXCEPT ![u] = Without(@, i)]
            /\ UNCHANGED <<serverVars, online, events, asked, counters>>
    BY <1>9 DEF Receive
  <2>2. answers[u][i] \in Answer /\ Without(answers[u], i) \in Seq(Answer)
    BY WithoutFacts
  <2>3. answers[u][i].lists \in Views /\ answers[u][i].old \in BOOLEAN
    BY <2>2 DEF Answer
  <2> QED
    BY <2>1, <2>2, <2>3 DEF serverVars, counters
<1>10. ASSUME NEW u \in Users, Failed(u), screen' \in [Users -> Views \cup {Broken}] PROVE TypeOK'
  <2>1. \/ /\ asked[u] > 0
           /\ asked' = [asked EXCEPT ![u] = @ - 1]
           /\ answers' = [answers EXCEPT ![u] = Overtaken(@)]
        \/ /\ \E i \in 1..Len(answers[u]) : answers' = [answers EXCEPT ![u] = Without(@, i)]
           /\ UNCHANGED asked
    BY <1>10 DEF Failed
  <2>2. asked' \in [Users -> Nat]
    <3>1. \/ asked[u] > 0 /\ asked' = [asked EXCEPT ![u] = asked[u] - 1]
          \/ asked' = asked
      BY <2>1, Zenon
    <3> QED
      BY <3>1
  <2>3. Overtaken(answers[u]) \in Seq(Answer)
    BY OvertakenFacts
  <2>4. \A i \in 1..Len(answers[u]) : Without(answers[u], i) \in Seq(Answer)
    BY WithoutFacts
  <2>5. answers' \in [Users -> Seq(Answer)]
    BY <2>1, <2>3, <2>4
  <2> QED
    BY <1>10, <2>2, <2>5 DEF Failed, serverVars
<1>11. ASSUME NEW u \in Users, FetchFails(u) PROVE TypeOK'
  BY <1>10, <1>11 DEF FetchFails
<1>12. ASSUME NEW u \in Users, ServerErrs(u) PROVE TypeOK'
  BY <1>10, <1>12 DEF ServerErrs
<1>13. CASE UNCHANGED vars
  BY <1>13 DEF vars, serverVars, appVars, counters
<1>14. ASSUME NEW us \in SUBSET Users, RequestFails(us) PROVE TypeOK'
  <2>1. PICK more \in [Users -> 0..MostEvents] : owed' = [u \in Users |-> owed[u] + more[u]]
    BY <1>14 DEF RequestFails, HalfDone
  <2>2. owed' \in [Users -> Nat]
    BY <2>1, EventsAssumption
  <2>3. answers' \in [Users -> Seq(Answer)]
    BY <1>14, OvertakenFacts DEF RequestFails, Missed
  <2> QED
    BY <1>14, <2>2, <2>3 DEF RequestFails, Missed, HalfDone
<1> QED
  BY <1>1, <1>2, <1>3, <1>4, <1>5, <1>6, <1>7, <1>8, <1>9, <1>11, <1>12, <1>13, <1>14 DEF Next

\* The types and counters of the model are respected.
THEOREM TypeCorrect == Spec => []TypeOK
<1>1. Init => TypeOK
  BY DEF Init, ServerInit, TypeOK
<1> QED
  BY <1>1, TypeStep, PTL DEF Spec

-----------------------------------------------------------------------------

\* A user to whom nothing happens but what happens to others.
Untouched(v) ==
    /\ owed'[v] = owed[v] /\ events'[v] = events[v] /\ online'[v] = online[v]
    /\ asked'[v] = asked[v] /\ answers'[v] = answers[v]
    /\ behind'[v] = behind[v] /\ screen'[v] = screen[v] /\ lists'[v] = lists[v]

News(v) == Expecting(v) \/ LastWord(v)

LEMMA UntouchedFacts ==
    ASSUME NEW v \in Users, News(v), Untouched(v)
    PROVE  News(v)'
BY DEF News, Expecting, LastWord, Untouched

LEMMA ChangeNews ==
    ASSUME TypeOK, ServerChange, NEW v \in Users, News(v)
    PROVE  News(v)'
<1>1. PICK more \in [Users -> 0..MostEvents] :
        /\ owed' = [u \in Users |-> owed[u] + more[u]]
        /\ \A u \in Users : lists'[u] # lists[u] => more[u] > 0
  BY DEF ServerChange, Change
<1>2. owed[v] \in Nat /\ more[v] \in Nat /\ owed'[v] = owed[v] + more[v]
  BY <1>1, EventsAssumption DEF TypeOK
<1>3. CASE lists'[v] # lists[v]
  <2>1. owed'[v] > 0
    BY <1>1, <1>2, <1>3
  <2> QED
    BY <2>1 DEF News, Expecting
<1>4. CASE lists'[v] = lists[v]
  <2>1. owed[v] > 0 => owed'[v] > 0
    BY <1>2
  <2>2. UNCHANGED appVars
    BY DEF ServerChange
  <2> QED
    BY <1>4, <2>1, <2>2 DEF News, Expecting, LastWord, appVars
<1> QED
  BY <1>3, <1>4

LEMMA MissedNews ==
    ASSUME TypeOK, NEW us \in SUBSET Users, Missed(us), NEW v \in us
    PROVE  News(v)'
<1>1. behind'[v] = TRUE /\ answers'[v] = Overtaken(answers[v])
  BY DEF Missed, TypeOK
<1>2. answers[v] \in Seq(Answer)
  BY DEF TypeOK
<1>3. CASE answers'[v] = <<>>
  BY <1>1, <1>3 DEF News, LastWord
<1>4. CASE answers'[v] # <<>>
  <2>1. Len(answers'[v]) \in 1..Len(answers[v])
    BY <1>1, <1>2, <1>4, OvertakenFacts, EmptySeq
  <2>2. answers'[v][Len(answers'[v])].old
    BY <1>1, <1>2, <2>1, OvertakenFacts
  <2> QED
    BY <1>4, <2>2 DEF News, LastWord
<1> QED
  BY <1>3, <1>4

LEMMA DeathNews ==
    ASSUME TypeOK, NEW us \in SUBSET Users, HandlerDies(us), NEW v \in Users, News(v)
    PROVE  News(v)'
<1>1. CASE v \in us
  BY <1>1, MissedNews DEF HandlerDies
<1>2. CASE v \notin us
  <2>1. PICK less \in [Users -> 0..MostEvents] :
          /\ \A u \in Users : less[u] <= owed[u] /\ (less[u] > 0 <=> u \in us)
          /\ owed' = [u \in Users |-> owed[u] - less[u]]
    BY DEF HandlerDies, Forget
  <2>2. owed'[v] = owed[v]
    <3>1. less[v] = 0 /\ owed[v] \in Nat
      BY <1>2, <2>1, EventsAssumption DEF TypeOK
    <3> QED
      BY <2>1, <3>1
  <2>3. Untouched(v)
    BY <1>2, <2>2 DEF HandlerDies, Missed, Forget, Untouched, TypeOK
  <2> QED
    BY <2>3, UntouchedFacts
<1> QED
  BY <1>1, <1>2

LEMMA HalfDoneNews ==
    ASSUME TypeOK, NEW us \in SUBSET Users, RequestFails(us), NEW v \in Users, News(v)
    PROVE  News(v)'
<1>1. CASE v \in us
  BY <1>1, MissedNews DEF RequestFails
<1>2. CASE v \notin us
  <2>1. PICK more \in [Users -> 0..MostEvents] :
          /\ owed' = [u \in Users |-> owed[u] + more[u]]
          /\ \A u \in Users : lists'[u] # lists[u] => more[u] > 0 \/ u \in us
    BY DEF RequestFails, HalfDone
  <2>2. owed[v] \in Nat /\ more[v] \in Nat /\ owed'[v] = owed[v] + more[v]
    BY <2>1, EventsAssumption DEF TypeOK
  <2>3. CASE owed'[v] > 0
    BY <2>3 DEF News, Expecting
  <2>4. CASE ~(owed'[v] > 0)
    <3>1. more[v] = 0 /\ owed'[v] = owed[v]
      BY <2>2, <2>4
    <3>2. lists'[v] = lists[v]
      BY <1>2, <2>1, <3>1
    <3>3. Untouched(v)
      BY <1>2, <3>1, <3>2 DEF RequestFails, Missed, Untouched, TypeOK
    <3> QED
      BY <3>3, UntouchedFacts
  <2> QED
    BY <2>3, <2>4
<1> QED
  BY <1>1, <1>2

LEMMA ServeNews ==
    ASSUME TypeOK, NEW u \in Users, Serve(u), News(u)
    PROVE  News(u)'
<1>1. CASE owed[u] > 0
  BY <1>1 DEF Serve, News, Expecting, serverVars
<1>2. CASE ~(owed[u] > 0)
  <2>1. answers'[u] = Append(answers[u], [lists |-> lists[u], old |-> FALSE])
    BY <1>2 DEF Serve, Readable, TypeOK
  <2>2. answers[u] \in Seq(Answer) /\ [lists |-> lists[u], old |-> FALSE] \in Answer
    BY DEF TypeOK, Answer
  <2>3. /\ answers'[u] # <<>>
        /\ answers'[u][Len(answers'[u])] = [lists |-> lists[u], old |-> FALSE]
    BY <2>1, <2>2, AppendProperties
  <2>4. lists'[u] = lists[u]
    BY DEF Serve, serverVars
  <2> QED
    BY <2>3, <2>4 DEF News, LastWord
<1> QED
  BY <1>1, <1>2

\* Answer i reaches u, or is lost and leaves u behind.
LEMMA AnswerNews ==
    ASSUME TypeOK, NEW u \in Users, News(u), NEW i \in 1..Len(answers[u]),
           answers' = [answers EXCEPT ![u] = Without(@, i)],
           UNCHANGED <<serverVars, online, events, asked>>,
           \/ behind'[u]
           \/ behind'[u] = answers[u][i].old /\ screen'[u] = answers[u][i].lists
    PROVE  News(u)'
<1> DEFINE a == answers[u]
           w == Without(answers[u], i)
<1>1. a \in Seq(Answer) /\ w = answers'[u] /\ Len(a) \in Nat /\ a # <<>>
  BY EmptySeq DEF TypeOK
<1>2. CASE Expecting(u)
  BY <1>2 DEF News, Expecting, serverVars
<1>3. CASE ~Expecting(u)
  <2>1. a[Len(a)].old \/ a[Len(a)].lists = lists[u]
    BY <1>1, <1>3 DEF News, LastWord
  <2>2. lists'[u] = lists[u]
    BY DEF serverVars
  <2>3. w \in Seq(Answer) /\ Len(w) = Len(a) - 1
    BY <1>1, WithoutFacts
  <2>4. CASE i # Len(a)
    <3>1. w[Len(w)] = a[Len(a)] /\ Len(w) # 0
      BY <1>1, <2>3, <2>4, WithoutFacts
    <3>2. w # <<>>
      BY <3>1, EmptySeq
    <3> QED
      BY <1>1, <2>1, <2>2, <3>1, <3>2 DEF News, LastWord
  <2>5. CASE i = Len(a)
    <3>1. CASE w = <<>>
      <4>1. behind'[u] \/ screen'[u] = lists[u]
        BY <2>1, <2>5
      <4> QED
        BY <1>1, <2>2, <3>1, <4>1 DEF News, LastWord
    <3>2. CASE w # <<>>
      <4>1. Len(w) \in 1..(Len(a) - 1)
        BY <1>1, <2>3, <3>2, EmptySeq
      <4>2. w[Len(w)].old
        BY <1>1, <2>5, <4>1, WithoutFacts
      <4> QED
        BY <1>1, <3>2, <4>2 DEF News, LastWord
    <3> QED
      BY <3>1, <3>2
  <2> QED
    BY <2>4, <2>5
<1> QED
  BY <1>2, <1>3

LEMMA FailedNews ==
    ASSUME TypeOK, NEW u \in Users, Failed(u), News(u)
    PROVE  News(u)'
<1>1. behind'[u]
  BY DEF Failed, TypeOK
<1>2. CASE UNCHANGED asked
  <2>1. PICK i \in 1..Len(answers[u]) : answers' = [answers EXCEPT ![u] = Without(@, i)]
    BY <1>2 DEF Failed, TypeOK
  <2> QED
    BY <1>1, <1>2, <2>1, AnswerNews DEF Failed
<1>3. CASE answers' = [answers EXCEPT ![u] = Overtaken(@)]
  <2>1. answers[u] \in Seq(Answer) /\ answers'[u] = Overtaken(answers[u])
    BY <1>3 DEF TypeOK
  <2>2. CASE answers'[u] = <<>>
    BY <1>1, <2>2 DEF News, LastWord
  <2>3. CASE answers'[u] # <<>>
    <3>1. Len(answers'[u]) \in 1..Len(answers[u])
      BY <2>1, <2>3, OvertakenFacts, EmptySeq
    <3>2. answers'[u][Len(answers'[u])].old
      BY <2>1, <3>1, OvertakenFacts
    <3> QED
      BY <2>3, <3>2 DEF News, LastWord
  <2> QED
    BY <2>2, <2>3
<1> QED
  BY <1>2, <1>3 DEF Failed

LEMMA NewsStep == TypeOK /\ NewsIsComing /\ [Next]_vars => NewsIsComing'
<1> SUFFICES ASSUME TypeOK, [Next]_vars, NEW v \in Users, News(v) PROVE News(v)'
  BY DEF NewsIsComing, News
<1>1. CASE ServerChange
  BY <1>1, ChangeNews
<1>2. ASSUME NEW us \in SUBSET Users, HandlerDies(us) PROVE News(v)'
  BY <1>2, DeathNews
<1>3. ASSUME NEW u \in Users, PublishRefresh(u) PROVE News(v)'
  <2>1. CASE u = v
    <3>1. events[v] \in Nat /\ events'[v] = IF online[v] THEN events[v] + 1 ELSE events[v]
      BY <1>3, <2>1 DEF PublishRefresh, TypeOK
    <3>2. events'[v] > 0 \/ ~online'[v]
      BY <1>3, <3>1 DEF PublishRefresh, TypeOK
    <3> QED
      BY <3>2 DEF News, Expecting
  <2>2. CASE u # v
    <3>1. Untouched(v)
      BY <1>3, <2>2 DEF PublishRefresh, Publish, Untouched, TypeOK
    <3> QED
      BY <3>1, UntouchedFacts
  <2> QED
    BY <2>1, <2>2
<1>4. ASSUME NEW u \in Users, Serve(u) PROVE News(v)'
  <2>1. CASE u # v
    <3>1. Untouched(v)
      BY <1>4, <2>1 DEF Serve, Untouched, serverVars, TypeOK
    <3> QED
      BY <3>1, UntouchedFacts
  <2> QED
    BY <1>4, <2>1, ServeNews
<1>5. ASSUME NEW u \in Users,
             Refresh(u) \/ AskUnprompted(u) \/ Reconnect(u)
      PROVE  News(v)'
  <2>1. Ask(u) /\ UNCHANGED <<lists, owed, screen, answers, behind>>
    BY <1>5 DEF Refresh, AskUnprompted, Reconnect, serverVars
  <2>2. CASE u = v
    <3>1. asked'[v] > 0
      BY <2>1, <2>2 DEF Ask, TypeOK
    <3> QED
      BY <3>1 DEF News, Expecting
  <2>3. CASE u # v
    <3>1. Untouched(v)
      BY <1>5, <2>1, <2>3 DEF Refresh, AskUnprompted, Reconnect, Ask, Untouched, TypeOK
    <3> QED
      BY <3>1, UntouchedFacts
  <2> QED
    BY <2>2, <2>3
<1>6. ASSUME NEW u \in Users, Disconnect(u) PROVE News(v)'
  <2>1. CASE u = v
    BY <1>6, <2>1 DEF Disconnect, News, Expecting, TypeOK
  <2>2. CASE u # v
    <3>1. Untouched(v)
      BY <1>6, <2>2 DEF Disconnect, Untouched, serverVars, TypeOK
    <3> QED
      BY <3>1, UntouchedFacts
  <2> QED
    BY <2>1, <2>2
<1>7. ASSUME NEW u \in Users, Receive(u) PROVE News(v)'
  <2>1. PICK i \in 1..Len(answers[u]) :
            /\ screen' = [screen EXCEPT ![u] = answers[u][i].lists]
            /\ behind' = [behind EXCEPT ![u] = answers[u][i].old]
            /\ answers' = [answers EXCEPT ![u] = Without(@, i)]
            /\ UNCHANGED <<serverVars, online, events, asked, counters>>
    BY <1>7 DEF Receive
  <2>2. CASE u = v
    <3>1. behind'[v] = answers[v][i].old /\ screen'[v] = answers[v][i].lists
      BY <2>1, <2>2 DEF TypeOK
    <3> QED
      BY <2>1, <2>2, <3>1, AnswerNews
  <2>3. CASE u # v
    <3>1. Untouched(v)
      BY <2>1, <2>3 DEF Untouched, serverVars, TypeOK
    <3> QED
      BY <3>1, UntouchedFacts
  <2> QED
    BY <2>2, <2>3
<1>8. ASSUME NEW u \in Users, FetchFails(u) \/ ServerErrs(u) PROVE News(v)'
  <2>1. Failed(u) /\ (UNCHANGED screen \/ screen' = [screen EXCEPT ![u] = Broken])
    BY <1>8 DEF FetchFails, ServerErrs
  <2>2. CASE u # v
    <3>1. answers'[v] = answers[v] /\ asked'[v] = asked[v] /\ behind'[v] = behind[v]
      BY <2>1, <2>2 DEF Failed, TypeOK
    <3>2. screen'[v] = screen[v]
      BY <2>1, <2>2 DEF TypeOK
    <3>3. Untouched(v)
      BY <2>1, <3>1, <3>2 DEF Failed, Untouched, serverVars
    <3> QED
      BY <3>3, UntouchedFacts
  <2> QED
    BY <2>1, <2>2, FailedNews
<1>9. CASE UNCHANGED vars
  <2>1. Untouched(v)
    BY <1>9 DEF vars, appVars, serverVars, Untouched
  <2> QED
    BY <2>1, UntouchedFacts
<1>10. ASSUME NEW us \in SUBSET Users, RequestFails(us) PROVE News(v)'
  BY <1>10, HalfDoneNews
<1> QED
  BY <1>1, <1>2, <1>3, <1>4, <1>5, <1>6, <1>7, <1>8, <1>9, <1>10 DEF Next

\* A screen that is not up to date has an answer on its way that makes it so,
\* or will ask for one, or has been left behind by a failure - of a fetch, or of a
\* request half way - or an older answer.
THEOREM NewsArrives == Spec => []NewsIsComing
<1>1. Init => NewsIsComing
  <2>1. ASSUME Init, NEW u \in Users PROVE asked[u] > 0
    BY <2>1 DEF Init
  <2> QED
    BY <2>1 DEF NewsIsComing, Expecting
<1> QED
  BY <1>1, TypeStep, NewsStep, TypeCorrect, PTL DEF Spec

\* A screen that has settled shows the lists as they are, unless it was left behind.
THEOREM StaleScreensHaveReasons == Spec => []StaleHasReason
<1>1. NewsIsComing => StaleHasReason
  BY DEF NewsIsComing, StaleHasReason, Settled, LastWord
<1> QED
  BY <1>1, NewsArrives, PTL
=============================================================================
