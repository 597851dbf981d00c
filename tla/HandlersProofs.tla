----------------------------- MODULE HandlersProofs -----------------------------
(***************************************************************************)
(* The handlers, for any users, requests, texts, threads, ids, deaths and  *)
(* failures: a todo that was sent can be answered, and whoever's lists a   *)
(* request changes is owed a refresh event and, but for the one who made   *)
(* it, an explanation.                                                     *)
(*                                                                         *)
(* The first needs to know what a handler holds between its steps.  A      *)
(* request that is about to send has nothing else to say yet (Quiet), so   *)
(* that no message of its own is lost to the answer.  A todo is held by    *)
(* somebody exactly when it is not its author's own (Held), so that there  *)
(* is someone to send the post to.                                         *)
(*                                                                         *)
(* The others look at each handler's messages beside the lists it changes: *)
(* it tells all of them (Speaks), or a call of the store has failed        *)
(* (Fumbles).  For the promise that Refreshes makes, events have to be     *)
(* counted: at any time few handlers have something to send, and none has  *)
(* more than two events for one user (FewEvents).                          *)
(***************************************************************************)
EXTENDS Handlers, SequenceTheorems, FiniteSetTheorems, TLAPS

\* A todo that is not its author's own is held by somebody, who has a copy if it
\* is on his list.
Held(t) == (t.state = "own" <=> t.holder = NoUser) /\ (Shared(t) => t.copy # NoId)

AllHeld == \A t \in todos : Held(t)

\* A request about to send knows from whom and to whom, and has sent nothing yet.
Quiet ==
    \A r \in Requests : sending[r] # NotSending =>
        rest[r] = <<>> /\ sending[r].user \in Users /\ sending[r].to \in Users

\* The post is there or about to be, or this very post was lost.
Offered(u, id) ==
    \/ Ask(u, id) \in buttons \cup dropped
    \/ \E r \in Requests : \E i \in 1..Len(rest[r]) : rest[r][i] = Ask(u, id)

Inv == TypeOK /\ AllHeld /\ Quiet /\ RequestsCanBeAnswered

Waiting(t) == t.state = "pending" /\ t.via = "Send"

LEMMA AnswerableIsOffered ==
    RequestsCanBeAnswered <=> \A t \in todos : Waiting(t) => Offered(t.holder, t.copy)
BY DEF RequestsCanBeAnswered, Waiting, Offered

-----------------------------------------------------------------------------
(* Messages *)

LEMMA MessageTypes ==
    /\ \A u \in Users : Event(u) \in Message /\ Note(u) \in Message
    /\ \A u \in Users : \A id \in Ids : Ask(u, id) \in Message
    /\ \A thread \in Threads \cup {NoThread} : Reply(thread) \in Seq(Message)
<1>1. \A u \in Users : Event(u) \in Message /\ Note(u) \in Message
  BY DEF Event, Note, Message
<1>2. \A u \in Users : \A id \in Ids : Ask(u, id) \in Message
  BY DEF Ask, Message
<1>3. ASSUME NEW thread \in Threads \cup {NoThread} PROVE Reply(thread) \in Seq(Message)
  <2>1. thread # NoThread => [what |-> "reply", to |-> thread, about |-> NoId] \in Message
    BY DEF Message
  <2>2. QED
    BY <2>1 DEF Reply
<1>4. QED
  BY <1>1, <1>2, <1>3

\* A call of the list manager is over: the handler, which had nothing to say, has
\* these messages to send now.
Ends(r, messages) ==
    /\ rest' = [rest EXCEPT ![r] = messages]
    /\ UNCHANGED <<allow, buttons, dropped, deaths>>
    /\ faults' \in 0..MaxFaults
    /\ untold' \in [Requests -> SUBSET Users]

LEMMA EndsFacts ==
    ASSUME Inv, NEW r \in Requests, NEW messages,
           (\E u : Answer(r, u, messages)) \/ Botched(r, messages)
    PROVE  Ends(r, messages)
<1>1. faults \in 0..MaxFaults /\ untold \in [Requests -> SUBSET Users]
  BY DEF Inv, TypeOK
<1>2. ASSUME NEW u, Answer(r, u, messages) PROVE Ends(r, messages)
  <2>1. {v \in Users \ {u} : View(v)' # View(v)} \in SUBSET Users
    OBVIOUS
  <2>2. untold' \in [Requests -> SUBSET Users]
    BY <1>1, <1>2, <2>1 DEF Answer
  <2>3. QED
    BY <1>1, <1>2, <2>2 DEF Answer, Ends
<1>3. ASSUME Botched(r, messages) PROVE Ends(r, messages)
  BY <1>1, <1>3, BoundsAssumption DEF Botched, Fault, Ends
<1>4. QED
  BY <1>2, <1>3

LEMMA AnswerFacts ==
    ASSUME Inv, NEW r \in Requests, rest[r] = <<>>,
           NEW messages \in Seq(Message), Ends(r, messages)
    PROVE  /\ rest' \in [Requests -> Seq(Message)]
           /\ \A q \in Requests : rest'[q] = IF q = r THEN messages ELSE rest[q]
           /\ \A u, id : Offered(u, id) => Offered(u, id)'
           /\ \A u, id : \A i \in 1..Len(messages) : messages[i] = Ask(u, id) => Offered(u, id)'
<1>1. /\ rest \in [Requests -> Seq(Message)] /\ rest' = [rest EXCEPT ![r] = messages]
      /\ buttons' = buttons /\ dropped' = dropped
  BY DEF Inv, TypeOK, Ends
<1>2. /\ rest' \in [Requests -> Seq(Message)]
      /\ \A q \in Requests : rest'[q] = IF q = r THEN messages ELSE rest[q]
  BY <1>1
<1>3. ASSUME NEW u, NEW id, Offered(u, id) PROVE Offered(u, id)'
  <2>1. CASE Ask(u, id) \in buttons \cup dropped
    BY <1>1, <2>1 DEF Offered, Ask
  <2>2. ASSUME NEW q \in Requests, NEW i \in 1..Len(rest[q]), rest[q][i] = Ask(u, id)
        PROVE  Offered(u, id)'
    <3>1. q # r
      BY <2>2
    <3>2. rest'[q] = rest[q]
      BY <1>2, <3>1
    <3>3. QED
      BY <2>2, <3>2 DEF Offered, Ask
  <2>3. QED
    BY <1>3, <2>1, <2>2 DEF Offered
<1>4. ASSUME NEW u, NEW id, NEW i \in 1..Len(messages), messages[i] = Ask(u, id)
      PROVE  Offered(u, id)'
  <2>1. rest'[r] = messages
    BY <1>2
  <2>2. QED
    BY <1>4, <2>1 DEF Offered, Ask
<1>5. QED
  BY <1>2, <1>3, <1>4

-----------------------------------------------------------------------------
(* Steps that end a call of the list manager *)

LEMMA EndedKeeps ==
    ASSUME Inv, NEW r \in Requests, rest[r] = <<>>,
           NEW messages \in Seq(Message), Ends(r, messages),
           todos' \subseteq Todo, AllHeld',
           \A t \in todos' : Waiting(t) =>
              \/ \E x \in todos : Waiting(x) /\ x.holder = t.holder /\ x.copy = t.copy
              \/ \E i \in 1..Len(messages) : messages[i] = Ask(t.holder, t.copy),
           born' \in 0..MaxIds, calls' \in 0..MaxCalls,
           \/ sending[r] = NotSending /\ sending' = sending
           \/ sending' = [sending EXCEPT ![r] = NotSending]
    PROVE  Inv'
<1>1. /\ rest' \in [Requests -> Seq(Message)]
      /\ \A q \in Requests : rest'[q] = IF q = r THEN messages ELSE rest[q]
      /\ \A u, id : Offered(u, id) => Offered(u, id)'
      /\ \A u, id : \A i \in 1..Len(messages) : messages[i] = Ask(u, id) => Offered(u, id)'
  BY AnswerFacts
<1>2. /\ UNCHANGED <<allow, buttons, dropped, deaths>>
      /\ faults' \in 0..MaxFaults /\ untold' \in [Requests -> SUBSET Users]
  BY DEF Ends
<1>3. /\ sending' \in [Requests -> [user : Users \cup {NoUser}, to : Users \cup {NoUser}]]
      /\ \A q \in Requests : sending'[q] = IF q = r THEN NotSending ELSE sending[q]
  <2>1. sending \in [Requests -> [user : Users \cup {NoUser}, to : Users \cup {NoUser}]]
    BY DEF Inv, TypeOK
  <2>2. NotSending \in [user : Users \cup {NoUser}, to : Users \cup {NoUser}]
    BY DEF NotSending
  <2>3. sending' = [sending EXCEPT ![r] = NotSending]
    BY <2>1
  <2>4. QED
    BY <2>1, <2>2, <2>3
<1>4. TypeOK'
  BY <1>1, <1>2, <1>3 DEF Inv, TypeOK
<1>5. Quiet'
  BY <1>1, <1>3 DEF Inv, Quiet, NotSending
<1>6. RequestsCanBeAnswered'
  <2> SUFFICES ASSUME NEW t \in todos', Waiting(t) PROVE Offered(t.holder, t.copy)'
    BY DEF RequestsCanBeAnswered, Waiting, Offered
  <2>1. CASE \E x \in todos : Waiting(x) /\ x.holder = t.holder /\ x.copy = t.copy
    BY <1>1, <2>1, AnswerableIsOffered DEF Inv
  <2>2. CASE \E i \in 1..Len(messages) : messages[i] = Ask(t.holder, t.copy)
    BY <1>1, <2>2
  <2>3. QED
    BY <2>1, <2>2
<1>7. QED
  BY <1>4, <1>5, <1>6 DEF Inv

LEMMA NewFacts ==
    ASSUME NEW id \in Ids, NEW u \in Users, NEW thread \in Threads \cup {NoThread},
           NEW from \in Threads \cup {NoThread}
    PROVE  New(id, u, thread, from) \in Todo /\ Held(New(id, u, thread, from))
           /\ New(id, u, thread, from).state = "own"
<1>1. (CHOOSE x \in Texts : TRUE) \in Texts
  BY TextsAssumption
<1>2. QED
  BY <1>1 DEF New, Todo, Held, Shared

LEMMA BornFacts ==
    ASSUME Inv, NEW n \in {1, 2}, born + n <= MaxIds
    PROVE  born + n \in Ids /\ born + n \in 0..MaxIds
BY BoundsAssumption DEF Inv, TypeOK, Ids

LEMMA BeginFacts ==
    ASSUME Inv, NEW r \in Requests, Begin(r)
    PROVE  rest[r] = <<>> /\ sending[r] = NotSending /\ calls' \in 0..MaxCalls
BY BoundsAssumption DEF Inv, TypeOK, Begin

LEMMA AddKeeps ==
    ASSUME Inv, NEW r \in Requests, NEW u \in Users, AddIssue(r, u) \/ AddToOneself(r, u)
    PROVE  Inv'
<1>1. /\ Begin(r) /\ born + 1 <= MaxIds /\ born' = born + 1
      /\ UNCHANGED sending
  BY BoundsAssumption DEF AddIssue, AddToOneself, Inv, TypeOK
<1>2. PICK thread \in Threads \cup {NoThread}, from \in Threads \cup {NoThread}, said \in Threads \cup {NoThread} :
          /\ todos' = todos \cup {New(born + 1, u, thread, from)}
          /\ Answer(r, u, <<Event(u)>> \o Reply(said))
  BY DEF AddIssue, AddToOneself
<1> DEFINE messages == <<Event(u)>> \o Reply(said)
           t == New(born + 1, u, thread, from)
<1>3. born + 1 \in Ids /\ born + 1 \in 0..MaxIds
  BY <1>1, BornFacts
<1>4. t \in Todo /\ Held(t) /\ t.state = "own"
  BY <1>3, NewFacts
<1>5. messages \in Seq(Message)
  BY MessageTypes
<1>6. Ends(r, messages) /\ todos' = todos \cup {t}
  <2>1. Answer(r, u, messages)
    BY <1>2
  <2> HIDE DEF messages
  <2>2. Ends(r, messages)
    BY <2>1, EndsFacts
  <2>3. QED
    BY <1>2, <2>2
<1> HIDE DEF messages, t
<1>7. todos' \subseteq Todo /\ AllHeld'
  BY <1>4, <1>6 DEF Inv, TypeOK, AllHeld
<1>8. \A x \in todos' : Waiting(x) => x \in todos
  BY <1>4, <1>6 DEF Waiting
<1>9. QED
  BY <1>1, <1>3, <1>5, <1>6, <1>7, <1>8, BeginFacts, EndedKeeps

\* The todo t becomes one that waits, if at all, for the same answer.
LEMMA BecomesKeeps ==
    ASSUME Inv, NEW r \in Requests, Begin(r), NEW t \in todos, NEW new \in Todo, Held(new),
           Becomes(t, new), Waiting(new) => Waiting(t) /\ new.holder = t.holder /\ new.copy = t.copy,
           NEW messages \in Seq(Message), Ends(r, messages),
           born' \in 0..MaxIds, UNCHANGED sending
    PROVE  Inv'
<1>1. todos' = (todos \ {t}) \cup {new}
  BY DEF Becomes
<1>2. todos' \subseteq Todo /\ AllHeld'
  BY <1>1 DEF Inv, TypeOK, AllHeld
<1>3. \A x \in todos' : Waiting(x) =>
          \E y \in todos : Waiting(y) /\ y.holder = x.holder /\ y.copy = x.copy
  BY <1>1
<1>4. QED
  BY <1>2, <1>3, BeginFacts, EndedKeeps

\* A step after which there are no todos but those there were.
LEMMA FewerKeeps ==
    ASSUME Inv, NEW r \in Requests, Begin(r), NEW messages \in Seq(Message), Ends(r, messages),
           todos' \subseteq todos, born' \in 0..MaxIds, UNCHANGED sending
    PROVE  Inv'
<1>1. todos' \subseteq Todo /\ AllHeld'
  BY DEF Inv, TypeOK, AllHeld
<1>2. \A x \in todos' : Waiting(x) =>
          \E y \in todos : Waiting(y) /\ y.holder = x.holder /\ y.copy = x.copy
  OBVIOUS
<1>3. QED
  BY <1>1, <1>2, BeginFacts, EndedKeeps

\* A todo of somebody who held it is lost, for this or that holder.
LEMMA LostFacts ==
    ASSUME NEW t \in Todo, NEW v \in Users, NEW copy \in Ids \cup {NoId}
    PROVE  /\ Lost(t, v, copy) \in Todo /\ Held(Lost(t, v, copy)) /\ ~Waiting(Lost(t, v, copy))
           /\ Lost(t, v, copy).author = t.author /\ Lost(t, v, copy).holder = v
<1> DEFINE new == Lost(t, v, copy)
<1>1. /\ new \in Todo /\ new.state = "lost" /\ new.holder = v /\ new.author = t.author
  BY DEF Lost, Todo
<1> HIDE DEF new
<1>2. v # NoUser
  BY SentinelAssumption
<1>3. Held(new) /\ ~Waiting(new)
  BY <1>1, <1>2 DEF Held, Shared, Waiting
<1>4. QED
  BY <1>1, <1>3 DEF new

LEMMA OtherFacts ==
    ASSUME Inv, NEW t \in todos, NEW u \in Users
    PROVE  /\ t \in Todo /\ Held(t)
           /\ Other(t, u) \in Users \cup {NoUser}
           /\ t.holder \in Users \cup {NoUser} /\ t.author \in Users
BY DEF Inv, TypeOK, AllHeld, Todo, Other

LEMMA ToldFacts ==
    ASSUME NEW f \in Users \cup {NoUser}
    PROVE  If(f, <<Event(f), Note(f)>>) \in Seq(Message) /\ Removed(f) \in Seq(Message)
<1>1. f # NoUser => <<Event(f), Note(f)>> \in Seq(Message)
  BY MessageTypes
<1>2. QED
  BY <1>1 DEF If, Removed

\* What becomes of a todo whose text is edited, on one side or both.
Rewritten(t, new) ==
    /\ new \in Todo /\ new.state = t.state /\ new.via = t.via
    /\ new.holder = t.holder /\ new.copy = t.copy /\ new.author = t.author

LEMMA EditIssueFacts ==
    ASSUME Inv, NEW r \in Requests, NEW u \in Users, NEW t \in todos, EditIssue(r, u, t)
    PROVE  LET f == Other(t, u)
               messages == <<Event(u)>> \o If(f, <<Event(f), Note(f)>>)
           IN  \E new : /\ Rewritten(t, new) /\ Becomes(t, new)
                        /\ \/ Answer(r, u, messages)
                           \/ Botched(r, messages)
                           \/ Botched(r, <<>>)
<1>1. t \in Todo
  BY DEF Inv, TypeOK
<1> DEFINE f == Other(t, u)
           messages == <<Event(u)>> \o If(f, <<Event(f), Note(f)>>)
           Written(a, b) ==
               IF u = t.author THEN [t EXCEPT !.text = a, !.copyText = b]
                               ELSE [t EXCEPT !.text = b, !.copyText = a]
           own == IF u = t.author THEN t.text ELSE t.copyText
           foreign == IF u = t.author THEN t.copyText ELSE t.text
<1>2. \A a, b \in Texts : Rewritten(t, Written(a, b))
  BY <1>1 DEF Rewritten, Todo
<1>3. own \in Texts /\ foreign \in Texts
  BY <1>1 DEF Todo
<1>4. PICK text \in Texts :
          \/ Becomes(t, Written(text, text)) /\ Answer(r, u, messages)
          \/ Becomes(t, Written(text, foreign)) /\ Botched(r, messages)
          \/ Becomes(t, Written(own, text)) /\ Botched(r, <<>>)
  BY DEF EditIssue
<1> HIDE DEF messages, Written, own, foreign
<1>5. \E new : /\ Rewritten(t, new) /\ Becomes(t, new)
               /\ Answer(r, u, messages) \/ Botched(r, messages) \/ Botched(r, <<>>)
  BY <1>2, <1>3, <1>4
<1>6. QED
  BY <1>5 DEF messages

LEMMA EditIssueKeeps ==
    ASSUME Inv, NEW r \in Requests, NEW u \in Users, NEW t \in todos, EditIssue(r, u, t)
    PROVE  Inv'
<1> DEFINE messages == <<Event(u)>> \o If(Other(t, u), <<Event(Other(t, u)), Note(Other(t, u))>>)
<1>1. PICK new : /\ Rewritten(t, new) /\ Becomes(t, new)
                 /\ Answer(r, u, messages) \/ Botched(r, messages) \/ Botched(r, <<>>)
  BY EditIssueFacts
<1>2. t \in Todo /\ Held(t) /\ Other(t, u) \in Users \cup {NoUser}
  BY OtherFacts
<1>3. messages \in Seq(Message) /\ <<>> \in Seq(Message)
  BY <1>2, MessageTypes, ToldFacts
<1> HIDE DEF messages
<1>4. PICK m \in {messages, <<>>} : Ends(r, m)
  BY <1>1, EndsFacts
<1>5. Begin(r) /\ UNCHANGED <<born, sending>> /\ born' \in 0..MaxIds
  BY DEF EditIssue, Inv, TypeOK
<1>6. new \in Todo /\ Held(new)
      /\ (Waiting(new) => Waiting(t) /\ new.holder = t.holder /\ new.copy = t.copy)
  BY <1>1, <1>2 DEF Rewritten, Held, Shared, Waiting
<1>7. QED
  BY <1>1, <1>3, <1>4, <1>5, <1>6, BecomesKeeps

LEMMA NothingSaid ==
    ASSUME Inv, NEW r \in Requests, Botched(r, <<>>)
    PROVE  <<>> \in Seq(Message) /\ Ends(r, <<>>)
BY EndsFacts

LEMMA TakeBackKeeps ==
    ASSUME Inv, NEW r \in Requests, NEW u \in Users, NEW t \in todos, TakeBack(r, u, t)
    PROVE  Inv'
<1>1. t \in Todo /\ Held(t) /\ t.holder \in Users \cup {NoUser} /\ Shared(t)
  BY OtherFacts DEF TakeBack
<1>2. t.holder \in Users
  BY <1>1 DEF Held, Shared
<1>3. Begin(r) /\ UNCHANGED <<born, sending>> /\ born' \in 0..MaxIds
  BY DEF TakeBack, Inv, TypeOK
<1> DEFINE new == [t EXCEPT !.copy = NoId, !.holder = NoUser, !.state = "own", !.via = "None"]
           messages == <<Event(u)>> \o Removed(t.holder)
<1>4. CASE Becomes(t, new) /\ Answer(r, u, messages)
  <2>1. new \in Todo /\ new.state = "own" /\ new.holder = NoUser
    BY <1>1 DEF Todo
  <2>2. messages \in Seq(Message)
    <3>1. <<Event(u)>> \in Seq(Message)
      BY MessageTypes
    <3>2. Removed(t.holder) \in Seq(Message)
      BY <1>1, ToldFacts
    <3>3. QED
      BY <3>1, <3>2
  <2> HIDE DEF messages, new
  <2>3. Held(new) /\ ~Waiting(new)
    BY <2>1 DEF Held, Shared, Waiting
  <2>4. Ends(r, messages)
    BY <1>4, EndsFacts
  <2>5. QED
    BY <1>3, <1>4, <2>1, <2>2, <2>3, <2>4, BecomesKeeps
<1>5. CASE Becomes(t, Lost(t, t.holder, NoId)) /\ Botched(r, <<>>)
  <2>1. Lost(t, t.holder, NoId) \in Todo /\ Held(Lost(t, t.holder, NoId)) /\ ~Waiting(Lost(t, t.holder, NoId))
    BY <1>1, <1>2, LostFacts
  <2>2. QED
    BY <1>3, <1>5, <2>1, NothingSaid, BecomesKeeps
<1>6. CASE todos' = todos \ {t} /\ Botched(r, <<>>)
  <2>1. todos' \subseteq todos
    BY <1>6
  <2>2. QED
    BY <1>3, <1>6, <2>1, NothingSaid, FewerKeeps
<1>7. QED
  BY <1>4, <1>5, <1>6 DEF TakeBack

LEMMA ChangeAssignmentKeeps ==
    ASSUME Inv, NEW r \in Requests, NEW u \in Users, NEW t \in todos, NEW v \in Users,
           ChangeAssignment(r, u, t, v)
    PROVE  Inv'
<1>1. t \in Todo /\ Held(t) /\ t.holder \in Users \cup {NoUser} /\ t.id \in Ids /\ t.text \in Texts
  BY OtherFacts DEF Todo
<1>2. born + 1 \in Ids /\ born' \in 0..MaxIds
  <2>1. born + 1 <= MaxIds
    BY BoundsAssumption DEF ChangeAssignment, Inv, TypeOK
  <2>2. QED
    BY <2>1, BornFacts DEF ChangeAssignment
<1>3. Begin(r) /\ UNCHANGED sending
  BY DEF ChangeAssignment
<1> DEFINE new == [t EXCEPT !.copy = born + 1, !.copyText = t.text, !.holder = v,
                            !.state = "pending", !.via = "Assign"]
           messages == <<Event(u), Event(v), Ask(v, t.id)>> \o Removed(t.holder)
           copied == [t EXCEPT !.copyText = t.text]
<1>4. CASE Becomes(t, new) /\ Answer(r, u, messages)
  <2>1. /\ new \in Todo /\ new.state = "pending" /\ new.holder = v /\ new.via = "Assign"
        /\ new.copy = born + 1
    BY <1>1, <1>2 DEF Todo
  <2>2. messages \in Seq(Message)
    <3>1. <<Event(u), Event(v), Ask(v, t.id)>> \in Seq(Message)
      BY <1>1, MessageTypes
    <3>2. Removed(t.holder) \in Seq(Message)
      BY <1>1, ToldFacts
    <3>3. QED
      BY <3>1, <3>2
  <2> HIDE DEF messages, new
  <2>3. Held(new) /\ ~Waiting(new)
    BY <1>2, <2>1, SentinelAssumption DEF Held, Shared, Waiting, Ids, NoId
  <2>4. Ends(r, messages)
    BY <1>4, EndsFacts
  <2>5. QED
    BY <1>2, <1>3, <1>4, <2>1, <2>2, <2>3, <2>4, BecomesKeeps
<1>5. CASE Shared(t) /\ Becomes(t, Lost(t, t.holder, NoId)) /\ Botched(r, <<>>)
  <2>1. t.holder \in Users
    BY <1>1, <1>5 DEF Held, Shared
  <2>2. Lost(t, t.holder, NoId) \in Todo /\ Held(Lost(t, t.holder, NoId)) /\ ~Waiting(Lost(t, t.holder, NoId))
    BY <1>1, <2>1, LostFacts
  <2>3. QED
    BY <1>2, <1>3, <1>5, <2>2, NothingSaid, BecomesKeeps
<1>6. CASE todos' = todos \ {t} /\ Botched(r, <<>>)
  <2>1. todos' \subseteq todos
    BY <1>6
  <2>2. QED
    BY <1>2, <1>3, <1>6, <2>1, NothingSaid, FewerKeeps
<1>7. CASE Becomes(t, Lost(copied, v, born + 1)) /\ Botched(r, <<>>)
  <2>1. copied \in Todo
    BY <1>1 DEF Todo
  <2> HIDE DEF copied
  <2>2. Lost(copied, v, born + 1) \in Todo /\ Held(Lost(copied, v, born + 1)) /\ ~Waiting(Lost(copied, v, born + 1))
    BY <1>2, <2>1, LostFacts
  <2>3. QED
    BY <1>2, <1>3, <1>7, <2>2, NothingSaid, BecomesKeeps
<1>8. QED
  BY <1>4, <1>5, <1>6, <1>7 DEF ChangeAssignment

LEMMA AcceptIssueKeeps ==
    ASSUME Inv, NEW r \in Requests, NEW u \in Users, NEW t \in todos, AcceptIssue(r, u, t)
    PROVE  Inv'
<1>1. t \in Todo /\ Held(t) /\ t.author \in Users /\ t.state = "pending"
  BY OtherFacts DEF AcceptIssue
<1> DEFINE new == [t EXCEPT !.state = "accepted"]
           messages == Accepted(u, t.author)
<1>2. new \in Todo /\ new.state = "accepted" /\ new.holder = t.holder /\ new.copy = t.copy
  BY <1>1 DEF Todo
<1>3. messages \in Seq(Message)
  BY <1>1, MessageTypes DEF Accepted
<1>4. Answer(r, u, messages) /\ Becomes(t, new) /\ Begin(r) /\ UNCHANGED <<born, sending>>
  BY DEF AcceptIssue
<1> HIDE DEF messages, new
<1>5. Held(new) /\ ~Waiting(new)
  BY <1>1, <1>2 DEF Held, Shared, Waiting
<1>6. Ends(r, messages) /\ born' \in 0..MaxIds
  BY <1>4, EndsFacts DEF Inv, TypeOK
<1>7. QED
  BY <1>2, <1>3, <1>4, <1>5, <1>6, BecomesKeeps

LEMMA EndIssueKeeps ==
    ASSUME Inv, NEW r \in Requests, NEW u \in Users, NEW t \in todos, EndIssue(r, u, t)
    PROVE  Inv'
<1> DEFINE f == Other(t, u)
           told == If(f, <<Event(f), Note(f)>>)
           said == Reply(t.thread)
<1>1. t \in Todo /\ f \in Users \cup {NoUser}
  BY OtherFacts
<1>2. told \in Seq(Message) /\ said \in Seq(Message) /\ <<Event(u)>> \in Seq(Message)
      /\ (f # NoUser => <<Event(f)>> \in Seq(Message))
  BY <1>1, ToldFacts, MessageTypes DEF Todo
<1>3. \/ Answer(r, u, <<Event(u)>> \o said \o told)
      \/ Answer(r, u, told \o <<Event(u)>> \o said)
      \/ Answer(r, u, <<Event(u)>>) \/ Botched(r, <<Event(u)>>)
      \/ f # NoUser /\ Botched(r, <<Event(f)>>)
  BY DEF EndIssue
<1>4. Begin(r) /\ todos' \subseteq todos /\ UNCHANGED <<born, sending>>
  BY DEF EndIssue
<1> HIDE DEF f, told, said
<1>5. <<Event(u)>> \o said \o told \in Seq(Message) /\ told \o <<Event(u)>> \o said \in Seq(Message)
  BY <1>2
<1>6. PICK m \in Seq(Message) : Ends(r, m)
  <2>1. PICK m \in Seq(Message) : (\E w : Answer(r, w, m)) \/ Botched(r, m)
    BY <1>2, <1>3, <1>5
  <2>2. QED
    BY <2>1, EndsFacts
<1>7. born' \in 0..MaxIds
  BY <1>4 DEF Inv, TypeOK
<1>8. QED
  BY <1>4, <1>6, <1>7, FewerKeeps

\* What the holder of a todo is asked again.
LEMMA BumpIssueFacts ==
    ASSUME Inv, NEW u \in Users, NEW t \in todos, NEW r \in Requests, BumpIssue(r, u, t)
    PROVE  t.holder \in Users /\ t.copy \in Ids
<1>1. PICK x \in todos : x.holder = t.holder /\ x.state = "pending"
  BY DEF BumpIssue
<1>2. t.holder # NoUser
  BY <1>1 DEF Held, Inv, AllHeld
<1>3. t.holder \in Users \cup {NoUser} /\ t.copy \in Ids \cup {NoId} /\ t.copy # NoId
  BY DEF Inv, TypeOK, Todo, BumpIssue
<1>4. QED
  BY <1>2, <1>3

LEMMA BumpIssueKeeps ==
    ASSUME Inv, NEW r \in Requests, NEW u \in Users, NEW t \in todos, BumpIssue(r, u, t)
    PROVE  Inv'
<1>1. t.holder \in Users /\ t.copy \in Ids
  BY BumpIssueFacts
<1> DEFINE messages == <<Event(t.holder), Offer(t.holder, t.id, t.copy)>>
<1>2. messages \in Seq(Message)
  BY <1>1, MessageTypes DEF Offer
<1>3. Answer(r, u, messages) /\ Begin(r) /\ UNCHANGED <<todos, born, sending>>
  BY DEF BumpIssue
<1> HIDE DEF messages
<1>4. Ends(r, messages) /\ born' \in 0..MaxIds
  BY <1>3, EndsFacts DEF Inv, TypeOK
<1>5. QED
  BY <1>2, <1>3, <1>4, FewerKeeps

LEMMA SpeakKeeps ==
    ASSUME Inv, NEW r \in Requests, NEW u \in Users, NEW v \in Users,
           ListIssues(r, u) \/ Blocked(r, u, v)
    PROVE  Inv'
<1>1. PICK m \in {Event(u), Note(u)} : Answer(r, u, <<m>>)
  BY DEF ListIssues, Blocked
<1> DEFINE messages == <<m>>
<1>2. messages \in Seq(Message)
  BY MessageTypes
<1>3. Begin(r) /\ UNCHANGED <<todos, born, sending>>
  BY DEF ListIssues, Blocked
<1>4. Answer(r, u, messages)
  BY <1>1
<1> HIDE DEF messages
<1>5. Ends(r, messages) /\ born' \in 0..MaxIds
  BY <1>3, <1>4, EndsFacts DEF Inv, TypeOK
<1>6. QED
  BY <1>2, <1>3, <1>5, FewerKeeps

LEMMA SendFailsKeeps ==
    ASSUME Inv, NEW r \in Requests, SendFails(r)
    PROVE  Inv'
<1>1. /\ sending[r] # NotSending /\ sending' = [sending EXCEPT ![r] = NotSending]
      /\ Botched(r, <<>>) /\ UNCHANGED <<todos, born, calls>>
  BY DEF SendFails
<1>2. rest[r] = <<>>
  BY <1>1 DEF Inv, Quiet
<1>3. <<>> \in Seq(Message) /\ Ends(r, <<>>)
  BY <1>1, NothingSaid
<1>4. /\ todos' \subseteq Todo /\ AllHeld' /\ born' \in 0..MaxIds /\ calls' \in 0..MaxCalls
      /\ \A t \in todos' : t \in todos
  BY <1>1 DEF Inv, TypeOK, AllHeld
<1>5. QED
  BY <1>1, <1>2, <1>3, <1>4, EndedKeeps

\* The one step that makes a todo wait: its post is the third of its messages.
LEMMA SendIssueKeeps ==
    ASSUME Inv, NEW r \in Requests, SendIssue(r)
    PROVE  Inv'
<1> DEFINE u == sending[r].user
           v == sending[r].to
<1>1. sending[r] # NotSending /\ rest[r] = <<>> /\ u \in Users /\ v \in Users
  BY DEF SendIssue, Inv, Quiet
<1>2. /\ born + 1 \in Ids /\ born + 2 \in Ids /\ born + 2 \in 0..MaxIds
      /\ born' = born + 2 /\ sending' = [sending EXCEPT ![r] = NotSending]
  <2>1. born + 1 <= MaxIds /\ born + 2 <= MaxIds
    BY BoundsAssumption DEF SendIssue, Inv, TypeOK
  <2>2. QED
    BY <2>1, BornFacts DEF SendIssue
<1>3. PICK thread \in Threads \cup {NoThread} :
          /\ todos' = todos \cup {[New(born + 1, u, thread, thread) EXCEPT
                      !.copy = born + 2, !.holder = v, !.state = "pending", !.via = "Send"]}
          /\ Answer(r, u, <<Event(u), Event(v), Offer(v, born + 1, born + 2)>> \o Reply(thread))
  BY DEF SendIssue
<1> DEFINE old == New(born + 1, u, thread, thread)
           new == [old EXCEPT !.copy = born + 2, !.holder = v, !.state = "pending", !.via = "Send"]
           first == <<Event(u), Event(v), Ask(v, born + 2)>>
           messages == first \o Reply(thread)
<1>4. calls' \in 0..MaxCalls
  BY DEF SendIssue, Inv, TypeOK
<1> HIDE DEF u, v
<1>6. old \in Todo
  BY <1>1, <1>2, NewFacts
<1> HIDE DEF old
<1>7. /\ new \in Todo /\ new.copy = born + 2 /\ new.holder = v /\ new.state = "pending"
      /\ new.via = "Send"
  BY <1>1, <1>2, <1>6 DEF Todo
<1>8. first \in Seq(Message) /\ Reply(thread) \in Seq(Message) /\ Len(first) = 3 /\ first[3] = Ask(v, born + 2)
  BY <1>1, <1>2, MessageTypes
<1>9. todos' = todos \cup {new} /\ Answer(r, u, messages)
  BY <1>3 DEF old, u, v, Offer
<1> HIDE DEF new, first
<1>10. messages \in Seq(Message) /\ 3 \in 1..Len(messages) /\ messages[3] = Ask(v, born + 2)
  <2> DEFINE last == Reply(thread)
  <2>1. first \in Seq(Message) /\ last \in Seq(Message) /\ Len(last) \in Nat
    BY <1>8
  <2> HIDE DEF last
  <2>2. /\ first \o last \in Seq(Message) /\ Len(first \o last) = 3 + Len(last)
        /\ (first \o last)[3] = first[3]
    <3>1. /\ first \o last \in Seq(Message)
          /\ Len(first \o last) = Len(first) + Len(last)
          /\ \A i \in 1..(Len(first) + Len(last)) :
                (first \o last)[i] = IF i <= Len(first) THEN first[i] ELSE last[i - Len(first)]
      BY <2>1, ConcatProperties
    <3>2. 3 \in 1..(Len(first) + Len(last)) /\ 3 <= Len(first)
      BY <1>8, <2>1
    <3>3. QED
      BY <1>8, <3>1, <3>2
  <2>3. QED
    BY <1>8, <2>1, <2>2 DEF last
<1> HIDE DEF messages
<1>5. Ends(r, messages)
  BY <1>9, EndsFacts
<1>11. todos' \subseteq Todo
  BY <1>7, <1>9 DEF Inv, TypeOK
<1>12. AllHeld'
  <2>1. Held(new)
    BY <1>1, <1>2, <1>7, SentinelAssumption DEF Held, Shared, Ids, NoId
  <2>2. QED
    BY <1>9, <2>1 DEF Inv, AllHeld
<1>13. \A x \in todos' : Waiting(x) =>
           \/ \E y \in todos : Waiting(y) /\ y.holder = x.holder /\ y.copy = x.copy
           \/ \E i \in 1..Len(messages) : messages[i] = Ask(x.holder, x.copy)
  BY <1>7, <1>9, <1>10
<1>14. QED
  BY <1>1, <1>2, <1>4, <1>5, <1>10, <1>11, <1>12, <1>13, EndedKeeps

-----------------------------------------------------------------------------
(* Other steps *)

LEMMA AskPreferenceKeeps ==
    ASSUME Inv, NEW r \in Requests, NEW u \in Users, NEW v \in Users, AskPreference(r, u, v)
    PROVE  Inv'
<1> DEFINE new == [user |-> u, to |-> v]
<1>1. /\ new \in [user : Users \cup {NoUser}, to : Users \cup {NoUser}]
      /\ new.user = u /\ new.to = v
  OBVIOUS
<1>2. rest[r] = <<>> /\ calls' \in 0..MaxCalls
  BY BeginFacts DEF AskPreference
<1>3. /\ sending' = [sending EXCEPT ![r] = new]
      /\ UNCHANGED <<todos, born, allow, rest, buttons, deaths, untold, dropped>>
  BY DEF AskPreference
<1>4. faults' \in 0..MaxFaults
  BY BoundsAssumption DEF AskPreference, Fault, Inv, TypeOK
<1> HIDE DEF new
<1>5. /\ sending' \in [Requests -> [user : Users \cup {NoUser}, to : Users \cup {NoUser}]]
      /\ \A q \in Requests : sending'[q] = IF q = r THEN new ELSE sending[q]
  BY <1>1, <1>3 DEF Inv, TypeOK
<1>6. TypeOK'
  BY <1>2, <1>3, <1>4, <1>5 DEF Inv, TypeOK
<1>7. Quiet'
  BY <1>1, <1>2, <1>3, <1>5 DEF Inv, Quiet
<1>8. AllHeld' /\ RequestsCanBeAnswered'
  BY <1>3 DEF Inv, AllHeld, RequestsCanBeAnswered
<1>9. QED
  BY <1>6, <1>7, <1>8 DEF Inv

LEMMA SetPreferenceKeeps ==
    ASSUME Inv, NEW u \in Users, SetPreference(u)
    PROVE  Inv'
<1>1. allow' \in [Users -> BOOLEAN] /\ calls' \in 0..MaxCalls
  BY BoundsAssumption DEF SetPreference, Inv, TypeOK
<1>2. UNCHANGED <<todos, born, sending, rest, buttons, deaths, faults, untold, dropped>>
  BY DEF SetPreference
<1>3. QED
  BY <1>1, <1>2 DEF Inv, TypeOK, AllHeld, Quiet, RequestsCanBeAnswered

\* What is said is no longer to be said, but its post is there, or was lost.
LEMMA SayKeeps ==
    ASSUME Inv, NEW r \in Requests, Say(r)
    PROVE  Inv'
<1> DEFINE s == rest[r]
           said == IF Head(s).what = "buttons" THEN {Head(s)} ELSE {}
<1>1. s \in Seq(Message) /\ s # <<>>
  BY DEF Say, Inv, TypeOK
<1>2. UNCHANGED <<todos, born, allow, sending, calls, deaths>>
  BY DEF Say
<1>3. rest' = [rest EXCEPT ![r] = Tail(s)] /\ rest \in [Requests -> Seq(Message)]
  BY DEF Say, Inv, TypeOK
<1>4. buttons' \cup dropped' = buttons \cup dropped \cup said
  BY DEF Say
<1>5. /\ buttons' \subseteq buttons \cup said /\ dropped' \subseteq dropped \cup said
      /\ faults' \in 0..MaxFaults
  BY BoundsAssumption DEF Say, Fault, Inv, TypeOK
<1>6. untold' \in [Requests -> SUBSET Users]
  <2>1. untold' = [untold EXCEPT ![r] = IF Head(s).what = "event" THEN @ ELSE @ \ {Head(s).to}]
    BY DEF Say
  <2>2. untold \in [Requests -> SUBSET Users]
    BY DEF Inv, TypeOK
  <2> HIDE DEF s
  <2>3. QED
    BY <2>1, <2>2
<1>7. Quiet'
  BY <1>1, <1>2, <1>3 DEF Inv, Quiet
<1> HIDE DEF s
<1>8. /\ Head(s) \in Message /\ Tail(s) \in Seq(Message) /\ Len(Tail(s)) = Len(s) - 1
      /\ \A i \in 1..Len(Tail(s)) : Tail(s)[i] = s[i + 1]
  BY <1>1, HeadTailProperties
<1>9. /\ rest' \in [Requests -> Seq(Message)]
      /\ \A q \in Requests : rest'[q] = IF q = r THEN Tail(s) ELSE rest[q]
  BY <1>3, <1>8
<1>10. TypeOK'
  <2>1. buttons' \subseteq Message /\ dropped' \subseteq Message
    BY <1>5, <1>8 DEF Inv, TypeOK
  <2>2. QED
    BY <1>2, <1>5, <1>6, <1>9, <2>1 DEF Inv, TypeOK
<1>11. ASSUME NEW v, NEW id, Offered(v, id) PROVE Offered(v, id)'
  <2>1. CASE Ask(v, id) \in buttons \cup dropped
    BY <1>4, <2>1 DEF Offered, Ask
  <2>2. ASSUME NEW q \in Requests, NEW i \in 1..Len(rest[q]), rest[q][i] = Ask(v, id), q # r
        PROVE  Offered(v, id)'
    BY <1>9, <2>2 DEF Offered, Ask
  <2>3. ASSUME NEW i \in 1..Len(s), s[i] = Ask(v, id)
        PROVE  Offered(v, id)'
    <3>1. CASE i = 1
      <4>1. Head(s) = Ask(v, id) /\ Head(s).what = "buttons"
        BY <1>1, <2>3, <3>1 DEF Ask
      <4>2. Ask(v, id) \in buttons' \cup dropped'
        BY <1>4, <4>1
      <4>3. QED
        BY <4>2 DEF Offered, Ask
    <3>2. CASE i # 1
      <4>1. i - 1 \in 1..Len(Tail(s)) /\ i - 1 + 1 = i
        BY <1>1, <1>8, <2>3, <3>2
      <4>2. Tail(s)[i - 1] = Ask(v, id)
        BY <1>8, <2>3, <4>1
      <4>3. rest'[r] = Tail(s)
        BY <1>9
      <4>4. QED
        BY <4>1, <4>2, <4>3 DEF Offered, Ask
    <3>3. QED
      BY <3>1, <3>2
  <2>4. QED
    BY <1>11, <2>1, <2>2, <2>3 DEF Offered, s
<1>12. RequestsCanBeAnswered'
  <2>1. \A t \in todos : Waiting(t) => Offered(t.holder, t.copy)'
    BY <1>11, AnswerableIsOffered DEF Inv
  <2>2. QED
    BY <1>2, <2>1 DEF RequestsCanBeAnswered, Waiting, Offered
<1>13. QED
  BY <1>2, <1>7, <1>10, <1>12 DEF Inv, AllHeld

\* What dies with a handler is lost.
LEMMA DiesKeeps ==
    ASSUME Inv, NEW r \in Requests, Dies(r)
    PROVE  Inv'
<1> DEFINE s == rest[r]
           gone == {s[i] : i \in {k \in 1..Len(s) : s[k].what = "buttons"}}
<1>1. UNCHANGED <<todos, born, allow, sending, buttons, calls, faults>>
  BY DEF Dies
<1>2. deaths' \in 0..MaxDeaths /\ untold' \in [Requests -> SUBSET Users]
  BY BoundsAssumption DEF Dies, Inv, TypeOK
<1>3. /\ rest' \in [Requests -> Seq(Message)]
      /\ \A q \in Requests : rest'[q] = IF q = r THEN <<>> ELSE rest[q]
  <2>1. <<>> \in Seq(Message) /\ rest \in [Requests -> Seq(Message)] /\ rest' = [rest EXCEPT ![r] = <<>>]
    BY DEF Dies, Inv, TypeOK
  <2>2. QED
    BY <2>1
<1>4. s \in Seq(Message) /\ dropped' = dropped \cup gone
  BY DEF Dies, Inv, TypeOK
<1> HIDE DEF s
<1>5. \A i \in 1..Len(s) : s[i] \in Message
  BY <1>4
<1>6. dropped' \subseteq Message
  BY <1>4, <1>5 DEF Inv, TypeOK
<1>7. TypeOK'
  BY <1>1, <1>2, <1>3, <1>6 DEF Inv, TypeOK
<1>8. Quiet' /\ AllHeld'
  BY <1>1, <1>3 DEF Inv, Quiet, AllHeld
<1>9. ASSUME NEW v, NEW id, Offered(v, id) PROVE Offered(v, id)'
  <2>1. CASE Ask(v, id) \in buttons \cup dropped
    BY <1>1, <1>4, <2>1 DEF Offered, Ask
  <2>2. ASSUME NEW q \in Requests, NEW i \in 1..Len(rest[q]), rest[q][i] = Ask(v, id), q # r
        PROVE  Offered(v, id)'
    BY <1>3, <2>2 DEF Offered, Ask
  <2>3. ASSUME NEW i \in 1..Len(s), s[i] = Ask(v, id)
        PROVE  Offered(v, id)'
    <3>1. s[i].what = "buttons"
      BY <2>3 DEF Ask
    <3>2. Ask(v, id) \in dropped'
      BY <1>4, <2>3, <3>1
    <3>3. QED
      BY <3>2 DEF Offered, Ask
  <2>4. QED
    BY <1>9, <2>1, <2>2, <2>3 DEF Offered, s
<1>10. RequestsCanBeAnswered'
  <2>1. \A t \in todos : Waiting(t) => Offered(t.holder, t.copy)'
    BY <1>9, AnswerableIsOffered DEF Inv
  <2>2. QED
    BY <1>1, <2>1 DEF RequestsCanBeAnswered, Waiting, Offered
<1>11. QED
  BY <1>7, <1>8, <1>10 DEF Inv

-----------------------------------------------------------------------------
(* The invariant *)

LEMMA InitInv == Init => Inv
<1> SUFFICES ASSUME Init PROVE Inv
  OBVIOUS
<1>1. sending \in [Requests -> [user : Users \cup {NoUser}, to : Users \cup {NoUser}]]
  BY DEF Init, NotSending
<1>2. rest \in [Requests -> Seq(Message)]
  <2>1. <<>> \in Seq(Message)
    OBVIOUS
  <2>2. QED
    BY <2>1 DEF Init
<1>3. TypeOK
  BY <1>1, <1>2, BoundsAssumption DEF Init, TypeOK
<1>4. AllHeld /\ Quiet /\ RequestsCanBeAnswered
  BY DEF Init, AllHeld, Quiet, RequestsCanBeAnswered
<1>5. QED
  BY <1>3, <1>4 DEF Inv

LEMMA NextKeeps == Inv /\ [Next]_vars => Inv'
<1> SUFFICES ASSUME Inv, [Next]_vars PROVE Inv'
  OBVIOUS
<1>1. ASSUME NEW r \in Requests, Call(r) PROVE Inv'
  <2>1. ASSUME NEW u \in Users, AddIssue(r, u) \/ AddToOneself(r, u) PROVE Inv'
    BY <2>1, AddKeeps
  <2>2. ASSUME NEW u \in Users, NEW v \in Users, ListIssues(r, u) \/ Blocked(r, u, v) PROVE Inv'
    BY <2>2, SpeakKeeps
  <2>3. ASSUME NEW u \in Users, NEW v \in Users, AskPreference(r, u, v) PROVE Inv'
    BY <2>3, AskPreferenceKeeps
  <2>4. ASSUME NEW u \in Users, NEW t \in todos, EditIssue(r, u, t) PROVE Inv'
    BY <2>4, EditIssueKeeps
  <2>5. ASSUME NEW u \in Users, NEW t \in todos, TakeBack(r, u, t) PROVE Inv'
    BY <2>5, TakeBackKeeps
  <2>6. ASSUME NEW u \in Users, NEW t \in todos, AcceptIssue(r, u, t) PROVE Inv'
    BY <2>6, AcceptIssueKeeps
  <2>7. ASSUME NEW u \in Users, NEW t \in todos, EndIssue(r, u, t) PROVE Inv'
    BY <2>7, EndIssueKeeps
  <2>8. ASSUME NEW u \in Users, NEW t \in todos, BumpIssue(r, u, t) PROVE Inv'
    BY <2>8, BumpIssueKeeps
  <2>9. ASSUME NEW u \in Users, NEW t \in todos, NEW v \in Users, ChangeAssignment(r, u, t, v) PROVE Inv'
    BY <2>9, ChangeAssignmentKeeps
  <2>10. QED
    BY <1>1, <2>1, <2>2, <2>3, <2>4, <2>5, <2>6, <2>7, <2>8, <2>9 DEF Call
<1>2. ASSUME NEW r \in Requests, SendIssue(r) PROVE Inv'
  BY <1>2, SendIssueKeeps
<1>3. ASSUME NEW r \in Requests, SendFails(r) PROVE Inv'
  BY <1>3, SendFailsKeeps
<1>4. ASSUME NEW r \in Requests, Say(r) PROVE Inv'
  BY <1>4, SayKeeps
<1>5. ASSUME NEW r \in Requests, Dies(r) PROVE Inv'
  BY <1>5, DiesKeeps
<1>6. ASSUME NEW u \in Users, SetPreference(u) PROVE Inv'
  BY <1>6, SetPreferenceKeeps
<1>7. CASE UNCHANGED vars
  BY <1>7 DEF vars, Inv, TypeOK, AllHeld, Quiet, RequestsCanBeAnswered
<1>8. QED
  BY <1>1, <1>2, <1>3, <1>4, <1>5, <1>6, <1>7 DEF Next

LEMMA InvHolds == Spec => []Inv
BY InitInv, NextKeeps, PTL DEF Spec

-----------------------------------------------------------------------------
(* The theorems *)

\* Todos, messages and posts keep their types: every message of a handler goes
\* to a user or a thread there is, every post with buttons names a todo.
THEOREM TypeCorrect == Spec => []TypeOK
<1>1. Inv => TypeOK
  BY DEF Inv
<1>2. QED
  BY <1>1, InvHolds, PTL

\* A todo that was sent and not yet answered has its post with buttons, there or
\* about to be, unless this post failed or died with its handler (handleAdd,
\* runSendCommand, handleBump, createBotPostDM).
THEOREM SentTodosCanBeAnswered == Spec => []RequestsCanBeAnswered
<1>1. Inv => RequestsCanBeAnswered
  BY DEF Inv
<1>2. QED
  BY <1>1, InvHolds, PTL

-----------------------------------------------------------------------------
(* Whom the messages of a handler are for *)

Told(u, m) == \E i \in 1..Len(m) : m[i] = Event(u)

\* No events, at most one for a user, at most two.
Silent(m) == \A i \in 1..Len(m) : m[i].what # "event"

Once(m) == \A u : \A i, j \in 1..Len(m) : m[i] = Event(u) /\ m[j] = Event(u) => i = j

Twice(m) == \A u : \E i, j \in 0..6 : \A k \in 1..Len(m) : m[k] = Event(u) => k \in {i, j}

Brief(m) == m \in Seq(Message) /\ Len(m) <= 6 /\ Twice(m)

LEMMA ShortIsBrief ==
    ASSUME NEW m \in Seq(Message), Len(m) <= 2
    PROVE  Brief(m)
<1>1. \A k \in 1..Len(m) : k \in {1, 2}
  OBVIOUS
<1>2. 1 \in 0..6 /\ 2 \in 0..6
  OBVIOUS
<1>3. Twice(m)
  BY <1>1, <1>2 DEF Twice
<1>4. QED
  BY <1>3 DEF Brief

LEMMA Joined ==
    ASSUME NEW s \in Seq(Message), NEW t \in Seq(Message), NEW m, m = s \o t
    PROVE  /\ m \in Seq(Message) /\ Len(s) \in Nat /\ Len(t) \in Nat /\ Len(m) = Len(s) + Len(t)
           /\ \A i \in 1..Len(m) : m[i] = IF i <= Len(s) THEN s[i] ELSE t[i - Len(s)]
<1>1. Len(s) \in Nat /\ Len(t) \in Nat
  OBVIOUS
<1>2. /\ s \o t \in Seq(Message)
      /\ Len(s \o t) = Len(s) + Len(t)
      /\ \A i \in 1..(Len(s) + Len(t)) :
            (s \o t)[i] = IF i <= Len(s) THEN s[i] ELSE t[i - Len(s)]
  BY ConcatProperties
<1>3. QED
  BY <1>1, <1>2

LEMMA TwoParts ==
    ASSUME NEW s \in Seq(Message), NEW t \in Seq(Message), NEW m, m = s \o t
    PROVE  /\ \A u : Told(u, s) \/ Told(u, t) => Told(u, m)
           /\ \A u : Hears(u, s) \/ Hears(u, t) => Hears(u, m)
           /\ Once(s) /\ Silent(t) => Once(m)
           /\ Twice(s) /\ Silent(t) /\ Len(s) <= 6 => Twice(m)
           /\ Once(s) /\ Once(t) /\ Len(m) <= 6 => Twice(m)
<1>1. /\ m \in Seq(Message) /\ Len(s) \in Nat /\ Len(t) \in Nat /\ Len(m) = Len(s) + Len(t)
      /\ \A i \in 1..Len(m) : m[i] = IF i <= Len(s) THEN s[i] ELSE t[i - Len(s)]
  BY Joined
<1>2. \A i \in 1..Len(s) : i \in 1..Len(m) /\ m[i] = s[i]
  BY <1>1
<1>3. \A i \in 1..Len(t) : Len(s) + i \in 1..Len(m) /\ m[Len(s) + i] = t[i]
  <2> SUFFICES ASSUME NEW i \in 1..Len(t) PROVE Len(s) + i \in 1..Len(m) /\ m[Len(s) + i] = t[i]
    OBVIOUS
  <2>1. Len(s) + i \in 1..Len(m) /\ ~(Len(s) + i <= Len(s)) /\ (Len(s) + i) - Len(s) = i
    BY <1>1
  <2>2. QED
    BY <1>1, <2>1
<1>4. \A k \in 1..Len(m) :
          \/ k \in 1..Len(s) /\ m[k] = s[k]
          \/ k - Len(s) \in 1..Len(t) /\ m[k] = t[k - Len(s)]
  <2> SUFFICES ASSUME NEW k \in 1..Len(m)
               PROVE  \/ k \in 1..Len(s) /\ m[k] = s[k]
                      \/ k - Len(s) \in 1..Len(t) /\ m[k] = t[k - Len(s)]
    OBVIOUS
  <2>1. CASE k <= Len(s)
    BY <1>1, <2>1
  <2>2. CASE ~(k <= Len(s))
    <3>1. k - Len(s) \in 1..Len(t)
      BY <1>1, <2>2
    <3>2. QED
      BY <1>1, <2>2, <3>1
  <2>3. QED
    BY <2>1, <2>2
<1>5. \A u : Told(u, s) \/ Told(u, t) => Told(u, m)
  BY <1>2, <1>3 DEF Told
<1>6. \A u : Hears(u, s) \/ Hears(u, t) => Hears(u, m)
  BY <1>2, <1>3 DEF Hears
<1>7. ASSUME Silent(t), NEW u, NEW k \in 1..Len(m), m[k] = Event(u) PROVE k \in 1..Len(s) /\ s[k] = Event(u)
  <2>1. Event(u).what = "event"
    BY DEF Event
  <2>2. QED
    BY <1>4, <1>7, <2>1 DEF Silent
<1>8. Once(s) /\ Silent(t) => Once(m)
  BY <1>7 DEF Once
<1>9. ASSUME Twice(s), Silent(t) PROVE Twice(m)
  <2> SUFFICES ASSUME NEW u PROVE \E i, j \in 0..6 : \A k \in 1..Len(m) : m[k] = Event(u) => k \in {i, j}
    BY DEF Twice
  <2>1. PICK i \in 0..6, j \in 0..6 : \A k \in 1..Len(s) : s[k] = Event(u) => k \in {i, j}
    BY <1>9 DEF Twice
  <2>2. QED
    BY <1>7, <1>9, <2>1
<1>10. ASSUME Once(s), Once(t), Len(m) <= 6 PROVE Twice(m)
  <2> SUFFICES ASSUME NEW u PROVE \E i, j \in 0..6 : \A k \in 1..Len(m) : m[k] = Event(u) => k \in {i, j}
    BY DEF Twice
  <2>1. PICK i \in 0..6 : \A k \in 1..Len(s) : s[k] = Event(u) => k = i
    <3>1. CASE \E k \in 1..Len(s) : s[k] = Event(u)
      <4>1. PICK k \in 1..Len(s) : s[k] = Event(u)
        BY <3>1
      <4>2. k \in 0..6
        BY <1>1, <1>10
      <4>3. QED
        BY <1>10, <4>1, <4>2 DEF Once
    <3>2. QED
      BY <3>1
  <2>2. PICK j \in 0..6 : \A k \in 1..Len(m) : k - Len(s) \in 1..Len(t) /\ t[k - Len(s)] = Event(u) => k = j
    <3>1. CASE \E k \in 1..Len(m) : k - Len(s) \in 1..Len(t) /\ t[k - Len(s)] = Event(u)
      <4>1. PICK k \in 1..Len(m) : k - Len(s) \in 1..Len(t) /\ t[k - Len(s)] = Event(u)
        BY <3>1
      <4>2. k \in 0..6
        BY <1>1, <1>10
      <4>3. ASSUME NEW l \in 1..Len(m), l - Len(s) \in 1..Len(t), t[l - Len(s)] = Event(u) PROVE l = k
        <5>1. l - Len(s) = k - Len(s)
          BY <1>10, <4>1, <4>3 DEF Once
        <5>2. QED
          BY <1>1, <5>1
      <4>4. QED
        BY <4>2, <4>3
    <3>2. QED
      BY <3>1
  <2>3. ASSUME NEW k \in 1..Len(m), m[k] = Event(u) PROVE k \in {i, j}
    BY <1>4, <2>1, <2>2, <2>3
  <2>4. QED
    BY <2>3
<1>11. QED
  BY <1>5, <1>6, <1>8, <1>9, <1>10

LEMMA EventFacts ==
    ASSUME NEW u \in Users
    PROVE  /\ <<Event(u)>> \in Seq(Message) /\ Len(<<Event(u)>>) = 1
           /\ Once(<<Event(u)>>) /\ Told(u, <<Event(u)>>)
<1>1. <<Event(u)>> \in Seq(Message) /\ Len(<<Event(u)>>) = 1
  BY MessageTypes
<1>2. \A i \in 1..Len(<<Event(u)>>) : i = 1
  OBVIOUS
<1>3. Once(<<Event(u)>>)
  BY <1>2 DEF Once
<1>4. Told(u, <<Event(u)>>)
  BY DEF Told
<1>5. QED
  BY <1>1, <1>3, <1>4

LEMMA ReplyFacts ==
    ASSUME NEW thread \in Threads \cup {NoThread}
    PROVE  Reply(thread) \in Seq(Message) /\ Len(Reply(thread)) \in 0..1 /\ Silent(Reply(thread))
<1>1. Reply(thread) \in Seq(Message)
  BY MessageTypes
<1>2. Len(Reply(thread)) \in 0..1 /\ Silent(Reply(thread))
  BY DEF Reply, Silent
<1>3. QED
  BY <1>1, <1>2

LEMMA TellFacts ==
    ASSUME NEW f \in Users \cup {NoUser}, NEW m, m = If(f, <<Event(f), Note(f)>>)
    PROVE  /\ m \in Seq(Message) /\ Len(m) \in 0..2 /\ Once(m)
           /\ f # NoUser => Told(f, m) /\ Hears(f, m)
<1>1. m \in Seq(Message)
  BY ToldFacts
<1>2. CASE f = NoUser
  BY <1>1, <1>2 DEF If, Once
<1>3. CASE f # NoUser
  <2>1. Len(m) = 2 /\ m[1] = Event(f) /\ m[2] = Note(f)
    BY <1>3 DEF If
  <2>2. \A u : m[2] # Event(u)
    BY <2>1 DEF Event, Note
  <2>3. Once(m)
    <3>1. \A u : \A k \in 1..Len(m) : m[k] = Event(u) => k = 1
      BY <2>1, <2>2
    <3>2. QED
      BY <3>1 DEF Once
  <2>4. Told(f, m)
    BY <2>1 DEF Told
  <2>5. m[2].to = f /\ m[2].what # "event"
    BY <2>1 DEF Note
  <2>6. Hears(f, m)
    BY <2>1, <2>5 DEF Hears
  <2>7. QED
    BY <1>1, <2>1, <2>3, <2>4, <2>6
<1>4. QED
  BY <1>2, <1>3

\* What the receiver of a todo is sent, and the user who gave it to him.
LEMMA AskFacts ==
    ASSUME NEW u \in Users, NEW v \in Users, NEW id \in Ids, NEW m, m = <<Event(u), Event(v), Ask(v, id)>>
    PROVE  /\ m \in Seq(Message) /\ Len(m) = 3 /\ Twice(m) /\ (u # v => Once(m))
           /\ Told(u, m) /\ Told(v, m) /\ Hears(v, m)
<1>1. m \in Seq(Message) /\ Len(m) = 3 /\ m[1] = Event(u) /\ m[2] = Event(v) /\ m[3] = Ask(v, id)
  BY MessageTypes
<1>2. \A w : m[3] # Event(w)
  BY <1>1 DEF Event, Ask
<1>3. Event(u).to = u /\ Event(v).to = v
  BY DEF Event
<1>4. \A w : \A k \in 1..Len(m) : m[k] = Event(w) => k \in {1, 2}
  BY <1>1, <1>2
<1>5. Twice(m)
  <2>1. 1 \in 0..6 /\ 2 \in 0..6
    OBVIOUS
  <2>2. QED
    BY <1>4, <2>1 DEF Twice
<1>6. u # v => Once(m)
  <2> SUFFICES ASSUME u # v, NEW w, NEW i \in {1, 2}, NEW j \in {1, 2}, m[i] = Event(w), m[j] = Event(w)
               PROVE  i = j
    BY <1>4 DEF Once
  <2>1. Event(u) # Event(v)
    BY <1>3
  <2>2. QED
    BY <1>1, <2>1
<1>7. Told(u, m) /\ Told(v, m)
  BY <1>1 DEF Told
<1>8. m[3].to = v /\ m[3].what # "event"
  BY <1>1 DEF Ask
<1>9. Hears(v, m)
  BY <1>1, <1>8 DEF Hears
<1>10. QED
  BY <1>1, <1>5, <1>6, <1>7, <1>9

-----------------------------------------------------------------------------
(* Whose lists a request changes *)

\* A handler that had nothing to say sends an event to all whose lists it has
\* changed, and explains it to all of them but one, who asked for it.
Speaks(r) ==
    \E u, m : /\ rest[r] = <<>> /\ Answer(r, u, m) /\ Brief(m)
              /\ \A v \in Users : View(v)' # View(v) => Told(v, m) /\ (v # u => Hears(v, m))

\* One for whom a call has failed may say less.
Fumbles(r) ==
    \E m : /\ rest[r] = <<>> /\ rest' = [rest EXCEPT ![r] = m] /\ Brief(m)
           /\ faults' = faults + 1 /\ UNCHANGED untold

LEMMA SpeaksToAll ==
    ASSUME NEW r, NEW m, NEW a, rest[r] = <<>>, Answer(r, a, m), Brief(m),
           NEW S,
           \A u \in Users : u \notin S => View(u)' = View(u),
           \A u \in S \cap Users : Told(u, m) /\ (u # a => Hears(u, m))
    PROVE  Speaks(r)
<1>1. \A v \in Users : View(v)' # View(v) => Told(v, m) /\ (v # a => Hears(v, m))
  OBVIOUS
<1>2. QED
  BY <1>1 DEF Speaks

LEMMA BotchedFumbles ==
    ASSUME NEW r, rest[r] = <<>>, NEW m, Botched(r, m), Brief(m)
    PROVE  Fumbles(r)
BY DEF Fumbles, Botched, Fault

LEMMA NothingFumbles ==
    ASSUME NEW r, rest[r] = <<>>, Botched(r, <<>>)
    PROVE  Fumbles(r)
<1>1. <<>> \in Seq(Message) /\ Len(<<>>) <= 2
  OBVIOUS
<1>2. QED
  BY <1>1, ShortIsBrief, BotchedFumbles

LEMMA ViewOfOthers ==
    ASSUME NEW gone, NEW made, todos' = (todos \ gone) \cup made,
           NEW u, \A x \in gone \cup made : x.author # u /\ (x.holder = u => ~Shared(x))
    PROVE  View(u)' = View(u)
<1>1. {x \in todos' : x.author = u} = {x \in todos : x.author = u}
  OBVIOUS
<1>2. {x \in todos' : x.holder = u /\ Shared(x)} = {x \in todos : x.holder = u /\ Shared(x)}
  OBVIOUS
<1>3. QED
  BY <1>1, <1>2 DEF View, AuthorsEntry, HoldersEntry, Shared

LEMMA SameViews ==
    ASSUME UNCHANGED todos, NEW u
    PROVE  View(u)' = View(u)
BY DEF View, AuthorsEntry, HoldersEntry, Shared

LEMMA AddSpeaks ==
    ASSUME Inv, NEW r \in Requests, NEW u \in Users, AddIssue(r, u) \/ AddToOneself(r, u)
    PROVE  Speaks(r)
<1>1. PICK thread \in Threads \cup {NoThread}, from \in Threads \cup {NoThread}, said \in Threads \cup {NoThread} :
          /\ todos' = todos \cup {New(born + 1, u, thread, from)}
          /\ Answer(r, u, <<Event(u)>> \o Reply(said))
  BY DEF AddIssue, AddToOneself
<1> DEFINE t == New(born + 1, u, thread, from)
           last == Reply(said)
           m == <<Event(u)>> \o last
<1>2. t.author = u /\ t.holder = NoUser
  BY DEF New
<1>3. rest[r] = <<>>
  BY DEF AddIssue, AddToOneself, Begin
<1>4. last \in Seq(Message) /\ Len(last) \in 0..1 /\ Silent(last)
  BY ReplyFacts
<1>5. /\ <<Event(u)>> \in Seq(Message) /\ Len(<<Event(u)>>) = 1
      /\ Once(<<Event(u)>>) /\ Told(u, <<Event(u)>>)
  BY EventFacts
<1> DEFINE first == <<Event(u)>>
<1>6. Answer(r, u, m) /\ todos' = (todos \ {}) \cup {t} /\ m = first \o last
  BY <1>1
<1> HIDE DEF t, last, m, first
<1>7. m \in Seq(Message) /\ Len(m) = Len(first) + Len(last)
  BY <1>4, <1>5, <1>6, Joined DEF first
<1>8. Once(first) /\ first \in Seq(Message) /\ Len(first) = 1 /\ Told(u, first)
  BY <1>5 DEF first
<1>9. Once(m) /\ Told(u, m)
  BY <1>4, <1>6, <1>8, TwoParts
<1>10. Twice(first)
  <2> SUFFICES ASSUME NEW w PROVE \E i, j \in 0..6 : \A k \in 1..Len(first) : first[k] = Event(w) => k \in {i, j}
    BY DEF Twice
  <2>1. \A k \in 1..Len(first) : k = 1
    BY <1>8
  <2>2. 1 \in 0..6
    OBVIOUS
  <2>3. QED
    BY <2>1, <2>2
<1>11. Twice(m)
  <2>1. Len(first) <= 6
    BY <1>8
  <2>2. QED
    BY <1>4, <1>6, <1>8, <1>10, <2>1, TwoParts
<1>12. Brief(m)
  BY <1>4, <1>7, <1>8, <1>11 DEF Brief
<1>13. ASSUME NEW w \in Users, w \notin {u} PROVE View(w)' = View(w)
  <2>1. \A x \in {} \cup {t} : x.author # w /\ x.holder # w
    BY <1>2, <1>13, SentinelAssumption
  <2>2. QED
    BY <1>6, <2>1, ViewOfOthers
<1>14. \A w \in {u} \cap Users : Told(w, m) /\ (w # u => Hears(w, m))
  BY <1>9
<1>15. QED
  BY <1>3, <1>6, <1>12, <1>13, <1>14, SpeaksToAll

\* A todo that changes is on the lists of its author and of its holders, before
\* and after.
LEMMA ChangeSpeaks ==
    ASSUME NEW r, rest[r] = <<>>, NEW t, NEW made, todos' = (todos \ {t}) \cup made,
           NEW m, NEW a, Answer(r, a, m), Brief(m),
           \A u \in Users : (\E x \in {t} \cup made : u \in {x.author, x.holder}) =>
               Told(u, m) /\ (u # a => Hears(u, m))
    PROVE  Speaks(r)
<1> DEFINE S == {u \in Users : \E x \in {t} \cup made : u \in {x.author, x.holder}}
<1>1. ASSUME NEW u \in Users, u \notin S PROVE View(u)' = View(u)
  <2>1. \A x \in {t} \cup made : x.author # u /\ (x.holder = u => ~Shared(x))
    BY <1>1
  <2>2. QED
    BY <2>1, ViewOfOthers
<1>2. \A u \in S \cap Users : Told(u, m) /\ (u # a => Hears(u, m))
  OBVIOUS
<1> HIDE DEF S
<1>3. QED
  BY <1>1, <1>2, SpeaksToAll

LEMMA TellPair ==
    ASSUME NEW u \in Users, NEW f \in Users \cup {NoUser}
    PROVE  LET m == <<Event(u)>> \o If(f, <<Event(f), Note(f)>>)
           IN  Brief(m) /\ Told(u, m) /\ (f # NoUser => Told(f, m) /\ Hears(f, m))
<1> DEFINE first == <<Event(u)>>
           told == If(f, <<Event(f), Note(f)>>)
           m == first \o told
<1>1. first \in Seq(Message) /\ Len(first) = 1 /\ Once(first) /\ Told(u, first)
  BY EventFacts
<1>2. told \in Seq(Message) /\ Len(told) \in 0..2 /\ Once(told)
      /\ (f # NoUser => Told(f, told) /\ Hears(f, told))
  BY TellFacts
<1> HIDE DEF first, told
<1>3. m = first \o told
  OBVIOUS
<1> HIDE DEF m
<1>4. m \in Seq(Message) /\ Len(m) = Len(first) + Len(told)
  BY <1>1, <1>2, <1>3, Joined
<1>5. Len(m) <= 6
  <2> DEFINE j == Len(first)
             k == Len(told)
             n == Len(m)
  <2>1. j = 1 /\ k \in 0..2 /\ n = j + k
    BY <1>1, <1>2, <1>4
  <2> HIDE DEF j, k, n
  <2>2. n <= 6
    BY <2>1
  <2>3. QED
    BY <2>2 DEF n
<1>6. Twice(m) /\ Told(u, m) /\ (f # NoUser => Told(f, m) /\ Hears(f, m))
  BY <1>1, <1>2, <1>3, <1>5, TwoParts
<1>7. QED
  BY <1>4, <1>5, <1>6 DEF Brief, m, first, told

LEMMA EditIssueSpeaks ==
    ASSUME Inv, NEW r \in Requests, NEW u \in Users, NEW t \in todos, EditIssue(r, u, t)
    PROVE  Speaks(r) \/ Fumbles(r)
<1> DEFINE f == Other(t, u)
           m == <<Event(u)>> \o If(f, <<Event(f), Note(f)>>)
<1>1. t \in Todo /\ f \in Users \cup {NoUser}
  BY OtherFacts
<1>2. PICK new : /\ Rewritten(t, new) /\ Becomes(t, new)
                 /\ Answer(r, u, m) \/ Botched(r, m) \/ Botched(r, <<>>)
  BY EditIssueFacts
<1>3. rest[r] = <<>> /\ u \in {t.author, t.holder}
  BY DEF EditIssue, Begin
<1>4. \A w \in {t.author, t.holder} : w = u \/ w = f
  BY <1>3 DEF Other
<1>5. Brief(m) /\ Told(u, m) /\ (f # NoUser => Told(f, m) /\ Hears(f, m))
  BY <1>1, TellPair
<1>6. todos' = (todos \ {t}) \cup {new} /\ new.author = t.author /\ new.holder = t.holder
  BY <1>2 DEF Becomes, Rewritten
<1> HIDE DEF f, m
<1>7. \A w \in Users : (\E x \in {t} \cup {new} : w \in {x.author, x.holder}) =>
          Told(w, m) /\ (w # u => Hears(w, m))
  BY <1>4, <1>5, <1>6, SentinelAssumption
<1>8. CASE Answer(r, u, m)
  BY <1>3, <1>5, <1>6, <1>7, <1>8, ChangeSpeaks, ZenonT(60)
<1>9. CASE Botched(r, m) \/ Botched(r, <<>>)
  BY <1>3, <1>5, <1>9, BotchedFumbles, NothingFumbles
<1>10. QED
  BY <1>2, <1>8, <1>9

LEMMA TakeBackSpeaks ==
    ASSUME Inv, NEW r \in Requests, NEW u \in Users, NEW t \in todos, TakeBack(r, u, t)
    PROVE  Speaks(r) \/ Fumbles(r)
<1> DEFINE f == t.holder
           m == <<Event(u)>> \o If(f, <<Event(f), Note(f)>>)
           new == [t EXCEPT !.copy = NoId, !.holder = NoUser, !.state = "own", !.via = "None"]
<1>1. t \in Todo /\ f \in Users \cup {NoUser}
  BY OtherFacts
<1>2. rest[r] = <<>> /\ u = t.author
  BY DEF TakeBack, Begin
<1>2a. (Becomes(t, new) /\ Answer(r, u, m)) \/ Botched(r, <<>>)
  BY DEF TakeBack, Removed
<1>3. Brief(m) /\ Told(u, m) /\ (f # NoUser => Told(f, m) /\ Hears(f, m))
  BY <1>1, TellPair
<1>4. new.author = t.author /\ new.holder = NoUser
  BY <1>1 DEF Todo
<1>5. \A w \in {t.author, t.holder, new.author, new.holder} : w = u \/ w = f \/ w = NoUser
  BY <1>2, <1>4
<1> HIDE DEF f, m, new
<1>6. \A w \in Users : (\E x \in {t} \cup {new} : w \in {x.author, x.holder}) =>
          Told(w, m) /\ (w # u => Hears(w, m))
  BY <1>3, <1>5, SentinelAssumption
<1>7. CASE Becomes(t, new) /\ Answer(r, u, m)
  <2>1. todos' = (todos \ {t}) \cup {new}
    BY <1>7 DEF Becomes
  <2>2. QED
    BY <1>2, <1>3, <1>6, <1>7, <2>1, ChangeSpeaks, ZenonT(60)
<1>8. CASE Botched(r, <<>>)
  BY <1>2, <1>8, NothingFumbles
<1>9. QED
  BY <1>2a, <1>7, <1>8

LEMMA ChangeAssignmentSpeaks ==
    ASSUME Inv, NEW r \in Requests, NEW u \in Users, NEW t \in todos, NEW v \in Users,
           ChangeAssignment(r, u, t, v)
    PROVE  Speaks(r) \/ Fumbles(r)
<1> DEFINE f == t.holder
           first == <<Event(u), Event(v), Ask(v, t.id)>>
           told == If(f, <<Event(f), Note(f)>>)
           m == first \o told
           new == [t EXCEPT !.copy = born + 1, !.copyText = t.text, !.holder = v,
                            !.state = "pending", !.via = "Assign"]
<1>1. t \in Todo /\ f \in Users \cup {NoUser} /\ t.id \in Ids
  BY OtherFacts DEF Todo
<1>2. rest[r] = <<>> /\ u = t.author /\ u # v
  BY DEF ChangeAssignment, Begin
<1>2a. (Becomes(t, new) /\ Answer(r, u, m)) \/ Botched(r, <<>>)
  BY DEF ChangeAssignment, Removed
<1>3. new.author = t.author /\ new.holder = v
  BY <1>1 DEF Todo
<1>4. /\ first \in Seq(Message) /\ Len(first) = 3 /\ Once(first)
      /\ Told(u, first) /\ Told(v, first) /\ Hears(v, first)
  BY <1>1, <1>2, AskFacts
<1>5. told \in Seq(Message) /\ Len(told) \in 0..2 /\ Once(told)
      /\ (f # NoUser => Told(f, told) /\ Hears(f, told))
  BY <1>1, TellFacts
<1>6. \A w \in {t.author, t.holder, new.author, new.holder} : w = u \/ w = v \/ w = f
  BY <1>2, <1>3
<1> HIDE DEF f, first, told, new
<1>7. m \in Seq(Message) /\ Len(m) = Len(first) + Len(told)
  BY <1>4, <1>5, Joined
<1>8. Len(m) <= 6
  BY <1>4, <1>5, <1>7
<1>9. /\ Twice(m) /\ Told(u, m) /\ Told(v, m) /\ Hears(v, m)
      /\ f # NoUser => Told(f, m) /\ Hears(f, m)
  BY <1>4, <1>5, <1>8, TwoParts
<1> HIDE DEF m
<1>10. Brief(m)
  BY <1>7, <1>8, <1>9 DEF Brief
<1>11. \A w \in Users : (\E x \in {t} \cup {new} : w \in {x.author, x.holder}) =>
           Told(w, m) /\ (w # u => Hears(w, m))
  BY <1>6, <1>9, SentinelAssumption
<1>12. CASE Becomes(t, new) /\ Answer(r, u, m)
  <2>1. todos' = (todos \ {t}) \cup {new}
    BY <1>12 DEF Becomes
  <2>2. QED
    BY <1>2, <1>10, <1>11, <1>12, <2>1, ChangeSpeaks, ZenonT(60)
<1>13. CASE Botched(r, <<>>)
  BY <1>2, <1>13, NothingFumbles
<1>14. QED
  BY <1>2a, <1>12, <1>13 DEF m

LEMMA AcceptIssueSpeaks ==
    ASSUME Inv, NEW r \in Requests, NEW u \in Users, NEW t \in todos, AcceptIssue(r, u, t)
    PROVE  Speaks(r)
<1> DEFINE f == t.author
           m == <<Event(u), Event(f), Note(f)>>
           new == [t EXCEPT !.state = "accepted"]
<1>1. t \in Todo /\ f \in Users
  BY OtherFacts
<1>2. rest[r] = <<>> /\ Answer(r, u, m) /\ u = t.holder
  BY DEF AcceptIssue, Begin, Accepted
<1>3. todos' = (todos \ {t}) \cup {new} /\ new.author = t.author /\ new.holder = t.holder
  BY <1>1 DEF AcceptIssue, Becomes, Todo
<1>4. /\ m \in Seq(Message) /\ Len(m) = 3
      /\ m[1] = Event(u) /\ m[2] = Event(f) /\ m[3] = Note(f)
  BY <1>1, MessageTypes
<1>5. \A w \in {t.author, t.holder, new.author, new.holder} : w = u \/ w = f
  BY <1>2, <1>3
<1> HIDE DEF m, new, f
<1>6. \A w : m[3] # Event(w)
  BY <1>4 DEF Note, Event
<1>7. \A w : \A k \in 1..Len(m) : m[k] = Event(w) => k \in {1, 2}
  BY <1>4, <1>6
<1>8. Brief(m)
  <2>1. 1 \in 0..6 /\ 2 \in 0..6
    OBVIOUS
  <2>2. Twice(m)
    BY <1>7, <2>1 DEF Twice
  <2>3. QED
    BY <1>4, <2>2 DEF Brief
<1>9. Told(u, m) /\ Told(f, m)
  BY <1>4 DEF Told
<1>10. Hears(f, m)
  <2>1. m[3].to = f /\ m[3].what # "event"
    BY <1>4 DEF Note
  <2>2. QED
    BY <1>4, <2>1 DEF Hears
<1>11. \A w \in Users : (\E x \in {t} \cup {new} : w \in {x.author, x.holder}) =>
           Told(w, m) /\ (w # u => Hears(w, m))
  BY <1>5, <1>9, <1>10
<1>12. QED
  BY <1>2, <1>3, <1>8, <1>11, ChangeSpeaks

LEMMA EndIssueSpeaks ==
    ASSUME Inv, NEW r \in Requests, NEW u \in Users, NEW t \in todos, EndIssue(r, u, t)
    PROVE  Speaks(r) \/ Fumbles(r)
<1> DEFINE f == Other(t, u)
           first == <<Event(u)>>
           told == If(f, <<Event(f), Note(f)>>)
           said == Reply(t.thread)
<1>1. /\ f \in Users \cup {NoUser} /\ t.thread \in Threads \cup {NoThread}
  BY OtherFacts DEF Todo
<1>2. rest[r] = <<>> /\ u \in {t.author, t.holder} /\ todos' = (todos \ {t}) \cup {}
  BY DEF EndIssue, Begin
<1>3. \A w \in {t.author, t.holder} : w = u \/ w = f
  BY <1>2 DEF Other
<1>5. first \in Seq(Message) /\ Len(first) = 1 /\ Once(first) /\ Told(u, first)
  BY EventFacts
<1>6. told \in Seq(Message) /\ Len(told) \in 0..2 /\ Once(told)
      /\ (f # NoUser => Told(f, told) /\ Hears(f, told))
  BY <1>1, TellFacts
<1>7. said \in Seq(Message) /\ Len(said) \in 0..1 /\ Silent(said)
  BY <1>1, ReplyFacts
<1> HIDE DEF f, first, told, said
<1>8a. Len(first) = 1 /\ Len(told) \in 0..2 /\ Len(said) \in 0..1
  BY <1>5, <1>6, <1>7
<1>8. ASSUME NEW m \in {(first \o said) \o told, (told \o first) \o said}
      PROVE  Brief(m) /\ Told(u, m) /\ (f # NoUser => Told(f, m) /\ Hears(f, m))
  <2>1. CASE m = (first \o said) \o told
    <3> DEFINE s == first \o said
    <3>1. s \in Seq(Message) /\ Len(s) = Len(first) + Len(said) /\ Once(s) /\ Told(u, s)
      BY <1>5, <1>7, Joined, TwoParts
    <3>1a. Len(s) = Len(first) + Len(said)
      BY <3>1
    <3> HIDE DEF s
    <3>2. m = s \o told
      BY <2>1 DEF s
    <3>3. m \in Seq(Message) /\ Len(m) = Len(s) + Len(told)
      BY <1>6, <3>1, <3>2, Joined
    <3>4. Len(m) <= 6
      BY <1>8a, <3>3, <3>1a, SMTT(30)
    <3>5. Twice(m) /\ Told(u, m) /\ (f # NoUser => Told(f, m) /\ Hears(f, m))
      BY <1>6, <3>1, <3>2, <3>4, TwoParts
    <3>6. QED
      BY <3>3, <3>4, <3>5 DEF Brief
  <2>2. CASE m = (told \o first) \o said
    <3> DEFINE s == told \o first
    <3>1. s \in Seq(Message) /\ Len(s) = Len(told) + Len(first)
      BY <1>5, <1>6, Joined
    <3>2. Len(s) <= 6
      BY <1>8a, <3>1, SMTT(30)
    <3>3. Twice(s) /\ Told(u, s) /\ (f # NoUser => Told(f, s) /\ Hears(f, s))
      BY <1>5, <1>6, <3>2, TwoParts
    <3> HIDE DEF s
    <3>4. m = s \o said
      BY <2>2 DEF s
    <3>5. m \in Seq(Message) /\ Len(m) = Len(s) + Len(said)
      BY <1>7, <3>1, <3>4, Joined
    <3>6. Len(m) <= 6
      BY <1>8a, <3>1, <3>5
    <3>7. Twice(m) /\ Told(u, m) /\ (f # NoUser => Told(f, m) /\ Hears(f, m))
      BY <1>7, <3>1, <3>2, <3>3, <3>4, TwoParts
    <3>8. QED
      BY <3>5, <3>6, <3>7 DEF Brief
  <2>3. QED
    BY <2>1, <2>2
<1>9. ASSUME NEW m \in {(first \o said) \o told, (told \o first) \o said}, Answer(r, u, m)
      PROVE  Speaks(r)
  <2>1. Brief(m) /\ Told(u, m) /\ (f # NoUser => Told(f, m) /\ Hears(f, m))
    BY <1>8
  <2>2. \A w \in Users : (\E x \in {t} \cup {} : w \in {x.author, x.holder}) =>
            Told(w, m) /\ (w # u => Hears(w, m))
    BY <1>3, <2>1, SentinelAssumption
  <2>3. rest[r] = <<>> /\ todos' = (todos \ {t}) \cup {} /\ Answer(r, u, m)
    BY <1>2, <1>9
  <2>4. QED
    BY <2>1, <2>2, <2>3, ChangeSpeaks
<1>10. ASSUME Answer(r, u, first), t.state = "lost" PROVE Speaks(r)
  <2>1. u = t.author /\ ~Shared(t)
    BY <1>10 DEF EndIssue, Shared
  <2>2. ASSUME NEW w \in Users, w \notin {u} PROVE View(w)' = View(w)
    <3>1. \A x \in {t} \cup {} : x.author # w /\ (x.holder = w => ~Shared(x))
      BY <2>1, <2>2
    <3>2. QED
      BY <1>2, <3>1, ViewOfOthers
  <2>3. \A w \in {u} \cap Users : Told(w, first) /\ (w # u => Hears(w, first))
    BY <1>5
  <2>4. Brief(first)
    <3>1. Len(first) <= 2 /\ first \in Seq(Message)
      BY <1>5
    <3>2. QED
      BY <3>1, ShortIsBrief
  <2>5. QED
    BY <1>2, <1>10, <2>2, <2>3, <2>4, SpeaksToAll
<1>11. ASSUME NEW w \in Users, Botched(r, <<Event(w)>>) PROVE Fumbles(r)
  <2>1. Brief(<<Event(w)>>)
    <3> DEFINE m == <<Event(w)>>
    <3>1. m \in Seq(Message) /\ Len(m) = 1
      BY EventFacts
    <3> HIDE DEF m
    <3>2. Len(m) <= 2
      BY <3>1
    <3>3. Brief(m)
      BY <3>1, <3>2, ShortIsBrief
    <3>4. QED
      BY <3>3 DEF m
  <2>2. QED
    BY <1>2, <1>11, <2>1, BotchedFumbles
<1>12. \/ \E m \in {(first \o said) \o told, (told \o first) \o said} : Answer(r, u, m)
       \/ Answer(r, u, first) /\ t.state = "lost"
       \/ \E w \in Users : Botched(r, <<Event(w)>>)
  BY <1>1 DEF EndIssue, f, first, told, said
<1>13. QED
  BY <1>9, <1>10, <1>11, <1>12

\* A todo sent is on the lists of its sender and its receiver.
LEMMA SendIssueSpeaks ==
    ASSUME Inv, NEW r \in Requests, SendIssue(r)
    PROVE  Speaks(r)
<1> DEFINE u == sending[r].user
           v == sending[r].to
<1>1. rest[r] = <<>> /\ u \in Users /\ v \in Users
  BY DEF SendIssue, Inv, Quiet
<1>2. born + 2 \in Ids
  <2>1. born + 2 <= MaxIds
    BY DEF SendIssue
  <2>2. QED
    BY <2>1, BornFacts
<1>3. PICK thread \in Threads \cup {NoThread} :
          /\ todos' = todos \cup {[New(born + 1, u, thread, thread) EXCEPT
                      !.copy = born + 2, !.holder = v, !.state = "pending", !.via = "Send"]}
          /\ Answer(r, u, <<Event(u), Event(v), Offer(v, born + 1, born + 2)>> \o Reply(thread))
  BY DEF SendIssue
<1> HIDE DEF u, v
<1> DEFINE new == [New(born + 1, u, thread, thread) EXCEPT
                      !.copy = born + 2, !.holder = v, !.state = "pending", !.via = "Send"]
           first == <<Event(u), Event(v), Ask(v, born + 2)>>
           said == Reply(thread)
           m == first \o said
<1>4. new.author = u /\ new.holder = v
  BY DEF New
<1>5. todos' = (todos \ {}) \cup {new} /\ Answer(r, u, m)
  BY <1>3 DEF Offer, u, v
<1>6. /\ first \in Seq(Message) /\ Len(first) = 3 /\ Twice(first)
      /\ Told(u, first) /\ Told(v, first) /\ Hears(v, first)
  BY <1>1, <1>2, AskFacts
<1>7. said \in Seq(Message) /\ Len(said) \in 0..1 /\ Silent(said)
  BY ReplyFacts
<1> HIDE DEF new, first, said
<1>8. m \in Seq(Message) /\ Len(m) = Len(first) + Len(said)
  BY <1>6, <1>7, Joined
<1>9. Len(m) <= 6 /\ Len(first) <= 6
  BY <1>6, <1>7, <1>8
<1>10. Twice(m) /\ Told(u, m) /\ Told(v, m) /\ Hears(v, m)
  BY <1>6, <1>7, <1>9, TwoParts
<1> HIDE DEF m
<1>11. Brief(m)
  BY <1>8, <1>9, <1>10 DEF Brief
<1>12. ASSUME NEW w \in Users, w \notin {u, v} PROVE View(w)' = View(w)
  <2>1. \A x \in {} \cup {new} : x.author # w /\ x.holder # w
    BY <1>4, <1>12
  <2>2. QED
    BY <1>5, <2>1, ViewOfOthers
<1>13. \A w \in {u, v} \cap Users : Told(w, m) /\ (w # u => Hears(w, m))
  BY <1>10
<1>14. QED
  BY <1>1, <1>5, <1>11, <1>12, <1>13, SpeaksToAll

\* A handler that changes no lists may say what it likes.
LEMMA NothingChangedSpeaks ==
    ASSUME NEW r, rest[r] = <<>>, UNCHANGED todos, NEW u, NEW m, Answer(r, u, m), Brief(m)
    PROVE  Speaks(r)
<1>1. \A v \in Users : View(v)' = View(v)
  BY SameViews
<1>2. QED
  BY <1>1 DEF Speaks

LEMMA BumpIssueSpeaks ==
    ASSUME Inv, NEW r \in Requests, NEW u \in Users, NEW t \in todos, BumpIssue(r, u, t)
    PROVE  Speaks(r)
<1>1. t.holder \in Users /\ t.copy \in Ids
  BY BumpIssueFacts
<1> DEFINE m == <<Event(t.holder), Offer(t.holder, t.id, t.copy)>>
<1>2. m \in Seq(Message) /\ Len(m) <= 2
  BY <1>1, MessageTypes DEF Offer
<1>3. rest[r] = <<>> /\ Answer(r, u, m) /\ UNCHANGED todos
  BY DEF BumpIssue, Begin
<1> HIDE DEF m
<1>4. QED
  BY <1>2, <1>3, ShortIsBrief, NothingChangedSpeaks

\* The calls after which nothing has changed.
LEMMA FaultFumbles ==
    ASSUME Inv, NEW r \in Requests, rest[r] = <<>>, UNCHANGED <<rest, untold>>, faults' = faults + 1
    PROVE  Fumbles(r)
<1>1. <<>> \in Seq(Message) /\ Len(<<>>) <= 2
  OBVIOUS
<1>2. rest' = [rest EXCEPT ![r] = <<>>]
  BY DEF Inv, TypeOK
<1>3. QED
  BY <1>1, <1>2, ShortIsBrief DEF Fumbles

LEMMA NoteSpeaks ==
    ASSUME Inv, NEW r \in Requests, NEW u \in Users, NEW v \in Users,
           ListIssues(r, u) \/ Blocked(r, u, v)
    PROVE  Speaks(r)
<1>1. PICK n \in {Event(u), Note(u)} : Answer(r, u, <<n>>)
  BY DEF ListIssues, Blocked
<1> DEFINE m == <<n>>
<1>2. m \in Seq(Message) /\ Len(m) <= 2
  BY MessageTypes
<1>3. rest[r] = <<>> /\ Answer(r, u, m) /\ UNCHANGED todos
  BY <1>1 DEF ListIssues, Blocked, Begin
<1> HIDE DEF m
<1>4. QED
  BY <1>2, <1>3, ShortIsBrief, NothingChangedSpeaks

\* Every step is of one of five kinds.
LEMMA Steps ==
    ASSUME Inv, Next
    PROVE  \/ \E r \in Requests : Speaks(r) \/ Fumbles(r) \/ Say(r) \/ Dies(r)
           \/ UNCHANGED <<todos, rest, faults, untold>>
<1> DEFINE Quietly == UNCHANGED <<todos, rest, faults, untold>>
<1>1. ASSUME NEW r \in Requests, Call(r) PROVE Speaks(r) \/ Fumbles(r) \/ Quietly
  <2>1. ASSUME NEW u \in Users, AddIssue(r, u) \/ AddToOneself(r, u) PROVE Speaks(r)
    BY <2>1, AddSpeaks
  <2>2. ASSUME NEW u \in Users, NEW v \in Users, ListIssues(r, u) \/ Blocked(r, u, v) PROVE Speaks(r)
    BY <2>2, NoteSpeaks
  <2>3. ASSUME NEW u \in Users, NEW v \in Users, AskPreference(r, u, v) PROVE Fumbles(r) \/ Quietly
    <3>1. rest[r] = <<>> /\ UNCHANGED <<todos, rest, untold>> /\ (faults' = faults + 1 \/ UNCHANGED faults)
      BY <2>3 DEF AskPreference, Begin, Fault
    <3>2. QED
      BY <3>1, FaultFumbles
  <2>4. ASSUME NEW u \in Users, NEW t \in todos, EditIssue(r, u, t) PROVE Speaks(r) \/ Fumbles(r)
    BY <2>4, EditIssueSpeaks
  <2>5. ASSUME NEW u \in Users, NEW t \in todos, TakeBack(r, u, t) PROVE Speaks(r) \/ Fumbles(r)
    BY <2>5, TakeBackSpeaks
  <2>6. ASSUME NEW u \in Users, NEW t \in todos, AcceptIssue(r, u, t) PROVE Speaks(r)
    BY <2>6, AcceptIssueSpeaks
  <2>7. ASSUME NEW u \in Users, NEW t \in todos, EndIssue(r, u, t) PROVE Speaks(r) \/ Fumbles(r)
    BY <2>7, EndIssueSpeaks
  <2>8. ASSUME NEW u \in Users, NEW t \in todos, BumpIssue(r, u, t) PROVE Speaks(r)
    BY <2>8, BumpIssueSpeaks
  <2>9. ASSUME NEW u \in Users, NEW t \in todos, NEW v \in Users, ChangeAssignment(r, u, t, v)
        PROVE  Speaks(r) \/ Fumbles(r)
    BY <2>9, ChangeAssignmentSpeaks
  <2> HIDE DEF Quietly
  <2>10. QED
    BY <1>1, <2>1, <2>2, <2>3, <2>4, <2>5, <2>6, <2>7, <2>8, <2>9 DEF Call
<1>2. ASSUME NEW r \in Requests, SendIssue(r) PROVE Speaks(r)
  BY <1>2, SendIssueSpeaks
<1>3. ASSUME NEW r \in Requests, SendFails(r) PROVE Fumbles(r)
  <2>1. rest[r] = <<>> /\ Botched(r, <<>>)
    BY <1>3 DEF SendFails, Inv, Quiet
  <2>2. QED
    BY <2>1, NothingFumbles
<1>4. ASSUME NEW u \in Users, SetPreference(u) PROVE Quietly
  BY <1>4 DEF SetPreference
<1>5. QED
  BY <1>1, <1>2, <1>3, <1>4 DEF Next

\* A message with words is the next one or among the others.
LEMMA HeadOrTail ==
    ASSUME NEW m \in Seq(Message), m # <<>>, NEW u, Hears(u, m)
    PROVE  (u = Head(m).to /\ Head(m).what # "event") \/ Hears(u, Tail(m))
<1>1. /\ Head(m) = m[1] /\ Tail(m) \in Seq(Message) /\ Len(Tail(m)) = Len(m) - 1 /\ Len(m) \in Nat
      /\ \A i \in 1..Len(Tail(m)) : Tail(m)[i] = m[i + 1]
  BY HeadTailProperties
<1>2. PICK i \in 1..Len(m) : m[i].to = u /\ m[i].what # "event"
  BY DEF Hears
<1>3. CASE i = 1
  BY <1>1, <1>2, <1>3
<1>4. CASE i # 1
  <2>1. i - 1 \in 1..Len(Tail(m)) /\ (i - 1) + 1 = i
    BY <1>1, <1>4
  <2>2. Tail(m)[i - 1] = m[i]
    BY <1>1, <2>1
  <2>3. QED
    BY <1>2, <2>1, <2>2 DEF Hears
<1>5. QED
  BY <1>3, <1>4

\* The bot has a message for whoever's lists somebody else's request has changed,
\* until it tries to post it, the handler dies or a store call of the request fails
\* (PostBotDM and PostBotCustomDM in the handlers, createBotPostDM).
THEOREM ChangesExplained == Spec => []ChangesAreExplained
<1>1. Init => ChangesAreExplained
  BY DEF Init, ChangesAreExplained
<1>2. ASSUME Inv, ChangesAreExplained, [Next]_vars PROVE ChangesAreExplained'
  <2>1. rest \in [Requests -> Seq(Message)] /\ untold \in [Requests -> SUBSET Users]
    BY <1>2 DEF Inv, TypeOK
  <2>2. ASSUME NEW r \in Requests, NEW m, NEW us, rest' = [rest EXCEPT ![r] = m],
               untold' = [untold EXCEPT ![r] = us], \A u \in us : Hears(u, m)
        PROVE  ChangesAreExplained'
    <3>1. rest'[r] = m /\ \A q \in Requests : q # r => rest'[q] = rest[q]
      BY <2>1, <2>2
    <3>2. untold'[r] = us /\ \A q \in Requests : q # r => untold'[q] = untold[q]
      BY <2>1, <2>2
    <3>3. \A q \in Requests : \A u \in untold'[q] : Hears(u, rest'[q])
      BY <1>2, <2>2, <3>1, <3>2 DEF ChangesAreExplained
    <3>4. QED
      BY <3>3 DEF ChangesAreExplained, Hears
  <2>3. ASSUME NEW r \in Requests, Speaks(r) PROVE ChangesAreExplained'
    <3>1. PICK a, m : /\ rest[r] = <<>> /\ Answer(r, a, m)
                      /\ \A v \in Users : v # a /\ View(v)' # View(v) => Hears(v, m)
      BY <2>3 DEF Speaks
    <3> DEFINE us == {v \in Users \ {a} : View(v)' # View(v)}
    <3>2. rest' = [rest EXCEPT ![r] = m] /\ untold' = [untold EXCEPT ![r] = us]
      BY <3>1 DEF Answer
    <3>3. \A u \in us : Hears(u, m)
      BY <3>1
    <3> HIDE DEF us
    <3>4. QED
      BY <2>2, <3>2, <3>3
  <2>4. ASSUME NEW r \in Requests, Fumbles(r) PROVE ChangesAreExplained'
    <3>1. PICK m : rest[r] = <<>> /\ rest' = [rest EXCEPT ![r] = m] /\ UNCHANGED untold
      BY <2>4 DEF Fumbles
    <3>2. ~\E u : Hears(u, <<>>)
      BY DEF Hears
    <3>3. untold[r] = {}
      BY <1>2, <3>1, <3>2 DEF ChangesAreExplained
    <3>4. untold' = [untold EXCEPT ![r] = {}]
      BY <2>1, <3>1, <3>3
    <3>5. QED
      BY <2>2, <3>1, <3>4
  <2>5. ASSUME NEW r \in Requests, Say(r) PROVE ChangesAreExplained'
    <3> DEFINE m == Head(rest[r])
               us == IF m.what = "event" THEN untold[r] ELSE untold[r] \ {m.to}
    <3>1. /\ rest[r] # <<>> /\ rest' = [rest EXCEPT ![r] = Tail(rest[r])]
          /\ untold' = [untold EXCEPT ![r] = us]
      BY <2>5 DEF Say
    <3>2. rest[r] \in Seq(Message)
      BY <2>1
    <3>3. ASSUME NEW u \in us PROVE Hears(u, Tail(rest[r]))
      <4>1. Hears(u, rest[r])
        BY <1>2, <3>3 DEF ChangesAreExplained
      <4>2. (u = m.to /\ m.what # "event") \/ Hears(u, Tail(rest[r]))
        BY <3>1, <3>2, <4>1, HeadOrTail
      <4>3. QED
        BY <3>3, <4>2
    <3> HIDE DEF us
    <3>4. QED
      BY <2>2, <3>1, <3>3
  <2>6. ASSUME NEW r \in Requests, Dies(r) PROVE ChangesAreExplained'
    <3>1. rest' = [rest EXCEPT ![r] = <<>>] /\ untold' = [untold EXCEPT ![r] = {}]
      BY <2>6 DEF Dies
    <3>2. QED
      BY <2>2, <3>1
  <2>7. ASSUME UNCHANGED <<rest, untold>> PROVE ChangesAreExplained'
    BY <1>2, <2>7 DEF ChangesAreExplained, Hears
  <2>8. QED
    BY <1>2, <2>3, <2>4, <2>5, <2>6, <2>7, Steps DEF vars
<1>3. QED
  BY <1>1, <1>2, InvHolds, PTL DEF Spec

-----------------------------------------------------------------------------
(* Events that are owed *)

\* The events for u that handlers with the messages f have still to send, and
\* where they are in the messages m of one of them.
Owing(f, u) ==
    {p \in Requests \X (1..6) : p[2] <= Len(f[p[1]]) /\ f[p[1]][p[2]] = Event(u)}

Places(m, u) == {i \in 1..6 : i <= Len(m) /\ m[i] = Event(u)}

\* Few handlers have something to send, and each of them little.
FewEvents ==
    /\ IsFiniteSet({r \in Requests : rest[r] # <<>>})
    /\ \A r \in Requests : Brief(rest[r])

LEMMA PlacesFacts ==
    ASSUME NEW m, Brief(m), NEW u
    PROVE  /\ IsFiniteSet(Places(m, u)) /\ Cardinality(Places(m, u)) \in 0..2
           /\ Cardinality(Places(m, u)) > 0 <=> Told(u, m)
<1>1. PICK i \in 0..6, j \in 0..6 : \A k \in 1..Len(m) : m[k] = Event(u) => k \in {i, j}
  BY DEF Brief, Twice
<1>2. Places(m, u) \in SUBSET {i, j}
  BY <1>1 DEF Places, Brief
<1>3. IsFiniteSet({i, j}) /\ Cardinality({i, j}) \in {1, 2}
  <2>1. IsFiniteSet({i}) /\ Cardinality({i}) = 1
    BY FS_Singleton
  <2>2. IsFiniteSet({i} \cup {j}) /\ Cardinality({i} \cup {j}) = IF j \in {i} THEN 1 ELSE 1 + 1
    BY <2>1, FS_AddElement
  <2>3. {i} \cup {j} = {i, j}
    OBVIOUS
  <2>4. QED
    BY <2>2, <2>3
<1>4. IsFiniteSet(Places(m, u)) /\ Cardinality(Places(m, u)) <= Cardinality({i, j})
  BY <1>2, <1>3, FS_Subset
<1>5. Cardinality(Places(m, u)) \in Nat
  BY <1>4, FS_CardinalityType
<1>6. Cardinality(Places(m, u)) = 0 <=> Places(m, u) = {}
  BY <1>4, FS_EmptySet
<1>7. Told(u, m) <=> Places(m, u) # {}
  <2>1. m \in Seq(Message) /\ Len(m) \in Nat /\ Len(m) <= 6
    BY DEF Brief
  <2>2. \A k : k \in 1..Len(m) <=> k \in 1..6 /\ k <= Len(m)
    BY <2>1
  <2>3. QED
    BY <2>2 DEF Places, Told
<1>8. Cardinality(Places(m, u)) \in 0..2
  BY <1>3, <1>4, <1>5
<1>9. Cardinality(Places(m, u)) > 0 <=> Told(u, m)
  BY <1>5, <1>6, <1>7
<1>10. QED
  BY <1>4, <1>8, <1>9

\* Of handlers some of which say nothing, one gets something to say.
LEMMA OwingFacts ==
    ASSUME NEW f, NEW g, NEW r \in Requests, f[r] = <<>>,
           \A q \in Requests : q # r => g[q] = f[q],
           Brief(g[r]), NEW u, IsFiniteSet(Owing(f, u))
    PROVE  /\ IsFiniteSet(Owing(g, u))
           /\ Cardinality(Owing(f, u)) \in Nat
           /\ Cardinality(Owing(g, u)) = Cardinality(Owing(f, u)) + Cardinality(Places(g[r], u))
<1> DEFINE P == Places(g[r], u)
           more == {<<r, i>> : i \in P}
           h == [i \in P |-> <<r, i>>]
<1>1. IsFiniteSet(P)
  BY PlacesFacts
<1>2. h \in Bijection(P, more)
  <2>1. h \in [P -> more]
    OBVIOUS
  <2>2. \A i, j \in P : h[i] = h[j] => i = j
    OBVIOUS
  <2>3. \A p \in more : \E i \in P : h[i] = p
    OBVIOUS
  <2> HIDE DEF h, more, P
  <2>4. QED
    BY <2>1, <2>2, <2>3 DEF Bijection, Injection, Surjection, IsInjective
<1>3. IsFiniteSet(more) /\ Cardinality(more) = Cardinality(P)
  <2>1. ExistsBijection(P, more)
    BY <1>2 DEF ExistsBijection
  <2> HIDE DEF P, more
  <2>2. QED
    BY <1>1, <2>1, FS_Bijection
<1>4. Owing(g, u) = Owing(f, u) \cup more
  <2>1. ASSUME NEW p \in Requests \X (1..6), p[1] = r
        PROVE  p \notin Owing(f, u) /\ (p \in Owing(g, u) <=> p \in more)
    <3>1. p \notin Owing(f, u)
      <4>1. Len(f[r]) = 0
        <5>1. Len(<<>>) = 0
          OBVIOUS
        <5>2. QED
          BY <5>1
      <4>2. p[2] \in 1..6
        OBVIOUS
      <4>3. ~(p[2] <= 0)
        BY <4>2
      <4>4. QED
        BY <2>1, <4>1, <4>3 DEF Owing
    <3>2. p = <<r, p[2]>> /\ p[2] \in 1..6
      BY <2>1
    <3>3. p \in more <=> p[2] \in P
      BY <3>2
    <3>4. p \in Owing(g, u) <=> p[2] \in P
      BY <2>1, <3>2 DEF Owing, Places
    <3>5. QED
      BY <3>1, <3>3, <3>4
  <2>2. ASSUME NEW p \in Requests \X (1..6), p[1] # r
        PROVE  p \notin more /\ (p \in Owing(g, u) <=> p \in Owing(f, u))
    <3>1. p[1] \in Requests
      OBVIOUS
    <3>2. g[p[1]] = f[p[1]]
      BY <2>2, <3>1
    <3>3. \A i : <<r, i>>[1] = r
      OBVIOUS
    <3>4. p \notin more
      BY <2>2, <3>3
    <3>5. QED
      BY <3>2, <3>4 DEF Owing
  <2>3. more \subseteq Requests \X (1..6)
    BY DEF Places
  <2>4. Owing(g, u) \subseteq Requests \X (1..6) /\ Owing(f, u) \subseteq Requests \X (1..6)
    BY DEF Owing
  <2> HIDE DEF more
  <2>5. QED
    BY <2>1, <2>2, <2>3, <2>4
<1>5. Owing(f, u) \cap more = {}
  <2>1. Len(<<>>) = 0
    OBVIOUS
  <2>2. \A i \in 1..6 : ~(i <= 0)
    OBVIOUS
  <2>3. ASSUME NEW i \in P PROVE <<r, i>> \notin Owing(f, u)
    <3>1. i \in 1..6 /\ <<r, i>>[1] = r /\ <<r, i>>[2] = i
      BY DEF Places
    <3>2. QED
      BY <2>1, <2>2, <3>1 DEF Owing
  <2>4. QED
    BY <2>3
<1> HIDE DEF P, more
<1>6. /\ IsFiniteSet(Owing(g, u))
      /\ Cardinality(Owing(g, u)) = Cardinality(Owing(f, u)) + Cardinality(more) - Cardinality({})
  BY <1>3, <1>4, <1>5, FS_Union
<1>7. Cardinality({}) = 0 /\ Cardinality(Owing(f, u)) \in Nat /\ Cardinality(more) \in Nat
  BY <1>3, FS_EmptySet, FS_CardinalityType
<1>8. QED
  BY <1>3, <1>6, <1>7 DEF P

LEMMA OwedIsFinite ==
    ASSUME FewEvents, NEW u
    PROVE  IsFiniteSet(Owing(rest, u)) /\ Owed(u) = Cardinality(Owing(rest, u)) /\ Owed(u) \in Nat
<1> DEFINE busy == {r \in Requests : rest[r] # <<>>}
<1>1. IsFiniteSet(busy)
  BY DEF FewEvents
<1>2. IsFiniteSet(1..6)
  <2>1. 1 \in Int /\ 6 \in Int
    OBVIOUS
  <2>2. QED
    BY <2>1, FS_Interval
<1>3. Owing(rest, u) \in SUBSET (busy \X (1..6))
  <2> SUFFICES ASSUME NEW p \in Owing(rest, u) PROVE p \in busy \X (1..6)
    OBVIOUS
  <2>1. p \in Requests \X (1..6) /\ p[2] <= Len(rest[p[1]])
    BY DEF Owing
  <2>2. p[1] \in Requests /\ p[2] \in 1..6 /\ p = <<p[1], p[2]>>
    BY <2>1
  <2>3. Len(<<>>) = 0
    OBVIOUS
  <2>4. ~(p[2] <= 0)
    BY <2>2
  <2>5. rest[p[1]] # <<>>
    BY <2>1, <2>3, <2>4
  <2>6. QED
    BY <2>2, <2>5
<1> HIDE DEF busy
<1>4. IsFiniteSet(busy \X (1..6))
  BY <1>1, <1>2, FS_Product
<1>5. IsFiniteSet(Owing(rest, u))
  BY <1>3, <1>4, FS_Subset
<1>6. Owed(u) = Cardinality(Owing(rest, u))
  BY DEF Owed, Owing
<1>7. QED
  BY <1>5, <1>6, FS_CardinalityType

\* A step of one handler changes what is owed by what it has to send.
LEMMA OwedChanges ==
    ASSUME FewEvents, NEW r \in Requests, \A q \in Requests : q # r => rest'[q] = rest[q],
           Brief(rest'[r]), NEW u
    PROVE  \E n \in Nat : /\ Owed(u) = n + Cardinality(Places(rest[r], u))
                          /\ Owed(u)' = n + Cardinality(Places(rest'[r], u))
<1> DEFINE f == [q \in Requests |-> IF q = r THEN <<>> ELSE rest[q]]
<1>1. /\ f[r] = <<>>
      /\ \A q \in Requests : q # r => rest[q] = f[q]
      /\ \A q \in Requests : q # r => rest'[q] = f[q]
  OBVIOUS
<1> HIDE DEF f
<1>2. IsFiniteSet(Owing(rest, u)) /\ Owed(u) = Cardinality(Owing(rest, u))
  BY OwedIsFinite
<1>3. IsFiniteSet(Owing(f, u))
  <2>1. Owing(f, u) \in SUBSET Owing(rest, u)
    <3> SUFFICES ASSUME NEW p \in Owing(f, u) PROVE p \in Owing(rest, u)
      OBVIOUS
    <3>1. p \in Requests \X (1..6) /\ p[2] <= Len(f[p[1]]) /\ f[p[1]][p[2]] = Event(u)
      BY DEF Owing
    <3>2. p[1] \in Requests /\ p[2] \in 1..6
      BY <3>1
    <3>3. Len(<<>>) = 0
      OBVIOUS
    <3>4. ~(p[2] <= 0)
      BY <3>2
    <3>5. p[1] # r
      BY <1>1, <3>1, <3>3, <3>4
    <3>6. QED
      BY <1>1, <3>1, <3>2, <3>5 DEF Owing
  <2>2. QED
    BY <1>2, <2>1, FS_Subset
<1>4. Brief(rest[r])
  BY DEF FewEvents
<1>5. /\ Cardinality(Owing(f, u)) \in Nat
      /\ Cardinality(Owing(rest, u)) = Cardinality(Owing(f, u)) + Cardinality(Places(rest[r], u))
  <2> DEFINE g == rest
  <2>1. f[r] = <<>> /\ (\A q \in Requests : q # r => g[q] = f[q]) /\ Brief(g[r])
    BY <1>1, <1>4
  <2> HIDE DEF g
  <2>2. /\ Cardinality(Owing(f, u)) \in Nat
        /\ Cardinality(Owing(g, u)) = Cardinality(Owing(f, u)) + Cardinality(Places(g[r], u))
    BY <1>3, <2>1, OwingFacts, SMTT(30)
  <2>3. QED
    BY <2>2 DEF g
<1>6. Cardinality(Owing(rest', u)) = Cardinality(Owing(f, u)) + Cardinality(Places(rest'[r], u))
  <2> DEFINE g == rest'
  <2>1. f[r] = <<>> /\ (\A q \in Requests : q # r => g[q] = f[q]) /\ Brief(g[r])
    BY <1>1
  <2> HIDE DEF g
  <2>2. Cardinality(Owing(g, u)) = Cardinality(Owing(f, u)) + Cardinality(Places(g[r], u))
    BY <1>3, <2>1, OwingFacts
  <2>3. QED
    BY <2>2 DEF g
<1>7. Owed(u)' = Cardinality(Owing(rest', u))
  BY DEF Owed, Owing
<1>8. QED
  BY <1>2, <1>5, <1>6, <1>7

LEMMA EmptyFacts ==
    /\ Brief(<<>>)
    /\ \A u : Places(<<>>, u) = {} /\ Cardinality(Places(<<>>, u)) = 0
<1>1. Len(<<>>) = 0 /\ Len(<<>>) <= 2 /\ <<>> \in Seq(Message)
  OBVIOUS
<1>2. Brief(<<>>)
  BY <1>1, ShortIsBrief
<1>3. \A u : Places(<<>>, u) = {}
  <2>1. \A i \in 1..6 : ~(i <= 0)
    OBVIOUS
  <2>2. QED
    BY <1>1, <2>1 DEF Places
<1>4. QED
  BY <1>2, <1>3, FS_EmptySet

\* What is sent first is owed no longer.
LEMMA TailFacts ==
    ASSUME NEW s, Brief(s), s # <<>>
    PROVE  /\ Brief(Tail(s))
           /\ \A u : Cardinality(Places(s, u)) =
                  Cardinality(Places(Tail(s), u)) + IF Head(s) = Event(u) THEN 1 ELSE 0
<1>1. s \in Seq(Message) /\ Len(s) \in Nat /\ Len(s) <= 6
  BY DEF Brief
<1> DEFINE m == Tail(s)
<1>2. /\ Head(s) = s[1] /\ m \in Seq(Message) /\ Len(m) = Len(s) - 1
      /\ \A i \in 1..Len(m) : m[i] = s[i + 1]
  BY <1>1, HeadTailProperties
<1>3. Len(s) >= 1
  BY <1>1, EmptySeq
<1> HIDE DEF m
<1>4. Twice(m)
  <2> SUFFICES ASSUME NEW u PROVE \E i, j \in 0..6 : \A k \in 1..Len(m) : m[k] = Event(u) => k \in {i, j}
    BY DEF Twice
  <2>1. PICK i \in 0..6, j \in 0..6 : \A k \in 1..Len(s) : s[k] = Event(u) => k \in {i, j}
    BY DEF Brief, Twice
  <2> DEFINE a == IF i = 0 THEN 0 ELSE i - 1
             b == IF j = 0 THEN 0 ELSE j - 1
  <2>2. a \in 0..6 /\ b \in 0..6
    OBVIOUS
  <2>3. ASSUME NEW k \in 1..Len(m), m[k] = Event(u) PROVE k \in {a, b}
    <3>1. k + 1 \in 1..Len(s) /\ k \in Nat
      BY <1>1, <1>2
    <3>2. s[k + 1] = Event(u)
      BY <1>2, <2>3
    <3>3. k + 1 = i \/ k + 1 = j
      BY <2>1, <3>1, <3>2
    <3>4. QED
      BY <3>1, <3>3
  <2> HIDE DEF a, b
  <2>4. QED
    BY <2>2, <2>3
<1>5. Brief(m)
  <2>1. Len(m) <= 6
    BY <1>1, <1>2
  <2>2. QED
    BY <1>2, <1>4, <2>1 DEF Brief
<1>6. ASSUME NEW u
      PROVE  Cardinality(Places(s, u)) = Cardinality(Places(m, u)) + IF Head(s) = Event(u) THEN 1 ELSE 0
  <2> DEFINE P == Places(s, u)
             Q == Places(m, u)
             h == [i \in Q |-> i + 1]
  <2>1. IsFiniteSet(P) /\ IsFiniteSet(Q) /\ Cardinality(P) \in Nat
    BY <1>5, PlacesFacts
  <2>2. 1 \in P <=> Head(s) = Event(u)
    BY <1>1, <1>2, <1>3 DEF Places
  <2>3. \A i : i \in Q <=> i \in Nat /\ i + 1 \in P \ {1}
    <3>1. ASSUME NEW i \in Q PROVE i \in Nat /\ i + 1 \in P \ {1}
      <4>1. i \in 1..Len(m) /\ m[i] = Event(u)
        BY <1>2 DEF Places
      <4>2. s[i + 1] = Event(u)
        BY <1>2, <4>1
      <4>3. i + 1 \in 1..6 /\ i + 1 <= Len(s) /\ i + 1 # 1 /\ i \in Nat
        BY <1>1, <1>2, <4>1
      <4>4. QED
        BY <4>2, <4>3 DEF Places
    <3>2. ASSUME NEW i \in Nat, i + 1 \in P \ {1} PROVE i \in Q
      <4>1. i + 1 \in 1..6 /\ i + 1 <= Len(s) /\ i + 1 # 1 /\ s[i + 1] = Event(u)
        BY <3>2 DEF Places
      <4>2. i \in 1..6 /\ i <= Len(m) /\ i \in 1..Len(m)
        BY <1>1, <1>2, <4>1
      <4>3. m[i] = Event(u)
        BY <1>2, <4>1, <4>2
      <4>4. QED
        BY <4>2, <4>3 DEF Places
    <3>3. QED
      BY <3>1, <3>2
  <2>4. \A k \in P \ {1} : k - 1 \in Nat /\ (k - 1) + 1 = k
    BY DEF Places
  <2> HIDE DEF P, Q
  <2>5. h \in Bijection(Q, P \ {1})
    <3>1. h \in [Q -> P \ {1}]
      BY <2>3
    <3>2. \A i, j \in Q : h[i] = h[j] => i = j
      BY <2>3
    <3>3. \A k \in P \ {1} : \E i \in Q : h[i] = k
      <4> SUFFICES ASSUME NEW k \in P \ {1} PROVE \E i \in Q : h[i] = k
        OBVIOUS
      <4>1. k - 1 \in Q /\ (k - 1) + 1 = k
        BY <2>3, <2>4
      <4>2. QED
        BY <4>1
    <3> HIDE DEF h
    <3>4. QED
      BY <3>1, <3>2, <3>3 DEF Bijection, Injection, Surjection, IsInjective
  <2>6. Cardinality(P \ {1}) = Cardinality(Q)
    <3>1. ExistsBijection(Q, P \ {1})
      BY <2>5 DEF ExistsBijection
    <3>2. QED
      BY <2>1, <3>1, FS_Bijection
  <2>7. Cardinality(P \ {1}) = IF 1 \in P THEN Cardinality(P) - 1 ELSE Cardinality(P)
    BY <2>1, FS_RemoveElement
  <2>8. QED
    BY <2>1, <2>2, <2>6, <2>7 DEF P, Q
<1>7. QED
  BY <1>5, <1>6 DEF m

LEMMA FewEventsInit == Init => FewEvents
<1> SUFFICES ASSUME Init PROVE FewEvents
  OBVIOUS
<1>1. \A r \in Requests : rest[r] = <<>>
  BY DEF Init
<1>2. {r \in Requests : rest[r] # <<>>} = {}
  BY <1>1
<1>3. QED
  BY <1>1, <1>2, EmptyFacts, FS_EmptySet DEF FewEvents

\* The messages of one handler change.
LEMMA OneHandler ==
    ASSUME Inv, NEW r \in Requests, NEW m, rest' = [rest EXCEPT ![r] = m]
    PROVE  rest'[r] = m /\ \A q \in Requests : q # r => rest'[q] = rest[q]
BY DEF Inv, TypeOK

LEMMA FewEventsStep ==
    ASSUME Inv, FewEvents, NEW r \in Requests, NEW m, Brief(m), rest' = [rest EXCEPT ![r] = m]
    PROVE  FewEvents'
<1> DEFINE busy == {q \in Requests : rest[q] # <<>>}
<1>1. rest'[r] = m /\ \A q \in Requests : q # r => rest'[q] = rest[q]
  BY OneHandler
<1>2. IsFiniteSet(busy \cup {r})
  BY FS_AddElement DEF FewEvents
<1>3. {q \in Requests : rest'[q] # <<>>} \in SUBSET (busy \cup {r})
  BY <1>1
<1>4. IsFiniteSet({q \in Requests : rest'[q] # <<>>})
  BY <1>2, <1>3, FS_Subset
<1>5. \A q \in Requests : Brief(rest'[q])
  BY <1>1 DEF FewEvents
<1>6. QED
  BY <1>4, <1>5 DEF FewEvents

LEMMA FewEventsKept == Inv /\ FewEvents /\ [Next]_vars => FewEvents'
<1> SUFFICES ASSUME Inv, FewEvents, [Next]_vars PROVE FewEvents'
  OBVIOUS
<1>1. ASSUME NEW r \in Requests, Speaks(r) PROVE FewEvents'
  <2>1. PICK u, m : Answer(r, u, m) /\ Brief(m)
    BY <1>1 DEF Speaks
  <2>2. rest' = [rest EXCEPT ![r] = m]
    BY <2>1 DEF Answer
  <2>3. QED
    BY <2>1, <2>2, FewEventsStep
<1>2. ASSUME NEW r \in Requests, Say(r) PROVE FewEvents'
  <2>1. rest[r] # <<>> /\ rest' = [rest EXCEPT ![r] = Tail(rest[r])]
    BY <1>2 DEF Say
  <2>2. Brief(Tail(rest[r]))
    BY <2>1, TailFacts DEF FewEvents
  <2>3. QED
    BY <2>1, <2>2, FewEventsStep
<1>3. ASSUME NEW r \in Requests, Dies(r) PROVE FewEvents'
  BY <1>3, EmptyFacts, FewEventsStep DEF Dies
<1>4. ASSUME NEW r \in Requests, Fumbles(r) PROVE FewEvents'
  <2>1. PICK m : rest' = [rest EXCEPT ![r] = m] /\ Brief(m)
    BY <1>4 DEF Fumbles
  <2>2. QED
    BY <2>1, FewEventsStep
<1>5. ASSUME UNCHANGED rest PROVE FewEvents'
  BY <1>5 DEF FewEvents
<1>6. QED
  BY <1>1, <1>2, <1>3, <1>4, <1>5, Steps DEF vars

-----------------------------------------------------------------------------
(* The promise to the web apps *)

LEMMA EntryTypes ==
    ASSUME NEW t \in Todo, Held(t)
    PROVE  /\ AuthorsEntry(t) \in Entry
           /\ t.holder \in Users /\ Shared(t) => HoldersEntry(t) \in Entry
<1>1. AuthorsEntry(t) \in Entry
  BY DEF AuthorsEntry, Entry, Todo
<1>2. Shared(t) => t.copy \in Ids
  BY DEF Held, Todo
<1>3. Shared(t) => HoldersEntry(t) \in Entry
  BY <1>2 DEF HoldersEntry, Entry, Todo
<1>4. QED
  BY <1>1, <1>3

LEMMA ViewTypes == Inv => \A u \in Users : View(u) \in SUBSET Entry
<1> SUFFICES ASSUME Inv, NEW u \in Users PROVE View(u) \in SUBSET Entry
  OBVIOUS
<1>1. \A t \in todos : /\ AuthorsEntry(t) \in Entry
                       /\ t.holder = u /\ Shared(t) => HoldersEntry(t) \in Entry
  BY EntryTypes DEF Inv, TypeOK, AllHeld
<1>2. QED
  BY <1>1 DEF View

\* What Refreshes calls lists and owed.
Lists == [u \in Users |-> View(u)]
Owes == [u \in Users |-> Owed(u)]

LEMMA PromiseInit == Init => Promise!ServerInit
<1> SUFFICES ASSUME Init PROVE Promise!ServerInit
  OBVIOUS
<1>1. Lists \in [Users -> SUBSET Entry]
  BY InitInv, ViewTypes DEF Lists
<1>2. \A u : Owing(rest, u) = {}
  <2>1. Len(<<>>) = 0
    OBVIOUS
  <2>2. \A p \in Requests \X (1..6) : rest[p[1]] = <<>> /\ ~(p[2] <= 0)
    BY DEF Init
  <2>3. QED
    BY <2>1, <2>2 DEF Owing
<1>3. \A u : Owed(u) = 0
  BY <1>2, FewEventsInit, OwedIsFinite, FS_EmptySet
<1>4. Owes = [u \in Users |-> 0]
  BY <1>3 DEF Owes
<1>5. QED
  BY <1>1, <1>4 DEF Promise!ServerInit, Lists, Owes, Init

\* A handler that had nothing to say has something: what is owed for it.
LEMMA SomethingToSay ==
    ASSUME Inv, FewEvents, NEW r \in Requests, rest[r] = <<>>, NEW m, Brief(m),
           rest' = [rest EXCEPT ![r] = m]
    PROVE  LET more == [u \in Users |-> Cardinality(Places(m, u))]
           IN  /\ more \in [Users -> 0..2]
               /\ Owes' = [u \in Users |-> Owes[u] + more[u]]
               /\ \A u \in Users : more[u] > 0 <=> Told(u, m)
<1>1. rest'[r] = m /\ \A q \in Requests : q # r => rest'[q] = rest[q]
  BY OneHandler
<1> DEFINE more == [u \in Users |-> Cardinality(Places(m, u))]
<1>2. more \in [Users -> 0..2] /\ \A u \in Users : more[u] > 0 <=> Told(u, m)
  BY PlacesFacts
<1>3. ASSUME NEW u \in Users PROVE Owed(u)' = Owed(u) + more[u]
  <2>1. PICK n \in Nat : /\ Owed(u) = n + Cardinality(Places(rest[r], u))
                         /\ Owed(u)' = n + Cardinality(Places(rest'[r], u))
    BY <1>1, OwedChanges
  <2>2. Cardinality(Places(rest[r], u)) = 0
    BY EmptyFacts
  <2>3. Cardinality(Places(rest'[r], u)) = more[u]
    BY <1>1
  <2> HIDE DEF more
  <2>4. QED
    BY <2>1, <2>2, <2>3
<1> HIDE DEF more
<1>4. Owes' = [u \in Users |-> Owes[u] + more[u]]
  BY <1>3 DEF Owes
<1>5. QED
  BY <1>2, <1>4 DEF more

LEMMA ListsTypes ==
    ASSUME Inv'
    PROVE  Lists' \in [Users -> SUBSET Entry]
<1>1. ASSUME NEW u \in Users PROVE View(u)' \in SUBSET Entry
  <2>1. \A t \in todos' : /\ AuthorsEntry(t) \in Entry
                          /\ t.holder = u /\ Shared(t) => HoldersEntry(t) \in Entry
    BY EntryTypes DEF Inv, TypeOK, AllHeld, Held, Shared
  <2>2. QED
    BY <2>1 DEF View, AuthorsEntry, HoldersEntry, Shared
<1>2. QED
  BY <1>1 DEF Lists

LEMMA SpeaksIsChange ==
    ASSUME Inv, Inv', FewEvents, NEW r \in Requests, Speaks(r)
    PROVE  Promise!Change
<1>1. PICK a, m : /\ rest[r] = <<>> /\ Answer(r, a, m) /\ Brief(m)
                  /\ \A u \in Users : View(u)' # View(u) => Told(u, m)
  BY DEF Speaks
<1>2. rest' = [rest EXCEPT ![r] = m] /\ UNCHANGED faults
  BY <1>1 DEF Answer
<1> DEFINE more == [u \in Users |-> Cardinality(Places(m, u))]
<1>3. /\ more \in [Users -> 0..2]
      /\ Owes' = [u \in Users |-> Owes[u] + more[u]]
      /\ \A u \in Users : more[u] > 0 <=> Told(u, m)
  BY <1>1, <1>2, SomethingToSay
<1> HIDE DEF more
<1>4. \A u \in Users : Lists'[u] # Lists[u] => more[u] > 0
  BY <1>1, <1>3 DEF Lists
<1>5. Lists' \in [Users -> SUBSET Entry]
  BY ListsTypes
<1>6. QED
  BY <1>2, <1>3, <1>4, <1>5 DEF Promise!Change, Lists, Owes

LEMMA FumbleIsHalfDone ==
    ASSUME Inv, Inv', FewEvents, NEW r \in Requests, Fumbles(r)
    PROVE  \E us \in SUBSET Users : Promise!HalfDone(us)
<1>1. PICK m : /\ rest[r] = <<>> /\ rest' = [rest EXCEPT ![r] = m] /\ Brief(m)
               /\ faults' = faults + 1
  BY DEF Fumbles
<1> DEFINE more == [u \in Users |-> Cardinality(Places(m, u))]
<1>2. /\ more \in [Users -> 0..2]
      /\ Owes' = [u \in Users |-> Owes[u] + more[u]]
  BY <1>1, SomethingToSay
<1> HIDE DEF more
<1>3. Lists' \in [Users -> SUBSET Entry]
  BY ListsTypes
<1>4. Promise!HalfDone(Users)
  BY <1>1, <1>2, <1>3 DEF Promise!HalfDone, Lists, Owes
<1>5. QED
  BY <1>4

LEMMA SayIsPublish ==
    ASSUME Inv, FewEvents, NEW r \in Requests, Say(r)
    PROVE  \/ \E u \in Users : Promise!Publish(u)
           \/ \E us \in SUBSET Users : Promise!HalfDone(us)
           \/ UNCHANGED Promise!serverVars
<1> DEFINE s == rest[r]
<1>1. s # <<>> /\ Brief(s) /\ rest' = [rest EXCEPT ![r] = Tail(s)] /\ UNCHANGED todos
  BY DEF Say, FewEvents
<1>1a. UNCHANGED faults \/ (faults' = faults + 1 /\ Head(s).what # "event")
  BY DEF Say, Fault
<1> HIDE DEF s
<1>2. rest'[r] = Tail(s) /\ \A q \in Requests : q # r => rest'[q] = rest[q]
  BY <1>1, OneHandler
<1>3. /\ Brief(Tail(s))
      /\ \A u : Cardinality(Places(s, u)) =
             Cardinality(Places(Tail(s), u)) + IF Head(s) = Event(u) THEN 1 ELSE 0
  BY <1>1, TailFacts
<1>4. ASSUME NEW u
      PROVE  /\ Owed(u) \in Nat /\ Owed(u)' \in Nat
             /\ Owed(u) = Owed(u)' + IF Head(s) = Event(u) THEN 1 ELSE 0
  <2>1. PICK n \in Nat : /\ Owed(u) = n + Cardinality(Places(rest[r], u))
                         /\ Owed(u)' = n + Cardinality(Places(rest'[r], u))
    BY <1>2, <1>3, OwedChanges
  <2> DEFINE a == Cardinality(Places(s, u))
             b == Cardinality(Places(Tail(s), u))
  <2>2. a \in Nat /\ b \in Nat /\ a = b + IF Head(s) = Event(u) THEN 1 ELSE 0
    BY <1>1, <1>3, PlacesFacts
  <2>3. Owed(u) = n + a /\ Owed(u)' = n + b
    BY <1>2, <2>1 DEF s
  <2> HIDE DEF a, b
  <2>4. QED
    BY <2>2, <2>3
<1>5. \A u \in Users : View(u)' = View(u)
  BY <1>1, SameViews
<1>6. Lists' = Lists
  BY <1>5 DEF Lists
<1>7. CASE \E u \in Users : Head(s) = Event(u)
  <2>1. PICK u \in Users : Head(s) = Event(u)
    BY <1>7
  <2>2. \A v \in Users : Event(v) = Event(u) => v = u
    <3>1. \A v : Event(v).to = v
      BY DEF Event
    <3>2. QED
      BY <3>1
  <2>3. Owed(u) > 0 /\ Owed(u)' = Owed(u) - 1
    BY <1>4, <2>1
  <2>4. \A v \in Users : v # u => Owed(v)' = Owed(v)
    BY <1>4, <2>1, <2>2
  <2>5. Owes' = [Owes EXCEPT ![u] = @ - 1] /\ Owes[u] > 0
    BY <2>3, <2>4 DEF Owes
  <2>6. UNCHANGED faults
    BY <1>1a, <2>1 DEF Event
  <2>7. Promise!Publish(u)
    BY <1>6, <2>5, <2>6 DEF Promise!Publish, Lists, Owes
  <2>8. QED
    BY <2>7
<1>8. CASE ~\E u \in Users : Head(s) = Event(u)
  <2>1. \A u \in Users : Owed(u)' = Owed(u)
    BY <1>4, <1>8
  <2>2. Owes' = Owes
    BY <2>1 DEF Owes
  <2>3. CASE UNCHANGED faults
    BY <1>6, <2>2, <2>3 DEF Promise!serverVars, Lists, Owes
  <2>4. CASE faults' = faults + 1
    <3> DEFINE none == [u \in Users |-> 0]
    <3>1. none \in [Users -> 0..2]
      OBVIOUS
    <3>2. Owes' = [u \in Users |-> Owes[u] + none[u]]
      <4>1. \A u \in Users : Owes[u] \in Nat /\ none[u] = 0
        BY <1>4 DEF Owes
      <4>2. Owes = [u \in Users |-> Owes[u]]
        BY DEF Owes
      <4> HIDE DEF none
      <4>3. QED
        BY <2>2, <4>1, <4>2
    <3>3. Lists' \in [Users -> SUBSET Entry] /\ \A u \in Users : Lists'[u] = Lists[u]
      BY <1>6, ViewTypes DEF Lists
    <3> HIDE DEF none
    <3>4. Promise!HalfDone({})
      BY <2>4, <3>1, <3>2, <3>3 DEF Promise!HalfDone, Lists, Owes
    <3>5. QED
      BY <3>4
  <2>5. QED
    BY <1>1a, <2>3, <2>4
<1>9. QED
  BY <1>7, <1>8

LEMMA DiesIsForget ==
    ASSUME Inv, FewEvents, NEW r \in Requests, Dies(r)
    PROVE  (\E us \in SUBSET Users : Promise!Forget(us)) \/ UNCHANGED Promise!serverVars
<1> DEFINE less == [u \in Users |-> Cardinality(Places(rest[r], u))]
           us == {u \in Users : less[u] > 0}
<1>1. rest' = [rest EXCEPT ![r] = <<>>] /\ UNCHANGED <<todos, faults>>
  BY DEF Dies
<1>2. rest'[r] = <<>> /\ \A q \in Requests : q # r => rest'[q] = rest[q]
  BY <1>1, OneHandler
<1>3. less \in [Users -> 0..2]
  BY PlacesFacts DEF FewEvents
<1>4. ASSUME NEW u \in Users
      PROVE  Owed(u) \in Nat /\ less[u] <= Owed(u) /\ Owed(u)' = Owed(u) - less[u]
  <2>1. PICK n \in Nat : /\ Owed(u) = n + Cardinality(Places(rest[r], u))
                         /\ Owed(u)' = n + Cardinality(Places(rest'[r], u))
    BY <1>2, EmptyFacts, OwedChanges
  <2>2. Cardinality(Places(rest'[r], u)) = 0
    BY <1>2, EmptyFacts
  <2>3. Owed(u) = n + less[u] /\ less[u] \in 0..2
    BY <1>3, <2>1
  <2> HIDE DEF less
  <2>4. QED
    BY <2>1, <2>2, <2>3
<1> HIDE DEF less
<1>5. \A u \in Users : View(u)' = View(u)
  BY <1>1, SameViews
<1>6. Lists' = Lists
  BY <1>5 DEF Lists
<1>7. Owes' = [u \in Users |-> Owes[u] - less[u]]
  BY <1>4 DEF Owes
<1>8. \A u \in Users : less[u] <= Owes[u] /\ (less[u] > 0 <=> u \in us)
  BY <1>4 DEF Owes
<1>9. CASE us = {}
  <2>1. \A u \in Users : Owed(u)' = Owed(u)
    <3>1. \A u \in Users : less[u] = 0
      BY <1>3, <1>9
    <3>2. QED
      BY <1>4, <3>1
  <2>2. Owes' = Owes
    BY <2>1 DEF Owes
  <2>3. QED
    BY <1>1, <1>6, <2>2 DEF Promise!serverVars, Lists, Owes
<1>10. CASE us # {}
  <2>1. us \in SUBSET Users
    OBVIOUS
  <2> HIDE DEF us
  <2>2. Promise!Forget(us)
    BY <1>1, <1>3, <1>6, <1>7, <1>8, <1>10 DEF Promise!Forget, Lists, Owes
  <2>3. QED
    BY <2>1, <2>2
<1>11. QED
  BY <1>9, <1>10

\* The handlers keep the promise on which the web apps rely: whoever's lists change
\* is owed a refresh event from then on, until it is sent or its handler dies,
\* unless a store call of the request has failed (sendRefreshEvent in every handler
\* of plugin.go and command.go).
THEOREM PromiseIsKept == Spec => NobodyIsForgotten
<1>1. Init => FewEvents /\ Promise!ServerInit
  BY FewEventsInit, PromiseInit
<1>2. ASSUME Inv, Inv', FewEvents, [Next]_vars PROVE [Promise!ServerNext]_(Promise!serverVars)
  <2>1. ASSUME NEW r \in Requests, Speaks(r) PROVE Promise!ServerNext
    BY <1>2, <2>1, SpeaksIsChange DEF Promise!ServerNext
  <2>2. ASSUME NEW r \in Requests, Fumbles(r) PROVE Promise!ServerNext
    BY <1>2, <2>2, FumbleIsHalfDone DEF Promise!ServerNext
  <2>3. ASSUME NEW r \in Requests, Say(r) PROVE [Promise!ServerNext]_(Promise!serverVars)
    BY <1>2, <2>3, SayIsPublish DEF Promise!ServerNext
  <2>4. ASSUME NEW r \in Requests, Dies(r) PROVE [Promise!ServerNext]_(Promise!serverVars)
    BY <1>2, <2>4, DiesIsForget DEF Promise!ServerNext
  <2>5. ASSUME UNCHANGED <<todos, rest, faults>> PROVE UNCHANGED Promise!serverVars
    BY <2>5 DEF Promise!serverVars, View, AuthorsEntry, HoldersEntry, Shared, Owed
  <2>6. QED
    BY <1>2, <2>1, <2>2, <2>3, <2>4, <2>5, Steps DEF vars
<1>3. Inv /\ FewEvents /\ [Next]_vars => FewEvents'
  BY FewEventsKept
<1>4. QED
  BY <1>1, <1>2, <1>3, InvHolds, PTL DEF Spec, NobodyIsForgotten, Promise!ServerSpec
=============================================================================
