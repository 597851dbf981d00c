-------------------------------- MODULE Handlers --------------------------------
(***************************************************************************)
(* What the HTTP handlers and the slash command do around the list         *)
(* manager: which request may reach whom, and who is told of it how.  A    *)
(* handler calls the list manager once and then sends refresh events, the  *)
(* bot's messages and its replies in threads one by one; other handlers    *)
(* run in between.                                                         *)
(*                                                                         *)
(* The call is one step here, on todos as SharedTodos has them: that the   *)
(* manager's calls amount to that is ListManager's matter.  At most one    *)
(* store call of it fails, so that what AddIssue, SendIssue and            *)
(* AcceptIssue do to undo what they did works; a call that fails with      *)
(* nothing changed is left out.  Those that stay half done are here, with  *)
(* whom they tell.  Positions in lists are left out of what users see, and *)
(* references to records that are gone.                                    *)
(***************************************************************************)
EXTENDS Naturals, Sequences, FiniteSets

CONSTANTS
    Users,
    Requests,   \* requests the server can work on at the same time
    Texts,      \* messages of todos
    Threads,    \* posts a todo can be attached to
    NoUser, NoThread,
    MaxIds,     \* bound: todo ids handed out
    MaxCalls,   \* bound: requests
    MaxDeaths,  \* bound: handlers that die
    MaxFaults   \* bound: calls of the store, or to post a message, that fail

Ids == 1..MaxIds
NoId == 0

ASSUME BoundsAssumption ==
    MaxIds \in Nat /\ MaxCalls \in Nat /\ MaxDeaths \in Nat /\ MaxFaults \in Nat
ASSUME SentinelAssumption == NoUser \notin Users /\ NoThread \notin Threads
ASSUME TextsAssumption == Texts # {}

VARIABLES
    todos,      \* the todos: id is the author's, copy the holder's
    born,       \* ids handed out so far
    allow,      \* allow[u]: u lets others send todos
    sending,    \* sending[r]: a todo whose receiver's preference has been read
    rest,       \* rest[r]: what the handler of r has still to send
    buttons,    \* the bot's posts with buttons: to whom, for which todo
    calls, deaths, faults,  \* so far
    untold,     \* history: untold[r]: whose lists r has changed, not his own, and
                \*          the bot has not tried to tell
    dropped     \* history: posts with buttons that failed or died with their handler

vars == <<todos, born, allow, sending, rest, buttons, calls, deaths, faults, untold, dropped>>

\* A "lost" todo is still on its author's outgoing list, with a copy that is on
\* no list, or is gone (NoId).  `text' is the author's, `copyText' the holder's.
\* `from' is history: the thread of the request that made the todo; `via' too:
\* how it came to its holder.
Todo ==
    [id : Ids, copy : Ids \cup {NoId}, author : Users, holder : Users \cup {NoUser},
     state : {"own", "pending", "accepted", "lost"}, text : Texts, copyText : Texts,
     thread : Threads \cup {NoThread}, from : Threads \cup {NoThread},
     via : {"None", "Send", "Assign"}]

NotSending == [user |-> NoUser, to |-> NoUser]

\* What a handler sends.
Event(u) == [what |-> "event", to |-> u, about |-> NoId]      \* sendRefreshEvent
Note(u) == [what |-> "note", to |-> u, about |-> NoId]        \* PostBotDM
Ask(u, id) == [what |-> "buttons", to |-> u, about |-> id]    \* PostBotCustomDM

Message ==
    [what : {"event", "note"}, to : Users, about : {NoId}]
        \cup [what : {"buttons"}, to : Users, about : Ids]
        \cup [what : {"reply"}, to : Threads, about : {NoId}]

\* postReplyIfNeeded
Reply(thread) ==
    IF thread # NoThread THEN <<[what |-> "reply", to |-> thread, about |-> NoId]>> ELSE <<>>

Init ==
    /\ todos = {}
    /\ born = 0
    /\ allow = [u \in Users |-> TRUE]
    /\ sending = [r \in Requests |-> NotSending]
    /\ rest = [r \in Requests |-> <<>>]
    /\ buttons = {}
    /\ calls = 0 /\ deaths = 0 /\ faults = 0
    /\ untold = [r \in Requests |-> {}]
    /\ dropped = {}

-----------------------------------------------------------------------------
(* What users see *)

Entry ==
    [id : Ids, list : {"my", "in", "out"}, text : Texts, other : Users \cup {NoUser},
     state : {"own", "pending", "accepted", "lost"}]

AuthorsEntry(t) ==
    [id |-> t.id, list |-> IF t.state = "own" THEN "my" ELSE "out", text |-> t.text,
     other |-> t.holder, state |-> t.state]

HoldersEntry(t) ==
    [id |-> t.copy, list |-> IF t.state = "pending" THEN "in" ELSE "my", text |-> t.copyText,
     other |-> t.author, state |-> t.state]

\* t is on the list of its holder.
Shared(t) == t.state \in {"pending", "accepted"}

\* handleLists
View(u) ==
    {AuthorsEntry(t) : t \in {x \in todos : x.author = u}}
        \cup {HoldersEntry(t) : t \in {x \in todos : x.holder = u /\ Shared(x)}}

-----------------------------------------------------------------------------

\* The list manager has done what u asked for; the handler has these messages to
\* send.
Answer(r, u, messages) ==
    /\ rest' = [rest EXCEPT ![r] = messages]
    /\ untold' = [untold EXCEPT ![r] = {v \in Users \ {u} : View(v)' # View(v)}]
    /\ UNCHANGED <<allow, buttons, deaths, faults, dropped>>

Fault == faults < MaxFaults /\ faults' = faults + 1

\* A store call has failed, and these are the messages that are sent all the same:
\* none, if the list manager returns the error.
Botched(r, messages) ==
    /\ Fault
    /\ rest' = [rest EXCEPT ![r] = messages]
    /\ UNCHANGED <<allow, buttons, deaths, untold, dropped>>

\* One request more.
Begin(r) ==
    /\ rest[r] = <<>> /\ sending[r] = NotSending
    /\ calls < MaxCalls /\ calls' = calls + 1

Becomes(t, new) == todos' = (todos \ {t}) \cup {new}

\* The foreign user of the reference by which u has t.
Other(t, u) == IF u = t.author THEN t.holder ELSE t.author

\* Messages for a user there may be none of.
If(u, messages) == IF u # NoUser THEN messages ELSE <<>>

New(id, u, thread, from) ==
    [id |-> id, copy |-> NoId, author |-> u, holder |-> NoUser, state |-> "own",
     text |-> CHOOSE x \in Texts : TRUE, copyText |-> CHOOSE x \in Texts : TRUE,
     thread |-> thread, from |-> from, via |-> "None"]

\* handleAdd without a receiver; /todo add, which has no thread.
AddIssue(r, u) ==
    /\ Begin(r) /\ born < MaxIds
    /\ \E thread \in Threads \cup {NoThread} :
          /\ todos' = todos \cup {New(born + 1, u, thread, thread)}
          /\ Answer(r, u, <<Event(u)>> \o Reply(thread))
    /\ born' = born + 1
    /\ UNCHANGED sending

\* handleAdd with oneself for a receiver.  The call has its arguments in another
\* order than the parameters: the permalink becomes the id of the post, which
\* is the id of none.
AddToOneself(r, u) ==
    /\ Begin(r) /\ born < MaxIds
    /\ \E thread \in Threads \cup {NoThread} :
          /\ todos' = todos \cup {New(born + 1, u, NoThread, thread)}
          /\ Answer(r, u, <<Event(u)>> \o Reply(thread))
    /\ born' = born + 1
    /\ UNCHANGED sending

\* handleAdd for somebody else, /todo send: first whether he wants it is read.
\* Not to know it is as good as a yes.
AskPreference(r, u, v) ==
    /\ Begin(r) /\ u # v /\ born + 2 <= MaxIds
    /\ (allow[v] /\ UNCHANGED faults) \/ Fault
    /\ sending' = [sending EXCEPT ![r] = [user |-> u, to |-> v]]
    /\ UNCHANGED <<todos, born, allow, rest, buttons, deaths, untold, dropped>>

\* "has blocked Todo requests"
Blocked(r, u, v) ==
    /\ Begin(r) /\ u # v /\ ~allow[v]
    /\ UNCHANGED <<todos, born, sending>>
    /\ Answer(r, u, <<Note(u)>>)

\* A slip: the post is for the sender's todo.
Offer_Senders(v, id, copy) == Ask(v, id)

\* The receiver's post, with the id SendIssue returns.
Offer(v, id, copy) == Ask(v, copy)

\* ... then SendIssue is called.
SendIssue(r) ==
    LET u == sending[r].user
        v == sending[r].to
    IN
    /\ sending[r] # NotSending
    /\ born + 2 <= MaxIds
    /\ \E thread \in Threads \cup {NoThread} :
          /\ todos' = todos \cup {[New(born + 1, u, thread, thread) EXCEPT
                      !.copy = born + 2, !.holder = v, !.state = "pending", !.via = "Send"]}
          /\ Answer(r, u, <<Event(u), Event(v), Offer(v, born + 1, born + 2)>> \o Reply(thread))
    /\ born' = born + 2
    /\ sending' = [sending EXCEPT ![r] = NotSending]
    /\ UNCHANGED calls

\* ... or fails to be, and what it did is undone.
SendFails(r) ==
    /\ sending[r] # NotSending
    /\ sending' = [sending EXCEPT ![r] = NotSending]
    /\ Botched(r, <<>>)
    /\ UNCHANGED <<todos, born, calls>>

\* The todo as u and the other user have it is written, the other's copy first.
\* If that fails it is only logged; if u's own fails, nobody is told.
EditIssue(r, u, t) ==
    LET f == Other(t, u)
        messages == <<Event(u)>> \o If(f, <<Event(f), Note(f)>>)
        Written(own, foreign) ==
            IF u = t.author THEN [t EXCEPT !.text = own, !.copyText = foreign]
                            ELSE [t EXCEPT !.text = foreign, !.copyText = own]
        own == IF u = t.author THEN t.text ELSE t.copyText
        foreign == IF u = t.author THEN t.copyText ELSE t.text
    IN
    /\ Begin(r)
    /\ u = t.author \/ (u = t.holder /\ Shared(t))
    /\ \E text \in Texts :
          \/ Becomes(t, Written(text, text)) /\ Answer(r, u, messages)
          \/ f # NoUser /\ Becomes(t, Written(text, foreign)) /\ Botched(r, messages)
          \/ f # NoUser /\ Becomes(t, Written(own, text)) /\ Botched(r, <<>>)
    /\ UNCHANGED <<born, sending>>

\* A slip: whoever had the todo hears nothing.
Removed_Silent(old) == <<>>

\* The old owner is told.
Removed(old) == If(old, <<Event(old), Note(old)>>)

Lost(t, v, copy) == [t EXCEPT !.holder = v, !.copy = copy, !.state = "lost"]

\* handleChangeAssignment: the author takes his todo back.  The other's copy goes
\* first, then the author's entry moves: it may stay where it was, or, taken from
\* one list, not get to the other.
TakeBack(r, u, t) ==
    /\ Begin(r) /\ u = t.author /\ Shared(t)
    /\ \/ /\ Becomes(t, [t EXCEPT !.copy = NoId, !.holder = NoUser, !.state = "own", !.via = "None"])
          /\ Answer(r, u, <<Event(u)>> \o Removed(t.holder))
       \/ Becomes(t, Lost(t, t.holder, NoId)) /\ Botched(r, <<>>)
       \/ todos' = todos \ {t} /\ Botched(r, <<>>)
    /\ UNCHANGED <<born, sending>>

\* ... or gives it to somebody, whatever he allows.  The post with buttons is for
\* the todo the request names, which is the author's.  Here, too, the author's
\* entry may stay or not arrive; or the new receiver's may not.
ChangeAssignment(r, u, t, v) ==
    /\ Begin(r) /\ u = t.author /\ v # u /\ t.state # "lost" /\ born < MaxIds
    /\ \/ /\ Becomes(t, [t EXCEPT !.copy = born + 1, !.copyText = t.text, !.holder = v,
                                  !.state = "pending", !.via = "Assign"])
          /\ Answer(r, u, <<Event(u), Event(v), Ask(v, t.id)>> \o Removed(t.holder))
       \/ Shared(t) /\ Becomes(t, Lost(t, t.holder, NoId)) /\ Botched(r, <<>>)
       \/ todos' = todos \ {t} /\ Botched(r, <<>>)
       \/ Becomes(t, Lost([t EXCEPT !.copyText = t.text], v, born + 1)) /\ Botched(r, <<>>)
    /\ born' = born + 1
    /\ UNCHANGED sending

\* A slip: only the user who accepts is told.
Accepted_Own(u, sender) == <<Event(u)>>

Accepted(u, sender) == <<Event(u), Event(sender), Note(sender)>>

AcceptIssue(r, u, t) ==
    /\ Begin(r) /\ u = t.holder /\ t.state = "pending"
    /\ Becomes(t, [t EXCEPT !.state = "accepted"])
    /\ Answer(r, u, Accepted(u, t.author))
    /\ UNCHANGED <<born, sending>>

\* handleComplete, handleRemove, /todo pop.  The last of them, which takes a todo
\* of one's own list, speaks to the other user first.  Without the record they
\* quote - the other's, if there is one - the handlers panic after one event.
EndIssue(r, u, t) ==
    LET f == Other(t, u)
        told == If(f, <<Event(f), Note(f)>>)
        popped == t.state = "own" \/ (u = t.holder /\ t.state = "accepted")
        gone == t.state = "lost" /\ t.copy = NoId
    IN
    /\ Begin(r)
    /\ u = t.author \/ (u = t.holder /\ Shared(t))
    /\ todos' = todos \ {t}
    /\ \/ ~gone /\ Answer(r, u, <<Event(u)>> \o Reply(t.thread) \o told)
       \/ popped /\ Answer(r, u, told \o <<Event(u)>> \o Reply(t.thread))
       \/ gone /\ Answer(r, u, <<Event(u)>>)
       \/ ~gone /\ Botched(r, <<Event(u)>>)
       \/ popped /\ f # NoUser /\ Botched(r, <<Event(f)>>)
    /\ UNCHANGED <<born, sending>>

\* Of a todo that is no longer in the inbox, too, if there is another to move.
BumpIssue(r, u, t) ==
    /\ Begin(r) /\ u = t.author /\ t.copy # NoId
    /\ \E x \in todos : x.holder = t.holder /\ x.state = "pending"
    /\ UNCHANGED <<todos, born, sending>>
    /\ Answer(r, u, <<Event(t.holder), Offer(t.holder, t.id, t.copy)>>)

\* /todo list
ListIssues(r, u) ==
    /\ Begin(r)
    /\ UNCHANGED <<todos, born, sending>>
    /\ Answer(r, u, <<Event(u)>>)

\* /todo settings allow_incoming_task_requests
SetPreference(u) ==
    /\ calls < MaxCalls
    /\ allow' = [allow EXCEPT ![u] = ~@]
    /\ calls' = calls + 1
    /\ UNCHANGED <<todos, born, sending, rest, buttons, deaths, faults, untold, dropped>>

\* The next message goes out.  To post may fail, which is only logged; the handler
\* goes on.
Say(r) ==
    LET m == Head(rest[r])
        said == IF m.what = "buttons" THEN {m} ELSE {}
    IN
    /\ rest[r] # <<>>
    /\ rest' = [rest EXCEPT ![r] = Tail(@)]
    /\ untold' = [untold EXCEPT ![r] = IF m.what = "event" THEN @ ELSE @ \ {m.to}]
    /\ \/ buttons' = buttons \cup said /\ UNCHANGED <<dropped, faults>>
       \/ m.what # "event" /\ dropped' = dropped \cup said /\ Fault /\ UNCHANGED buttons
    /\ UNCHANGED <<todos, born, allow, sending, calls, deaths>>

\* A panic, withRecovery or not, or the end of the plugin.
Dies(r) ==
    /\ deaths < MaxDeaths
    /\ rest[r] # <<>>
    /\ deaths' = deaths + 1
    /\ rest' = [rest EXCEPT ![r] = <<>>]
    /\ untold' = [untold EXCEPT ![r] = {}]
    /\ dropped' = dropped \cup {rest[r][i] : i \in {k \in 1..Len(rest[r]) : rest[r][k].what = "buttons"}}
    /\ UNCHANGED <<todos, born, allow, sending, buttons, calls, faults>>

Call(r) ==
    \/ \E u \in Users : AddIssue(r, u) \/ AddToOneself(r, u) \/ ListIssues(r, u)
    \/ \E u, v \in Users : AskPreference(r, u, v) \/ Blocked(r, u, v)
    \/ \E u \in Users, t \in todos :
        \/ EditIssue(r, u, t) \/ TakeBack(r, u, t) \/ AcceptIssue(r, u, t)
        \/ EndIssue(r, u, t) \/ BumpIssue(r, u, t)
        \/ \E v \in Users : ChangeAssignment(r, u, t, v)

Next ==
    \/ \E r \in Requests : Call(r) \/ SendIssue(r) \/ SendFails(r) \/ Say(r) \/ Dies(r)
    \/ \E u \in Users : SetPreference(u)

Spec == Init /\ [][Next]_vars

-----------------------------------------------------------------------------
(* Properties *)

TypeOK ==
    /\ todos \subseteq Todo
    /\ born \in 0..MaxIds
    /\ allow \in [Users -> BOOLEAN]
    /\ sending \in [Requests -> [user : Users \cup {NoUser}, to : Users \cup {NoUser}]]
    /\ rest \in [Requests -> Seq(Message)]
    /\ buttons \subseteq Message /\ dropped \subseteq Message
    /\ calls \in 0..MaxCalls /\ deaths \in 0..MaxDeaths /\ faults \in 0..MaxFaults
    /\ untold \in [Requests -> SUBSET Users]

\* The events for u that handlers have still to send.
Owed(u) ==
    Cardinality({p \in Requests \X (1..6) :
        p[2] <= Len(rest[p[1]]) /\ rest[p[1]][p[2]] = Event(u)})

Promise == INSTANCE Refreshes WITH
    Views <- SUBSET Entry,
    MostEvents <- 2,
    lists <- [u \in Users |-> View(u)],
    owed <- [u \in Users |-> Owed(u)],
    failures <- faults

\* Whoever's lists a request changes is owed a refresh event for it, from the
\* change on, whatever other handlers do before it is sent, unless a store call
\* of the request fails: what WebSync takes for granted of the server.
NobodyIsForgotten == Promise!ServerSpec

Hears(u, messages) == \E i \in 1..Len(messages) : messages[i].to = u /\ messages[i].what # "event"

\* Whoever's lists somebody else's request changes is told of it by the bot, who
\* says what happened to the todo: as long as it has not tried, the message is
\* still to be sent, unless the handler dies or a store call of it has failed.
ChangesAreExplained == \A r \in Requests : \A u \in untold[r] : Hears(u, rest[r])

\* A todo that was sent and waits for an answer can be answered from a post of
\* the bot, there or about to be, unless this very post failed or died with its
\* handler.  (Todos that were reassigned cannot: their posts are about the
\* author's todo.)
RequestsCanBeAnswered ==
    \A t \in todos : t.state = "pending" /\ t.via = "Send" =>
        \/ Ask(t.holder, t.copy) \in buttons \cup dropped
        \/ \E r \in Requests : \E i \in 1..Len(rest[r]) : rest[r][i] = Ask(t.holder, t.copy)

\* plugin.go:33 "AddIssue(userID, message, postPermalink, description, postID
\* string)": a todo is attached to the post its request named.
ThreadIsKept == \A t \in todos : t.thread = t.from
=============================================================================
