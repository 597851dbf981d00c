------------------------------- MODULE TodoPanel -------------------------------
(***************************************************************************)
(* The todos on one user's screen: TodoItem and its CompleteButton, the    *)
(* toast that offers to undo, and the todo post of the bot.  Completing    *)
(* and deleting are delayed by timers so that they can be undone; the      *)
(* timers outlive the components that set them.                            *)
(*                                                                         *)
(* Time goes in seconds: Tick is one of them, and no second passes while   *)
(* a timer is due.  A press of the complete or the delete button is        *)
(* followed from the click to the request, or to its undo.  The lists on   *)
(* the screen follow the server's by Refresh, whose races are WebSync's.   *)
(***************************************************************************)
EXTENDS Integers, FiniteSets, Screen

CONSTANTS
    Texts,         \* message and description of a todo, taken together
    NoText,        \* the draft of an item that is not on the screen
    Pending,       \* the sent todos that wait in the receiver's inbox
    MaxPresses,    \* bound: presses of a complete or delete button
    MaxMounts,     \* bound: times a todo comes onto the screen
    MaxLost,       \* bound: requests that never reach the server
    MarkDelay, SendDelay, ToastDelay    \* seconds

Presses == 1..MaxPresses
NoPress == 0

ASSUME BoundsAssumption ==
    MaxPresses \in Nat /\ MaxMounts \in Nat /\ MaxLost \in Nat
ASSUME DelaysAssumption ==
    /\ MarkDelay \in Nat /\ SendDelay \in Nat /\ ToastDelay \in Nat
    /\ ToastDelay <= SendDelay
ASSUME TextAssumption == NoText \notin Texts

VARIABLES
    stored,     \* stored[t]: the list and text of t on the server
    shown,      \* shown[t]: the same, as last fetched (allIssues)
    view,       \* "closed", or the list the open sidebar shows
    item,       \* item[t]: the state of t's TodoItem
    press,      \* press[p]: a press, and the timer it is waiting for
    made,       \* presses made so far
    toast,      \* the press whose undo the toast offers (todoToast)
    toastLeft,  \* seconds left on the timer of the mounted toast
    lost,       \* requests lost so far
    undone,     \* history: presses undone before they were sent
    regretted,  \* history: presses whose undo was clicked, in time or not
    reopened,   \* history: the sidebar was opened after the toast was set
    mine        \* history: the todos whose stored text is one the user saved here

vars == <<stored, shown, view, item, press, made, toast, toastLeft, lost,
          undone, regretted, reopened, mine>>
history == <<undone, regretted, reopened, mine>>

\* The useState of a TodoItem, the number of its mount, and three history fields:
\* whether the user typed since, whether somebody else has changed the text that
\* the item was given, and whether it was given one the user had replaced.
Unmounted(n) ==
    [n |-> n, done |-> FALSE, hidden |-> FALSE, editing |-> FALSE, draft |-> NoText,
     typed |-> FALSE, others |-> FALSE, early |-> FALSE]

\* A slip: the form starts empty.
Fresh_Empty(n, text, current, own) == Unmounted(n)

\* A TodoItem as it is mounted: the draft is the text it is given then, and
\* is not changed by any text it is given later.
Fresh(n, text, current, own) ==
    [Unmounted(n) EXCEPT !.draft = text, !.others = text # current /\ ~own,
                         !.early = text # current /\ own]

\* The "my" view shows the inbox too.
OnScreen(v, s, t) ==
    \/ v = "my" /\ s[t].list \in {"my", "in"}
    \/ v = "out" /\ s[t].list = "out"

Mounted(t) == OnScreen(view, shown, t)

\* Items are keyed by their todo: they stay mounted as long as the todo is on
\* the screen and in the same list.
Remounted(t, v, s) ==
    LET stays == Mounted(t) /\ shown[t].list = s[t].list IN
    CASE ~OnScreen(v, s, t) -> Unmounted(item[t].n)
      [] OnScreen(v, s, t) /\ stays -> item[t]
      [] OTHER -> Fresh(item[t].n + 1, s[t].text, stored[t].text, t \in mine)

\* The sidebar comes to show view v of the lists s.
Render(v, s) ==
    /\ view' = v
    /\ shown' = s
    /\ item' = [t \in Todos |-> Remounted(t, v, s)]
    /\ \A t \in Todos : item'[t].n <= MaxMounts

Running(p) == press[p].stage \in {"marking", "waiting"}

NoTimer == [todo |-> CHOOSE t \in Todos : TRUE, n |-> 0, kind |-> "complete",
            stage |-> "none", left |-> 0]

Init ==
    /\ stored \in [Todos -> [list : Lists \cup {"gone"}, text : Texts]]
    /\ shown = stored
    /\ view = "closed"
    /\ item = [t \in Todos |-> Unmounted(0)]
    /\ press = [p \in Presses |-> NoTimer]
    /\ made = 0
    /\ toast = NoPress
    /\ toastLeft = 0
    /\ lost = 0
    /\ undone = {} /\ regretted = {} /\ reopened = FALSE /\ mine = {}

-----------------------------------------------------------------------------
(* What an item offers (utils.js and the markup of TodoItem).  Nobody      *)
(* presses what is hidden; the menu is not shown while a todo is edited.   *)

CanComplete(t) == shown[t].list \in {"my", "in"}
CanRemove(t) == shown[t].list \in {"my", "in"} \/ t \in Pending
CanAccept(t) == shown[t].list = "in"

Offered(t) == Mounted(t) /\ ~item[t].hidden
InMenu(t) == Offered(t) /\ ~item[t].editing

-----------------------------------------------------------------------------
(* The toast *)

ToastOnScreen == toast # NoPress /\ view # "closed"

\* openTodoToast.  A toast that is already on the screen gets another content
\* and keeps its timer, which is set when it is mounted and only then.
OpenToast(p) ==
    /\ toast' = p
    /\ toastLeft' = IF ToastOnScreen THEN toastLeft
                    ELSE IF view # "closed" THEN ToastDelay ELSE 0
    /\ reopened' = FALSE

\* A slip: the content stays in the store.
CloseToast_KeepsContent ==
    /\ toast' = toast
    /\ toastLeft' = 0
    /\ reopened' = FALSE

\* closeTodoToast
CloseToast ==
    /\ toast' = NoPress
    /\ toastLeft' = 0
    /\ reopened' = FALSE

\* The timer of the toast, or its close button.
DismissToast ==
    /\ ToastOnScreen
    /\ CloseToast
    /\ UNCHANGED <<stored, shown, view, item, press, made, lost, undone, regretted, mine>>

-----------------------------------------------------------------------------
(* Completing and deleting *)

\* What a request does on the server: a todo that is gone is an error there.
Ended(t) == [stored EXCEPT ![t].list = "gone"]

NewPress(t, kind, stage, left) ==
    /\ made < MaxPresses
    /\ made' = made + 1
    /\ press' = [press EXCEPT ![made + 1] =
            [todo |-> t, n |-> item[t].n, kind |-> kind, stage |-> stage, left |-> left]]

\* CompleteButton: the item is marked at once, the toast follows.  The button
\* can be clicked again in between.
MarkAsDone(t) ==
    /\ Offered(t) /\ CanComplete(t)
    /\ NewPress(t, "complete", "marking", MarkDelay)
    /\ item' = [item EXCEPT ![t].done = TRUE]
    /\ UNCHANGED <<stored, shown, view, toast, toastLeft, lost, history>>

Live(p) == Mounted(press[p].todo) /\ item[press[p].todo].n = press[p].n

\* Hide the item, if it is still the one that was pressed.
SetHidden(p, hide) ==
    IF Live(p) THEN [item EXCEPT ![press[p].todo].hidden = hide] ELSE item

\* Timers of the same length run out in the order in which they were set.
NextInLine(p) == \A q \in 1 .. p - 1 : press[q].stage # "marking"

\* A slip: the request waits a second less than its toast.
CompleteToast_TooSoon(p) ==
    /\ press[p].stage = "marking" /\ press[p].kind = "complete"
    /\ press[p].left = 0 /\ NextInLine(p)
    /\ press' = [press EXCEPT ![p].stage = "waiting", ![p].left = SendDelay - 1]
    /\ OpenToast(p)
    /\ item' = SetHidden(p, TRUE)
    /\ UNCHANGED <<stored, shown, view, made, lost, undone, regretted, mine>>

\* completeToast, by the button's timer.
CompleteToast(p) ==
    /\ press[p].stage = "marking" /\ press[p].kind = "complete"
    /\ press[p].left = 0 /\ NextInLine(p)
    /\ press' = [press EXCEPT ![p].stage = "waiting", ![p].left = SendDelay]
    /\ OpenToast(p)
    /\ item' = SetHidden(p, TRUE)
    /\ UNCHANGED <<stored, shown, view, made, lost, undone, regretted, mine>>

\* removeTodo, from the menu.
RemoveTodo(t) ==
    /\ InMenu(t) /\ CanRemove(t)
    /\ NewPress(t, "remove", "waiting", SendDelay)
    /\ OpenToast(made + 1)
    /\ item' = [item EXCEPT ![t].hidden = TRUE]
    /\ UNCHANGED <<stored, shown, view, lost, undone, regretted, mine>>

\* The request of press p reaches the server, or does not; nobody waits for
\* its answer.
Request(p) ==
    \/ /\ press' = [press EXCEPT ![p].stage = "sent"]
       /\ stored' = Ended(press[p].todo)
       /\ UNCHANGED lost
    \/ /\ lost < MaxLost
       /\ lost' = lost + 1
       /\ press' = [press EXCEPT ![p].stage = "lost"]
       /\ UNCHANGED stored

\* The timer that completeToast or removeTodo has set.
Send(p) ==
    /\ press[p].stage = "waiting" /\ press[p].left = 0
    /\ Request(p)
    /\ UNCHANGED <<shown, view, item, made, toast, toastLeft, history>>

\* A slip: the timer of the first press for that of the last.
Current_First(p) ==
    CHOOSE q \in Presses :
        /\ press[q].todo = press[p].todo /\ press[q].n = press[p].n
        /\ press[q].kind = press[p].kind
        /\ \A r \in 1 .. q - 1 : press[r].todo # press[p].todo \/ press[r].n # press[p].n
                                   \/ press[r].kind # press[p].kind

\* completeTimeout and removeTimeout of the item pressed: the timer of the
\* last press of that kind, whatever has become of it.
SameRef(p, q) ==
    /\ press[q].todo = press[p].todo /\ press[q].n = press[p].n
    /\ press[q].kind = press[p].kind
    /\ press[q].stage \notin {"none", "marking"}

Current(p) ==
    CHOOSE q \in Presses : SameRef(p, q) /\ \A r \in q + 1 .. MaxPresses : ~SameRef(p, r)

\* A slip: the item stays hidden.
Undo_StaysHidden ==
    /\ ToastOnScreen
    /\ LET p == toast  q == Current(toast) IN
       /\ press' = IF press[q].stage = "waiting"
                     THEN [press EXCEPT ![q].stage = "cancelled", ![q].left = 0] ELSE press
       /\ item' = IF Live(p) THEN [item EXCEPT ![press[p].todo].done = FALSE] ELSE item
       /\ undone' = IF press[p].stage = "waiting" THEN undone \cup {p} ELSE undone
       /\ regretted' = regretted \cup {p}
    /\ CloseToast
    /\ UNCHANGED <<stored, shown, view, made, lost, mine>>

\* undoCompleteTodo or undoRemoveTodo, then close.  Only the former unmarks
\* the item.
Undo ==
    /\ ToastOnScreen
    /\ LET p == toast  q == Current(toast) IN
       /\ press' = IF press[q].stage = "waiting"
                     THEN [press EXCEPT ![q].stage = "cancelled", ![q].left = 0] ELSE press
       /\ item' = IF Live(p)
                    THEN [item EXCEPT ![press[p].todo].hidden = FALSE,
                                      ![press[p].todo].done = @ /\ press[p].kind = "remove"]
                    ELSE item
       /\ undone' = IF press[p].stage = "waiting" THEN undone \cup {p} ELSE undone
       /\ regretted' = regretted \cup {p}
    /\ CloseToast
    /\ UNCHANGED <<stored, shown, view, made, lost, mine>>

-----------------------------------------------------------------------------
(* The other buttons, and the todo post of the bot, which shows its        *)
(* buttons as long as the todo is in the inbox (pendingAnswer).            *)

Accept(t) ==
    /\ CanAccept(t)
    /\ stored[t].list = "in"
    /\ stored' = [stored EXCEPT ![t].list = "my"]
    /\ UNCHANGED <<shown, view, item, press, made, toast, toastLeft, lost, history>>

\* The post's complete button: a second later the request, without an undo.
PostComplete(t) ==
    /\ CanAccept(t)
    /\ NewPress(t, "post", "marking", MarkDelay)
    /\ UNCHANGED <<stored, shown, view, item, toast, toastLeft, lost, history>>

PostSend(p) ==
    /\ press[p].stage = "marking" /\ press[p].kind = "post"
    /\ press[p].left = 0 /\ NextInLine(p)
    /\ Request(p)
    /\ UNCHANGED <<shown, view, item, made, toast, toastLeft, history>>

\* The post's remove button: the request at once.
PostRemove(t) ==
    /\ CanAccept(t)
    /\ stored[t].list # "gone"
    /\ stored' = Ended(t)
    /\ UNCHANGED <<shown, view, item, press, made, toast, toastLeft, lost, history>>

-----------------------------------------------------------------------------
(* Editing *)

BeginEdit(t) ==
    /\ InMenu(t)
    /\ item' = [item EXCEPT ![t].editing = TRUE]
    /\ UNCHANGED <<stored, shown, view, press, made, toast, toastLeft, lost, history>>

Type(t) ==
    /\ Offered(t) /\ item[t].editing
    /\ \E text \in Texts \ {item[t].draft} :
          item' = [item EXCEPT ![t].draft = text, ![t].typed = TRUE]
    /\ UNCHANGED <<stored, shown, view, press, made, toast, toastLeft, lost, history>>

\* Escape, or the cancel button: the draft stays.
CancelEdit(t) ==
    /\ Offered(t) /\ item[t].editing
    /\ item' = [item EXCEPT ![t].editing = FALSE]
    /\ UNCHANGED <<stored, shown, view, press, made, toast, toastLeft, lost, history>>

\* Enter, or the save button.
SaveEditedTodo(t) ==
    /\ Offered(t) /\ item[t].editing
    /\ \/ /\ stored[t].list # "gone"
          /\ stored' = [stored EXCEPT ![t].text = item[t].draft]
          /\ item' = [item EXCEPT ![t].editing = FALSE, ![t].typed = FALSE, ![t].others = FALSE,
                                  ![t].early = FALSE]
          /\ mine' = mine \cup {t}
          /\ UNCHANGED lost
       \/ /\ \/ stored[t].list = "gone" /\ UNCHANGED lost
             \/ lost < MaxLost /\ lost' = lost + 1
          /\ item' = [item EXCEPT ![t].editing = FALSE]
          /\ UNCHANGED <<stored, mine>>
    /\ UNCHANGED <<shown, view, press, made, toast, toastLeft, undone, regretted, reopened>>

-----------------------------------------------------------------------------
(* The sidebar, the other users and the clock *)

OpenSidebar ==
    /\ view = "closed"
    /\ \E v \in {"my", "out"} : Render(v, shown)
    /\ toastLeft' = IF toast # NoPress THEN ToastDelay ELSE 0
    /\ reopened' = (toast # NoPress)
    /\ UNCHANGED <<stored, press, made, toast, lost, undone, regretted, mine>>

\* A slip: a button clears its timer when it is unmounted.
CloseSidebar_StopsMarking ==
    /\ view # "closed"
    /\ Render("closed", shown)
    /\ toastLeft' = 0
    /\ press' = [p \in Presses |->
                   IF Live(p) /\ press[p].stage = "marking"
                     THEN [press[p] EXCEPT !.stage = "none"] ELSE press[p]]
    /\ UNCHANGED <<stored, made, toast, lost, history>>

\* Closing the sidebar unmounts the toast, and forgets its timer but not its content.
CloseSidebar ==
    /\ view # "closed"
    /\ Render("closed", shown)
    /\ toastLeft' = 0
    /\ UNCHANGED <<stored, press, made, toast, lost, history>>

SwitchList ==
    /\ view # "closed"
    /\ Render(IF view = "my" THEN "out" ELSE "my", shown)
    /\ UNCHANGED <<stored, press, made, toast, toastLeft, lost, history>>

Refresh ==
    /\ shown # stored
    /\ Render(view, stored)
    /\ UNCHANGED <<stored, press, made, toast, toastLeft, lost, history>>

\* The user at the other end edits or ends the todo.
OtherUser(t) ==
    /\ stored[t].list # "gone"
    /\ \/ /\ \E text \in Texts \ {stored[t].text} : stored' = [stored EXCEPT ![t].text = text]
          /\ item' = [item EXCEPT ![t].others = Mounted(t)]
          /\ mine' = mine \ {t}
       \/ stored' = Ended(t) /\ UNCHANGED <<item, mine>>
    /\ UNCHANGED <<shown, view, press, made, toast, toastLeft, lost, undone, regretted, reopened>>

Due == (ToastOnScreen /\ toastLeft = 0) \/ \E p \in Presses : Running(p) /\ press[p].left = 0

Tick ==
    /\ ~Due
    /\ ToastOnScreen \/ \E p \in Presses : Running(p)
    /\ press' = [p \in Presses |->
                   IF Running(p) THEN [press[p] EXCEPT !.left = @ - 1] ELSE press[p]]
    /\ toastLeft' = IF ToastOnScreen THEN toastLeft - 1 ELSE 0
    /\ UNCHANGED <<stored, shown, view, item, made, toast, lost, history>>

Timeout == \E p \in Presses : CompleteToast(p) \/ PostSend(p) \/ Send(p)
Click(t) ==
    \/ MarkAsDone(t) \/ RemoveTodo(t) \/ Accept(t) \/ PostComplete(t) \/ PostRemove(t)
    \/ BeginEdit(t) \/ Type(t) \/ CancelEdit(t) \/ SaveEditedTodo(t)
Sidebar == OpenSidebar \/ CloseSidebar \/ SwitchList

Next ==
    \/ Timeout \/ Tick \/ DismissToast \/ Undo \/ Sidebar \/ Refresh
    \/ \E t \in Todos : Click(t) \/ OtherUser(t)

Spec == Init /\ [][Next]_vars

\* The browser runs the timers that are due, and time goes on.
Fairness ==
    /\ WF_vars(Tick)
    /\ WF_vars(ToastOnScreen /\ toastLeft = 0 /\ DismissToast)
    /\ \A p \in Presses : WF_vars(CompleteToast(p) \/ PostSend(p) \/ Send(p))

FairSpec == Spec /\ Fairness

-----------------------------------------------------------------------------
(* Properties *)

\* What was undone in time is not sent, however often the buttons were
\* pressed, whatever toast came in between and whether or not the item that
\* set the timer is still mounted.
UndoneIsNotSent == \A p \in undone : press[p].stage = "cancelled"

\* While the toast is on the screen its undo is not too late, unless the
\* sidebar was opened under it: then the toast starts its five seconds anew
\* and the request does not.
UndoIsOfferedInTime ==
    ToastOnScreen /\ toastLeft > 0 /\ ~reopened => press[toast].stage = "waiting"

\* An item the user sees is not about to be ended by a press the user made on
\* it, unless the user undid another press of the same item: there is one
\* undo, and it cancels one timer.
SeenIsKept ==
    \A p \in Presses :
        press[p].stage = "waiting" /\ Live(p) /\ ~item[press[p].todo].hidden
            => \E q \in regretted \ {p} :
                  press[q].todo = press[p].todo /\ press[q].n = press[p].n

\* An item hidden from the user is about to be ended or has been, unless its
\* request was lost: nothing else makes a todo disappear.
HiddenIsEnding ==
    \A t \in Todos :
        Mounted(t) /\ item[t].hidden /\ stored[t].list # "gone"
            => \E p \in Presses : /\ press[p].todo = t /\ press[p].n = item[t].n
                                  /\ press[p].stage \in {"waiting", "lost"}

\* A form nobody typed in holds the text of the todo, so that saving it changes
\* nothing, but in two cases: somebody else has changed the text since the lists
\* the item was mounted from were fetched, or these lists were fetched before an
\* edit that the user has saved, and the item was mounted anew before the refresh.
\* An edit of the user's own never makes the form of an item stale that stays
\* mounted.
UntouchedFormIsCurrent ==
    \A t \in Todos :
        Mounted(t) /\ ~item[t].typed /\ ~item[t].others /\ ~item[t].early
            => item[t].draft = stored[t].text

\* Every press comes to its end: undone, or requested, even when the sidebar is
\* closed and the item gone.
EveryPressEnds ==
    \A p \in Presses : Running(p) ~> press[p].stage \in {"cancelled", "sent", "lost"}

\* No toast stays, however often others take its place or the sidebar is
\* closed and opened.
EveryToastGoes == ToastOnScreen ~> ~ToastOnScreen
=============================================================================
