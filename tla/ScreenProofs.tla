------------------------------ MODULE ScreenProofs ------------------------------
(***************************************************************************)
(* What is on the screen of the web app: the todo items with their timers  *)
(* and the toast (TodoPanel), the form that adds a todo with its modal     *)
(* (AddForm), and the lists of the sidebar (Sidebar), for any todos, texts *)
(* and posts, any number of presses and any delays with which the toast    *)
(* goes before the request it can undo.                                    *)
(*                                                                         *)
(* The items are the harder part.  What the code hopes for is that the     *)
(* timer that an undo cancels is the one of the toast that was clicked:    *)
(* completeTimeout and removeTimeout name the last timer of the item, the  *)
(* toast names a press.  They agree because timers of one length run out   *)
(* in the order in which they were set (InOrder), so that the toast is the *)
(* latest of its kind (ToastIsLatest); and the undo comes in time because  *)
(* a toast that takes another's place only gets what is left of it         *)
(* (ToastIsShort).                                                         *)
(***************************************************************************)
EXTENDS TodoPanel, AddForm, Sidebar, TLAPS

-----------------------------------------------------------------------------
(* The items: their state, and how presses, toast and items hang together  *)

Kinds == {"complete", "remove", "post"}
Stages == {"none", "marking", "waiting", "sent", "lost", "cancelled"}
PanelViews == {"closed", "my", "out"}

TodoState == [list : Lists \cup {"gone"}, text : Texts]
ItemState ==
    [n : Nat, done : BOOLEAN, hidden : BOOLEAN, editing : BOOLEAN, draft : Texts \cup {NoText},
     typed : BOOLEAN, others : BOOLEAN, early : BOOLEAN]
PressState ==
    [todo : Todos \cup {NoTimer.todo}, n : Nat, kind : Kinds, stage : Stages, left : Nat]

\* A form on the screen has a draft.
ItemTypes ==
    /\ stored \in [Todos -> TodoState] /\ shown \in [Todos -> TodoState]
    /\ view \in PanelViews
    /\ item \in [Todos -> ItemState]
    /\ \A t \in Todos : Mounted(t) => item[t].draft \in Texts

ToastTypes ==
    /\ made \in 0..MaxPresses
    /\ toast \in 0..made /\ toastLeft \in 0..ToastDelay
    /\ undone \subseteq 1..made /\ regretted \subseteq 1..made
    /\ reopened \in BOOLEAN
    /\ lost \in 0..MaxLost

\* A press is of the mount of its todo that is on the screen, or of an earlier one.
PressTypes ==
    /\ press \in [Presses -> PressState]
    /\ \A p \in Presses : press[p].stage = "none" <=> p > made
    /\ \A p \in 1..made : press[p].todo \in Todos /\ press[p].n <= item[press[p].todo].n

\* The buttons' timers run out in the order of the presses.
InOrder ==
    \A p, q \in Presses :
        p < q /\ press[p].stage = "marking" /\ press[q].kind = "complete" =>
            press[q].stage \in {"none", "marking"}

\* The toast is that of the last of its kind to have come to wait: so the timer
\* it cancels, that of the last press of the item, is its own.
ToastIsLatest ==
    toast # NoPress =>
        /\ press[toast].stage \notin {"none", "marking"} /\ press[toast].kind # "post"
        /\ \A q \in Presses :
              q > toast /\ press[q].kind = press[toast].kind => press[q].stage \in {"none", "marking"}

\* The toast on the screen goes before the request it can undo is sent.
ToastIsShort ==
    ToastOnScreen /\ toastLeft > 0 /\ ~reopened =>
        press[toast].stage = "waiting" /\ toastLeft <= press[toast].left

PanelInv ==
    /\ ItemTypes /\ ToastTypes /\ PressTypes
    /\ InOrder /\ ToastIsLatest /\ ToastIsShort
    /\ UndoneIsNotSent /\ SeenIsKept /\ HiddenIsEnding /\ UntouchedFormIsCurrent

-----------------------------------------------------------------------------
(* The presses that a step makes and the items it leaves where they are *)

LEMMA PressIndex == Presses = 1..MaxPresses /\ MaxPresses \in Nat /\ NoPress = 0
BY BoundsAssumption DEF Presses, NoPress

\* Every item keeps its mount and its form.
ItemsStay ==
    /\ item' \in [Todos -> ItemState]
    /\ \A t \in Todos : /\ item'[t].n = item[t].n /\ item'[t].draft = item[t].draft
                        /\ item'[t].typed = item[t].typed /\ item'[t].others = item[t].others
                        /\ item'[t].early = item[t].early

\* Nothing comes back that is gone.
TodosStay ==
    /\ stored' \in [Todos -> TodoState]
    /\ \A t \in Todos : stored[t].list = "gone" => stored'[t].list = "gone"

TextsStay == \A t \in Todos : stored'[t].text = stored[t].text

LEMMA ScreenStays ==
    ASSUME PanelInv, UNCHANGED <<view, shown>>, ItemsStay, TodosStay, TextsStay
    PROVE  ItemTypes' /\ UntouchedFormIsCurrent'
<1>1. \A t \in Todos : Mounted(t)' <=> Mounted(t)
  BY DEF Mounted, OnScreen
<1>2. ItemTypes'
  BY <1>1 DEF PanelInv, ItemTypes, ItemsStay, TodosStay
<1>3. UntouchedFormIsCurrent'
  BY <1>1 DEF PanelInv, UntouchedFormIsCurrent, ItemsStay, TextsStay
<1>4. QED
  BY <1>2, <1>3

\* SetHidden, and what the buttons do to the item pressed: fields that leave
\* the mount and the form alone.
LEMMA OneItem ==
    ASSUME ItemTypes, NEW t \in Todos, NEW new \in ItemState,
           new.n = item[t].n, new.draft = item[t].draft,
           new.typed = item[t].typed, new.others = item[t].others, new.early = item[t].early,
           item' = [item EXCEPT ![t] = new]
    PROVE  /\ ItemsStay
           /\ item'[t] = new
           /\ \A u \in Todos : u # t => item'[u] = item[u]
<1>1. item \in [Todos -> ItemState]
  BY DEF ItemTypes
<1>2. /\ item' \in [Todos -> ItemState]
      /\ item'[t] = new
      /\ \A u \in Todos : u # t => item'[u] = item[u]
  BY <1>1
<1>3. QED
  BY <1>2 DEF ItemsStay

\* What a press is about stays; its stage and its timer go on.
PressesStay ==
    \A p \in 1..made : /\ p \in Presses
                       /\ press'[p].todo = press[p].todo /\ press'[p].n = press[p].n
                       /\ press'[p].kind = press[p].kind

LEMMA LiveStays ==
    ASSUME PanelInv, UNCHANGED <<view, shown>>, ItemsStay, PressesStay
    PROVE  \A p \in 1..made : Live(p)' <=> Live(p)
<1>1. \A t \in Todos : Mounted(t)' <=> Mounted(t)
  BY DEF Mounted, OnScreen
<1> TAKE p \in 1..made
<1>2. press'[p].todo = press[p].todo /\ press'[p].n = press[p].n /\ press[p].todo \in Todos
  BY DEF PressesStay, PanelInv, PressTypes
<1>3. item'[press[p].todo].n = item[press[p].todo].n
  BY <1>2 DEF ItemsStay
<1>4. QED
  BY <1>1, <1>2, <1>3 DEF Live

\* A press that is waiting under an item on the screen was, unless another
\* press of the item was undone.
LEMMA SeenStays ==
    ASSUME PanelInv, UNCHANGED <<view, shown>>, ItemsStay, PressesStay,
           regretted \subseteq regretted',
           \A p \in Presses :
              press'[p].stage = "waiting" /\ Live(p)' /\ ~item'[press'[p].todo].hidden =>
                 \/ p \in 1..made /\ press[p].stage = "waiting" /\ ~item[press[p].todo].hidden
                 \/ \E q \in regretted' \ {p} :
                       press'[q].todo = press'[p].todo /\ press'[q].n = press'[p].n
    PROVE  SeenIsKept'
<1> SUFFICES ASSUME NEW p \in Presses, press'[p].stage = "waiting", Live(p)',
                    ~item'[press'[p].todo].hidden,
                    p \in 1..made, press[p].stage = "waiting", ~item[press[p].todo].hidden
             PROVE  \E q \in regretted' \ {p} :
                       press'[q].todo = press'[p].todo /\ press'[q].n = press'[p].n
  BY DEF SeenIsKept
<1>2. press'[p].todo = press[p].todo /\ press'[p].n = press[p].n
  BY DEF PressesStay
<1>3. Live(p)
  BY LiveStays
<1>4. PICK q \in regretted \ {p} : press[q].todo = press[p].todo /\ press[q].n = press[p].n
  BY <1>3 DEF PanelInv, SeenIsKept
<1>5. q \in 1..made
  BY DEF PanelInv, ToastTypes
<1>6. QED
  BY <1>2, <1>4, <1>5 DEF PressesStay

\* A press that hides an item goes on to, unless the todo is gone.
LEMMA HiddenStays ==
    ASSUME PanelInv, UNCHANGED <<view, shown>>, ItemsStay, TodosStay, PressesStay,
           \A p \in 1..made :
              press[p].stage \in {"waiting", "lost"} /\ Live(p) =>
                 \/ press'[p].stage \in {"waiting", "lost"}
                 \/ ~item'[press[p].todo].hidden
                 \/ stored'[press[p].todo].list = "gone",
           \A t \in Todos : Mounted(t) /\ item'[t].hidden =>
              \/ item[t].hidden
              \/ \E p \in Presses : /\ press'[p].todo = t /\ press'[p].n = item'[t].n
                                    /\ press'[p].stage \in {"waiting", "lost"}
    PROVE  HiddenIsEnding'
<1>1. \A u \in Todos : Mounted(u)' <=> Mounted(u)
  BY DEF Mounted, OnScreen
<1> SUFFICES ASSUME NEW t \in Todos, Mounted(t), item'[t].hidden, stored'[t].list # "gone",
                    item[t].hidden
             PROVE  \E p \in Presses : /\ press'[p].todo = t /\ press'[p].n = item'[t].n
                                       /\ press'[p].stage \in {"waiting", "lost"}
  BY <1>1 DEF HiddenIsEnding
<1>2. PICK p \in Presses : /\ press[p].todo = t /\ press[p].n = item[t].n
                           /\ press[p].stage \in {"waiting", "lost"}
  BY DEF PanelInv, HiddenIsEnding, TodosStay
<1>3. p \in 1..made
  BY <1>2, PressIndex DEF PanelInv, PressTypes, ToastTypes
<1>4. Live(p)
  BY <1>2 DEF Live
<1>5. press'[p].stage \in {"waiting", "lost"}
  BY <1>2, <1>3, <1>4
<1>6. QED
  BY <1>2, <1>3, <1>5 DEF PressesStay, ItemsStay

LEMMA NewPressFacts ==
    ASSUME PanelInv, NEW t \in Todos, NEW kind \in Kinds, NEW stage \in {"marking", "waiting"},
           NEW left \in Nat, NewPress(t, kind, stage, left)
    PROVE  /\ made + 1 \in Presses /\ made' = made + 1 /\ made \in Nat
           /\ press' \in [Presses -> PressState]
           /\ press'[made + 1].todo = t /\ press'[made + 1].n = item[t].n
           /\ press'[made + 1].kind = kind /\ press'[made + 1].stage = stage
           /\ press'[made + 1].left = left
           /\ \A p \in Presses : p # made + 1 => press'[p] = press[p]
<1> DEFINE new == [todo |-> t, n |-> item[t].n, kind |-> kind, stage |-> stage, left |-> left]
<1>1. made \in Nat /\ made + 1 \in Presses /\ made' = made + 1
  BY PressIndex DEF NewPress, PanelInv, ToastTypes
<1>2. item[t].n \in Nat
  BY DEF PanelInv, ItemTypes, ItemState
<1>3. new \in PressState
  BY <1>2 DEF PressState, Stages
<1>4. new.todo = t /\ new.n = item[t].n /\ new.kind = kind /\ new.stage = stage /\ new.left = left
  OBVIOUS
<1>5. press' = [press EXCEPT ![made + 1] = new]
  BY DEF NewPress
<1>6. press \in [Presses -> PressState]
  BY DEF PanelInv, PressTypes
<1> HIDE DEF new
<1>7. /\ press' \in [Presses -> PressState]
      /\ press'[made + 1] = new
      /\ \A p \in Presses : p # made + 1 => press'[p] = press[p]
  BY <1>1, <1>3, <1>5, <1>6
<1>8. QED
  BY <1>1, <1>4, <1>7

-----------------------------------------------------------------------------
(* Buttons *)

\* A press that waits for its button's timer changes nothing yet.
LEMMA MarkingKeeps ==
    ASSUME PanelInv, NEW t \in Todos, MarkAsDone(t) \/ PostComplete(t) PROVE PanelInv'
<1>1. PICK kind \in {"complete", "post"} : NewPress(t, kind, "marking", MarkDelay)
  BY DEF MarkAsDone, PostComplete
<1>2. UNCHANGED <<stored, shown, view, toast, toastLeft, lost, undone, regretted, reopened>>
  BY DEF MarkAsDone, PostComplete, history
<1>3. /\ made + 1 \in Presses /\ made' = made + 1 /\ made \in Nat
      /\ press' \in [Presses -> PressState]
      /\ press'[made + 1].todo = t /\ press'[made + 1].n = item[t].n
      /\ press'[made + 1].kind = kind /\ press'[made + 1].stage = "marking"
      /\ \A p \in Presses : p # made + 1 => press'[p] = press[p]
  BY <1>1, NewPressFacts, DelaysAssumption DEF Kinds
<1>4. ItemsStay /\ \A u \in Todos : item'[u].hidden = item[u].hidden
  <2>1. CASE UNCHANGED item
    BY <2>1 DEF PanelInv, ItemTypes, ItemsStay
  <2>2. CASE item' = [item EXCEPT ![t].done = TRUE]
    <3> DEFINE new == [item[t] EXCEPT !.done = TRUE]
    <3>1. /\ new \in ItemState /\ new.n = item[t].n /\ new.draft = item[t].draft
          /\ new.typed = item[t].typed /\ new.others = item[t].others /\ new.early = item[t].early
          /\ new.hidden = item[t].hidden
      BY DEF PanelInv, ItemTypes, ItemState
    <3>2. item' = [item EXCEPT ![t] = new]
      BY <2>2
    <3> HIDE DEF new
    <3>3. ItemsStay /\ item'[t] = new /\ \A u \in Todos : u # t => item'[u] = item[u]
      BY <3>1, <3>2, OneItem DEF PanelInv
    <3>4. QED
      BY <3>1, <3>3
  <2>3. QED
    BY <2>1, <2>2 DEF MarkAsDone, PostComplete
<1>5. TodosStay /\ TextsStay
  BY <1>2 DEF TodosStay, TextsStay, PanelInv, ItemTypes
<1>6. ItemTypes' /\ UntouchedFormIsCurrent'
  BY <1>2, <1>4, <1>5, ScreenStays
<1>7. ToastTypes'
  BY <1>2, <1>3, PressIndex DEF PanelInv, ToastTypes
<1>8. PressTypes'
  <2>1. \A p \in Presses : press'[p].stage = "none" <=> p > made'
    BY <1>3, PressIndex DEF PanelInv, PressTypes
  <2>2. ASSUME NEW p \in 1..made'
        PROVE  press'[p].todo \in Todos /\ press'[p].n <= item'[press'[p].todo].n
    <3>1. CASE p = made + 1
      BY <1>3, <1>4, <3>1 DEF PanelInv, ItemTypes, ItemState, ItemsStay
    <3>2. CASE p # made + 1
      <4>1. p \in Presses /\ p \in 1..made
        BY <1>3, <3>2, PressIndex
      <4>2. QED
        BY <1>3, <1>4, <3>2, <4>1 DEF PanelInv, PressTypes, ItemsStay
    <3>3. QED
      BY <3>1, <3>2
  <2>3. QED
    BY <1>3, <2>1, <2>2 DEF PressTypes
<1>9. InOrder'
  BY <1>3, PressIndex, SMTT(30) DEF PanelInv, PressTypes, InOrder
<1>10. toast # NoPress => toast \in Presses /\ toast # made + 1
  BY <1>3, PressIndex DEF PanelInv, ToastTypes
<1>11. ToastIsLatest'
  BY <1>2, <1>3, <1>10 DEF PanelInv, ToastIsLatest
<1>12. ToastIsShort'
  BY <1>2, <1>3, <1>10 DEF PanelInv, ToastIsShort, ToastOnScreen
<1>13. \A p \in undone \cup regretted : p \in Presses /\ p # made + 1
  BY <1>3, PressIndex DEF PanelInv, ToastTypes
<1>14. UndoneIsNotSent'
  BY <1>2, <1>3, <1>13 DEF PanelInv, UndoneIsNotSent
<1>15. PressesStay
  BY <1>3, PressIndex DEF PressesStay
<1>16. SeenIsKept'
  <2>1. \A p \in Presses : press'[p].stage = "waiting" /\ ~item'[press'[p].todo].hidden =>
            p \in 1..made /\ press[p].stage = "waiting" /\ ~item[press[p].todo].hidden
    BY <1>3, <1>4, PressIndex DEF PanelInv, PressTypes
  <2>2. QED
    BY <1>2, <1>4, <1>15, <2>1, SeenStays
<1>17. HiddenIsEnding'
  <2>1. \A p \in 1..made : press'[p].stage = press[p].stage
    BY <1>3, PressIndex
  <2>2. QED
    BY <1>2, <1>4, <1>5, <1>15, <2>1, HiddenStays
<1>18. QED
  BY <1>6, <1>7, <1>8, <1>9, <1>11, <1>12, <1>14, <1>16, <1>17 DEF PanelInv

\* A toast that opens is not on the screen for longer than ToastDelay, whatever
\* was left of the one whose place it takes.
LEMMA OpenToastFacts ==
    ASSUME PanelInv, NEW p, OpenToast(p)
    PROVE  toast' = p /\ toastLeft' \in 0..ToastDelay /\ reopened' = FALSE
<1>1. toastLeft \in 0..ToastDelay /\ ToastDelay \in Nat
  BY DelaysAssumption DEF PanelInv, ToastTypes
<1>2. QED
  BY <1>1 DEF OpenToast

LEMMA RemoveTodoKeeps ==
    ASSUME PanelInv, NEW t \in Todos, RemoveTodo(t) PROVE PanelInv'
<1>1. /\ made + 1 \in Presses /\ made' = made + 1 /\ made \in Nat
      /\ press' \in [Presses -> PressState]
      /\ press'[made + 1].todo = t /\ press'[made + 1].n = item[t].n
      /\ press'[made + 1].kind = "remove" /\ press'[made + 1].stage = "waiting"
      /\ press'[made + 1].left = SendDelay
      /\ \A p \in Presses : p # made + 1 => press'[p] = press[p]
  BY NewPressFacts, DelaysAssumption DEF Kinds, RemoveTodo
<1>2. UNCHANGED <<stored, shown, view, lost, undone, regretted>>
  BY DEF RemoveTodo
<1>3. toast' = made + 1 /\ toastLeft' \in 0..ToastDelay /\ reopened' = FALSE
  BY OpenToastFacts DEF RemoveTodo
<1>4. /\ ItemsStay
      /\ \A u \in Todos : item'[u].hidden = IF u = t THEN TRUE ELSE item[u].hidden
  <2> DEFINE new == [item[t] EXCEPT !.hidden = TRUE]
  <2>1. /\ new \in ItemState /\ new.n = item[t].n /\ new.draft = item[t].draft
        /\ new.typed = item[t].typed /\ new.others = item[t].others /\ new.early = item[t].early
        /\ new.hidden = TRUE
    BY DEF PanelInv, ItemTypes, ItemState
  <2>2. item' = [item EXCEPT ![t] = new]
    BY DEF RemoveTodo
  <2> HIDE DEF new
  <2>3. ItemsStay /\ item'[t] = new /\ \A u \in Todos : u # t => item'[u] = item[u]
    BY <2>1, <2>2, OneItem DEF PanelInv
  <2>4. QED
    BY <2>1, <2>3
<1>5. TodosStay /\ TextsStay
  BY <1>2 DEF TodosStay, TextsStay, PanelInv, ItemTypes
<1>6. ItemTypes' /\ UntouchedFormIsCurrent'
  BY <1>2, <1>4, <1>5, ScreenStays
<1>7. ToastTypes'
  <2>1. made' \in 0..MaxPresses /\ toast' \in 0..made'
    BY <1>1, <1>3, PressIndex
  <2>2. undone' \subseteq 1..made' /\ regretted' \subseteq 1..made'
    BY <1>1, <1>2 DEF PanelInv, ToastTypes
  <2>3. QED
    BY <1>2, <1>3, <2>1, <2>2 DEF PanelInv, ToastTypes
<1>8. PressTypes'
  <2>1. \A p \in Presses : press'[p].stage = "none" <=> p > made'
    BY <1>1, PressIndex DEF PanelInv, PressTypes
  <2>2. ASSUME NEW p \in 1..made'
        PROVE  press'[p].todo \in Todos /\ press'[p].n <= item'[press'[p].todo].n
    <3>1. CASE p = made + 1
      BY <1>1, <1>4, <3>1 DEF PanelInv, ItemTypes, ItemState, ItemsStay
    <3>2. CASE p # made + 1
      <4>1. p \in Presses /\ p \in 1..made
        BY <1>1, <3>2, PressIndex
      <4>2. QED
        BY <1>1, <1>4, <3>2, <4>1 DEF PanelInv, PressTypes, ItemsStay
    <3>3. QED
      BY <3>1, <3>2
  <2>3. QED
    BY <1>1, <2>1, <2>2 DEF PressTypes
<1>9. InOrder'
  BY <1>1, PressIndex DEF PanelInv, PressTypes, InOrder
<1>10. ToastIsLatest'
  BY <1>1, <1>3, PressIndex DEF PanelInv, PressTypes, ToastIsLatest
<1>11. ToastIsShort'
  BY <1>1, <1>3, DelaysAssumption DEF ToastIsShort
<1>12. UndoneIsNotSent'
  <2>1. \A p \in undone : p \in Presses /\ p # made + 1
    BY <1>1, PressIndex DEF PanelInv, ToastTypes
  <2>2. QED
    BY <1>1, <1>2, <2>1 DEF PanelInv, UndoneIsNotSent
<1>13. PressesStay
  BY <1>1, PressIndex DEF PressesStay
<1>14. SeenIsKept'
  <2>1. ASSUME NEW p \in Presses, press'[p].stage = "waiting", ~item'[press'[p].todo].hidden
        PROVE  p \in 1..made /\ press[p].stage = "waiting" /\ ~item[press[p].todo].hidden
    <3>1. p # made + 1
      BY <1>1, <1>4, <2>1
    <3>2. p \in 1..made /\ press'[p] = press[p]
      BY <1>1, <2>1, <3>1, PressIndex DEF PanelInv, PressTypes
    <3>3. QED
      BY <1>4, <2>1, <3>2 DEF PanelInv, PressTypes
  <2>2. QED
    BY <1>2, <1>4, <1>13, <2>1, SeenStays
<1>15. HiddenIsEnding'
  <2>1. \A p \in 1..made : press'[p].stage = press[p].stage
    BY <1>1, PressIndex
  <2>2. \A u \in Todos : item'[u].hidden =>
           \/ item[u].hidden
           \/ \E p \in Presses : /\ press'[p].todo = u /\ press'[p].n = item'[u].n
                                 /\ press'[p].stage \in {"waiting", "lost"}
    BY <1>1, <1>4 DEF ItemsStay
  <2>3. QED
    BY <1>2, <1>4, <1>5, <1>13, <2>1, <2>2, HiddenStays
<1>16. QED
  BY <1>6, <1>7, <1>8, <1>9, <1>10, <1>11, <1>12, <1>14, <1>15 DEF PanelInv

-----------------------------------------------------------------------------
(* Timers *)

\* The two ways in which the code moves a press on: with its timer, or without.
Moves(p, stage, left) == press' = [press EXCEPT ![p].stage = stage, ![p].left = left]
Ends(p, stage, left) == press' = [press EXCEPT ![p].stage = stage] /\ left = press[p].left

\* A step of one press that has been made.
LEMMA OnePress ==
    ASSUME PressTypes, ToastTypes, NEW p \in Presses, NEW stage \in Stages \ {"none"}, NEW left \in Nat,
           press[p].stage # "none", ItemsStay, made' = made,
           Moves(p, stage, left) \/ Ends(p, stage, left)
    PROVE  /\ PressTypes' /\ PressesStay
           /\ press'[p].stage = stage /\ press'[p].left = left /\ press'[p].kind = press[p].kind
           /\ press'[p].todo = press[p].todo /\ press'[p].n = press[p].n
           /\ \A q \in Presses : q # p => press'[q] = press[q]
<1> DEFINE new == [press[p] EXCEPT !.stage = stage, !.left = left]
<1>1. press \in [Presses -> PressState]
  BY DEF PressTypes
<1>2. /\ new \in PressState /\ new.stage = stage /\ new.left = left
      /\ new.kind = press[p].kind /\ new.todo = press[p].todo /\ new.n = press[p].n
  BY <1>1 DEF PressState
<1>3. press' = [press EXCEPT ![p] = new]
  <2>1. CASE Moves(p, stage, left)
    BY <1>1, <2>1 DEF Moves
  <2>2. CASE Ends(p, stage, left)
    <3>1. [press[p] EXCEPT !.stage = stage] = new
      BY <1>1, <2>2 DEF PressState, Ends
    <3>2. QED
      BY <1>1, <2>2, <3>1 DEF Ends
  <2>3. QED
    BY <2>1, <2>2
<1> HIDE DEF new
<1>4. /\ press' \in [Presses -> PressState]
      /\ press'[p] = new
      /\ \A q \in Presses : q # p => press'[q] = press[q]
  BY <1>1, <1>2, <1>3
<1>5. \A q \in Presses : /\ press'[q].kind = press[q].kind /\ press'[q].todo = press[q].todo
                         /\ press'[q].n = press[q].n
                         /\ press'[q].stage = IF q = p THEN stage ELSE press[q].stage
  BY <1>2, <1>4
<1>6. 1..made \subseteq Presses
  BY PressIndex DEF ToastTypes
<1>7. PressesStay
  BY <1>5, <1>6 DEF PressesStay
<1>8. PressTypes'
  BY <1>4, <1>5, <1>6 DEF PressTypes, ItemsStay
<1>9. QED
  BY <1>2, <1>4, <1>7, <1>8

LEMMA SetHiddenFacts ==
    ASSUME PanelInv, NEW p \in 1..made, item' = SetHidden(p, TRUE)
    PROVE  /\ ItemsStay
           /\ \A t \in Todos : item[t].hidden => item'[t].hidden
           /\ \A t \in Todos : item'[t].hidden => item[t].hidden \/ (Live(p) /\ t = press[p].todo)
           /\ Live(p) => item'[press[p].todo].hidden
<1>1. CASE ~Live(p)
  BY <1>1 DEF SetHidden, ItemsStay, PanelInv, ItemTypes
<1>2. CASE Live(p)
  <2> DEFINE t == press[p].todo
  <2> DEFINE new == [item[t] EXCEPT !.hidden = TRUE]
  <2>1. t \in Todos
    BY DEF PanelInv, PressTypes
  <2>2. /\ new \in ItemState /\ new.n = item[t].n /\ new.draft = item[t].draft
        /\ new.typed = item[t].typed /\ new.others = item[t].others /\ new.early = item[t].early
        /\ new.hidden = TRUE
    BY <2>1 DEF PanelInv, ItemTypes, ItemState
  <2>3. item' = [item EXCEPT ![t] = new]
    BY <1>2 DEF SetHidden
  <2> HIDE DEF t, new
  <2>4. ItemsStay /\ item'[t] = new /\ \A u \in Todos : u # t => item'[u] = item[u]
    BY <2>1, <2>2, <2>3, OneItem DEF PanelInv
  <2>5. QED
    BY <1>2, <2>1, <2>2, <2>4 DEF t
<1>3. QED
  BY <1>1, <1>2

LEMMA CompleteToastKeeps ==
    ASSUME PanelInv, NEW p \in Presses, CompleteToast(p) PROVE PanelInv'
<1>1. /\ press[p].stage = "marking" /\ press[p].kind = "complete"
      /\ \A q \in Presses : q < p => press[q].stage # "marking"
      /\ Moves(p, "waiting", SendDelay)
      /\ item' = SetHidden(p, TRUE)
      /\ UNCHANGED <<stored, shown, view, made, lost, undone, regretted>>
  BY PressIndex DEF CompleteToast, NextInLine, Moves
<1>2. p \in 1..made
  BY <1>1, PressIndex DEF PanelInv, PressTypes, ToastTypes
<1>3. toast' = p /\ toastLeft' \in 0..ToastDelay /\ reopened' = FALSE
  BY OpenToastFacts DEF CompleteToast
<1>4. /\ ItemsStay
      /\ \A t \in Todos : item[t].hidden => item'[t].hidden
      /\ \A t \in Todos : item'[t].hidden => item[t].hidden \/ (Live(p) /\ t = press[p].todo)
      /\ Live(p) => item'[press[p].todo].hidden
  BY <1>1, <1>2, SetHiddenFacts
<1>5. /\ PressTypes' /\ PressesStay
      /\ press'[p].stage = "waiting" /\ press'[p].left = SendDelay
      /\ press'[p].kind = "complete"
      /\ press'[p].todo = press[p].todo /\ press'[p].n = press[p].n
      /\ \A q \in Presses : q # p => press'[q] = press[q]
  <2>1. "waiting" \in Stages \ {"none"} /\ SendDelay \in Nat
    BY DelaysAssumption DEF Stages
  <2>2. press[p].stage # "none" /\ made' = made
    BY <1>1
  <2>3. QED
    BY <1>1, <1>4, <2>1, <2>2, OnePress DEF PanelInv
<1>6. TodosStay /\ TextsStay
  BY <1>1 DEF TodosStay, TextsStay, PanelInv, ItemTypes
<1>7. ItemTypes' /\ UntouchedFormIsCurrent'
  BY <1>1, <1>4, <1>6, ScreenStays
<1>8. ToastTypes'
  <2>1. toast' \in 0..made'
    BY <1>1, <1>2, <1>3
  <2>2. QED
    BY <1>1, <1>3, <2>1 DEF PanelInv, ToastTypes
<1>9. InOrder'
  BY <1>1, <1>5 DEF PanelInv, InOrder
<1>10. ToastIsLatest'
  <2>1. \A q \in Presses : q > p /\ press[q].kind = "complete" => press[q].stage \in {"none", "marking"}
    BY <1>1 DEF PanelInv, InOrder
  <2>2. \A q \in Presses : q > p => q # p /\ press'[q] = press[q]
    BY <1>5, PressIndex
  <2>3. QED
    BY <1>3, <1>5, <2>1, <2>2 DEF ToastIsLatest
<1>11. ToastIsShort'
  BY <1>3, <1>5, DelaysAssumption DEF ToastIsShort
<1>12. UndoneIsNotSent'
  BY <1>1, <1>5 DEF PanelInv, UndoneIsNotSent, ToastTypes, PressesStay
<1>13. SeenIsKept'
  <2>1. Live(p)' => Live(p)
    BY <1>1, <1>2, <1>4, <1>5, LiveStays
  <2>2. ASSUME NEW q \in Presses, press'[q].stage = "waiting", Live(q)',
               ~item'[press'[q].todo].hidden
        PROVE  q \in 1..made /\ press[q].stage = "waiting" /\ ~item[press[q].todo].hidden
    <3>1. q # p
      BY <1>4, <1>5, <2>1, <2>2
    <3>2. press'[q] = press[q] /\ q \in 1..made
      BY <1>5, <2>2, <3>1, PressIndex DEF PanelInv, PressTypes, ToastTypes
    <3>3. QED
      BY <1>4, <2>2, <3>2 DEF PanelInv, PressTypes
  <2>3. QED
    BY <1>1, <1>4, <1>5, <2>2, SeenStays
<1>14. HiddenIsEnding'
  <2>1. \A q \in 1..made : press[q].stage \in {"waiting", "lost"} => press'[q].stage = press[q].stage
    BY <1>1, <1>5, PressIndex DEF PressesStay
  <2>2. ASSUME NEW t \in Todos, item'[t].hidden, ~item[t].hidden
        PROVE  \E q \in Presses : /\ press'[q].todo = t /\ press'[q].n = item'[t].n
                                  /\ press'[q].stage \in {"waiting", "lost"}
    <3>1. Live(p) /\ t = press[p].todo
      BY <1>4, <2>2
    <3>2. press[p].n = item'[t].n
      BY <1>4, <3>1 DEF Live, ItemsStay
    <3>3. QED
      BY <1>5, <3>1, <3>2
  <2>3. QED
    BY <1>1, <1>4, <1>5, <1>6, <2>1, <2>2, HiddenStays
<1>15. QED
  BY <1>5, <1>7, <1>8, <1>9, <1>10, <1>11, <1>12, <1>13, <1>14 DEF PanelInv

LEMMA RequestKeeps ==
    ASSUME PanelInv, NEW p \in Presses, Send(p) \/ PostSend(p) PROVE PanelInv'
<1>1. /\ Request(p) /\ press[p].left = 0
      /\ UNCHANGED <<shown, view, item, made, toast, toastLeft, undone, regretted, reopened>>
  BY DEF Send, PostSend, history
<1>2. \/ press[p].stage = "waiting"
      \/ press[p].stage = "marking" /\ press[p].kind = "post"
  BY DEF Send, PostSend
<1>3. p \in 1..made /\ press[p].todo \in Todos
  BY <1>2, PressIndex DEF PanelInv, PressTypes, ToastTypes
<1>4. ItemsStay
  BY <1>1 DEF PanelInv, ItemTypes, ItemsStay
<1>5. TodosStay /\ TextsStay
  <2>1. CASE UNCHANGED stored
    BY <2>1 DEF TodosStay, TextsStay, PanelInv, ItemTypes
  <2>2. CASE stored' = Ended(press[p].todo)
    BY <1>3, <2>2 DEF Ended, TodosStay, TextsStay, PanelInv, ItemTypes, TodoState
  <2>3. QED
    BY <1>1, <2>1, <2>2 DEF Request
<1>6. PICK stage \in {"sent", "lost"} :
         /\ Ends(p, stage, press[p].left)
         /\ stage = "sent" => stored'[press[p].todo].list = "gone"
  <2>1. CASE press' = [press EXCEPT ![p].stage = "sent"] /\ stored' = Ended(press[p].todo)
    BY <1>3, <2>1 DEF Ended, Ends, PanelInv, ItemTypes, TodoState
  <2>2. CASE press' = [press EXCEPT ![p].stage = "lost"]
    BY <2>2 DEF Ends
  <2>3. QED
    BY <1>1, <2>1, <2>2 DEF Request
<1>7. /\ PressTypes' /\ PressesStay
      /\ press'[p].stage = stage /\ press'[p].kind = press[p].kind
      /\ \A q \in Presses : q # p => press'[q] = press[q]
  <2>1. stage \in Stages \ {"none"} /\ press[p].left \in Nat
    BY <1>1 DEF Stages
  <2>2. press[p].stage # "none" /\ made' = made
    BY <1>1, <1>2
  <2>3. QED
    BY <1>4, <1>6, <2>1, <2>2, OnePress DEF PanelInv
<1>8. ItemTypes' /\ UntouchedFormIsCurrent'
  BY <1>1, <1>4, <1>5, ScreenStays
<1>9. ToastTypes'
  <2>1. lost' \in 0..MaxLost
    BY <1>1, BoundsAssumption DEF Request, PanelInv, ToastTypes
  <2>2. QED
    BY <1>1, <2>1 DEF PanelInv, ToastTypes
<1>10. InOrder'
  <2> SUFFICES ASSUME NEW r \in Presses, NEW q \in Presses, r < q, press'[r].stage = "marking",
                      press'[q].kind = "complete"
               PROVE  press'[q].stage \in {"none", "marking"}
    BY DEF InOrder
  <2>1. r # p /\ press[r].stage = "marking"
    BY <1>7
  <2>2. press[q].kind = "complete"
    BY <1>7
  <2>3. press[q].stage \in {"none", "marking"}
    BY <2>1, <2>2 DEF PanelInv, InOrder
  <2>4. q # p
    BY <1>2, <2>2, <2>3
  <2>5. QED
    BY <1>7, <2>3, <2>4
<1>11. ToastIsLatest'
  <2> SUFFICES ASSUME toast # NoPress PROVE ToastIsLatest'
    BY <1>1 DEF ToastIsLatest
  <2>1. toast \in Presses
    BY PressIndex DEF PanelInv, ToastTypes
  <2>2. press'[toast].stage \notin {"none", "marking"} /\ press'[toast].kind = press[toast].kind
        /\ press[toast].kind # "post"
    BY <1>7, <2>1 DEF PanelInv, ToastIsLatest
  <2>3. ASSUME NEW q \in Presses, q > toast, press'[q].kind = press'[toast].kind
        PROVE  press'[q].stage \in {"none", "marking"}
    <3>1. press[q].kind = press[toast].kind
      BY <1>7, <2>2, <2>3
    <3>2. press[q].stage \in {"none", "marking"}
      BY <2>3, <3>1 DEF PanelInv, ToastIsLatest
    <3>3. q # p
      BY <1>2, <2>2, <3>1, <3>2
    <3>4. QED
      BY <1>7, <3>2, <3>3
  <2>4. QED
    BY <1>1, <2>2, <2>3 DEF ToastIsLatest
<1>12. ToastIsShort'
  <2> SUFFICES ASSUME ToastOnScreen, toastLeft > 0, ~reopened PROVE ToastIsShort'
    BY <1>1 DEF ToastIsShort, ToastOnScreen
  <2>1. press[toast].stage = "waiting" /\ toastLeft <= press[toast].left
    BY DEF PanelInv, ToastIsShort
  <2>2. toastLeft \in Nat /\ toast \in Presses
    BY PressIndex DEF PanelInv, ToastTypes, ToastOnScreen
  <2>3. toast # p
    BY <1>1, <2>1, <2>2
  <2>4. press'[toast] = press[toast]
    BY <1>7, <2>2, <2>3
  <2>5. QED
    BY <1>1, <2>1, <2>4 DEF ToastIsShort
<1>13. UndoneIsNotSent'
  BY <1>1, <1>2, <1>7 DEF PanelInv, UndoneIsNotSent, ToastTypes, PressesStay
<1>14. SeenIsKept'
  <2>1. \A q \in Presses : press'[q].stage = "waiting" =>
           q \in 1..made /\ press'[q] = press[q] /\ press[q].stage = "waiting"
    BY <1>7, PressIndex DEF PanelInv, PressTypes, ToastTypes
  <2>2. QED
    BY <1>1, <1>4, <1>7, <2>1, SeenStays
<1>15. HiddenIsEnding'
  <2>1. ASSUME NEW q \in 1..made, press[q].stage \in {"waiting", "lost"}
        PROVE  press'[q].stage \in {"waiting", "lost"} \/ stored'[press[q].todo].list = "gone"
    BY <1>6, <1>7, <2>1 DEF PressesStay
  <2>2. QED
    BY <1>1, <1>4, <1>5, <1>7, <2>1, HiddenStays
<1>16. QED
  BY <1>7, <1>8, <1>9, <1>10, <1>11, <1>12, <1>13, <1>14, <1>15 DEF PanelInv

-----------------------------------------------------------------------------
(* Undo *)

LEMMA CurrentIsOfTheToast ==
    ASSUME PanelInv, toast # NoPress
    PROVE  toast \in Presses /\ toast \in 1..made /\ Current(toast) = toast
<1>1. toast \in Presses /\ toast \in 1..made
  BY PressIndex DEF PanelInv, ToastTypes
<1>2. SameRef(toast, toast)
  BY DEF SameRef, PanelInv, ToastIsLatest
<1>3. \A q \in Presses : q > toast => ~SameRef(toast, q)
  BY DEF SameRef, PanelInv, ToastIsLatest
<1> DEFINE Last(q) == SameRef(toast, q) /\ \A r \in q + 1 .. MaxPresses : ~SameRef(toast, r)
<1>4. Last(toast)
  BY <1>1, <1>2, <1>3, PressIndex
<1>5. ASSUME NEW q \in Presses, Last(q) PROVE q = toast
  <2>1. ~(q > toast)
    BY <1>3, <1>5
  <2>2. q < toast => toast \in q + 1 .. MaxPresses
    BY <1>1, PressIndex
  <2>3. ~(q < toast)
    BY <1>2, <1>5, <2>2
  <2>4. QED
    BY <1>1, <2>1, <2>3, PressIndex
<1>6. Current(toast) = CHOOSE q \in Presses : Last(q)
  BY DEF Current
<1> HIDE DEF Last
<1>7. QED
  BY <1>1, <1>4, <1>5, <1>6

LEMMA UndoKeeps == ASSUME PanelInv, Undo PROVE PanelInv'
<1>1. toast # NoPress
  BY DEF Undo, ToastOnScreen
<1>2. toast \in Presses /\ toast \in 1..made /\ Current(toast) = toast
  BY <1>1, CurrentIsOfTheToast
<1> DEFINE t == press[toast].todo
<1>3. t \in Todos
  BY <1>2 DEF PanelInv, PressTypes
<1>4. /\ press' = IF press[toast].stage = "waiting"
                    THEN [press EXCEPT ![toast].stage = "cancelled", ![toast].left = 0] ELSE press
      /\ item' = IF Live(toast)
                   THEN [item EXCEPT ![t].hidden = FALSE,
                                     ![t].done = @ /\ press[toast].kind = "remove"]
                   ELSE item
      /\ undone' = IF press[toast].stage = "waiting" THEN undone \cup {toast} ELSE undone
      /\ regretted' = regretted \cup {toast}
      /\ toast' = NoPress /\ toastLeft' = 0 /\ reopened' = FALSE
      /\ UNCHANGED <<stored, shown, view, made, lost>>
  BY <1>2 DEF Undo, CloseToast
<1>5. /\ ItemsStay
      /\ \A u \in Todos : item'[u].hidden = IF Live(toast) /\ u = t THEN FALSE ELSE item[u].hidden
  <2>1. CASE ~Live(toast)
    BY <1>4, <2>1 DEF PanelInv, ItemTypes, ItemsStay
  <2>2. CASE Live(toast)
    <3> DEFINE new == [item[t] EXCEPT !.hidden = FALSE, !.done = @ /\ press[toast].kind = "remove"]
    <3>1. /\ new \in ItemState /\ new.n = item[t].n /\ new.draft = item[t].draft
          /\ new.typed = item[t].typed /\ new.others = item[t].others /\ new.early = item[t].early
          /\ new.hidden = FALSE
      BY <1>3 DEF PanelInv, ItemTypes, ItemState
    <3>2. item' = [item EXCEPT ![t] = new]
      BY <1>3, <1>4, <2>2 DEF PanelInv, ItemTypes
    <3> HIDE DEF new, t
    <3>3. ItemsStay /\ item'[t] = new /\ \A u \in Todos : u # t => item'[u] = item[u]
      BY <1>3, <3>1, <3>2, OneItem DEF PanelInv
    <3>4. QED
      BY <2>2, <3>1, <3>3
  <2>3. QED
    BY <2>1, <2>2
<1>6. /\ PressTypes' /\ PressesStay
      /\ press'[toast].stage = IF press[toast].stage = "waiting" THEN "cancelled"
                                                                 ELSE press[toast].stage
      /\ \A q \in Presses : q # toast => press'[q] = press[q]
      /\ \A q \in Presses : press'[q].kind = press[q].kind
  <2>1. CASE press[toast].stage = "waiting"
    <3>1. Moves(toast, "cancelled", 0)
      BY <1>4, <2>1 DEF Moves
    <3>2. "cancelled" \in Stages \ {"none"} /\ 0 \in Nat /\ press[toast].stage # "none" /\ made' = made
      BY <1>4, <2>1 DEF Stages
    <3>3. QED
      BY <1>2, <1>5, <2>1, <3>1, <3>2, OnePress DEF PanelInv
  <2>2. CASE press[toast].stage # "waiting"
    <3>1. press' = press /\ made' = made
      BY <1>4, <2>2
    <3>2. PressTypes'
      BY <1>5, <3>1 DEF PanelInv, PressTypes, ItemsStay
    <3>3. PressesStay
      BY <3>1, PressIndex DEF PanelInv, ToastTypes, PressesStay
    <3>4. QED
      BY <2>2, <3>1, <3>2, <3>3
  <2>3. QED
    BY <2>1, <2>2
<1>7. TodosStay /\ TextsStay
  BY <1>4 DEF TodosStay, TextsStay, PanelInv, ItemTypes
<1>8. ItemTypes' /\ UntouchedFormIsCurrent'
  BY <1>4, <1>5, <1>7, ScreenStays
<1>9. ToastTypes'
  <2>1. toast' \in 0..made' /\ toastLeft' \in 0..ToastDelay
    BY <1>4, PressIndex, DelaysAssumption DEF PanelInv, ToastTypes
  <2>2. undone' \subseteq 1..made' /\ regretted' \subseteq 1..made'
    BY <1>2, <1>4 DEF PanelInv, ToastTypes
  <2>3. QED
    BY <1>4, <2>1, <2>2 DEF PanelInv, ToastTypes
<1>10. InOrder'
  <2>1. \A q \in Presses : press'[q].stage = "marking" <=> press[q].stage = "marking"
    BY <1>6
  <2>2. \A q \in Presses : press[q].stage \in {"none", "marking"} => press'[q].stage = press[q].stage
    BY <1>6
  <2>3. QED
    BY <1>6, <2>1, <2>2 DEF PanelInv, InOrder
<1>11. ToastIsLatest' /\ ToastIsShort'
  BY <1>4 DEF ToastIsLatest, ToastIsShort, ToastOnScreen
<1>12. UndoneIsNotSent'
  <2>1. ASSUME NEW p \in undone' PROVE press'[p].stage = "cancelled"
    <3>1. CASE p = toast
      BY <1>1, <1>4, <1>6, <2>1, <3>1 DEF PanelInv, UndoneIsNotSent
    <3>2. CASE p # toast
      BY <1>4, <1>6, <2>1, <3>2 DEF PanelInv, UndoneIsNotSent, ToastTypes, PressesStay
    <3>3. QED
      BY <3>1, <3>2
  <2>2. QED
    BY <2>1 DEF UndoneIsNotSent
<1>13. SeenIsKept'
  <2>1. ASSUME NEW p \in Presses, press'[p].stage = "waiting", Live(p)',
               ~item'[press'[p].todo].hidden
        PROVE  \/ p \in 1..made /\ press[p].stage = "waiting" /\ ~item[press[p].todo].hidden
               \/ \E q \in regretted' \ {p} :
                     press'[q].todo = press'[p].todo /\ press'[q].n = press'[p].n
    <3>1. p # toast /\ press'[p] = press[p]
      BY <1>6, <2>1
    <3>2. p \in 1..made
      BY <2>1, <3>1, PressIndex DEF PanelInv, PressTypes, ToastTypes
    <3>3. CASE Live(toast) /\ press[p].todo = t
      <4>1. Live(p)
        BY <1>4, <1>5, <1>6, <2>1, <3>2, LiveStays
      <4>2. press[p].n = press[toast].n
        BY <3>3, <4>1 DEF Live
      <4>3. toast \in regretted' \ {p}
        BY <1>4, <3>1
      <4>4. press'[toast].todo = t /\ press'[toast].n = press[toast].n
        BY <1>2, <1>6 DEF PressesStay
      <4>5. QED
        BY <3>1, <3>3, <4>2, <4>3, <4>4
    <3>4. CASE ~(Live(toast) /\ press[p].todo = t)
      BY <1>5, <2>1, <3>1, <3>2, <3>4 DEF PanelInv, PressTypes
    <3>5. QED
      BY <3>3, <3>4
  <2>2. regretted \subseteq regretted'
    BY <1>4
  <2>3. QED
    BY <1>4, <1>5, <1>6, <2>1, <2>2, SeenStays
<1>14. HiddenIsEnding'
  <2>1. ASSUME NEW p \in 1..made, press[p].stage \in {"waiting", "lost"}, Live(p)
        PROVE  press'[p].stage \in {"waiting", "lost"} \/ ~item'[press[p].todo].hidden
    <3>1. CASE p = toast
      BY <1>3, <1>5, <2>1, <3>1
    <3>2. CASE p # toast
      BY <1>6, <2>1, <3>2 DEF PressesStay
    <3>3. QED
      BY <3>1, <3>2
  <2>2. \A u \in Todos : item'[u].hidden => item[u].hidden
    BY <1>5
  <2>3. QED
    BY <1>4, <1>5, <1>6, <1>7, <2>1, <2>2, HiddenStays
<1>15. QED
  BY <1>6, <1>8, <1>9, <1>10, <1>11, <1>12, <1>13, <1>14 DEF PanelInv

-----------------------------------------------------------------------------
(* The toast and the clock *)

LEMMA DismissKeeps == ASSUME PanelInv, DismissToast PROVE PanelInv'
<1>1. /\ toast' = NoPress /\ toastLeft' = 0 /\ reopened' = FALSE
      /\ UNCHANGED <<stored, shown, view, item, press, made, lost, undone, regretted>>
  BY DEF DismissToast, CloseToast
<1>2. \A t \in Todos : Mounted(t)' <=> Mounted(t)
  BY <1>1 DEF Mounted, OnScreen
<1>3. ItemTypes'
  BY <1>1, <1>2 DEF PanelInv, ItemTypes
<1>4. ToastTypes'
  <2>1. toast' \in 0..made' /\ toastLeft' \in 0..ToastDelay
    BY <1>1, PressIndex, DelaysAssumption DEF PanelInv, ToastTypes
  <2>2. QED
    BY <1>1, <2>1 DEF PanelInv, ToastTypes
<1>5. PressTypes' /\ InOrder' /\ UndoneIsNotSent'
  BY <1>1 DEF PanelInv, PressTypes, InOrder, UndoneIsNotSent
<1>6. ToastIsLatest' /\ ToastIsShort'
  BY <1>1 DEF ToastIsLatest, ToastIsShort, ToastOnScreen
<1>7. SeenIsKept'
  BY <1>1 DEF PanelInv, SeenIsKept, Live, Mounted, OnScreen
<1>8. HiddenIsEnding' /\ UntouchedFormIsCurrent'
  BY <1>1, <1>2 DEF PanelInv, HiddenIsEnding, UntouchedFormIsCurrent
<1>9. QED
  BY <1>3, <1>4, <1>5, <1>6, <1>7, <1>8 DEF PanelInv

LEMMA TickKeeps == ASSUME PanelInv, Tick PROVE PanelInv'
<1>1. /\ press' = [p \in Presses |->
                     IF Running(p) THEN [press[p] EXCEPT !.left = @ - 1] ELSE press[p]]
      /\ toastLeft' = IF ToastOnScreen THEN toastLeft - 1 ELSE 0
      /\ UNCHANGED <<stored, shown, view, item, made, toast, lost, undone, regretted, reopened>>
  BY DEF Tick, history
<1>2. /\ \A p \in Presses : Running(p) => press[p].left > 0
      /\ ToastOnScreen => toastLeft > 0
  BY DEF Tick, Due, PanelInv, PressTypes, ToastTypes, PressState
<1>3. ASSUME NEW p \in Presses
      PROVE  /\ press'[p] \in PressState
             /\ press'[p].todo = press[p].todo /\ press'[p].n = press[p].n
             /\ press'[p].kind = press[p].kind /\ press'[p].stage = press[p].stage
             /\ press[p].stage = "waiting" => press'[p].left = press[p].left - 1
  <2>1. press[p] \in PressState
    BY DEF PanelInv, PressTypes
  <2>2. CASE Running(p)
    <3>1. press[p].left - 1 \in Nat
      BY <1>2, <2>1, <2>2 DEF PressState
    <3>2. press'[p] = [press[p] EXCEPT !.left = @ - 1]
      BY <1>1, <2>2
    <3>3. QED
      BY <2>1, <3>1, <3>2 DEF PressState
  <2>3. CASE ~Running(p)
    BY <1>1, <2>1, <2>3 DEF Running
  <2>4. QED
    BY <2>2, <2>3
<1>4. press' \in [Presses -> PressState]
  BY <1>1, <1>3
<1>5. PressesStay
  BY <1>3, PressIndex DEF PanelInv, ToastTypes, PressesStay
<1>6. ItemsStay /\ TodosStay /\ TextsStay
  BY <1>1 DEF ItemsStay, TodosStay, TextsStay, PanelInv, ItemTypes
<1>7. ItemTypes' /\ UntouchedFormIsCurrent'
  BY <1>1, <1>6, ScreenStays
<1>8. ToastTypes'
  <2>1. toastLeft' \in 0..ToastDelay
    BY <1>1, <1>2, DelaysAssumption DEF PanelInv, ToastTypes
  <2>2. QED
    BY <1>1, <2>1 DEF PanelInv, ToastTypes
<1>9. PressTypes'
  <2>1. \A p \in Presses : press'[p].stage = "none" <=> p > made'
    BY <1>1, <1>3 DEF PanelInv, PressTypes
  <2>2. \A p \in 1..made' : press'[p].todo \in Todos /\ press'[p].n <= item'[press'[p].todo].n
    BY <1>1, <1>5 DEF PanelInv, PressTypes, PressesStay
  <2>3. QED
    BY <1>4, <2>1, <2>2 DEF PressTypes
<1>10. InOrder'
  BY <1>3 DEF PanelInv, InOrder
<1>11. toast # NoPress => toast \in Presses
  BY PressIndex DEF PanelInv, ToastTypes
<1>12. ToastIsLatest'
  BY <1>1, <1>3, <1>11 DEF PanelInv, ToastIsLatest
<1>13. ToastIsShort'
  <2> SUFFICES ASSUME ToastOnScreen, toastLeft' > 0, ~reopened PROVE ToastIsShort'
    BY <1>1 DEF ToastIsShort, ToastOnScreen
  <2>1. toast \in Presses
    BY <1>11 DEF ToastOnScreen
  <2>2. press[toast].stage = "waiting" /\ toastLeft <= press[toast].left
    BY <1>2 DEF PanelInv, ToastIsShort
  <2>3. press'[toast].stage = "waiting" /\ press'[toast].left = press[toast].left - 1
    BY <1>3, <2>1, <2>2
  <2>4. toastLeft - 1 <= press[toast].left - 1
    BY <2>1, <2>2 DEF PanelInv, ToastTypes, PressTypes, PressState
  <2>5. QED
    BY <1>1, <2>3, <2>4 DEF ToastIsShort
<1>14. UndoneIsNotSent'
  <2>1. \A p \in undone : p \in Presses
    BY PressIndex DEF PanelInv, ToastTypes
  <2>2. QED
    BY <1>1, <1>3, <2>1 DEF PanelInv, UndoneIsNotSent
<1>15. SeenIsKept'
  <2>1. \A p \in Presses : press'[p].stage = "waiting" /\ ~item'[press'[p].todo].hidden =>
            p \in 1..made /\ press[p].stage = "waiting" /\ ~item[press[p].todo].hidden
    BY <1>1, <1>3, PressIndex DEF PanelInv, PressTypes, ToastTypes
  <2>2. QED
    BY <1>1, <1>5, <1>6, <2>1, SeenStays
<1>16. HiddenIsEnding'
  <2>1. \A p \in 1..made : press'[p].stage = press[p].stage
    BY <1>3, <1>5 DEF PressesStay
  <2>2. QED
    BY <1>1, <1>5, <1>6, <2>1, HiddenStays
<1>17. QED
  BY <1>7, <1>8, <1>9, <1>10, <1>12, <1>13, <1>14, <1>15, <1>16 DEF PanelInv

-----------------------------------------------------------------------------
(* The sidebar *)

\* An item is taken off the screen, stays as it is, or is mounted anew.
LEMMA RenderFacts ==
    ASSUME PanelInv, NEW v \in PanelViews, NEW s \in [Todos -> TodoState], Render(v, s)
    PROVE  /\ item' \in [Todos -> ItemState]
           /\ \A t \in Todos : item[t].n <= item'[t].n
           /\ \A t \in Todos : Mounted(t)' =>
                 \/ Mounted(t) /\ item'[t] = item[t]
                 \/ /\ item'[t].n = item[t].n + 1 /\ ~item'[t].hidden /\ ~item'[t].typed
                    /\ item'[t].draft = s[t].text
                    /\ s[t].text = stored[t].text \/ item'[t].others \/ item'[t].early
<1>1. view' = v /\ shown' = s /\ item' = [t \in Todos |-> Remounted(t, v, s)]
  BY DEF Render
<1>2. ASSUME NEW t \in Todos
      PROVE  /\ item'[t] \in ItemState
             /\ item[t].n <= item'[t].n
             /\ Mounted(t)' =>
                  \/ Mounted(t) /\ item'[t] = item[t]
                  \/ /\ item'[t].n = item[t].n + 1 /\ ~item'[t].hidden /\ ~item'[t].typed
                     /\ item'[t].draft = s[t].text
                     /\ s[t].text = stored[t].text \/ item'[t].others \/ item'[t].early
  <2>1. item'[t] = Remounted(t, v, s) /\ (Mounted(t)' <=> OnScreen(v, s, t))
    BY <1>1 DEF Mounted
  <2>2. item[t] \in ItemState /\ item[t].n \in Nat /\ s[t].text \in Texts
    BY DEF PanelInv, ItemTypes, ItemState, TodoState
  <2>3. CASE ~OnScreen(v, s, t)
    <3>1. item'[t] = Unmounted(item[t].n)
      BY <2>1, <2>3 DEF Remounted
    <3>2. QED
      BY <2>1, <2>2, <2>3, <3>1 DEF Unmounted, ItemState
  <2>4. CASE OnScreen(v, s, t) /\ Mounted(t) /\ shown[t].list = s[t].list
    <3>1. item'[t] = item[t]
      BY <2>1, <2>4 DEF Remounted
    <3>2. QED
      BY <2>2, <2>4, <3>1
  <2>5. CASE OnScreen(v, s, t) /\ ~(Mounted(t) /\ shown[t].list = s[t].list)
    <3> DEFINE old == s[t].text # stored[t].text
    <3>1. item'[t] = Fresh(item[t].n + 1, s[t].text, stored[t].text, t \in mine)
      BY <2>1, <2>5 DEF Remounted
    <3>2. item'[t] = [n |-> item[t].n + 1, done |-> FALSE, hidden |-> FALSE, editing |-> FALSE,
                      draft |-> s[t].text, typed |-> FALSE, others |-> old /\ t \notin mine,
                      early |-> old /\ t \in mine]
      BY <3>1 DEF Fresh, Unmounted
    <3>3. old \in BOOLEAN
      OBVIOUS
    <3> HIDE DEF old
    <3>4. item'[t] \in ItemState
      BY <2>2, <3>2, <3>3 DEF ItemState
    <3>5. /\ item'[t].n = item[t].n + 1 /\ ~item'[t].hidden /\ ~item'[t].typed
          /\ item'[t].draft = s[t].text
          /\ item'[t].others = (old /\ t \notin mine) /\ item'[t].early = (old /\ t \in mine)
      BY <3>2
    <3>6. old => item'[t].others \/ item'[t].early
      BY <3>3, <3>5
    <3>7. item[t].n <= item'[t].n
      BY <2>2, <3>5
    <3>8. QED
      BY <3>4, <3>5, <3>6, <3>7 DEF old
  <2>6. QED
    BY <2>3, <2>4, <2>5
<1>3. QED
  BY <1>1, <1>2

\* A press whose item is not mounted any more never gets it back.
LEMMA RenderKeeps ==
    ASSUME PanelInv, NEW v \in PanelViews, NEW s \in [Todos -> TodoState], Render(v, s),
           UNCHANGED <<stored, press, made, toast, lost, undone, regretted>>,
           toastLeft' \in 0..ToastDelay, reopened' \in BOOLEAN, ToastIsShort'
    PROVE  PanelInv'
<1>1. /\ item' \in [Todos -> ItemState]
      /\ \A t \in Todos : item[t].n <= item'[t].n
      /\ \A t \in Todos : Mounted(t)' =>
            \/ Mounted(t) /\ item'[t] = item[t]
            \/ /\ item'[t].n = item[t].n + 1 /\ ~item'[t].hidden /\ ~item'[t].typed
               /\ item'[t].draft = s[t].text
               /\ s[t].text = stored[t].text \/ item'[t].others \/ item'[t].early
  BY RenderFacts
<1>2. view' = v /\ shown' = s
  BY DEF Render
<1>3. \A t \in Todos : s[t].text \in Texts /\ item[t].n \in Nat /\ item'[t].n \in Nat
  BY <1>1 DEF TodoState, PanelInv, ItemTypes, ItemState
<1>4. ItemTypes'
  BY <1>1, <1>2, <1>3 DEF PanelInv, ItemTypes
<1>5. ToastTypes'
  BY DEF PanelInv, ToastTypes
<1>6. PressTypes'
  <2>1. ASSUME NEW p \in 1..made
        PROVE  press[p].todo \in Todos /\ press[p].n <= item'[press[p].todo].n
    <3>1. p \in Presses /\ press[p].todo \in Todos /\ press[p].n <= item[press[p].todo].n
      BY PressIndex DEF PanelInv, PressTypes, ToastTypes
    <3>2. press[p].n \in Nat
      BY <3>1 DEF PanelInv, PressTypes, PressState
    <3>3. item[press[p].todo].n <= item'[press[p].todo].n
      BY <1>1, <3>1
    <3>4. QED
      BY <1>3, <3>1, <3>2, <3>3
  <2>2. QED
    BY <2>1 DEF PanelInv, PressTypes
<1>7. InOrder' /\ ToastIsLatest' /\ UndoneIsNotSent'
  BY DEF PanelInv, InOrder, ToastIsLatest, UndoneIsNotSent
<1>8. SeenIsKept'
  <2> SUFFICES ASSUME NEW p \in Presses, press[p].stage = "waiting", Live(p)',
                      ~item'[press[p].todo].hidden
               PROVE  \E q \in regretted \ {p} :
                         press[q].todo = press[p].todo /\ press[q].n = press[p].n
    BY DEF SeenIsKept
  <2>1. press[p].todo \in Todos /\ press[p].n <= item[press[p].todo].n /\ press[p].n \in Nat
    BY PressIndex DEF PanelInv, PressTypes, PressState, ToastTypes
  <2>2. Mounted(press[p].todo)' /\ item'[press[p].todo].n = press[p].n
    BY DEF Live
  <2>3. item'[press[p].todo].n # item[press[p].todo].n + 1
    BY <1>3, <2>1, <2>2
  <2>4. Mounted(press[p].todo) /\ item'[press[p].todo] = item[press[p].todo]
    BY <1>1, <2>1, <2>2, <2>3
  <2>5. Live(p) /\ ~item[press[p].todo].hidden
    BY <2>2, <2>4 DEF Live
  <2>6. QED
    BY <2>5 DEF PanelInv, SeenIsKept
<1>9. HiddenIsEnding'
  BY <1>1 DEF PanelInv, HiddenIsEnding
<1>10. UntouchedFormIsCurrent'
  BY <1>1 DEF PanelInv, UntouchedFormIsCurrent
<1>11. QED
  BY <1>4, <1>5, <1>6, <1>7, <1>8, <1>9, <1>10 DEF PanelInv

LEMMA SidebarKeeps == ASSUME PanelInv, Sidebar \/ Refresh PROVE PanelInv'
<1>1. /\ UNCHANGED <<stored, press, made, toast, lost, undone, regretted>>
      /\ toastLeft' \in 0..ToastDelay /\ reopened' \in BOOLEAN
  <2>1. ToastDelay \in Nat /\ toastLeft \in 0..ToastDelay /\ reopened \in BOOLEAN
    BY DelaysAssumption DEF PanelInv, ToastTypes
  <2>2. CASE OpenSidebar
    BY <2>1, <2>2 DEF OpenSidebar
  <2>3. CASE CloseSidebar \/ SwitchList \/ Refresh
    BY <2>1, <2>3 DEF CloseSidebar, SwitchList, Refresh, history
  <2>4. QED
    BY <2>2, <2>3 DEF Sidebar
<1>2. PICK v \in PanelViews, s \in [Todos -> TodoState] : Render(v, s)
  <2>1. "closed" \in PanelViews /\ "my" \in PanelViews /\ "out" \in PanelViews /\ view \in PanelViews
    BY DEF PanelViews, PanelInv, ItemTypes
  <2>2. stored \in [Todos -> TodoState] /\ shown \in [Todos -> TodoState]
    BY DEF PanelInv, ItemTypes
  <2>3. CASE OpenSidebar
    BY <2>1, <2>2, <2>3 DEF OpenSidebar
  <2>4. CASE CloseSidebar
    BY <2>1, <2>2, <2>4 DEF CloseSidebar
  <2>5. CASE SwitchList
    BY <2>1, <2>2, <2>5 DEF SwitchList
  <2>6. CASE Refresh
    BY <2>1, <2>2, <2>6 DEF Refresh
  <2>7. QED
    BY <2>3, <2>4, <2>5, <2>6 DEF Sidebar
<1>3. ToastIsShort'
  <2>1. CASE OpenSidebar
    BY <2>1 DEF OpenSidebar, ToastIsShort, ToastOnScreen
  <2>2. CASE CloseSidebar
    BY <2>2 DEF CloseSidebar, Render, ToastIsShort, ToastOnScreen
  <2>3. CASE SwitchList
    BY <1>1, <2>3 DEF SwitchList, Render, history, PanelInv, ToastIsShort, ToastOnScreen
  <2>4. CASE Refresh
    BY <1>1, <2>4 DEF Refresh, Render, history, PanelInv, ToastIsShort, ToastOnScreen
  <2>5. QED
    BY <2>1, <2>2, <2>3, <2>4 DEF Sidebar
<1>4. QED
  BY <1>1, <1>2, <1>3, RenderKeeps

-----------------------------------------------------------------------------
(* The buttons that set no timer, and the other users *)

\* A step that leaves presses and toast alone, and the items where they are.
LEMMA QuietKeeps ==
    ASSUME PanelInv, UNCHANGED <<shown, view, press, made, toast, toastLeft, undone, regretted, reopened>>,
           lost' \in 0..MaxLost, TodosStay, item' \in [Todos -> ItemState],
           \A t \in Todos : item'[t].n = item[t].n /\ item'[t].hidden = item[t].hidden,
           \A t \in Todos : Mounted(t) => item'[t].draft \in Texts,
           \A t \in Todos : Mounted(t) /\ ~item'[t].typed /\ ~item'[t].others /\ ~item'[t].early =>
                               item'[t].draft = stored'[t].text
    PROVE  PanelInv'
<1>1. UNCHANGED <<undone, regretted, reopened>>
  OBVIOUS
<1>2. \A t \in Todos : Mounted(t)' <=> Mounted(t)
  BY DEF Mounted, OnScreen
<1>3. ItemTypes'
  BY <1>2 DEF PanelInv, ItemTypes, TodosStay
<1>4. ToastTypes'
  BY <1>1 DEF PanelInv, ToastTypes
<1>5. PressTypes'
  BY DEF PanelInv, PressTypes
<1>6. InOrder' /\ ToastIsLatest' /\ ToastIsShort' /\ UndoneIsNotSent'
  BY <1>1 DEF PanelInv, InOrder, ToastIsLatest, ToastIsShort, ToastOnScreen, UndoneIsNotSent
<1>7. SeenIsKept'
  <2> SUFFICES ASSUME NEW p \in Presses, press[p].stage = "waiting", Live(p)',
                      ~item'[press[p].todo].hidden
               PROVE  \E q \in regretted \ {p} :
                         press[q].todo = press[p].todo /\ press[q].n = press[p].n
    BY <1>1 DEF SeenIsKept
  <2>1. press[p].todo \in Todos
    BY PressIndex DEF PanelInv, PressTypes, ToastTypes
  <2>2. Live(p) /\ ~item[press[p].todo].hidden
    BY <1>2, <2>1 DEF Live
  <2>3. QED
    BY <2>2 DEF PanelInv, SeenIsKept
<1>8. HiddenIsEnding'
  BY <1>2 DEF PanelInv, HiddenIsEnding, TodosStay
<1>9. UntouchedFormIsCurrent'
  BY <1>2 DEF UntouchedFormIsCurrent
<1>10. QED
  BY <1>3, <1>4, <1>5, <1>6, <1>7, <1>8, <1>9 DEF PanelInv

LEMMA EndedFacts ==
    ASSUME PanelInv, NEW t \in Todos, stored' = Ended(t) PROVE TodosStay /\ TextsStay
BY DEF Ended, TodosStay, TextsStay, PanelInv, ItemTypes, TodoState

LEMMA AnswerKeeps ==
    ASSUME PanelInv, NEW t \in Todos, Accept(t) \/ PostRemove(t) PROVE PanelInv'
<1>1. TodosStay /\ TextsStay
  <2>1. CASE Accept(t)
    BY <2>1 DEF Accept, TodosStay, TextsStay, PanelInv, ItemTypes, TodoState, Lists
  <2>2. CASE PostRemove(t)
    BY <2>2, EndedFacts DEF PostRemove
  <2>3. QED
    BY <2>1, <2>2
<1>2. UNCHANGED <<shown, view, item, press, made, toast, toastLeft, lost, undone, regretted, reopened>>
  BY DEF Accept, PostRemove, history
<1>3. lost' \in 0..MaxLost /\ item' \in [Todos -> ItemState]
  BY <1>2 DEF PanelInv, ItemTypes, ToastTypes
<1>4. \A u \in Todos : Mounted(u) => item'[u].draft \in Texts
  BY <1>2 DEF PanelInv, ItemTypes
<1>5. \A u \in Todos : Mounted(u) /\ ~item'[u].typed /\ ~item'[u].others /\ ~item'[u].early =>
                         item'[u].draft = stored'[u].text
  BY <1>1, <1>2 DEF PanelInv, UntouchedFormIsCurrent, TextsStay
<1>6. QED
  BY <1>1, <1>2, <1>3, <1>4, <1>5, QuietKeeps

\* One item's form changes.
LEMMA FormKeeps ==
    ASSUME PanelInv, NEW t \in Todos, NEW new \in ItemState, item' = [item EXCEPT ![t] = new],
           new.n = item[t].n, new.hidden = item[t].hidden,
           Mounted(t) => new.draft \in Texts,
           Mounted(t) /\ ~new.typed /\ ~new.others /\ ~new.early => new.draft = stored'[t].text,
           TodosStay, \A u \in Todos : u # t => stored'[u].text = stored[u].text,
           lost' \in 0..MaxLost,
           UNCHANGED <<shown, view, press, made, toast, toastLeft, undone, regretted, reopened>>
    PROVE  PanelInv'
<1>1. item \in [Todos -> ItemState]
  BY DEF PanelInv, ItemTypes
<1>2. /\ item' \in [Todos -> ItemState] /\ item'[t] = new
      /\ \A u \in Todos : u # t => item'[u] = item[u]
  BY <1>1
<1>3. \A u \in Todos : item'[u].n = item[u].n /\ item'[u].hidden = item[u].hidden
  BY <1>2
<1>4. \A u \in Todos : Mounted(u) => item'[u].draft \in Texts
  BY <1>2 DEF PanelInv, ItemTypes
<1>5. \A u \in Todos : Mounted(u) /\ ~item'[u].typed /\ ~item'[u].others /\ ~item'[u].early =>
                         item'[u].draft = stored'[u].text
  BY <1>2 DEF PanelInv, UntouchedFormIsCurrent
<1>6. QED
  BY <1>2, <1>3, <1>4, <1>5, QuietKeeps

LEMMA EditKeeps ==
    ASSUME PanelInv, NEW t \in Todos, BeginEdit(t) \/ Type(t) \/ CancelEdit(t) PROVE PanelInv'
<1>1. UNCHANGED <<stored, shown, view, press, made, toast, toastLeft, lost, undone, regretted, reopened>>
  BY DEF BeginEdit, Type, CancelEdit, history
<1>2. item[t] \in ItemState /\ item \in [Todos -> ItemState] /\ (Mounted(t) => item[t].draft \in Texts)
  BY DEF PanelInv, ItemTypes
<1>3. PICK new \in ItemState :
         /\ item' = [item EXCEPT ![t] = new]
         /\ new.n = item[t].n /\ new.hidden = item[t].hidden
         /\ Mounted(t) => new.draft \in Texts
         /\ new.others = item[t].others /\ new.early = item[t].early
         /\ ~new.typed => ~item[t].typed /\ new.draft = item[t].draft
  <2>1. ASSUME NEW b \in BOOLEAN, item' = [item EXCEPT ![t].editing = b]
        PROVE  LET new == [item[t] EXCEPT !.editing = b] IN
               /\ new \in ItemState
               /\ item' = [item EXCEPT ![t] = new]
               /\ new.n = item[t].n /\ new.hidden = item[t].hidden
               /\ new.draft = item[t].draft /\ new.typed = item[t].typed
               /\ new.others = item[t].others /\ new.early = item[t].early
    BY <1>2, <2>1 DEF ItemState
  <2>2. CASE BeginEdit(t) \/ CancelEdit(t)
    BY <1>2, <2>1, <2>2 DEF BeginEdit, CancelEdit
  <2>3. CASE Type(t)
    <3>1. PICK text \in Texts : item' = [item EXCEPT ![t].draft = text, ![t].typed = TRUE]
      BY <2>3 DEF Type
    <3> DEFINE new == [item[t] EXCEPT !.draft = text, !.typed = TRUE]
    <3>2. /\ new \in ItemState
          /\ new.n = item[t].n /\ new.hidden = item[t].hidden
          /\ new.draft = text /\ new.typed = TRUE /\ new.others = item[t].others
          /\ new.early = item[t].early
      BY <1>2 DEF ItemState
    <3>3. item' = [item EXCEPT ![t] = new]
      BY <1>2, <3>1
    <3> HIDE DEF new
    <3>4. QED
      BY <3>2, <3>3
  <2>4. QED
    BY <2>2, <2>3
<1>4. TodosStay /\ lost' \in 0..MaxLost
  BY <1>1 DEF TodosStay, PanelInv, ItemTypes, ToastTypes
<1>5. Mounted(t) /\ ~new.typed /\ ~new.others /\ ~new.early => new.draft = stored'[t].text
  BY <1>1, <1>3 DEF PanelInv, UntouchedFormIsCurrent
<1>6. QED
  BY <1>1, <1>3, <1>4, <1>5, FormKeeps

LEMMA SaveKeeps == ASSUME PanelInv, NEW t \in Todos, SaveEditedTodo(t) PROVE PanelInv'
<1>1. UNCHANGED <<shown, view, press, made, toast, toastLeft, undone, regretted, reopened>>
  BY DEF SaveEditedTodo
<1>2. /\ item[t] \in ItemState /\ item \in [Todos -> ItemState]
      /\ Mounted(t) /\ item[t].draft \in Texts
      /\ stored \in [Todos -> TodoState]
  BY DEF PanelInv, ItemTypes, SaveEditedTodo, Offered
<1>3. CASE /\ stored' = [stored EXCEPT ![t].text = item[t].draft]
           /\ item' = [item EXCEPT ![t].editing = FALSE, ![t].typed = FALSE, ![t].others = FALSE,
                                   ![t].early = FALSE]
           /\ UNCHANGED lost
  <2> DEFINE new == [item[t] EXCEPT !.editing = FALSE, !.typed = FALSE, !.others = FALSE,
                                    !.early = FALSE]
  <2>1. /\ new \in ItemState
        /\ new.n = item[t].n /\ new.hidden = item[t].hidden /\ new.draft = item[t].draft
    BY <1>2 DEF ItemState
  <2>2. item' = [item EXCEPT ![t] = new]
    BY <1>2, <1>3
  <2>3. /\ TodosStay /\ stored'[t].text = item[t].draft
        /\ \A u \in Todos : u # t => stored'[u].text = stored[u].text
    BY <1>2, <1>3 DEF TodosStay, TodoState
  <2>4. lost' \in 0..MaxLost
    BY <1>3 DEF PanelInv, ToastTypes
  <2> HIDE DEF new
  <2>5. QED
    BY <1>1, <1>2, <2>1, <2>2, <2>3, <2>4, FormKeeps
<1>4. CASE /\ \/ UNCHANGED lost
              \/ lost < MaxLost /\ lost' = lost + 1
           /\ item' = [item EXCEPT ![t].editing = FALSE]
           /\ UNCHANGED stored
  <2> DEFINE new == [item[t] EXCEPT !.editing = FALSE]
  <2>1. /\ new \in ItemState
        /\ new.n = item[t].n /\ new.hidden = item[t].hidden /\ new.draft = item[t].draft
        /\ new.typed = item[t].typed /\ new.others = item[t].others /\ new.early = item[t].early
    BY <1>2 DEF ItemState
  <2>2. item' = [item EXCEPT ![t] = new]
    BY <1>2, <1>4
  <2>3. TodosStay /\ \A u \in Todos : stored'[u].text = stored[u].text
    BY <1>2, <1>4 DEF TodosStay
  <2>4. lost' \in 0..MaxLost
    BY <1>4, BoundsAssumption DEF PanelInv, ToastTypes
  <2>5. ~item[t].typed /\ ~item[t].others /\ ~item[t].early => item[t].draft = stored'[t].text
    BY <1>2, <1>4 DEF PanelInv, UntouchedFormIsCurrent
  <2> HIDE DEF new
  <2>6. QED
    BY <1>1, <1>2, <2>1, <2>2, <2>3, <2>4, <2>5, FormKeeps
<1>5. QED
  BY <1>3, <1>4 DEF SaveEditedTodo

LEMMA OtherUserKeeps == ASSUME PanelInv, NEW t \in Todos, OtherUser(t) PROVE PanelInv'
<1>1. UNCHANGED <<shown, view, press, made, toast, toastLeft, lost, undone, regretted, reopened>>
  BY DEF OtherUser
<1>2. /\ item[t] \in ItemState /\ item \in [Todos -> ItemState]
      /\ (Mounted(t) => item[t].draft \in Texts)
      /\ stored \in [Todos -> TodoState] /\ lost' \in 0..MaxLost
  BY <1>1 DEF PanelInv, ItemTypes, ToastTypes
<1>3. CASE /\ \E text \in Texts \ {stored[t].text} : stored' = [stored EXCEPT ![t].text = text]
           /\ item' = [item EXCEPT ![t].others = Mounted(t)]
  <2> DEFINE new == [item[t] EXCEPT !.others = Mounted(t)]
  <2>0. Mounted(t) \in BOOLEAN
    BY DEF Mounted, OnScreen
  <2>1. /\ new \in ItemState
        /\ new.n = item[t].n /\ new.hidden = item[t].hidden /\ new.draft = item[t].draft
        /\ new.others = Mounted(t)
    BY <1>2, <2>0 DEF ItemState
  <2>2. item' = [item EXCEPT ![t] = new]
    BY <1>2, <1>3
  <2>3. TodosStay /\ \A u \in Todos : u # t => stored'[u].text = stored[u].text
    BY <1>2, <1>3 DEF TodosStay, TodoState
  <2> HIDE DEF new
  <2>4. QED
    BY <1>1, <1>2, <2>1, <2>2, <2>3, FormKeeps
<1>4. CASE stored' = Ended(t) /\ UNCHANGED item
  <2>1. TodosStay /\ TextsStay
    BY <1>4, EndedFacts
  <2>2. \A u \in Todos : Mounted(u) => item'[u].draft \in Texts
    BY <1>4 DEF PanelInv, ItemTypes
  <2>3. \A u \in Todos : Mounted(u) /\ ~item'[u].typed /\ ~item'[u].others /\ ~item'[u].early =>
                           item'[u].draft = stored'[u].text
    BY <1>4, <2>1 DEF PanelInv, UntouchedFormIsCurrent, TextsStay
  <2>4. QED
    BY <1>1, <1>2, <1>4, <2>1, <2>2, <2>3, QuietKeeps
<1>5. QED
  BY <1>3, <1>4 DEF OtherUser

-----------------------------------------------------------------------------
(* The panel's theorems *)

LEMMA PanelStarts == Init => PanelInv
<1> SUFFICES ASSUME Init PROVE PanelInv
  OBVIOUS
<1>1. /\ stored \in [Todos -> TodoState] /\ shown = stored /\ view = "closed"
      /\ item = [t \in Todos |-> Unmounted(0)] /\ press = [p \in Presses |-> NoTimer]
      /\ made = 0 /\ toast = 0 /\ toastLeft = 0 /\ lost = 0
      /\ undone = {} /\ regretted = {} /\ reopened = FALSE
  BY DEF Init, TodoState, NoPress
<1>2. \A t \in Todos : ~Mounted(t)
  BY <1>1 DEF Mounted, OnScreen
<1>3. item \in [Todos -> ItemState]
  BY <1>1 DEF Unmounted, ItemState
<1>4. ItemTypes
  BY <1>1, <1>2, <1>3 DEF ItemTypes, PanelViews
<1>5. ToastTypes
  <2>1. made \in 0..MaxPresses /\ toast \in 0..made /\ toastLeft \in 0..ToastDelay
    BY <1>1, BoundsAssumption, DelaysAssumption
  <2>2. lost \in 0..MaxLost
    BY <1>1, BoundsAssumption
  <2>3. QED
    BY <1>1, <2>1, <2>2 DEF ToastTypes
<1>6. NoTimer \in PressState /\ NoTimer.stage = "none"
  <2>1. NoTimer.todo \in Todos \cup {NoTimer.todo}
    OBVIOUS
  <2>2. /\ NoTimer.n = 0 /\ NoTimer.kind = "complete" /\ NoTimer.stage = "none" /\ NoTimer.left = 0
        /\ NoTimer = [todo |-> NoTimer.todo, n |-> 0, kind |-> "complete", stage |-> "none",
                      left |-> 0]
    BY DEF NoTimer
  <2> DEFINE blank == NoTimer
  <2> HIDE DEF blank
  <2>3. QED
    BY <2>1, <2>2 DEF PressState, Kinds, Stages
<1>7. \A p \in Presses : press[p] = NoTimer /\ p > made
  BY <1>1, PressIndex
<1>8. PressTypes
  <2>1. press \in [Presses -> PressState]
    BY <1>1, <1>6
  <2>2. \A p \in Presses : press[p].stage = "none" <=> p > made
    BY <1>6, <1>7
  <2>3. \A p \in 1..made : press[p].todo \in Todos /\ press[p].n <= item[press[p].todo].n
    BY <1>1
  <2>4. QED
    BY <2>1, <2>2, <2>3 DEF PressTypes
<1>9. InOrder
  BY <1>6, <1>7 DEF InOrder
<1>10. ToastIsLatest /\ ToastIsShort /\ UndoneIsNotSent
  BY <1>1 DEF ToastIsLatest, ToastIsShort, ToastOnScreen, UndoneIsNotSent, NoPress
<1>11. SeenIsKept
  BY <1>6, <1>7 DEF SeenIsKept
<1>12. HiddenIsEnding /\ UntouchedFormIsCurrent
  BY <1>2 DEF HiddenIsEnding, UntouchedFormIsCurrent
<1>13. QED
  BY <1>4, <1>5, <1>8, <1>9, <1>10, <1>11, <1>12 DEF PanelInv

LEMMA PanelSteps == PanelInv /\ [Next]_vars => PanelInv'
<1> SUFFICES ASSUME PanelInv, [Next]_vars PROVE PanelInv'
  OBVIOUS
<1>1. CASE Timeout
  BY <1>1, CompleteToastKeeps, RequestKeeps DEF Timeout
<1>2. CASE Tick
  BY <1>2, TickKeeps
<1>3. CASE DismissToast
  BY <1>3, DismissKeeps
<1>4. CASE Undo
  BY <1>4, UndoKeeps
<1>5. CASE Sidebar \/ Refresh
  BY <1>5, SidebarKeeps
<1>6. ASSUME NEW t \in Todos, Click(t) PROVE PanelInv'
  BY <1>6, MarkingKeeps, RemoveTodoKeeps, AnswerKeeps, EditKeeps, SaveKeeps DEF Click
<1>7. ASSUME NEW t \in Todos, OtherUser(t) PROVE PanelInv'
  BY <1>7, OtherUserKeeps
<1>8. CASE UNCHANGED vars
  <2>1. /\ UNCHANGED <<shown, view, press, made, toast, toastLeft, undone, regretted, reopened>>
        /\ UNCHANGED <<stored, item, lost>>
    BY <1>8 DEF vars, history
  <2>2. TodosStay /\ lost' \in 0..MaxLost /\ item' \in [Todos -> ItemState]
    BY <2>1 DEF TodosStay, PanelInv, ItemTypes, ToastTypes
  <2>3. \A t \in Todos : Mounted(t) => item'[t].draft \in Texts
    BY <2>1 DEF PanelInv, ItemTypes
  <2>4. \A t \in Todos : Mounted(t) /\ ~item'[t].typed /\ ~item'[t].others /\ ~item'[t].early =>
                           item'[t].draft = stored'[t].text
    BY <2>1 DEF PanelInv, UntouchedFormIsCurrent
  <2>5. QED
    BY <2>1, <2>2, <2>3, <2>4, QuietKeeps
<1>9. QED
  BY <1>1, <1>2, <1>3, <1>4, <1>5, <1>6, <1>7, <1>8 DEF Next

LEMMA PanelInvHolds == Spec => []PanelInv
BY PanelStarts, PanelSteps, PTL DEF Spec

\* The items, the presses, the toast and its timer always have their types.
THEOREM TypeCorrect == Spec => [](ItemTypes /\ PressTypes /\ ToastTypes)
<1>1. PanelInv => ItemTypes /\ PressTypes /\ ToastTypes
  BY DEF PanelInv
<1>2. QED
  BY <1>1, PanelInvHolds, PTL

\* A press that was undone before it was sent is never sent, however many presses,
\* toasts and items there are (undoCompleteTodo and undoRemoveTodo, todo_item.jsx).
THEOREM WhatIsUndoneIsNotSent == Spec => []UndoneIsNotSent
<1>1. PanelInv => UndoneIsNotSent
  BY DEF PanelInv
<1>2. QED
  BY <1>1, PanelInvHolds, PTL

\* A toast whose timer runs offers an undo that still works, as long as the
\* toast's delay is not longer than the request's (TodoToast).
THEOREM UndoWorksWhileOffered == Spec => []UndoIsOfferedInTime
<1>1. PanelInv => UndoIsOfferedInTime
  BY DEF PanelInv, ToastIsShort, UndoIsOfferedInTime
<1>2. QED
  BY <1>1, PanelInvHolds, PTL

\* An item on the screen is not about to be ended, unless another press of it
\* was undone (the one toast, and hidden of TodoItem).
THEOREM ItemsOnTheScreenAreKept == Spec => []SeenIsKept
<1>1. PanelInv => SeenIsKept
  BY DEF PanelInv
<1>2. QED
  BY <1>1, PanelInvHolds, PTL

\* Only a press that ends a todo hides its item (setHidden of TodoItem).
THEOREM HiddenItemsAreEnding == Spec => []HiddenIsEnding
<1>1. PanelInv => HiddenIsEnding
  BY DEF PanelInv
<1>2. QED
  BY <1>1, PanelInvHolds, PTL

\* A form nobody typed in holds the text on the server, unless somebody else has
\* changed it since the lists it was made from were fetched, or these are older
\* than an edit of the user's own (the editTodo state of TodoItem).
THEOREM UntouchedFormsAreCurrent == Spec => []UntouchedFormIsCurrent
<1>1. PanelInv => UntouchedFormIsCurrent
  BY DEF PanelInv
<1>2. QED
  BY <1>1, PanelInvHolds, PTL

-----------------------------------------------------------------------------
(* The form and the modal *)

FormState ==
    [message : Messages \cup {Empty}, link : Posts \cup {None}, described : BOOLEAN,
     attach : BOOLEAN, typing : BOOLEAN]

FormTypes ==
    /\ mounted \in BOOLEAN /\ visible \in BOOLEAN /\ modal \in BOOLEAN /\ kept \in BOOLEAN
    /\ postID \in Posts \cup {None}
    /\ assignee \in Assignees \cup {None} /\ chosen \in Assignees \cup {None}
    /\ editingTodo \in Todos \cup {None} /\ opener \in Todos \cup {None}
    /\ escaped \in Todos \cup {None}
    /\ form \in FormState

\* Behind no modal, a todo to reassign is one the Escape key left there.  A modal
\* of the form has the form behind it.
ModalFacts ==
    /\ ~modal => editingTodo = escaped
    /\ modal /\ opener = None => visible

FormInv ==
    /\ FormTypes
    /\ ModalFacts
    /\ AssigneeIsOfThisForm
    /\ FormFitsPost
    /\ ModalIsForItsOpener

\* getDerivedStateFromProps makes the form of an open card fit its post, unless
\* the user has typed, and never touches what he has typed.
LEMMA DerivedFacts ==
    ASSUME NEW vis \in BOOLEAN, NEW p \in Posts \cup {None}, NEW f \in FormState
    PROVE  /\ Derived(vis, p, f) \in FormState
           /\ Derived(vis, p, f).typing = f.typing
           /\ f.typing => Derived(vis, p, f) = f
           /\ ~f.typing /\ vis => /\ Derived(vis, p, f).link = p
                                  /\ Derived(vis, p, f).message = MessageOf(p)
<1>1. MessageOf(p) \in Messages \cup {Empty}
  BY PostsAssumption DEF MessageOf
<1>2. CASE f.typing
  BY <1>2 DEF Derived
<1>3. CASE ~f.typing /\ vis
  BY <1>1, <1>3 DEF Derived, LinkOf, FormState
<1>4. CASE ~f.typing /\ ~vis
  BY <1>1, <1>4 DEF Derived, LinkOf, FormState
<1>5. QED
  BY <1>2, <1>3, <1>4 DEF FormState

LEMMA NewFormFacts ==
    ASSUME NEW p \in Posts \cup {None}
    PROVE  NewForm(p) \in FormState /\ ~NewForm(p).typing
<1>1. MessageOf(p) \in Messages \cup {Empty}
  BY PostsAssumption DEF MessageOf
<1>2. QED
  BY <1>1 DEF NewForm, LinkOf, FormState

\* A step that leaves the modal alone and opens, closes or fills in the form.
LEMMA FormStep ==
    ASSUME FormInv, UNCHANGED modalVars,
           FormTypes', FormFitsPost',
           visible' = visible \/ visible' = TRUE \/ (visible' = FALSE /\ ~modal),
           assignee' \in {assignee, None}, assignee' # None => (visible => visible')
    PROVE  FormInv'
BY DEF FormInv, FormTypes, ModalFacts, AssigneeIsOfThisForm, ModalIsForItsOpener, modalVars

LEMMA OpenAddCardKeeps ==
    ASSUME FormInv, NEW p \in Posts \cup {None}, OpenAddCard(p)
    PROVE  FormInv'
<1> DEFINE f == IF mounted THEN form ELSE NewForm(p)
<1>1. f \in FormState /\ (~mounted => ~f.typing)
  BY NewFormFacts DEF FormInv, FormTypes
<1> HIDE DEF f
<1>2. /\ Derived(TRUE, p, f) \in FormState
      /\ Derived(TRUE, p, f).typing = f.typing
      /\ f.typing => Derived(TRUE, p, f) = f
      /\ ~f.typing => /\ Derived(TRUE, p, f).link = p
                      /\ Derived(TRUE, p, f).message = MessageOf(p)
  BY <1>1, DerivedFacts, ZenonT(60)
<1>3. /\ visible' = TRUE /\ postID' = p /\ mounted' = TRUE
      /\ form' = Derived(TRUE, p, f)
      /\ kept' = (kept \/ (mounted /\ form.typing))
      /\ UNCHANGED assignee /\ UNCHANGED modalVars
  BY DEF OpenAddCard, f
<1>4. FormFitsPost'
  BY <1>1, <1>2, <1>3 DEF FormFitsPost, LinkOf, MessageOf, f
<1>5. FormTypes'
  BY <1>2, <1>3 DEF FormInv, FormTypes, modalVars
<1>6. QED
  BY <1>3, <1>4, <1>5, FormStep

LEMMA CloseCardKeeps ==
    ASSUME FormInv, ~modal, NEW f \in FormState, CloseCard(f),
           kept' \in BOOLEAN
    PROVE  FormInv'
<1>1. Derived(FALSE, None, f) \in FormState
  BY DerivedFacts
<1>2. /\ visible' = FALSE /\ postID' = None /\ assignee' = None
      /\ form' = IF mounted THEN Derived(FALSE, None, f) ELSE form
      /\ UNCHANGED mounted /\ UNCHANGED modalVars
  BY DEF CloseCard, Rerender
<1>3. FormTypes'
  BY <1>1, <1>2 DEF FormInv, FormTypes, modalVars
<1>4. FormFitsPost'
  BY <1>2 DEF FormFitsPost
<1>5. QED
  BY <1>2, <1>3, <1>4, FormStep

LEMMA SidebarOfFormKeeps ==
    ASSUME FormInv, MountForm \/ UnmountForm PROVE FormInv'
<1>1. CASE MountForm
  <2>1. NewForm(postID) \in FormState /\ ~NewForm(postID).typing
    BY NewFormFacts DEF FormInv, FormTypes
  <2>2. /\ Derived(visible, postID, NewForm(postID)) \in FormState
        /\ visible => /\ Derived(visible, postID, NewForm(postID)).link = postID
                      /\ Derived(visible, postID, NewForm(postID)).message = MessageOf(postID)
    BY <2>1, DerivedFacts DEF FormInv, FormTypes
  <2>3. /\ mounted' = TRUE /\ kept' = FALSE /\ UNCHANGED store /\ UNCHANGED modalVars
        /\ form' = Derived(visible, postID, NewForm(postID))
    BY <1>1 DEF MountForm, store, modalVars
  <2>4. FormTypes' /\ FormFitsPost'
    BY <2>2, <2>3 DEF FormInv, FormTypes, FormFitsPost, LinkOf, MessageOf, store, modalVars
  <2>5. QED
    BY <2>3, <2>4, FormStep DEF store
<1>2. CASE UnmountForm
  <2>1. NewForm(None) \in FormState
    BY NewFormFacts
  <2>2. /\ mounted' = FALSE /\ kept' = FALSE /\ UNCHANGED store /\ UNCHANGED modalVars
        /\ form' = NewForm(None)
    BY <1>2 DEF UnmountForm, store, modalVars
  <2>3. FormTypes' /\ FormFitsPost'
    BY <2>1, <2>2 DEF FormInv, FormTypes, FormFitsPost, store, modalVars
  <2>4. QED
    BY <2>2, <2>3, FormStep DEF store
<1>3. QED
  BY <1>1, <1>2

LEMMA InputKeeps ==
    ASSUME FormInv, HandleInputChange \/ HandleAttachChange PROVE FormInv'
<1>1. /\ form' \in FormState
      /\ form'.link = form.link
      /\ ~form'.typing => ~form.typing /\ form'.message = form.message
  BY DEF FormInv, FormTypes, FormState, HandleInputChange, HandleAttachChange
<1>2. UNCHANGED <<mounted, kept>> /\ UNCHANGED store /\ UNCHANGED modalVars
  BY DEF HandleInputChange, HandleAttachChange, store, modalVars
<1>3. FormTypes'
  BY <1>1, <1>2 DEF FormInv, FormTypes, store, modalVars
<1>4. FormFitsPost'
  BY <1>1, <1>2 DEF FormInv, FormFitsPost, LinkOf, MessageOf, store
<1>5. QED
  BY <1>2, <1>3, <1>4, FormStep DEF store

\* The modal leaves the form as it is.
LEMMA ModalKeeps ==
    ASSUME FormInv,
           \/ AssignFromForm \/ Choose \/ SubmitAssignee \/ CancelModal \/ EscapeModal
           \/ \E t \in Todos : AssignFromItem(t)
    PROVE  FormInv'
<1> USE DEF FormInv, FormTypes, ModalFacts, AssigneeIsOfThisForm, ModalIsForItsOpener
<1>1. UNCHANGED <<mounted, visible, postID, form, kept>>
  BY DEF AssignFromForm, Choose, SubmitAssignee, CancelModal, EscapeModal,
         AssignFromItem, LeaveModal, store
<1>2. FormFitsPost'
  BY <1>1 DEF FormFitsPost, LinkOf, MessageOf
<1>3. CASE AssignFromForm
  BY <1>1, <1>2, <1>3 DEF AssignFromForm, OpenAssigneeModal, InForm
<1>4. ASSUME NEW t \in Todos, AssignFromItem(t) PROVE FormInv'
  BY <1>1, <1>2, <1>4, NoneAssumption DEF AssignFromItem, OpenAssigneeModal
<1>5. CASE Choose
  BY <1>1, <1>2, <1>5 DEF Choose, store
<1>6. CASE SubmitAssignee \/ CancelModal \/ EscapeModal
  <2>1. modal /\ modal' = FALSE /\ chosen' = None /\ opener' = None
    BY <1>6 DEF SubmitAssignee, CancelModal, EscapeModal, LeaveModal
  <2>2. editingTodo' \in Todos \cup {None} /\ escaped' = editingTodo'
    BY <1>6 DEF SubmitAssignee, CancelModal, EscapeModal
  <2>3. assignee' \in Assignees \cup {None} /\ (assignee' # None => visible)
    BY <1>6, <2>1 DEF SubmitAssignee, CancelModal, EscapeModal
  <2>4. FormTypes' /\ ModalFacts'
    BY <1>1, <2>1, <2>2, <2>3
  <2>5. QED
    BY <1>1, <1>2, <2>1, <2>3, <2>4
<1>7. QED
  BY <1>3, <1>4, <1>5, <1>6

LEMMA FormInvHolds == FormSpec => []FormInv
<1>1. InitForm => FormInv
  <2> SUFFICES ASSUME InitForm PROVE FormInv
    OBVIOUS
  <2>1. form \in FormState
    BY NewFormFacts DEF InitForm
  <2>2. FormTypes
    BY <2>1 DEF InitForm, FormTypes
  <2>3. QED
    BY <2>2 DEF InitForm, FormInv, ModalFacts, AssigneeIsOfThisForm, FormFitsPost,
                ModalIsForItsOpener
<1>2. FormInv /\ [NextForm]_formVars => FormInv'
  <2> SUFFICES ASSUME FormInv, [NextForm]_formVars PROVE FormInv'
    OBVIOUS
  <2>1. CASE MountForm \/ UnmountForm
    BY <2>1, SidebarOfFormKeeps
  <2>2. CASE AddTodo
    BY <2>2, OpenAddCardKeeps DEF AddTodo
  <2>3. CASE HandleInputChange \/ HandleAttachChange
    BY <2>3, InputKeeps
  <2>4. CASE Close \/ Submit
    <3>1. form \in FormState /\ Submitted(form) \in FormState
      BY DEF FormInv, FormTypes, FormState, Submitted
    <3>2. ~modal /\ kept' \in BOOLEAN /\ (CloseCard(form) \/ CloseCard(Submitted(form)))
      BY <2>4 DEF Close, Submit, InForm, FormInv, FormTypes
    <3>3. QED
      BY <3>1, <3>2, CloseCardKeeps
  <2>5. CASE \/ AssignFromForm \/ Choose \/ SubmitAssignee \/ CancelModal
             \/ EscapeModal \/ \E t \in Todos : AssignFromItem(t)
    BY <2>5, ModalKeeps
  <2>6. CASE UNCHANGED formVars
    BY <2>6 DEF formVars, store, FormInv, FormTypes, ModalFacts, AssigneeIsOfThisForm,
                FormFitsPost, ModalIsForItsOpener, LinkOf, MessageOf
  <2>7. QED
    BY <2>1, <2>2, <2>3, <2>4, <2>5, <2>6 DEF NextForm
<1>3. QED
  BY <1>1, <1>2, PTL DEF FormSpec

\* There is an assignee only while the form he was chosen in is open (removeAssignee
\* in closeAddBox and submit of AddIssue).
THEOREM AssigneeStaysWithTheForm == FormSpec => []AssigneeIsOfThisForm
<1>1. FormInv => AssigneeIsOfThisForm
  BY DEF FormInv
<1>2. QED
  BY <1>1, FormInvHolds, PTL

\* The form's permalink and its untyped message are those of its post
\* (getDerivedStateFromProps of AddIssue), unless it holds an older draft.
THEOREM FormShowsItsPost == FormSpec => []FormFitsPost
<1>1. FormInv => FormFitsPost
  BY DEF FormInv
<1>2. QED
  BY <1>1, FormInvHolds, PTL

\* The modal reassigns the todo whose menu opened it (AssigneeModal), unless one was
\* left by the Escape key.
THEOREM ModalKnowsItsOpener == FormSpec => []ModalIsForItsOpener
<1>1. FormInv => ModalIsForItsOpener
  BY DEF FormInv
<1>2. QED
  BY <1>1, FormInvHolds, PTL

\* No step but typing and submitting changes a message the user has typed
\* (AddIssue).
THEOREM OnlyTheUserChangesHisDraft == FormSpec => DraftIsKept
<1>1. ASSUME FormInv, [NextForm]_formVars
      PROVE  [mounted /\ mounted' /\ form.typing =>
                form'.message = form.message \/ HandleInputChange \/ Submit]_formVars
  <2> SUFFICES ASSUME NextForm, mounted, mounted', form.typing, ~HandleInputChange, ~Submit
               PROVE  form'.message = form.message
    BY <1>1
  <2>1. ASSUME NEW vis \in BOOLEAN, NEW p \in Posts \cup {None}
        PROVE  Derived(vis, p, form) = form
    BY <1>1, DerivedFacts DEF FormInv, FormTypes
  <2>2. CASE MountForm \/ UnmountForm
    BY <2>2 DEF MountForm, UnmountForm
  <2>3. CASE AddTodo
    BY <2>1, <2>3 DEF AddTodo, OpenAddCard
  <2>4. CASE HandleAttachChange
    BY <1>1, <2>4 DEF HandleAttachChange, FormInv, FormTypes, FormState
  <2>5. CASE Close
    BY <2>1, <2>5 DEF Close, CloseCard, Rerender
  <2>6. CASE \/ AssignFromForm \/ Choose \/ SubmitAssignee \/ CancelModal
             \/ EscapeModal \/ \E t \in Todos : AssignFromItem(t)
    BY <2>6 DEF AssignFromForm, Choose, SubmitAssignee, CancelModal, EscapeModal,
                AssignFromItem, LeaveModal
  <2>7. QED
    BY <2>2, <2>3, <2>4, <2>5, <2>6 DEF NextForm
<1>2. QED
  BY <1>1, FormInvHolds, PTL DEF FormSpec, DraftIsKept

-----------------------------------------------------------------------------
(* The sidebar *)

\* The list shown is the one asked for, and a list was asked for or none.
SidebarInv ==
    /\ onScreen \in BOOLEAN
    /\ moved \in BOOLEAN
    /\ rhsState \in Views \cup {Nothing}
    /\ side \in [list : Views, inbox : BOOLEAN, my : BOOLEAN]
    /\ ShowsWhatWasAskedFor

LEMMA SidebarStep == SidebarInv /\ [NextSidebar]_sidebarVars => SidebarInv'
<1> SUFFICES ASSUME SidebarInv, [NextSidebar]_sidebarVars PROVE SidebarInv'
  OBVIOUS
<1> USE SidebarAssumption DEF SidebarInv, ShowsWhatWasAskedFor
<1>1. CASE SidebarButton
  BY <1>1 DEF SidebarButton, OpenRHS, ShowLists, Told, Mount, Views
<1>2. CASE ToggleRHS
  BY <1>2 DEF ToggleRHS, ShowLists, Mount, Views
<1>3. CASE OpenList
  BY <1>3 DEF OpenList, ShowLists, Views
<1>4. CASE ToggleInbox \/ ToggleMy
  BY <1>4 DEF ToggleInbox, ToggleMy, ShowLists, Views
<1>5. CASE RefreshLists
  BY <1>5 DEF RefreshLists, ShowLists, Views
<1>6. CASE CloseMenus \/ EditTodos
  BY <1>6 DEF CloseMenus, EditTodos
<1>7. ASSUME NEW m, ToggleMenu(m) PROVE SidebarInv'
  BY <1>7 DEF ToggleMenu
<1>8. ASSUME NEW t, StopEditing(t) PROVE SidebarInv'
  BY <1>8 DEF StopEditing
<1>9. CASE UNCHANGED sidebarVars
  BY <1>9 DEF sidebarVars
<1>q. QED
  BY <1>1, <1>2, <1>3, <1>4, <1>5, <1>6, <1>7, <1>8, <1>9 DEF NextSidebar

\* The list on the screen is the one a button asked for last, unless the heading
\* chose another (componentDidUpdate of SidebarRight).
THEOREM ListAskedForIsShown == SidebarSpec => []ShowsWhatWasAskedFor
<1>1. InitSidebar => SidebarInv
  <2> SUFFICES ASSUME InitSidebar PROVE SidebarInv
    OBVIOUS
  <2>1. rhsState = Nothing /\ onScreen = FALSE /\ moved = FALSE /\ side = Mount
    BY DEF InitSidebar
  <2>2. side = [list |-> "my", inbox |-> TRUE, my |-> TRUE]
    BY <2>1 DEF Mount
  <2>3. side \in [list : Views, inbox : BOOLEAN, my : BOOLEAN]
    BY <2>2 DEF Views
  <2>4. ShowsWhatWasAskedFor
    BY <2>1 DEF ShowsWhatWasAskedFor
  <2>5. QED
    BY <2>1, <2>3, <2>4 DEF SidebarInv
<1>2. SidebarInv /\ [NextSidebar]_sidebarVars => SidebarInv'
  BY SidebarStep
<1>3. SidebarInv => ShowsWhatWasAskedFor
  BY DEF SidebarInv
<1>q. QED
  BY <1>1, <1>2, <1>3, PTL DEF SidebarSpec

\* The conditions under which headings and sections are rendered leave no way to
\* hide a todo for good, whatever came before.
LEMMA FoldedHolds == FoldedCanBeUnfolded
BY DEF FoldedCanBeUnfolded, Items, Inbox, Listed, ListShown, InboxHeading, MyHeading

\* A todo that is not on the screen has a heading that unfolds its section
\* (SidebarRight.render).
THEOREM FoldedListsCanBeUnfolded == SidebarSpec => []FoldedCanBeUnfolded
BY FoldedHolds, PTL
=============================================================================
