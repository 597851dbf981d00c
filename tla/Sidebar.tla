-------------------------------- MODULE Sidebar --------------------------------
(***************************************************************************)
(* Which todos the sidebar shows: SidebarRight with its two lists and the  *)
(* sections that fold, the buttons of SidebarButtons that open it, and the *)
(* menus of its heading and of its todos, whose shortcuts are listened to  *)
(* on the whole document.                                                  *)
(***************************************************************************)
EXTENDS Naturals, FiniteSets, Screen

CONSTANTS
    Heading,    \* the menu that chooses the list
    Nothing     \* no list asked for yet

Views == {"my", "out"}

ASSUME SidebarAssumption == Heading \notin Todos /\ Nothing \notin Views

VARIABLES
    place,      \* place[t]: the list of the user that t is in, as last fetched
    onScreen,   \* the sidebar is on the screen
    rhsState,   \* the list a button asked for
    side,       \* the state of SidebarRight
    open,       \* the menus that are open
    editing,    \* the todos that show a form in place of text and menu
    moved       \* history: the heading chose a list after rhsState did

sidebarVars == <<place, onScreen, rhsState, side, open, editing, moved>>

In(l) == {t \in Todos : place[t] = l}

\* The constructor of SidebarRight.
Mount == [list |-> IF rhsState # Nothing THEN rhsState ELSE "my", inbox |-> TRUE, my |-> TRUE]

InitSidebar ==
    /\ place \in [Todos -> Lists]
    /\ onScreen = FALSE
    /\ rhsState = Nothing
    /\ side = Mount
    /\ open = {}
    /\ editing = {}
    /\ moved = FALSE

-----------------------------------------------------------------------------
(* What is on the screen *)

Inbox(s, p) == IF s.list = "my" THEN {t \in Todos : p[t] = "in"} ELSE {}
Listed(s, p) == {t \in Todos : p[t] = s.list}

InboxHeading(s, p) == Inbox(s, p) # {}
MyHeading(s, p) == Inbox(s, p) # {} /\ Listed(s, p) # {}

\* A slip: the section stays folded when its heading goes.
ListShown_Folded(s, p) == s.my /\ (Inbox(s, p) = {} \/ Listed(s, p) # {})

\* The todos below the form are rendered, be there any or none ...
ListShown(s, p) == Inbox(s, p) = {} \/ (s.my /\ Listed(s, p) # {})

\* ... and none are celebrated.
AllTasksCompleted(s, p) == ListShown(s, p) /\ Listed(s, p) = {}

Items(s, p) ==
    (IF s.inbox THEN Inbox(s, p) ELSE {}) \cup (IF ListShown(s, p) THEN Listed(s, p) ELSE {})

\* A todo keeps the state of its item, its menu and its form, as long as it
\* stays on the screen in one list.
Stay(v, s, p) == IF v /\ onScreen THEN {t \in Items(side, place) \cap Items(s, p) : place[t] = p[t]} ELSE {}

\* The sidebar comes to show s of the todos at p, with the menus m of those
\* open, while the todos e begin or stop being edited.
ShowLists(v, s, p, m, e) ==
    /\ onScreen' = v
    /\ side' = s
    /\ place' = p
    /\ editing' = e \cap Stay(v, s, p)
    /\ open' = m \cap ((Stay(v, s, p) \ e) \cup IF v THEN {Heading} ELSE {})

-----------------------------------------------------------------------------
(* The sidebar *)

\* A slip: only the constructor looks at rhsState.
Told_Never(l) == side

\* componentDidUpdate: told another list than before, the sidebar opens it.
Told(l) == IF rhsState # l THEN [side EXCEPT !.list = l] ELSE side

\* openRHS.  A click elsewhere closes the menus.
OpenRHS(l) ==
    /\ rhsState' = l
    /\ ShowLists(TRUE, IF onScreen THEN Told(l) ELSE [Mount EXCEPT !.list = l], place, {}, editing)
    /\ moved' = (moved /\ onScreen /\ rhsState = l)

\* The buttons "Your Todos", "Incoming Todos" and "Outgoing Todos".
SidebarButton == \E l \in Views : OpenRHS(l)

\* The icons of the channel header and of the app bar, or another sidebar
\* that takes the place of this one.
ToggleRHS ==
    /\ ShowLists(~onScreen, IF onScreen THEN side ELSE Mount, place, {}, editing)
    /\ moved' = FALSE
    /\ UNCHANGED <<rhsState>>

OpenList ==
    /\ onScreen /\ Heading \in open
    /\ \E l \in Views : ShowLists(TRUE, [side EXCEPT !.list = l], place, {}, editing)
    /\ moved' = TRUE
    /\ UNCHANGED rhsState

ToggleInbox ==
    /\ onScreen /\ InboxHeading(side, place)
    /\ ShowLists(TRUE, [side EXCEPT !.inbox = ~@], place, {}, editing)
    /\ UNCHANGED <<rhsState, moved>>

ToggleMy ==
    /\ onScreen /\ MyHeading(side, place)
    /\ ShowLists(TRUE, [side EXCEPT !.my = ~@], place, {}, editing)
    /\ UNCHANGED <<rhsState, moved>>

\* A fetch brings other lists.
RefreshLists ==
    /\ \E p \in [Todos -> Lists \cup {"gone"}] : ShowLists(onScreen, side, p, open, editing)
    /\ UNCHANGED <<rhsState, moved>>

-----------------------------------------------------------------------------
(* The menus *)

Menus == IF onScreen THEN {Heading} \cup (Items(side, place) \ editing) ELSE {}

\* A click on a menu's button, or on an entry that does no more here: other
\* menus hear of it and close.
ToggleMenu(m) ==
    /\ m \in Menus
    /\ open' = {m} \ open
    /\ UNCHANGED <<place, onScreen, rhsState, side, editing, moved>>

\* Escape, Tab or a click elsewhere.
CloseMenus ==
    /\ open # {}
    /\ open' = {}
    /\ UNCHANGED <<place, onScreen, rhsState, side, editing, moved>>

\* "Edit todo", clicked in a menu or called by the key that every open menu
\* listens to.  The first of them closes them all.
EditTodos ==
    /\ open \cap Todos # {}
    /\ editing' = editing \cup (open \cap Todos)
    /\ open' = {}
    /\ UNCHANGED <<place, onScreen, rhsState, side, moved>>

StopEditing(t) ==
    /\ t \in editing
    /\ editing' = editing \ {t}
    /\ open' = {}
    /\ UNCHANGED <<place, onScreen, rhsState, side, moved>>

NextSidebar ==
    \/ SidebarButton \/ ToggleRHS \/ OpenList \/ ToggleInbox \/ ToggleMy \/ RefreshLists
    \/ CloseMenus \/ EditTodos
    \/ \E m \in Todos \cup {Heading} : ToggleMenu(m)
    \/ \E t \in Todos : StopEditing(t)

SidebarSpec == InitSidebar /\ [][NextSidebar]_sidebarVars

-----------------------------------------------------------------------------
(* Properties *)

\* A todo of the list shown that is not on the screen is in a section the user
\* folded, and the heading that unfolds it is there: folding, then losing the
\* other section to a refresh, hides nothing for good.
FoldedCanBeUnfolded ==
    onScreen => \A t \in (Inbox(side, place) \cup Listed(side, place)) \ Items(side, place) :
        \/ t \in Inbox(side, place) /\ InboxHeading(side, place)
        \/ t \in Listed(side, place) /\ MyHeading(side, place)

\* The list on the screen is the one the last button that asked for another
\* list than before named, unless the heading chose one since.
ShowsWhatWasAskedFor ==
    onScreen /\ rhsState # Nothing /\ ~moved => side.list = rhsState
=============================================================================
