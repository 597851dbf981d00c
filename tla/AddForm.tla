-------------------------------- MODULE AddForm --------------------------------
(***************************************************************************)
(* The form that adds a todo (AddIssue) and the modal that chooses a user  *)
(* (AssigneeModal), which also reassigns existing todos.  The two share    *)
(* four slices of the store; the form keeps a state of its own beside      *)
(* them, and getDerivedStateFromProps decides which of the two wins.       *)
(***************************************************************************)
EXTENDS Naturals, Screen

CONSTANTS
    Posts,      \* posts whose menu offers to add a todo
    Messages,   \* what a post or a draft can say
    Empty,      \* the empty message
    PostText,   \* PostText[p]: the message of a post
    Assignees,  \* users the selector finds, deactivated ones left out
    None        \* no post, no user, no todo

ASSUME PostsAssumption ==
    PostText \in [Posts -> Messages \cup {Empty}] /\ Empty \notin Messages
ASSUME NoneAssumption == None \notin Posts \cup Assignees \cup Todos

VARIABLES
    mounted,    \* the sidebar, and AddIssue in it
    visible,    \* addCardVisible
    postID,     \* postID
    assignee,   \* currentAssignee
    modal,      \* assigneeModalVisible
    editingTodo,  \* the todo the modal is to reassign
    form,       \* the state of AddIssue
    chosen,     \* the state of AssigneeForm
    opener,     \* history: the todo the modal was opened for, None for the form
    escaped,    \* history: the todo whose modal was left by the Escape key
    kept        \* history: the draft is older than the post the form is for

store == <<visible, postID, assignee, modal, editingTodo>>
formVars == <<mounted, store, form, chosen, opener, escaped, kept>>
modalVars == <<modal, editingTodo, chosen, opener, escaped>>

\* getMessage, and the permalink that index.js makes: of the post, or nothing.
MessageOf(p) == IF p = None THEN Empty ELSE PostText[p]

LinkOf(p) == p

\* The constructor of AddIssue.
NewForm(p) ==
    [message |-> MessageOf(p), link |-> LinkOf(p), described |-> FALSE,
     attach |-> FALSE, typing |-> FALSE]

\* A slip: only the message is compared.
Derived_IgnoresLink(vis, p, f) ==
    CASE f.typing -> f
      [] ~f.typing /\ vis /\ f.message # MessageOf(p) ->
            [f EXCEPT !.message = MessageOf(p), !.link = LinkOf(p)]
      [] ~f.typing /\ ~vis /\ f.message # Empty ->
            [f EXCEPT !.message = Empty, !.link = None, !.attach = FALSE]
      [] OTHER -> f

\* A slip: the post wins over what the user types.
Derived_IgnoresTyping(vis, p, f) ==
    CASE vis /\ (f.message # MessageOf(p) \/ f.link # LinkOf(p)) ->
            [f EXCEPT !.message = MessageOf(p), !.link = LinkOf(p)]
      [] ~vis /\ f.message # Empty ->
            [f EXCEPT !.message = Empty, !.link = None, !.attach = FALSE]
      [] OTHER -> f

\* getDerivedStateFromProps: before every render, the form takes over what
\* the post says, unless the user has typed; hidden, it forgets a message.
Derived(vis, p, f) ==
    CASE f.typing -> f
      [] ~f.typing /\ vis /\ (f.message # MessageOf(p) \/ f.link # LinkOf(p)) ->
            [f EXCEPT !.message = MessageOf(p), !.link = LinkOf(p)]
      [] ~f.typing /\ ~vis /\ f.message # Empty ->
            [f EXCEPT !.message = Empty, !.link = None, !.attach = FALSE]
      [] OTHER -> f

\* The form after a change of its props, with `f' for its state.
Rerender(vis, p, f) ==
    form' = IF mounted THEN Derived(vis, p, f) ELSE form

InitForm ==
    /\ mounted = FALSE
    /\ visible = FALSE
    /\ postID = None
    /\ assignee = None
    /\ modal = FALSE
    /\ editingTodo = None
    /\ form = NewForm(None)
    /\ chosen = None
    /\ opener = None
    /\ escaped = None
    /\ kept = FALSE

-----------------------------------------------------------------------------
(* The sidebar and the form *)

MountForm ==
    /\ ~mounted
    /\ mounted' = TRUE
    /\ form' = Derived(visible, postID, NewForm(postID))
    /\ kept' = FALSE
    /\ UNCHANGED <<store, chosen, opener, escaped>>

UnmountForm ==
    /\ mounted
    /\ mounted' = FALSE
    /\ form' = NewForm(None)
    /\ kept' = FALSE
    /\ UNCHANGED <<store, chosen, opener, escaped>>

\* openAddCard(p).  A form that is not on the screen yet comes there.
OpenAddCard(p) ==
    /\ visible' = TRUE
    /\ postID' = p
    /\ mounted' = TRUE
    /\ form' = Derived(TRUE, p, IF mounted THEN form ELSE NewForm(p))
    /\ kept' = (kept \/ (mounted /\ form.typing))
    /\ UNCHANGED <<assignee, modalVars>>

\* Alt+A and the button of the sidebar, or the menu of a post, which shows the
\* sidebar too.  The key works behind the modal, menus and buttons do not.
AddTodo ==
    \/ mounted /\ OpenAddCard(None)
    \/ ~modal /\ \E p \in Posts : OpenAddCard(p)

InForm == mounted /\ visible /\ ~modal

HandleInputChange ==
    /\ InForm
    /\ \/ \E m \in (Messages \cup {Empty}) \ {form.message} :
             form' = [form EXCEPT !.message = m, !.typing = TRUE]
       \/ form' = [form EXCEPT !.described = TRUE, !.typing = TRUE]
    /\ UNCHANGED <<mounted, store, chosen, opener, escaped, kept>>

HandleAttachChange ==
    /\ InForm /\ postID # None
    /\ form' = [form EXCEPT !.attach = ~@]
    /\ UNCHANGED <<mounted, store, chosen, opener, escaped, kept>>

\* A slip: the assignee stays in the store.
CloseCard_KeepsAssignee(f) ==
    /\ visible' = FALSE
    /\ postID' = None
    /\ UNCHANGED assignee
    /\ Rerender(FALSE, None, f)
    /\ UNCHANGED <<mounted, modalVars>>

\* removeAssignee and closeAddBox.
CloseCard(f) ==
    /\ visible' = FALSE
    /\ postID' = None
    /\ assignee' = None
    /\ Rerender(FALSE, None, f)
    /\ UNCHANGED <<mounted, modalVars>>

\* Escape or the cancel button.  What was typed stays in the form's state.
Close ==
    /\ InForm
    /\ CloseCard(form)
    /\ UNCHANGED kept

\* What submit leaves of the form: the box stays as it was.
Submitted(f) ==
    [f EXCEPT !.message = Empty, !.link = None, !.described = FALSE, !.typing = FALSE]

\* Enter, with any message, or the save button, with one.
Submit ==
    /\ InForm
    /\ CloseCard(Submitted(form))
    /\ kept' = FALSE

-----------------------------------------------------------------------------
(* The modal *)

OpenAssigneeModal(t) ==
    /\ mounted /\ ~modal
    /\ modal' = TRUE
    /\ chosen' = None
    /\ opener' = t

\* The chip of the form opens the modal and says no more ...
AssignFromForm ==
    /\ InForm
    /\ OpenAssigneeModal(None)
    /\ UNCHANGED <<mounted, visible, postID, assignee, editingTodo, form, escaped, kept>>

\* ... the menu of a todo says which todo it is for.
AssignFromItem(t) ==
    /\ OpenAssigneeModal(t)
    /\ editingTodo' = t
    /\ UNCHANGED <<mounted, visible, postID, assignee, form, escaped, kept>>

\* The selector hands over one of the options it was loaded with, or nothing.
Choose ==
    /\ modal
    /\ chosen' \in Assignees \cup {None}
    /\ UNCHANGED <<mounted, store, form, opener, escaped, kept>>

LeaveModal ==
    /\ modal
    /\ modal' = FALSE
    /\ chosen' = None
    /\ opener' = None
    /\ UNCHANGED <<mounted, visible, postID, form, kept>>

\* What the assign button does with the user chosen.
SubmitAssignee ==
    /\ modal /\ chosen # None
    /\ IF editingTodo # None
         THEN editingTodo' = None /\ UNCHANGED assignee    \* changeAssignee
         ELSE assignee' = chosen /\ UNCHANGED editingTodo  \* getAssignee
    /\ escaped' = IF editingTodo # None THEN None ELSE escaped
    /\ LeaveModal

\* A slip: the cancel button only closes.
CancelModal_Closes ==
    /\ LeaveModal
    /\ UNCHANGED <<editingTodo, assignee, escaped>>

\* The cancel button, or the cross.
CancelModal ==
    /\ LeaveModal
    /\ editingTodo' = None
    /\ escaped' = None
    /\ UNCHANGED assignee

\* useEscapeKey(close): the todo to reassign is not forgotten.
EscapeModal ==
    /\ LeaveModal
    /\ escaped' = editingTodo
    /\ UNCHANGED <<editingTodo, assignee>>

NextForm ==
    \/ MountForm \/ UnmountForm \/ AddTodo
    \/ HandleInputChange \/ HandleAttachChange \/ Close \/ Submit
    \/ AssignFromForm \/ Choose \/ SubmitAssignee \/ CancelModal \/ EscapeModal
    \/ \E t \in Todos : AssignFromItem(t)

FormSpec == InitForm /\ [][NextForm]_formVars

-----------------------------------------------------------------------------
(* Properties *)

\* An assignee chosen for one todo is not left for the next: there is one only
\* while the form it was chosen in is open, even if the sidebar is closed under it.
AssigneeIsOfThisForm == assignee # None => visible

\* The permalink of the form is that of its post, and as long as nobody types
\* the message is too, unless a draft was left in the form before: that keeps
\* its permalink while the post it is attached to changes.
FormFitsPost ==
    mounted /\ visible /\ ~kept =>
        /\ form.link = LinkOf(postID)
        /\ ~form.typing => form.message = MessageOf(postID)

\* The modal reassigns the todo it was opened for.  Opened from the form it
\* reassigns none, unless an earlier modal of a todo was left by the Escape key.
ModalIsForItsOpener ==
    modal => IF opener # None THEN editingTodo = opener ELSE editingTodo = escaped

\* What the user typed is changed by his typing and his submission only:
\* not by another post, the cancel button or the modal.
DraftIsKept ==
    [][mounted /\ mounted' /\ form.typing =>
            form'.message = form.message \/ HandleInputChange \/ Submit]_formVars
=============================================================================
