# Todo plugin: a TLA+ model

The Todo plugin keeps three todo lists per Mattermost user - *My*, *In* (received)
and *Out* (sent) - in the server's key-value store. A todo that is sent to
somebody exists twice: each of the two users has a record of it and a reference
in a list, and the references point to each other. Nothing but the code of
`server/list.go` and `server/store.go` keeps the four pieces together: the store
has no transactions, requests run concurrently, and any call may fail. Around them,
handlers tell whoever is concerned, and web apps follow by websocket
events and fetches, with timers that let a user undo what was not sent yet.

This directory models all of this, checks it with TLC on small instances and
proves with TLAPS, for instances of any size, that the concurrent lists are atomic, that
todos stay with their owners and a listing misses none, that the two copies of a sent todo behave
as one thing while requests do not overlap, that news reaches the screens, that what is undone is not
sent, and what the handlers, the reminder, the configuration and the forms keep of their promises.

## The system

| Component | State | Operations | Talks to |
|---|---|---|---|
| List store, `server/store.go` 125-366 | one key per user and list, holding references; in old installations bare todo ids | `AddReference`, `RemoveReference`, `PopReference`, `BumpReference`: read, compute, compare-and-set, retry | key-value store |
| Todo records, `server/store.go` 69-123 | one key per todo | `SaveIssue`, `GetIssue`, `RemoveIssue`, `GetAndRemoveIssue` | key-value store |
| List manager, `server/list.go` | none of its own | add, send, complete, remove, pop, edit, change assignment, accept, bump, list | list store |
| HTTP handlers, `server/plugin.go`, `bot.go` | none per request | one per route; afterwards `refresh` events, bot messages, replies in threads | list manager, Mattermost API |
| Slash command, `server/command.go` | none | `/todo add, list, pop, send, settings` | list manager, preferences |
| Reminder and preferences, `server/store.go` 368-455, `plugin.go` 309-335 | last reminder, two switches per user | check-then-act on each listing; `/todo settings` | key-value store |
| Configuration, `server/configuration.go` | one value under a lock | `OnConfigurationChange`, `/config` | websocket event |
| Web app: lists, `webapp/src` `actions.js`, `reducer.js`, `index.js` | redux copy of the lists | fetch on mount, on `refresh`, on reconnect and on clicks | handlers |
| Web app: todo items, toast, bot's post, `todo_item.jsx`, `todo_toast.tsx`, `buttons/`, `post_type_todo.jsx` | hidden, done, draft; timers | complete, delete, undo, edit, accept | lists, handlers |
| Web app: add form and assignee modal, `add_issue.jsx`, `assignee_modal/` | draft, post, assignee, todo to reassign; partly in the store, partly in components | open, type, attach, choose, submit, cancel | handlers |
| Web app: sidebar, `sidebar_right.jsx`, `sidebar_buttons.jsx`, `todo_issues.jsx`, `widget/menu*` | list shown, folded sections, open menus | choose, fold, open | lists |
| Telemetry, build tooling, end-to-end tests, presentation | - | - | - |

What is hard here:

* **Races on one list.** Two handlers read the same list and both write. The
  compare-and-set and its retries have to make every call atomic; a list in the
  old format is read twice within one call.
* **Operations of many calls.** An operation is up to ten store calls. Other
  operations on the same todo, by either of its users, run between them; what was
  looked up a moment ago (which list a copy is in, what a record says) is used
  after it changed.
* **Failure half way.** `SendIssue`, `AddIssue` and `AcceptIssue` roll back;
  `ChangeAssignment`, `CompleteIssue`, `RemoveIssue`, `PopIssue` and `EditIssue` do not.
* **Long histories.** Send, accept, reassign, take back, complete: which list
  the other copy is in, and who has to be told, depends on all of it.
* **Changes and their news are separate steps.** A handler can die between the two,
  half a change can be fetched, events get lost while a websocket is down, and answers to
  fetches come in any order.
* **Timers that outlive their components.** A completion is requested six seconds after
  the click, unless undone; meanwhile the item, the toast and the sidebar come and go,
  and the button can be pressed again.
* **Drafts and choices in two places.** Part of a form's state is the component's, part the
  store's, and each way of leaving a form forgets a different part.
* **Check, then act.** The reminder and the configuration hooks read, decide and write
  without anything that keeps two of them apart.

`PROJECT.json` lists these hazards line by line with the property that watches
each of them.

## The modules

| Module | Models | Role |
|---|---|---|
| `IssueLists` | what the four list calls compute from a list | operators |
| `ListStore` | the calls of `store.go` on one list, for concurrent requests | state machine |
| `AtomicList` | what these calls promise | abstract specification |
| `ListManager` | every operation of `list.go` as its sequence of store calls | state machine |
| `WebRequests` | the requests the web app makes, and what it means that they come one after the other | state machine |
| `SeenTodos` | what users see of the lists and records between requests | refinement mapping |
| `SharedTodos` | the life cycle of a todo as its two users see it | abstract specification |
| `Handlers` | HTTP handlers and slash command: who may do what, and who is told how | state machine |
| `Refreshes` | what the server promises the web apps: an event for every change | abstract specification |
| `WebSync` | the lists on the screens, built on `Refreshes` | state machine |
| `Screen` | the todos and lists that the next three have in common | constants |
| `TodoPanel` | todo items, their buttons and timers, the toast, the bot's post | state machine |
| `AddForm` | add form and assignee modal | state machine |
| `Sidebar` | lists, sections, menus | state machine |
| `Reminder` | the daily reminder of one user with several tabs | state machine |
| `ConfigSync` | configuration hooks and the web apps that follow | state machine |
| `MC...` | instances for TLC; three of them compose: `MCSharedTodos` runs `ListManager` under `SeenTodos`, `MCConcurrent` lets it take overlapping requests in three mixes, `MCTodoPanel` divides the panel into three scenes | model checking |
| `IssueListsProofs`, `ListStoreProofs`, `ListManagerProofs`, `WebRequestsProofs`, `HandlersProofs`, `WebSyncProofs`, `ScreenProofs`, `PluginProofs` (of `Reminder` and `ConfigSync`) | lemmas, invariants, refinement | proofs |

The server is modelled in layers, each of which takes what the one below shows for
granted. `ListStore` shows that a call on a list is atomic or fails without effect, so
`ListManager` takes it in one step; its failures return there as `Trouble`. `ListManager`
implements `SharedTodos`, so `Handlers` works on such todos and calls the manager
in one step. `Handlers` implements `Refreshes`, which is all that `WebSync` knows of the server. `TodoPanel`,
`AddForm` and `Sidebar` in turn take refreshed lists as they come (`Refresh`, `place`).

A definition named `Def_Slip` that stands before `Def` is a plausible slip in
the code `Def` models, kept beside it; no specification uses it. For each property
`PROJECT.json` names a slip that breaks it.

### ListStore

A request that calls one of the four operations goes through `get` (`getList`), for a
value that does not decode as references `legacy` (the second `KVGet` in `legacyIssueRef`),
`save` (`saveList`) and `done`. `Examine` is the code between read and write: the
early returns ("already exists", "cannot find issue") or the new list, kept with the value it
was computed from. `SaveWins` and `SaveLoses` are the two answers of
`KVCompareAndSet`, `KVError` an error of any key-value call. The value under the key carries
its format; an empty JSON array decodes as either. The history variables `writes`
and `rivals` count what a call has written and what others wrote during it.

### ListManager

`pc[r]` is the next store call of request `r`, named after its operation (`Send.out`,
`Assign.ffind`); `req[r]` holds its arguments and the handler's local variables.
Each store call is one step, except that `GetAndRemoveIssue` is two (a read and a
delete), `GetIssueListAndReference` up to three (the lists My, Out and In, in
this order) and `GetIssueList` one for the list and one per record. An
error that the code only logs is a step both of whose outcomes lead to the same
label. A todo's text stands for message, description and permalink together;
a new id is the next number. `Crash` ends a handler between two calls.
A client may name any todo that exists, its own or not.

`WebRequests` narrows the requests to those the web app makes: `OnlyShown` (`canComplete`
and `canRemove` of `webapp/src/utils.js`, judged when the request arrives, about six seconds after the click), and
`SelfFromSent`, which excludes the assignment of an own todo to oneself, although the assignee modal allows it. `OneAtATime` says that requests do not overlap, `RollbacksWork` that the calls which undo
an addition, a sending or an acceptance do not fail: `list.go` only logs their errors.

### Handlers

`todos` are those of `SharedTodos`, with the thread each is attached to. A handler's call of the list
manager is one step, which also makes the list of what it has to send (`rest[r]`): `Event` is
`sendRefreshEvent`, `Note` and `Ask` are `PostBotDM` and `PostBotCustomDM` (the latter with buttons),
`Reply` is `postReplyIfNeeded`. `Say` sends them one by one, in the order of the code, while other
handlers run; `Dies` forgets the rest. `AskPreference` and `SendIssue` are two steps, because the preference
is read before the todo is sent. What a user sees, `View`, leaves the order of a list out.

A store call may fail (`Fault`). What `AddIssue`, `SendIssue` and `AcceptIssue` have done by then is undone, which works as there is
at most one failing call to an operation. An edit, a reassignment, a completion or a removal stops half way, or
goes on with the error in the log: each such end is a disjunct of its action, with what it leaves behind and the few messages that
are sent all the same (`Botched`; `<<>>` where the handler returns at the error, plugin.go 368 and 418). A todo is `lost` when its author still
has it on the outgoing list while its copy is on no list. The bot's posts fail, too (`Say`): `createBotPostDM` only logs that.
The history variables `untold` (whose lists a request has changed, until the bot tries to tell) and `dropped` (posts with buttons
that failed or died with their handler) tell one lost message from another.

### Refreshes and WebSync

`owed[u]` counts the events handlers have still to send to `u`. While it is positive the lists a fetch
reads may be half changed (`Readable`). `events`, `asked` and `answers` are an
event on its way, a fetch on its way, and the answers on their way back, which arrive in any order. `Receive` puts
whichever arrives on the screen (`GET_ALL_ISSUES`), `ServerErrs` an error object in its place, as the
action does not look at the status. `behind` records that the last that came of a fetch was outdated
by an earlier arrival, or was a failure; or that a request failed half way (`RequestFails`, `HalfDone` of `Refreshes`) or its
handler died (`HandlerDies`), since nobody is owed an event for it.

### TodoPanel

`Tick` is a second in which no timer is due. A press goes through `marking` (`CompleteButton`'s timer),
`waiting` (the item's timer until the request) and `sent`, `cancelled` or `lost`; `toast` and `toastLeft`
are the toast in the store and the timer of its component, set when it is mounted and only then. An
item is keyed by its todo and counts its mounts (`n`), since what a timer of an earlier mount sets on its component
is lost while its request is not. An item's draft is set at its mount, from the lists as they are on the screen: `others` says that
somebody else has changed the text since these were fetched, `early` that they are older than an edit the user has saved. `Refresh` takes over the server's lists; the other user may edit or end a todo at
any time. The real delays (1, 5 and 5 seconds) become 1, 2 and 2: only their order matters, and that the toast's is
not longer than the request's (`DelaysAssumption`).

### AddForm and Sidebar

`AddForm` has the four slices of the store that form and modal share (`visible`, `postID`, `assignee`,
`editing` with `modal`) and the states of both components; every step ends in a render, that is in
`Derived` (`getDerivedStateFromProps`). `Sidebar` has the list `rhsState` asks for and the one the component shows,
the folded sections, and the menus and forms open on its items; `Render` says which of them survive a change of
what is on the screen.

### Reminder and ConfigSync

`Reminder` counts ticks; an hour is two, a day five. Each tab has its `lastActivityTime` and its requests;
the handler of the listing reads the preference, reads the last time, compares, posts, and saves a
time it reads anew. Days are those of UTC: the handler takes an offset from the header `X-Timezone-Offset` (plugin.go 320), which
nothing in `webapp/src` sends, and zero without it. A post that fails is only logged, and its time saved. `ConfigSync` has a hook per
change of the setting, which fails to load (configuration.go 88) or goes through the steps load, compare, replace, send, and clients that fetch
once and then follow the events on a socket that keeps their order.

### The abstract specifications

`AtomicList`: a call takes effect at one instant, stated by what it keeps and moves, or fails.
A bump only promises to move *some* reference, the named one if it is there.

`SharedTodos`: a set of todos, each with an author, a holder and a state (own, pending,
accepted). In `SeenTodos` the author's reference is the todo (`TodoOf`); what users see (`Visible`) is
taken when no request is under way (`shown`).

`Refreshes`: lists change only together with an event owed to everybody concerned, except when a request fails half
way. `Handlers` maps to it with `lists <- View`, `owed <- Owed`, the events in `rest`, and `failures <- faults`.

## What the runs check

| Run | Instance | Shows |
|---|---|---|
| `store` | 2 requests, 2 todos, 3 attempts, both formats, key-value errors at any call, fair | lists stay free of duplicates; success is one write, failure none; giving up takes three rival writes; a decoding error takes one; calls are atomic (`AtomicList`) and end |
| `web` | 3 users, 2 texts, 4 ids, 1 request at a time, all operations, 1 failing call in Add, Send or Accept | records, lists and both copies fit together after every request, rollbacks are complete, an ended todo is handed to its handler, two copies behave as one todo (`SharedTodos`) |
| `together` | 2 overlapping requests in three mixes: add, send, accept, bump, complete, pop (2 users, 3 ids); send, accept, assign to others (3 users, 4 ids); a listing beside anything but an assignment (2 users, 3 ids) | these interleave safely; a listing misses no todo that its user has throughout; todos stay with their owners |
| `lost` | 3 users, 4 ids, 2 failing calls and 1 handler that dies in Edit, Assign or Bump | todos get lost half way, but no list refers to a record that is gone, and no todo is with two receivers |
| `handlers` | 3 users, 2 texts, 2 requests, 3 calls, 1 death, 1 failing store call or post | whoever's lists change is owed an event unless a store call failed (`Refreshes`); the other user is told why; a sent todo can be answered unless its own post was lost |
| `thread` | the same with 1 request | **violated:** a todo sent to oneself stays attached to its post |
| `reminder` | 2 tabs, 2 listings, one midnight, 1 failing store call or post | a reminder respects every one saved before its listing looked; no day has more than listings at work and failures explain; a tab asks hourly |
| `config` | 2 hooks, 4 changes, 3 loads, connections or answers that fail | a screen at rest shows the setting unless the latest load failed or a named race hit it, and then until the next event |
| `sync` | 3 changes, 1 fetch unprompted, 1 lost connection, 2 failures of a fetch, a request or a handler, answers in any order, fair | a screen at rest shows the lists unless it is `behind`; news is always on its way; screens settle |
| `panel` | two todos with 2 presses; one todo with 3 presses; a todo edited by both users with 1 lost request; 2 mounts each, fair | what is undone is never sent; an undo on offer still works; only what is ending is hidden; a form nobody typed in is current; presses and toasts end |
| `form` | 3 posts, 2 messages, 2 assignees, 2 todos, unbounded | assignee, permalink and draft belong to the form they are in; the modal reassigns the todo it was opened for |
| `sidebar` | 3 todos, unbounded | nothing is folded away for good; the list shown is the one asked for |

**Bounds.** Two requests are enough for every race the code distinguishes between a
reader and a rival; three attempts are the code's `StoreRetries`, and two requests
that may call again and again can lose all of them. In `store` the references have no peer, since no list call looks
at it. An operation of the list manager involves at most
two todo records and three users (assigner, old and new receiver). Four
ids allow a send followed by two reassignments, or two independent
todos sent; todo ids are never reused, so `MaxIssues` also bounds the behaviours
to a few requests that create something, while accepting, editing, taking back and listing
are unbounded. `Troubled` names the operations in which calls may fail (`MaxFaults`) and handlers die
(`MaxCrashes`). In `handlers` three calls are a todo's send, what is done to it, and one beside these; one failure is all that
the undoing of a sending bears, and two texts tell an edit that reached one copy only. In `sync` users do not
affect each other, so one is enough for what `WebSyncProofs` proves for any number; three changes make an answer
outdated more than once. Two tabs are the race of the reminder; ticks 8 to 13 contain a midnight (10) with room for a reminder on both sides of it. In `config` the fourth change is the event
that ends a race between the others. In `panel` three
presses are one whose undo is taken over by a second and one more. Users, requests, tabs and
clients are symmetric, the temporal runs use no symmetry, and the forms and sidebars have finitely many states without any bound.

**Fairness.** `FairSpec` of `ListStore` asks that a call in progress takes its next step:
a handler is a goroutine that waits for nothing but the key-value store. Nothing is assumed of
callers, of errors, or of who wins a race. A single call may be weakly
fair because each of its steps stays enabled until taken: `SaveWins` and `SaveLoses` exclude
each other, and one of them is always possible. `WebSync` asks that the server runs its handlers
(`PublishRefresh`, `Serve`), the browser its callbacks (`Refresh`, `Receive`), and that connections that were lost
come back (`Reconnect`): the last is an assumption on the environment, which the web app's own retries of the
connection are there for. Nothing makes lists change, connections drop or fetches fail. `TodoPanel` asks that time passes and that due timers fire,
which is what a browser's `setTimeout` does, also for components that are gone; users press nothing by fairness.

## What holds only without concurrency, or without failures

The consistency of records, lists and copies is a property of the operations one at a time
(`web`) and of the mixes in `together`. It does not hold for all
interleavings. Exploring the model with more operations offered shows:

* Accept or Assign beside Remove: `RemoveIssue` looks up the list of the
  other copy, it moves, the removal from the old list fails and is only logged - a
  reference to a deleted record stays behind.
* Edit beside Complete, Remove or Assign: `EditIssue` saves a record
  it read before it was deleted, and the record stays without a list. Two edits,
  or an edit and a reassignment, can leave different texts in the two copies.
* Accept, Assign and Complete of one todo together: the completion takes the
  sender's reassigned todo with it.
* Two requests that end the same todo: the second may be handed a nil issue
  (`server/plugin.go` 506 and 551 dereference it; the HTTP handlers recover, the
  slash command's `runPopCommand` has no recovery of its own).
* `CompleteIssue` of a todo in one's *sent* list leaves the receiver's reference; the
  web app offers no button for it, so the runs leave it out (`OnlyShown`); a click on a todo that goes to the *sent*
  list within its six seconds has this effect all the same.
* An Accept, Complete, Remove or Pop whose handler dies half way leaves references or records behind: `lost` is about
  the operations that do no such harm.

* A reassignment or an edit that fails half way has changed lists or texts, and its handler returns without an event or a
  message (`HalfDone`): the old receiver loses the todo and is not told, nor the new one that a copy of it exists.
  `ChangesAreExplained` and `NobodyIsForgotten` are about the requests whose store calls work.
* Completing or removing a todo whose other copy is gone makes the handler dereference nil after its first event (`EndIssue`).

What the code guarantees under all of them, with failures and crashes, is
`OwnersOnly` (theorem `OwnershipKept`).

On the screen: the second of two overlapping presses on one todo cannot be undone together with the first
(`SeenIsKept` excuses it); opening the sidebar under a toast starts the toast's time anew but not the request's
(`UndoIsOfferedInTime` excuses it); an older answer that comes after a newer one leaves a screen stale until the
next event (`behind`); a form opened on an item that others have changed since starts from the old text, and so does one on an
item that is mounted anew between the user's own edit and its refresh (`UntouchedFormIsCurrent` excuses both, by `others` and `early`); the Escape key leaves the modal's todo behind for the next assignee chosen in
the add form (`ModalIsForItsOpener` excuses it).

## Disagreements with the documentation

Checked as a violation by the run `thread`: `AddIssue` (plugin.go 33) takes message, permalink,
description, post id in this order; `handleAdd` (plugin.go 242) passes description, post id, permalink
for a todo sent to oneself, which thus forgets the post it belongs to.

Part of what the models do, as the code does, and seen while writing them:

* `BumpReference` (store.go 284) tests for a missing todo by comparing an
  index with the length it never reaches; on a non-empty list it moves the last todo instead of failing.
* `ChangeAssignment` (list.go 254-283) of an own todo to oneself
  leaves the todo in *My*, lists it in *Out* and delivers a copy to the own inbox.
* `RemoveIssue`'s third result (list.go 353) tells whether the other user
  sent the todo; plugin.go 44 documents the opposite.
* The buttons of the bot's post about a reassigned todo (plugin.go 433) are for the author's copy, which
  the receiver cannot accept; `RequestsCanBeAnswered` is therefore about sent todos.
* A reassignment ignores the receiver's preference (plugin.go 417), of which command.go 72 says "Other users cannot send you
  task request"; so does a send that has read it before it was switched off (plugin.go 258).
* The reminder's days are compared in the zone that a header names (plugin.go 320), which the web app never sends: "the next day" (323) is
  UTC's, and a user elsewhere may be reminded twice on one of his days.
* A bot post that fails is only logged (bot.go 38-52): the receiver of a todo has nothing to answer it from, and a reminder
  that nobody saw counts as posted.
* Two tabs can both post the daily reminder (plugin.go 327), against "if it's the next day and been more
  than an hour since the last post" (323); `RemindersApart` and `RemindersPerDay` are what is left of that.
* Two configuration hooks that overlap can leave the older configuration active (configuration.go 92);
  `ShownUnlessRaced` excepts it until a hook that runs alone has sent its event.
* The box that attaches a todo to its post stays ticked for the next post (add_issue.jsx 91), and the
  sidebar button of the list that was asked for last shows no other list if the heading has changed it since (sidebar_right.jsx 121).
* An error answer replaces the lists in the store (actions.js 148), which the sidebar then reads as lists (sidebar_right.jsx 54).

## What is proved

Of `ListStore`, for any set of requests, todos and references and any positive number of attempts
(`StoreRetriesAssumption`; the other two assumptions say that the sentinels
`NoPeer` and `Absent` are not values of the sets they are added to):

* **`TypeCorrect`.** `TypeOK` is not inductive. `TypeInv` adds `Checked` - a
  request about to write is not refused by its own snapshot, hence `Effect` is
  applied where it is defined - and `Budgeted` - an attempt is left until the call is done.
* **`ListsStayUnique`** (`NoDuplicates`). A write replaces the stored list by the
  effect of a call on that very list (`Unmoved`), which `Checked` allows, and
  `EffectKeepsIdsUnique` says that such an effect creates no duplicate. That lemma rests on
  what removal and bump do to positions (`RemoveAtFacts`, `BumpRefFacts`) and on the
  existence of a first position (`PositionFacts`, by well-foundedness of `<`).
* **`CallsWriteOnce`** (`ExactlyOnce`), from `WritesCounted`: the count agrees with
  the outcome at every point, not only at the end.
* **`GivingUpNeedsRivals`** and **`DecodingErrorNeedsRival`**, from `LossesCovered`:
  every lost attempt is paid for by a rival's write, and a snapshot that is out of date
  by one more. Without the second part the step that counts a loss could not be justified.
* **`StoreImplementsAtomicList`** (`ImplementsAtomicList`). The abstract list is `ListOf(stored)`,
  the abstract answer forgets the reason of a failure. The step `SaveWins` is the instant at which
  the call happens (`EffectKeepsPromise`); failures are `Fail`; reads and retries are stuttering.

Of `ListManager`, for any users, texts, requests in flight, ids and bounds on failing calls and
crashes (`BoundsAssumption`; `SentinelAssumption` says that the empty user id is no user and nil no text):

* **`OwnershipKept`** (`OwnersOnly`). A step that lists a todo relies on something its handler
  learned several steps earlier, so the invariant has to say what that is. `Inv` is
  `StoreInv` - the types, `ListsOwned`, and `Fresh`: an id not handed out has no owner - and
  `ReqInv`, which tells of every request, by the label it is at (`ReqOwned`), what it may rely on:
  at `OwnLabels` the todo is its user's, because it was made for the user or found in one of the
  user's lists; at `TwinLabels` it has a copy made for the receiver; at `PeerLabels` the
  reference it holds points to a todo of the user it names, and at `FarLabels` there is such a
  user. Ownership never changes once given, so what was found stays true while other
  requests move the todo, and no store call of theirs can disturb it. There is one lemma per store call
  (`ChangeListFacts`, `SearchFacts`, ...), one per operation (`SendIssueKeeps`, ...), with one step per
  call, and `ArriveKeeps` for the requests that hand out ids.
* **`InvHolds`**, the same invariant as a theorem of the specification, and **`TypeCorrect`** (`TypeOK`), from it.
* **`ListingsAreComplete`** (`ListingMissesNothing`), for any number of overlapping requests, failures and deaths, under
  two hypotheses: the listing's own calls do not fail (`"List" \notin Troubled`; the code answers with an error if they do),
  and nobody assigns a todo of his own list to himself (`TakesBackOnly`), which as reported above
  lists one id in *My* and *Out* at once. The listing reads the lists in the order In, My, Out and a todo may
  change its list meanwhile, so the proof has to show that it only moves *forward* in this order and is in the list it
  moves to before it leaves the other. Its parts:
  * `Sorted`: every id is, for good, an original or a copy (the set `C` of copies). Copies are received and
    originals are sent (`ListsSorted`); *My* and *Out* have no id in common; whatever a handler is about to list is listed
    nowhere else and in no other handler's hand (`Apart`: `CarryLabels` for an original on its way, `TwinLabels` for a copy not yet
    delivered). `Knows` says by label which kind the ids in a request's hand are.
  * `Moves`: a step shrinks one list or grows one by one reference, and an inbox grows only by an id that none of its
    user's lists has. No step does two of these.
  * `Complete`: a todo the user has throughout is covered by what was read, or is in a list yet to be read. A todo that leaves the
    inbox by being accepted enters *My* first; one that goes from *My* to *Out* by `ChangeAssignment`, or back, is in the hand of a request
    meanwhile, so the user does not have it throughout, and `held` drops it.

Of `WebRequests`, for any number of users, todos, texts and requests. The theorems assume that requests do
not overlap (`OneAtATime`); all but the last two also that handlers do not die (`MaxCrashes = 0`); that calls fail only in the operations
that undo what they did, or change nothing before they can fail (`Troubled \subseteq Reversible`: add, send, accept,
bump, list); and that what undoes them works (`RollbacksWork`). **`OneFaultIsUndone`** says that the last
comes for free where at most one call fails, as in the run `web`: an undoing call runs only after another has failed.

* **`RecordsAreListed`**, **`CopiesAreLinked`**, **`CopiesSayTheSame`**, **`EndedTodosAreReturned`** (`RecordsMatchLists`,
  `Linked`, `CopiesAgree`, `EndedTodoIsReturned`). None of them is inductive, since they do not hold while
  a request is under way. The invariant, `Courses`, is about the way from one consistent state to the next:
  * `Entries` is what the lists hold without the order they hold it in, and `Whole(E, I)` says of entries and records
    that they fit together: a record is listed once, and every end of a sent todo is matched by the other.
  * `OnCourse`: there are entries `E0` and records `I0` that fit together - those of when the request arrived - such that those of
    now are `E0` and `I0` but for what the request has taken out, put in, dropped and saved by the label it is at (`SoFar`),
    and what it has looked up meanwhile is true of `E0` and `I0` (`Learnt`).
  * A call at one label leads to what the next label says (`SendWay`, `EndWay` and so on: one lemma per operation on these pure
    functions, and one per store call that relates it to the lists, `AddCall`, `RemoveCall`, `SearchCall` ...), and where an operation
    ends, what it has made fits together again (`NewPairFits`, `EndingFits`, `AcceptedFits` and so on).
* **`TodosAreOneThing`** (`ImplementsSharedTodos`): such requests implement `SharedTodos`. `OnCourse` also
  keeps what users saw when the request arrived (`SeenIn(E0, I0)`). What they see when it has ended differs from that by one step
  of `SharedTodos` or not at all (`Turns`): a failed request is one that did not happen. `VisibleIsSeen` relates `Visible` to entries and
  records, `TurnsAreSteps` relates `Turns` to the actions of `SharedTodos`, and `Following` says that `shown` is what was visible last.
* **`TodosAreOneThingDespiteAFault`**: the same with one failing call at most and nothing assumed of rollbacks, the
  setting of the run `web`.
* **`NothingIsLeftDangling`**, **`OneReceiverAtMost`** (`NothingDangles`, `OneReceiver`), for any number of failing calls *and* of
  handlers that die, both in the operations that lose something at most (`Troubled \subseteq Lossy`: add, edit, assign, bump,
  list; the run `lost` has the middle three). Nothing is assumed of rollbacks. `Whole` is lost for good here: a record may
  be in no list, a sent todo without its copy. The invariant, `Tracks`, does not look back to where the request
  started, since it may stop anywhere:
  * `Sound(E, I)` is what survives: an id is listed once, what is listed has a record, a received todo has its author's
    entry, and a sent one no other copy than that of its receiver. `OneReceiver` follows (`SoundReceivers`).
  * `Aware` says by label what the calls to come rely on: which ids no entry names yet (`Unused`), that a new copy is known
    from the sent list alone (`Posted`), that an assignment whose first half is done has nothing listed of the todo. Two operations
    disturb `Sound` on their way, `EndTodo` and `AcceptIssue`; they get it back as their calls cannot fail, and `Loose` names the
    one entry that does not fit meanwhile.
  * An assignment or an edit may stop at every label, because `Sound` holds at each of theirs (`ReturnTracks`, `CrashTracks`). This is where the order of
    calls in `ChangeAssignment` matters: it takes the old copy and the reference out before it lists anything anew.

Of `WebSync`, for any users, views, changes, drops and failures:

* **`NewsArrives`** (`NewsIsComing`): a screen that expects nothing more has the truth as its last word. It is
  inductive because of the `old` flags: an answer that was read before a change is either
  marked, or the change still owes an event. `LastWord` looks at the last answer read, which is the freshest in
  whatever order they arrive (`WithoutFacts`: taking one out marks those before it and keeps the last).
* **`StaleScreensHaveReasons`** (`StaleHasReason`), from it, and **`TypeCorrect`**.

Of `Handlers`, for any users, requests, texts, threads, failures, deaths and other bounds (`TextsAssumption` says there is a text):

* **`SentTodosCanBeAnswered`** (`RequestsCanBeAnswered`). The one step that makes a todo wait for an answer
  puts the post among the messages to send; no other step changes the id a post is for. A post that leaves these without
  being there is in `dropped`. That no message is overwritten needs `Quiet`: a request that has read a preference and not yet sent its todo has nothing
  else to say. `Held` gives every bump a holder to send the post to, and every todo on two lists its copy.
* **`TypeCorrect`**: every message goes to a user or thread that exists.
* **`ChangesExplained`** (`ChangesAreExplained`), from what each handler says: `Speaks` - to everybody whose lists
  it changes an event, and to all but the one who asked a message of the bot as well - unless a call has failed for it (`Fumbles`).
  A message leaves only from the head (`HeadOrTail`).
* **`PromiseIsKept`** (`NobodyIsForgotten`): `Handlers` implements `Refreshes`. `Speaks` is `Change`, `Fumbles` is `HalfDone`, `Say` of
  an event is `Publish`, of a post that fails `HalfDone` for nobody, a death is `Forget`, every other step stutters. `Owed` counts, over all
  requests, the events among the messages to send; the proof compares the sets of these places before and after (`OwingFacts`). They are finitely many
  although requests need not be, because a message needs a call and calls are bounded (`FewEvents`).

Of `Reminder`, for any tabs, listings, failures and lengths of hour and day (`TimeAssumption`):

* **`RemindersAreApart`** (`RemindersApart`). `Timely` says that what a handler read is no later than now
  and no earlier than any reminder saved by then; days are monotonic (`DivIsMonotonic`), so a reminder due against the
  time read is due against all of these (`DueMeansLater`). `Numbered` says that a new reminder is in nobody's set of saved ones.
* **`TabsAsk`** (`TabsAskHourly`), from `Active`: a tab has been active since it asked. **`TypeCorrect`**.

Of `ConfigSync`, for any hooks, clients, changes and losses (in the same module, hence the prefix `Config`):

* **`SettingIsShown`** (`ShownUnlessRaced`). `HookTells`: a hook that runs alone has loaded the setting, or another
  is due, or the latest load failed. `Followed`: a client spared the races (`Excused`) has the active configuration as its
  last event, its answer, or on display, unless hooks overlapped or one is between replacing it and sending the event.
  **`ConfigTypeCorrect`**.

Of the three parts of the screen, in one module, for any todos, posts, users and messages:

* **`WhatIsUndoneIsNotSent`** (`UndoneIsNotSent`) of `TodoPanel`, for any number of presses and any delays that satisfy `DelaysAssumption`.
  An undo clears the timer of the *item's last* press; it undoes the press the *toast* is of. These are the same because
  `CompleteButton`'s timers, all of one length, run out in the order of the presses (`InOrder`), so that the toast is of the last press
  that got as far as a request (`ToastIsLatest`).
* **`UndoWorksWhileOffered`** (`UndoIsOfferedInTime`), from `ToastIsShort`: a toast that started with the timer of its request
  has no more time left than that. **`ItemsOnTheScreenAreKept`**, **`HiddenItemsAreEnding`**, **`UntouchedFormsAreCurrent`**
  (`SeenIsKept`, `HiddenIsEnding`, `UntouchedFormIsCurrent`) from the same `PanelInv`, and **`TypeCorrect`**.
* **`AssigneeStaysWithTheForm`**, **`FormShowsItsPost`**, **`ModalKnowsItsOpener`** (`AssigneeIsOfThisForm`, `FormFitsPost`,
  `ModalIsForItsOpener`) of `AddForm`, which relate the slices of the store: whoever closes one form does not
  reset the same slices as whoever closes the other. `DerivedFacts` is what `getDerivedStateFromProps` guarantees. **`OnlyTheUserChangesHisDraft`** (`DraftIsKept`) is an action property.
* **`ListAskedForIsShown`**, **`FoldedListsCanBeUnfolded`** (`ShowsWhatWasAskedFor`, `FoldedCanBeUnfolded`) of `Sidebar`.

Only model-checked:

* `RemindersPerDay`: a bound on the number of reminders that holds because each of them is saved by its listing or paid for by a
  failure, for which the proof would have to match the one with the other;
* `RecordsMatchLists` and `Linked` for requests that overlap. They hold for the mixes of the run `together` only: which operations
  interleave safely is a property of the mixes, not of the code, as the section on concurrency shows;
* the liveness properties `EveryCallReturns`, `EventuallyFresh`, `EveryPressEnds` and `EveryToastGoes`, since liveness under fairness is
  beyond the prover.

## Not modelled

* The JSON encoding of values (only which decoder accepts them), the validation of payloads (a request that
  fails it changes nothing), log lines, telemetry, texts of messages and toasts.
* The foreign user's name, list and position that `extendIssueInfo` adds to a listing.
* Reads from a lagging database replica, which `runAddCommand` allows for: a read answers the latest write.
* A key-value call that fails after having taken effect.
* `root.jsx`: its visibility is read from `rootModalVisible`, which no reducer sets, so that it never shows. Nor
  the selector that would fill `AddIssue`, which nothing opens.
* The highlight of the channel header button (`isRhsVisible`), key listeners other than as menus that are open or
  closed, icons, styles and illustrations.

## Plan

Every component that changes state is modelled, and every invariant that a run checks but `RemindersPerDay` is stated by a theorem. Those of
`WebRequests` are about requests that come one after the other. What would say more is a condition on a mix of overlapping
operations under which records and lists still agree at the end (the run `together` has three such mixes): each of
its operations would need its part of `Courses` to hold whatever the others of the mix have done meanwhile.
