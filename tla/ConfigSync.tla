------------------------------- MODULE ConfigSync -------------------------------
(***************************************************************************)
(* The plugin's configuration on its way from the system console to the    *)
(* screens.  The Mattermost server calls OnConfigurationChange after every *)
(* change, concurrently if changes follow each other closely; the hook     *)
(* loads the configuration, compares it with the active one, replaces      *)
(* that, and sends a websocket event with whatever is active by then.  A   *)
(* page asks for the configuration once, when it is loaded; its socket     *)
(* delivers events in order, and none while it is down.                    *)
(***************************************************************************)
EXTENDS Naturals, Sequences

CONSTANTS
    Hooks,      \* calls of OnConfigurationChange that may be under way at once
    Clients,
    MaxChanges, \* bound: changes in the system console
    MaxDrops    \* bound: loads that fail, sockets that go down, answers that are lost

ASSUME ChangesAssumption == MaxChanges \in Nat /\ MaxDrops \in Nat

VARIABLES
    setting,    \* hide_team_sidebar, in the server's configuration
    active,     \* p.configuration, Nil before the first hook
    due,        \* hooks the server has still to call
    hook,       \* hook[h]
    sidebar,    \* sidebar[c]: isTeamSidebarHidden
    fetch,      \* fetch[c]: where c's request of the configuration is
    socket,     \* socket[c]: events on their way to c
    online,     \* online[c]: c's socket is up
    changes, drops,  \* so far
    failed,     \* history: the latest load failed
    overlapped, \* history: two hooks were under way at once, and none alone has sent an event since
    missed,     \* history: clients that got no answer or lost the latest event
    overtaken   \* history: clients whose answer was on its way when the latest event was sent

configVars == <<setting, active, due, hook, sidebar, fetch, socket, online, changes, drops,
          failed, overlapped, missed, overtaken>>

Choices == {"show", "hide"}
Nil == "nil"
NoHook == [at |-> "none", loaded |-> Nil, alone |-> FALSE]
NoFetch == [at |-> "none", answer |-> Nil]

ConfigInit ==
    /\ setting \in Choices
    /\ active = Nil
    /\ due = 1
    /\ hook = [h \in Hooks |-> NoHook]
    /\ sidebar = [c \in Clients |-> "show"]
    /\ fetch = [c \in Clients |-> [NoFetch EXCEPT !.at = "unloaded"]]
    /\ socket = [c \in Clients |-> <<>>]
    /\ online = [c \in Clients |-> FALSE]
    /\ changes = 0 /\ drops = 0
    /\ failed = FALSE /\ overlapped = FALSE
    /\ missed = {}
    /\ overtaken = {}

-----------------------------------------------------------------------------
(* The server *)

\* Somebody saves the system console.
Change ==
    /\ changes < MaxChanges
    /\ changes' = changes + 1
    /\ setting' \in Choices
    /\ due' = due + 1
    /\ UNCHANGED <<active, hook, sidebar, fetch, socket, online, drops, failed, overlapped, missed, overtaken>>

\* OnConfigurationChange: LoadPluginConfiguration ...
LoadConfiguration(h) ==
    /\ due > 0 /\ hook[h] = NoHook
    /\ due' = due - 1
    /\ hook' = [g \in Hooks |->
                  IF g = h THEN [at |-> "loaded", loaded |-> setting,
                                 alone |-> \A f \in Hooks : hook[f] = NoHook]
                  ELSE [hook[g] EXCEPT !.alone = FALSE]]
    /\ failed' = FALSE
    /\ overlapped' = (overlapped \/ \E g \in Hooks : hook[g] # NoHook)
    /\ UNCHANGED <<setting, active, sidebar, fetch, socket, online, changes, drops, missed, overtaken>>

\* ... whose error is all that the hook returns ...
LoadFails ==
    /\ drops < MaxDrops /\ drops' = drops + 1
    /\ due > 0
    /\ due' = due - 1
    /\ failed' = TRUE
    /\ UNCHANGED <<setting, active, hook, sidebar, fetch, socket, online, changes,
                   overlapped, missed, overtaken>>

\* A slip: the first configuration is not new to anybody.
Changed_NotFirst(prev, current) == prev \notin {Nil, current}

\* hasClientConfigChanged
Changed(prev, current) == prev # current

\* ... compare, without the lock ...
Compare(h) ==
    /\ hook[h].at = "loaded"
    /\ hook' = [hook EXCEPT ![h].at = IF Changed(active, hook[h].loaded) THEN "differs" ELSE "same"]
    /\ UNCHANGED <<setting, active, due, sidebar, fetch, socket, online, changes, drops,
                   failed, overlapped, missed, overtaken>>

\* ... setConfiguration ...
Replace(h) ==
    /\ hook[h].at \in {"differs", "same"}
    /\ active' = hook[h].loaded
    /\ hook' = [hook EXCEPT ![h] = IF hook[h].at = "differs" THEN [@ EXCEPT !.at = "send"] ELSE NoHook]
    /\ UNCHANGED <<setting, due, sidebar, fetch, socket, online, changes, drops,
                   failed, overlapped, missed, overtaken>>

\* ... and sendConfigUpdateEvent, which reads the active configuration again.
SendEvent(h) ==
    /\ hook[h].at = "send"
    /\ hook' = [hook EXCEPT ![h] = NoHook]
    /\ socket' = [c \in Clients |-> IF online[c] THEN Append(socket[c], active) ELSE socket[c]]
    /\ overlapped' = (overlapped /\ ~hook[h].alone)
    /\ missed' = {c \in Clients : fetch[c].at = "none" /\ ~online[c]}
    /\ overtaken' = {c \in Clients : fetch[c].at = "answered"}
    /\ UNCHANGED <<setting, active, due, sidebar, fetch, online, changes, drops, failed>>

\* handleConfig; before the first hook it answers nothing at all.
Answer(c) ==
    /\ fetch[c].at = "asked"
    /\ fetch' = [fetch EXCEPT ![c] =
                   IF active = Nil THEN NoFetch ELSE [at |-> "answered", answer |-> active]]
    /\ UNCHANGED <<setting, active, due, hook, sidebar, socket, online, changes, drops,
                   failed, overlapped, missed, overtaken>>

-----------------------------------------------------------------------------
(* The web app *)

\* A slip: the handler is registered, nothing is asked for.
Open_Unasked(c) ==
    /\ fetch[c].at = "unloaded"
    /\ online' = [online EXCEPT ![c] = TRUE]
    /\ fetch' = [fetch EXCEPT ![c] = NoFetch]
    /\ UNCHANGED <<setting, active, due, hook, sidebar, socket, changes, drops,
                   failed, overlapped, missed, overtaken>>

\* initialize: the handler is registered, then updateConfig asks.
Open(c) ==
    /\ fetch[c].at = "unloaded"
    /\ online' = [online EXCEPT ![c] = TRUE]
    /\ fetch' = [fetch EXCEPT ![c].at = "asked"]
    /\ UNCHANGED <<setting, active, due, hook, sidebar, socket, changes, drops,
                   failed, overlapped, missed, overtaken>>

\* updateConfig gets its answer.
Answered(c) ==
    /\ fetch[c].at = "answered"
    /\ sidebar' = [sidebar EXCEPT ![c] = fetch[c].answer]
    /\ fetch' = [fetch EXCEPT ![c] = NoFetch]
    /\ UNCHANGED <<setting, active, due, hook, socket, online, changes, drops,
                   failed, overlapped, missed, overtaken>>

\* ... or an error: it keeps that to itself, but for the JSON of an error
\* answer, in which it finds no hide_team_sidebar.
FetchFails(c) ==
    /\ drops < MaxDrops /\ drops' = drops + 1
    /\ fetch[c].at \in {"asked", "answered"}
    /\ fetch' = [fetch EXCEPT ![c] = NoFetch]
    /\ \E shown \in {sidebar[c], "show"} : sidebar' = [sidebar EXCEPT ![c] = shown]
    /\ missed' = missed \cup {c}
    /\ UNCHANGED <<setting, active, due, hook, socket, online, changes,
                   failed, overlapped, overtaken>>

\* configUpdate
Deliver(c) ==
    /\ socket[c] # <<>>
    /\ sidebar' = [sidebar EXCEPT ![c] = Head(socket[c])]
    /\ socket' = [socket EXCEPT ![c] = Tail(@)]
    /\ UNCHANGED <<setting, active, due, hook, fetch, online, changes, drops,
                   failed, overlapped, missed, overtaken>>

Drop(c) ==
    /\ drops < MaxDrops /\ drops' = drops + 1
    /\ online[c]
    /\ online' = [online EXCEPT ![c] = FALSE]
    /\ socket' = [socket EXCEPT ![c] = <<>>]
    /\ missed' = IF socket[c] # <<>> /\ fetch[c].at = "none" THEN missed \cup {c} ELSE missed
    /\ UNCHANGED <<setting, active, due, hook, sidebar, fetch, changes,
                   failed, overlapped, overtaken>>

\* The reconnect handler asks for the lists, not for the configuration.
Reconnect(c) ==
    /\ ~online[c] /\ fetch[c].at # "unloaded"
    /\ online' = [online EXCEPT ![c] = TRUE]
    /\ UNCHANGED <<setting, active, due, hook, sidebar, fetch, socket, changes, drops,
                   failed, overlapped, missed, overtaken>>

ConfigNext ==
    \/ Change \/ LoadFails
    \/ \E h \in Hooks : LoadConfiguration(h) \/ Compare(h) \/ Replace(h) \/ SendEvent(h)
    \/ \E c \in Clients :
        \/ Open(c) \/ Answer(c) \/ Answered(c) \/ FetchFails(c) \/ Deliver(c)
        \/ Drop(c) \/ Reconnect(c)

ConfigSpec == ConfigInit /\ [][ConfigNext]_configVars

-----------------------------------------------------------------------------
(* Properties *)

ConfigTypeOK ==
    /\ setting \in Choices
    /\ active \in Choices \cup {Nil}
    /\ due \in 0..(changes + 1)
    /\ hook \in [Hooks -> [at : {"none", "loaded", "differs", "same", "send"},
                       loaded : Choices \cup {Nil}, alone : BOOLEAN]]
    /\ sidebar \in [Clients -> Choices]
    /\ fetch \in [Clients -> [at : {"unloaded", "none", "asked", "answered"}, answer : Choices \cup {Nil}]]
    /\ socket \in [Clients -> Seq(Choices)]
    /\ online \in [Clients -> BOOLEAN]
    /\ changes \in 0..MaxChanges /\ drops \in 0..MaxDrops
    /\ failed \in BOOLEAN /\ overlapped \in BOOLEAN
    /\ missed \subseteq Clients /\ overtaken \subseteq Clients

AtRest == due = 0 /\ \A h \in Hooks : hook[h] = NoHook

\* When the server has nothing left to do and a screen has got all its answers
\* and events, it shows what the system console says, unless the latest load
\* failed; or two hooks ran at once and none that ran alone has sent an event
\* since; or the screen lost the latest event, or got an error for an answer and
\* no event since, or its answer was on its way when the latest event was sent.
ShownUnlessRaced ==
    \A c \in Clients :
        /\ AtRest
        /\ fetch[c].at = "none" /\ socket[c] = <<>>
        => sidebar[c] = setting \/ failed \/ overlapped \/ c \in missed \cup overtaken
=============================================================================
