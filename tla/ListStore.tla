------------------------------ MODULE ListStore ------------------------------
(***************************************************************************)
(* The reference lists of server/store.go under concurrent requests.  A    *)
(* list lives under one key of the server's key-value store; a request     *)
(* reads it (getList), computes the new list and writes it back with a     *)
(* compare-and-set against what it read (saveList), up to StoreRetries     *)
(* times.  Lists under different keys never meet in one call, so the       *)
(* module follows one key.                                                 *)
(*                                                                         *)
(* Old installations stored a list as bare todo ids.  getList recognises   *)
(* such a value only after decoding it as references has failed, and then  *)
(* reads the key a SECOND time (legacyIssueRef).                           *)
(***************************************************************************)
EXTENDS IssueLists

CONSTANTS
    Requests,      \* requests in flight
    Issues,        \* todo ids
    Peers,         \* who a reference can point to: a foreign user and todo
    NoPeer,        \* ForeignUserID = ForeignIssueID = ""
    Absent,        \* the key was never written: KVGet answers nil
    StoreRetries   \* attempts of one call

ASSUME StoreRetriesAssumption == StoreRetries \in Nat \ {0}
ASSUME NoPeerAssumption == NoPeer \notin Peers

Refs == [issue : Issues, peer : Peers \cup {NoPeer}]
Calls == [kind : Kinds, ref : Refs]

\* What the key can hold: references, or the bare ids of an old version.
Values == [format : {"refs", "ids"}, list : Seq(Refs)]

ASSUME AbsentAssumption == Absent \notin Values

VARIABLES
    stored,    \* the value under the key
    pc,        \* where each request is
    call,      \* the call it makes
    snapshot,  \* the value its last KVGet answered
    attempt,   \* attempts it has lost
    outcome,   \* how its call ended
    writes,    \* history: writes of its current call
    rivals     \* history: writes of the others during its current call,
               \*   counted up to StoreRetries

vars == <<stored, pc, call, snapshot, attempt, outcome, writes, rivals>>

Outcomes == {"none", "ok", "refused", "kvError", "badFormat", "exhausted"}

\* The list a value stands for: a missing key reads as an empty list.
ListOf(value) == IF value = Absent THEN <<>> ELSE value.list

\* A new value is always written as references.
Encoded(list) == [format |-> "refs", list |-> list]

\* A value that decodes as references.  An empty array decodes as either.
IsRefs(value) == value # Absent => value.format = "refs" \/ value.list = <<>>

NoCall == <<>>

Init ==
    /\ stored \in {Absent} \cup
         {[format |-> "ids", list |-> <<[issue |-> i, peer |-> NoPeer]>>] : i \in Issues}
    /\ pc = [r \in Requests |-> "idle"]
    /\ call = [r \in Requests |-> NoCall]
    /\ snapshot = [r \in Requests |-> Absent]
    /\ attempt = [r \in Requests |-> 0]
    /\ outcome = [r \in Requests |-> "none"]
    /\ writes = [r \in Requests |-> 0]
    /\ rivals = [r \in Requests |-> 0]

-----------------------------------------------------------------------------

\* The manager calls the store with any of the four calls.
Call(r, op) ==
    /\ pc[r] = "idle"
    /\ pc' = [pc EXCEPT ![r] = "get"]
    /\ call' = [call EXCEPT ![r] = op]
    /\ UNCHANGED <<stored, snapshot, attempt, outcome, writes, rivals>>

\* A slip: a successful write is taken for a lost race.
Finish_OnlyErrors(r, how) ==
    /\ pc' = [pc EXCEPT ![r] = IF how = "ok" THEN "get" ELSE "done"]
    /\ outcome' = [outcome EXCEPT ![r] = IF how = "ok" THEN "none" ELSE how]

Finish(r, how) ==
    /\ pc' = [pc EXCEPT ![r] = "done"]
    /\ outcome' = [outcome EXCEPT ![r] = how]

\* What follows a read: the early returns, or the computation of a new list.
Examine(r, value) ==
    \/ /\ Refuses(ListOf(value), call[r])
       /\ Finish(r, "refused")
       /\ UNCHANGED snapshot
    \/ /\ ~Refuses(ListOf(value), call[r])
       /\ pc' = [pc EXCEPT ![r] = "save"]
       /\ snapshot' = [snapshot EXCEPT ![r] = value]
       /\ UNCHANGED outcome

\* getList; a value that does not decode as references goes to legacyIssueRef.
GetList(r) ==
    /\ pc[r] = "get"
    /\ \/ IsRefs(stored) /\ Examine(r, stored)
       \/ ~IsRefs(stored) /\ pc' = [pc EXCEPT ![r] = "legacy"] /\ UNCHANGED <<snapshot, outcome>>
    /\ UNCHANGED <<stored, call, attempt, writes, rivals>>

\* A slip: the second look expects references, as the first did.
IsIds_Refs(value) == IsRefs(value)

\* A value that decodes as bare ids.
IsIds(value) == value.format = "ids" \/ value.list = <<>>

\* legacyIssueRef reads the key again.  Somebody may have rewritten it as
\* references in between, and these do not decode as bare ids.
GetLegacy(r) ==
    /\ pc[r] = "legacy"
    /\ \/ IsIds(stored) /\ Examine(r, stored)
       \/ ~IsIds(stored) /\ Finish(r, "badFormat") /\ UNCHANGED snapshot
    /\ UNCHANGED <<stored, call, attempt, writes, rivals>>

\* A slip: KVSet, which compares nothing.
Unmoved_Always(r) == TRUE

\* What KVCompareAndSet compares.
Unmoved(r) == stored = snapshot[r]

\* saveList, when the value is still the one that was read.
SaveWins(r) ==
    /\ pc[r] = "save"
    /\ Unmoved(r)
    /\ stored' = Encoded(Effect(ListOf(snapshot[r]), call[r]))
    /\ Finish(r, "ok")
    /\ writes' = [writes EXCEPT ![r] = @ + 1]
    /\ rivals' = [q \in Requests |->
                    IF q # r /\ pc[q] \in {"get", "legacy", "save"} /\ rivals[q] < StoreRetries
                    THEN rivals[q] + 1 ELSE rivals[q]]
    /\ UNCHANGED <<call, snapshot, attempt>>

\* Slips: the loop variable shadowed, as BumpReference shadows it without harm;
\* a retry with the list of the attempt before.
CountLoss_Shadowed(r) == UNCHANGED attempt
RetryAt_Save == "save"

MayRetry(r) == attempt[r] + 1 < StoreRetries
CountLoss(r) == attempt' = [attempt EXCEPT ![r] = @ + 1]
RetryAt == "get"

\* saveList, when it is not: the next attempt, if one is left.
SaveLoses(r) ==
    /\ pc[r] = "save"
    /\ ~Unmoved(r)
    /\ CountLoss(r)
    /\ \/ MayRetry(r) /\ pc' = [pc EXCEPT ![r] = RetryAt] /\ UNCHANGED outcome
       \/ ~MayRetry(r) /\ Finish(r, "exhausted")
    /\ UNCHANGED <<stored, call, snapshot, writes, rivals>>

\* The key-value store answers a read or a write with an error; the call ends.
KVError(r) ==
    /\ pc[r] \in {"get", "legacy", "save"}
    /\ Finish(r, "kvError")
    /\ UNCHANGED <<stored, call, snapshot, attempt, writes, rivals>>

\* The caller takes the answer; the request may call again.
Return(r) ==
    /\ pc[r] = "done"
    /\ pc' = [pc EXCEPT ![r] = "idle"]
    /\ call' = [call EXCEPT ![r] = NoCall]
    /\ snapshot' = [snapshot EXCEPT ![r] = Absent]
    /\ attempt' = [attempt EXCEPT ![r] = 0]
    /\ outcome' = [outcome EXCEPT ![r] = "none"]
    /\ writes' = [writes EXCEPT ![r] = 0]
    /\ rivals' = [rivals EXCEPT ![r] = 0]
    /\ UNCHANGED stored

\* The steps of the store's code for one request.
Step(r) == GetList(r) \/ GetLegacy(r) \/ SaveWins(r) \/ SaveLoses(r)

Next ==
    \E r \in Requests :
        \/ \E op \in Calls : Call(r, op)
        \/ Step(r)
        \/ KVError(r)
        \/ Return(r)

Spec == Init /\ [][Next]_vars

\* The server schedules every handler: a call in progress takes its next step.
\* Nothing makes callers call, nor the key-value store fail.
FairSpec == Spec /\ \A r \in Requests : WF_vars(Step(r))

-----------------------------------------------------------------------------
(* Properties *)

TypeOK ==
    /\ stored \in Values \cup {Absent}
    /\ pc \in [Requests -> {"idle", "get", "legacy", "save", "done"}]
    /\ call \in [Requests -> Calls \cup {NoCall}]
    /\ \A r \in Requests : pc[r] # "idle" => call[r] \in Calls
    /\ snapshot \in [Requests -> Values \cup {Absent}]
    /\ attempt \in [Requests -> 0..StoreRetries]
    /\ outcome \in [Requests -> Outcomes]
    /\ writes \in [Requests -> Nat]
    /\ rivals \in [Requests -> 0..StoreRetries]

\* However the requests interleave, no list refers to a todo twice:
\* AddReference's check and its write are about the same snapshot, and the
\* other calls keep what they rearrange.  RemoveReference, which deletes from
\* the slice it ranges over, is only right because of it.
NoDuplicates == IdsUnique(ListOf(stored))

\* A call that reports success has written the list once, and a call that
\* reports an error has not written it at all, whatever it lost or retried:
\* the rollbacks of server/list.go depend on it.
ExactlyOnce ==
    \A r \in Requests :
        pc[r] = "done" => writes[r] = (IF outcome[r] = "ok" THEN 1 ELSE 0)

\* A call only gives up ("unable to store list") after StoreRetries writes
\* of other requests: a call alone on its list never fails that way, and one
\* rival write is never counted twice.
ExhaustionNeedsRivals ==
    \A r \in Requests : outcome[r] = "exhausted" => rivals[r] = StoreRetries

\* The decoding error of legacyIssueRef also takes a write between its two
\* reads: a list that nobody touches decodes, whichever its format.
BadFormatNeedsRival ==
    \A r \in Requests : outcome[r] = "badFormat" => rivals[r] > 0

\* Every call ends, under any contention: retries are bounded.
EveryCallReturns ==
    \A r \in Requests : (pc[r] = "get") ~> (pc[r] = "done")
=============================================================================
