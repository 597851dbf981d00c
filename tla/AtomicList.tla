------------------------------ MODULE AtomicList ------------------------------
(***************************************************************************)
(* What the reference lists of the store promise to server/list.go: each   *)
(* call takes effect at one instant, or not at all.  The effects are       *)
(* stated by what they keep and change, not by how the code computes them. *)
(***************************************************************************)
EXTENDS IssueLists

CONSTANTS Requests, Issues, Peers, NoPeer

Refs == [issue : Issues, peer : Peers \cup {NoPeer}]
Calls == [kind : Kinds, ref : Refs]
NoCall == <<>>

VARIABLES
    list,     \* the list
    call,     \* the call of each request, NoCall when it makes none
    answer    \* "none" while the call is open, then "ok" or "failed"

vars == <<list, call, answer>>

Init ==
    /\ list \in {<<>>} \cup {<<[issue |-> i, peer |-> NoPeer]>> : i \in Issues}
    /\ call = [r \in Requests |-> NoCall]
    /\ answer = [r \in Requests |-> "none"]

\* `after' is `before' with what stands at position i taken out.
TakenOut(before, after, i) ==
    /\ Len(after) = Len(before) - 1
    /\ \A j \in 1..Len(after) : after[j] = before[IF j < i THEN j ELSE j + 1]

\* `after' is `before' with what stands at position i moved to the front.
MovedToFront(before, after, i) ==
    /\ Len(after) = Len(before)
    /\ \A j \in 1..Len(after) :
          after[j] = before[IF j = 1 THEN i ELSE IF j <= i THEN j - 1 ELSE j]

\* The promise of each call.  A bump only promises to move SOME reference to
\* the front and to keep the order of the rest.
Promise(op, before, after) ==
    \/ /\ op.kind = "add"
       /\ Positions(before, op.ref.issue) = {}
       /\ after = Append(before, op.ref)
    \/ /\ op.kind = "remove"
       /\ \E i \in 1..Len(before) :
             before[i].issue = op.ref.issue /\ TakenOut(before, after, i)
    \/ /\ op.kind = "pop"
       /\ before # <<>>
       /\ TakenOut(before, after, 1)
    \/ /\ op.kind = "bump"
       /\ \E i \in 1..Len(before) :
             /\ Positions(before, op.ref.issue) \subseteq {i}
             /\ MovedToFront(before, after, i)

-----------------------------------------------------------------------------

Begin(r, op) ==
    /\ call[r] = NoCall
    /\ call' = [call EXCEPT ![r] = op]
    /\ UNCHANGED <<list, answer>>

\* The instant at which the call happens.
Happen(r) ==
    /\ call[r] # NoCall
    /\ answer[r] = "none"
    /\ list' \in Seq(Refs)
    /\ Promise(call[r], list, list')
    /\ answer' = [answer EXCEPT ![r] = "ok"]
    /\ UNCHANGED call

\* An error: the list is as it was.
Fail(r) ==
    /\ call[r] # NoCall
    /\ answer[r] = "none"
    /\ answer' = [answer EXCEPT ![r] = "failed"]
    /\ UNCHANGED <<list, call>>

End(r) ==
    /\ answer[r] # "none"
    /\ call' = [call EXCEPT ![r] = NoCall]
    /\ answer' = [answer EXCEPT ![r] = "none"]
    /\ UNCHANGED list

Next ==
    \E r \in Requests :
        \/ \E op \in Calls : Begin(r, op)
        \/ Happen(r)
        \/ Fail(r)
        \/ End(r)

Spec == Init /\ [][Next]_vars
=============================================================================
