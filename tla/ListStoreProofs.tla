--------------------------- MODULE ListStoreProofs ---------------------------
(***************************************************************************)
(* Theorems about ListStore, for any requests, todos, references and any   *)
(* number of attempts; the last is that the concurrent lists implement the *)
(* atomic ones of AtomicList.                                              *)
(***************************************************************************)
EXTENDS MCListStore, IssueListsProofs

(* A value read back is the list that was written.                         *)
LEMMA EncodedFacts ==
    ASSUME NEW list \in Seq(Refs)
    PROVE  Encoded(list) \in Values /\ ListOf(Encoded(list)) = list
<1>1. Encoded(list) \in Values
  BY DEF Encoded, Values
<1>2. Encoded(list) # Absent
  BY <1>1, AbsentAssumption
<1> QED
  BY <1>1, <1>2 DEF Encoded, ListOf

(* What a key holds reads as a list.                                       *)
LEMMA ListOfType ==
    ASSUME NEW value \in Values \cup {Absent}
    PROVE  ListOf(value) \in Seq(Refs)
BY DEF ListOf, Values

(* A call that is not refused turns a list of references into one. *)
LEMMA EffectType ==
    ASSUME NEW list \in Seq(Refs), NEW op \in Calls, ~Refuses(list, op)
    PROVE  Effect(list, op) \in Seq(Refs)
<1>1. op.kind \in Kinds /\ op.ref \in Refs
  BY DEF Calls
<1> QED
  BY <1>1, EffectFacts

-----------------------------------------------------------------------------
(* A request about to write has checked the snapshot it will write from:   *)
(* the write is never the result of a call that had to be refused.         *)
Checked ==
    \A r \in Requests : pc[r] = "save" => ~Refuses(ListOf(snapshot[r]), call[r])

(* A request that is not done has an attempt left, so that counting a lost *)
(* one stays within the bound.                                             *)
Budgeted == \A r \in Requests : pc[r] # "done" => attempt[r] < StoreRetries

TypeInv == TypeOK /\ Checked /\ Budgeted

(* The state is always of the declared types, and no write is the result   *)
(* of a call that its own snapshot refuses (server/store.go, the early     *)
(* returns between getList and saveList).                                  *)
THEOREM TypeCorrect == Spec => []TypeInv
<1>1. Init => TypeInv
  <2> SUFFICES ASSUME Init PROVE TypeInv
    OBVIOUS
  <2>1. \A i \in Issues : [issue |-> i, peer |-> NoPeer] \in Refs
    BY DEF Refs
  <2>2. \A i \in Issues : <<[issue |-> i, peer |-> NoPeer]>> \in Seq(Refs)
    BY <2>1
  <2>3. stored \in Values \cup {Absent}
    <3>1. CASE stored = Absent
      BY <3>1
    <3>2. ASSUME NEW i \in Issues,
                 stored = [format |-> "ids", list |-> <<[issue |-> i, peer |-> NoPeer]>>]
          PROVE  stored \in Values
      BY <2>2, <3>2 DEF Values
    <3> QED
      BY <3>1, <3>2 DEF Init
  <2>4. 0 \in 0..StoreRetries /\ 0 < StoreRetries
    BY StoreRetriesAssumption
  <2> QED
    BY <2>3, <2>4 DEF Init, TypeInv, TypeOK, Checked, Budgeted, Outcomes
<1>2. TypeInv /\ [Next]_vars => TypeInv'
  <2> SUFFICES ASSUME TypeInv, [Next]_vars PROVE TypeInv'
    OBVIOUS
  <2> USE StoreRetriesAssumption
  <2>1. ASSUME NEW r \in Requests, NEW op \in Calls, Call(r, op) PROVE TypeInv'
    BY <2>1 DEF Call, TypeInv, TypeOK, Checked, Budgeted
  <2>2. ASSUME NEW r \in Requests, NEW value, value = stored, Examine(r, value),
               pc[r] \in {"get", "legacy"},
               UNCHANGED <<stored, call, attempt, writes, rivals>>
        PROVE  TypeInv'
    BY <2>2 DEF Examine, Finish, TypeInv, TypeOK, Checked, Budgeted, Outcomes
  <2>3. ASSUME NEW r \in Requests, GetList(r) PROVE TypeInv'
    <3>1. CASE IsRefs(stored) /\ Examine(r, stored)
      BY <2>2, <2>3, <3>1 DEF GetList
    <3>2. CASE pc' = [pc EXCEPT ![r] = "legacy"] /\ UNCHANGED <<snapshot, outcome>>
      BY <2>3, <3>2 DEF GetList, TypeInv, TypeOK, Checked, Budgeted
    <3> QED
      BY <2>3, <3>1, <3>2 DEF GetList
  <2>4. ASSUME NEW r \in Requests, GetLegacy(r) PROVE TypeInv'
    <3>1. CASE IsIds(stored) /\ Examine(r, stored)
      BY <2>2, <2>4, <3>1 DEF GetLegacy
    <3>2. CASE Finish(r, "badFormat") /\ UNCHANGED snapshot
      BY <2>4, <3>2 DEF GetLegacy, Finish, TypeInv, TypeOK, Checked, Budgeted, Outcomes
    <3> QED
      BY <2>4, <3>1, <3>2 DEF GetLegacy
  <2>5. ASSUME NEW r \in Requests, SaveWins(r) PROVE TypeInv'
    <3> DEFINE old == ListOf(snapshot[r])
               new == Effect(old, call[r])
    <3>1. pc[r] = "save" /\ call[r] \in Calls /\ snapshot[r] \in Values \cup {Absent}
      BY <2>5 DEF SaveWins, TypeInv, TypeOK
    <3>2. old \in Seq(Refs) /\ ~Refuses(old, call[r])
      BY <3>1, ListOfType DEF TypeInv, Checked
    <3>3. new \in Seq(Refs)
      BY <3>1, <3>2, EffectType
    <3>4. stored' \in Values \cup {Absent}
      BY <2>5, <3>3, EncodedFacts DEF SaveWins
    <3>5. pc' = [pc EXCEPT ![r] = "done"] /\ outcome' = [outcome EXCEPT ![r] = "ok"]
      BY <2>5 DEF SaveWins, Finish
    <3>6. writes' \in [Requests -> Nat]
      BY <2>5 DEF SaveWins, TypeInv, TypeOK
    <3>7. rivals' \in [Requests -> 0..StoreRetries]
      BY <2>5 DEF SaveWins, TypeInv, TypeOK
    <3>8. UNCHANGED <<call, snapshot, attempt>>
      BY <2>5 DEF SaveWins
    <3>9. TypeOK'
      BY <3>1, <3>4, <3>5, <3>6, <3>7, <3>8 DEF TypeInv, TypeOK, Outcomes
    <3>10. Checked' /\ Budgeted'
      BY <3>5, <3>8 DEF TypeInv, TypeOK, Checked, Budgeted
    <3> QED
      BY <3>9, <3>10 DEF TypeInv
  <2>6. ASSUME NEW r \in Requests, SaveLoses(r) PROVE TypeInv'
    BY <2>6 DEF SaveLoses, MayRetry, CountLoss, RetryAt, Finish, TypeInv, TypeOK, Checked, Budgeted, Outcomes
  <2>7. ASSUME NEW r \in Requests, KVError(r) PROVE TypeInv'
    BY <2>7 DEF KVError, Finish, TypeInv, TypeOK, Checked, Budgeted, Outcomes
  <2>8. ASSUME NEW r \in Requests, Return(r) PROVE TypeInv'
    BY <2>8 DEF Return, TypeInv, TypeOK, Checked, Budgeted, Outcomes
  <2>9. CASE UNCHANGED vars
    BY <2>9 DEF vars, TypeInv, TypeOK, Checked, Budgeted
  <2> QED
    BY <2>1, <2>3, <2>4, <2>5, <2>6, <2>7, <2>8, <2>9 DEF Next, Step
<1> QED
  BY <1>1, <1>2, PTL DEF Spec
-----------------------------------------------------------------------------

(* No list refers to a todo twice, however the requests interleave         *)
(* (server/store.go, AddReference's check against the same snapshot it     *)
(* writes from).                                                           *)
THEOREM ListsStayUnique == Spec => []NoDuplicates
<1>1. Init => NoDuplicates
  <2> SUFFICES ASSUME Init PROVE NoDuplicates
    OBVIOUS
  <2>1. stored = Absent => ListOf(stored) = <<>>
    BY DEF ListOf
  <2>2. stored # Absent => \E ref : ListOf(stored) = <<ref>>
    BY DEF Init, ListOf
  <2> QED
    BY <2>1, <2>2 DEF NoDuplicates, IdsUnique
<1>2. TypeInv /\ NoDuplicates /\ [Next]_vars => NoDuplicates'
  <2> SUFFICES ASSUME TypeInv, NoDuplicates, [Next]_vars PROVE NoDuplicates'
    OBVIOUS
  <2>1. ASSUME NEW r \in Requests, SaveWins(r) PROVE NoDuplicates'
    <3> DEFINE old == ListOf(stored)
               new == Effect(old, call[r])
    <3>1. stored' = Encoded(new) /\ pc[r] = "save" /\ snapshot[r] = stored
      BY <2>1 DEF SaveWins, Unmoved
    <3>2. call[r] \in Calls /\ old \in Seq(Refs) /\ ~Refuses(old, call[r])
      BY <3>1, ListOfType DEF TypeInv, TypeOK, Checked
    <3>3. new \in Seq(Refs) /\ ListOf(Encoded(new)) = new
      BY <3>2, EffectType, EncodedFacts
    <3>4. call[r].kind \in Kinds /\ call[r].ref \in Refs
      BY <3>2 DEF Calls
    <3>5. IdsUnique(new)
      BY <3>2, <3>4, EffectKeepsIdsUnique DEF NoDuplicates
    <3>6. ListOf(stored') = new
      BY <3>1, <3>3
    <3> QED
      BY <3>5, <3>6 DEF NoDuplicates, IdsUnique, ListOf
  <2>2. CASE UNCHANGED stored
    BY <2>2 DEF NoDuplicates, ListOf, IdsUnique
  <2>3. UNCHANGED stored \/ \E r \in Requests : SaveWins(r)
    BY DEF Next, Step, Call, GetList, GetLegacy, SaveLoses, KVError, Return, vars
  <2> QED
    BY <2>1, <2>2, <2>3
<1> QED
  BY <1>1, <1>2, TypeCorrect, PTL DEF Spec

-----------------------------------------------------------------------------
(* The history of writes agrees with the outcome of every call.            *)
WritesCounted ==
    \A r \in Requests :
        /\ pc[r] # "done" => outcome[r] = "none"
        /\ writes[r] = (IF outcome[r] = "ok" THEN 1 ELSE 0)

(* A call that reports success has written its list once, one that reports *)
(* an error has not written it (server/store.go, the retry loops: a        *)
(* successful compare-and-set returns at once, a failed one writes nothing).*)
THEOREM CallsWriteOnce == Spec => []ExactlyOnce
<1>1. Init => WritesCounted
  BY DEF Init, WritesCounted
<1>2. TypeInv /\ WritesCounted /\ [Next]_vars => WritesCounted'
  <2> SUFFICES ASSUME TypeInv, WritesCounted, [Next]_vars PROVE WritesCounted'
    OBVIOUS
  <2> USE DEF TypeInv, TypeOK, WritesCounted
  <2>1. ASSUME NEW r \in Requests, NEW op \in Calls, Call(r, op) PROVE WritesCounted'
    BY <2>1 DEF Call
  <2>2. ASSUME NEW r \in Requests, GetList(r) PROVE WritesCounted'
    BY <2>2 DEF GetList, Examine, Finish
  <2>3. ASSUME NEW r \in Requests, GetLegacy(r) PROVE WritesCounted'
    BY <2>3 DEF GetLegacy, Examine, Finish
  <2>4. ASSUME NEW r \in Requests, SaveWins(r) PROVE WritesCounted'
    BY <2>4 DEF SaveWins, Finish
  <2>5. ASSUME NEW r \in Requests, SaveLoses(r) PROVE WritesCounted'
    BY <2>5 DEF SaveLoses, RetryAt, Finish
  <2>6. ASSUME NEW r \in Requests, KVError(r) PROVE WritesCounted'
    BY <2>6 DEF KVError, Finish
  <2>7. ASSUME NEW r \in Requests, Return(r) PROVE WritesCounted'
    BY <2>7 DEF Return
  <2>8. CASE UNCHANGED vars
    BY <2>8 DEF vars
  <2> QED
    BY <2>1, <2>2, <2>3, <2>4, <2>5, <2>6, <2>7, <2>8 DEF Next, Step
<1>3. WritesCounted => ExactlyOnce
  BY DEF WritesCounted, ExactlyOnce
<1> QED
  BY <1>1, <1>2, <1>3, TypeCorrect, PTL DEF Spec

-----------------------------------------------------------------------------
(* Every attempt a call has lost was lost to another write of a rival, and *)
(* a snapshot that is no longer what is stored stands for one more.  The   *)
(* second conjunct is what makes this inductive: a loss is paid for by the *)
(* write that moved the list, before SaveLoses counts it.                  *)
LossesCovered ==
    \A r \in Requests :
        /\ pc[r] \in {"get", "legacy"} => attempt[r] <= rivals[r]
        /\ pc[r] = "save" =>
              /\ attempt[r] <= rivals[r]
              /\ stored # snapshot[r] => attempt[r] + 1 <= rivals[r]
        /\ pc[r] = "legacy" /\ ~IsIds(stored) => rivals[r] > 0
        /\ pc[r] = "idle" => attempt[r] = 0
        /\ pc[r] # "done" => outcome[r] = "none"
        /\ outcome[r] = "exhausted" => rivals[r] = StoreRetries
        /\ outcome[r] = "badFormat" => rivals[r] > 0

(* The counting argument holds throughout.                                 *)
LEMMA LossesAreCovered == Spec => []LossesCovered
<1> USE StoreRetriesAssumption
<1>1. Init => LossesCovered
  BY DEF Init, LossesCovered
<1>2. TypeInv /\ LossesCovered /\ [Next]_vars => LossesCovered'
  <2> SUFFICES ASSUME TypeInv, LossesCovered, [Next]_vars PROVE LossesCovered'
    OBVIOUS
  <2> USE DEF TypeInv, TypeOK, Budgeted, LossesCovered
  <2>1. ASSUME NEW r \in Requests, NEW op \in Calls, Call(r, op) PROVE LossesCovered'
    BY <2>1 DEF Call
  <2>2. ASSUME NEW r \in Requests, GetList(r) PROVE LossesCovered'
    <3>1. CASE IsRefs(stored) /\ Examine(r, stored)
      BY <2>2, <3>1 DEF GetList, Examine, Finish
    <3>2. CASE ~IsRefs(stored) /\ pc' = [pc EXCEPT ![r] = "legacy"] /\ UNCHANGED <<snapshot, outcome>>
      <4>1. stored.format \in {"refs", "ids"}
        BY <3>2 DEF IsRefs, Values
      <4>2. IsIds(stored)
        BY <3>2, <4>1 DEF IsRefs, IsIds
      <4> QED
        BY <2>2, <3>2, <4>2 DEF GetList, IsIds
    <3> QED
      BY <2>2, <3>1, <3>2 DEF GetList
  <2>3. ASSUME NEW r \in Requests, GetLegacy(r) PROVE LossesCovered'
    BY <2>3 DEF GetLegacy, Examine, Finish, IsIds
  <2>4. ASSUME NEW r \in Requests, SaveWins(r) PROVE LossesCovered'
    BY <2>4 DEF SaveWins, Finish
  <2>5. ASSUME NEW r \in Requests, SaveLoses(r) PROVE LossesCovered'
    <3>1. /\ pc[r] = "save" /\ stored # snapshot[r]
          /\ attempt[r] + 1 <= rivals[r]
          /\ attempt' = [attempt EXCEPT ![r] = @ + 1]
          /\ UNCHANGED <<stored, call, snapshot, writes, rivals>>
      BY <2>5 DEF SaveLoses, Unmoved, CountLoss
    <3>2. CASE pc' = [pc EXCEPT ![r] = "get"] /\ UNCHANGED outcome
      BY <3>1, <3>2 DEF IsIds
    <3>3. CASE ~MayRetry(r) /\ Finish(r, "exhausted")
      BY <3>1, <3>3 DEF MayRetry, Finish, IsIds
    <3> QED
      BY <2>5, <3>2, <3>3 DEF SaveLoses, RetryAt
  <2>6. ASSUME NEW r \in Requests, KVError(r) PROVE LossesCovered'
    BY <2>6 DEF KVError, Finish, IsIds
  <2>7. ASSUME NEW r \in Requests, Return(r) PROVE LossesCovered'
    BY <2>7 DEF Return, IsIds
  <2>8. CASE UNCHANGED vars
    BY <2>8 DEF vars, IsIds
  <2> QED
    BY <2>1, <2>2, <2>3, <2>4, <2>5, <2>6, <2>7, <2>8 DEF Next, Step
<1> QED
  BY <1>1, <1>2, TypeCorrect, PTL DEF Spec

(* A call gives up only after StoreRetries writes of its rivals            *)
(* (server/store.go, "unable to store list" after the last attempt).       *)
THEOREM GivingUpNeedsRivals == Spec => []ExhaustionNeedsRivals
<1>1. LossesCovered => ExhaustionNeedsRivals
  BY DEF LossesCovered, ExhaustionNeedsRivals
<1> QED
  BY <1>1, LossesAreCovered, PTL

(* The second read of legacyIssueRef fails to decode only what a rival     *)
(* wrote since the first one.                                              *)
THEOREM DecodingErrorNeedsRival == Spec => []BadFormatNeedsRival
<1>1. LossesCovered => BadFormatNeedsRival
  BY DEF LossesCovered, BadFormatNeedsRival
<1> QED
  BY <1>1, LossesAreCovered, PTL

-----------------------------------------------------------------------------
(* Refinement: Atomic is the instance of AtomicList in MCListStore          *)

(* What a call of ListStore makes of a list is what AtomicList promises.   *)
LEMMA EffectKeepsPromise ==
    ASSUME NEW list \in Seq(Refs), NEW op \in Calls, ~Refuses(list, op), IdsUnique(list)
    PROVE  Atomic!Promise(op, list, Effect(list, op))
<1> DEFINE id == op.ref.issue
           new == Effect(list, op)
<1>1. op.kind \in Kinds
  BY DEF Calls
<1>2. CASE op.kind = "add"
  BY <1>2 DEF Refuses, Holds, Positions, Effect, AddRef, Atomic!Promise, Atomic!Positions
<1>3. CASE op.kind = "remove"
  <2> DEFINE i == PositionOf(list, id)
  <2>1. i \in 1..Len(list) /\ list[i].issue = id
    BY <1>3, PositionFacts DEF Refuses
  <2>2. new = RemoveAt(list, i)
    BY <1>3 DEF Effect, RemoveRef
  <2> HIDE DEF i, new
  <2>3. /\ Len(new) = Len(list) - 1
        /\ \A j \in 1..(Len(list) - 1) : new[j] = list[IF j < i THEN j ELSE j + 1]
    BY <2>1, <2>2, RemoveAtFacts
  <2>4. Atomic!TakenOut(list, new, i)
    BY <2>3 DEF Atomic!TakenOut
  <2>5. Atomic!Promise(op, list, new)
    BY <1>3, <2>1, <2>4 DEF Atomic!Promise
  <2> QED
    BY <2>5 DEF new
<1>4. CASE op.kind = "pop"
  <2>1. list # <<>> /\ new = Tail(list)
    BY <1>4 DEF Refuses, Effect, PopRef
  <2> HIDE DEF new
  <2>2. Len(new) = Len(list) - 1 /\ \A j \in 1..Len(new) : new[j] = list[j + 1]
    BY <2>1
  <2>3. Atomic!TakenOut(list, new, 1)
    BY <2>2 DEF Atomic!TakenOut
  <2>4. Atomic!Promise(op, list, new)
    BY <1>4, <2>1, <2>3 DEF Atomic!Promise
  <2> QED
    BY <2>4 DEF new
<1>5. CASE op.kind = "bump"
  <2> DEFINE i == BumpFrom(list, id)
  <2>1. list # <<>> /\ i \in 1..Len(list)
    BY <1>5, BumpFromFacts DEF Refuses
  <2>2. new = BumpRef(list, id)
    BY <1>5 DEF Effect
  <2>3. Positions(list, id) \subseteq {i}
    <3>1. CASE Holds(list, id)
      BY <3>1, PositionFacts DEF BumpFrom, Positions, IdsUnique
    <3>2. CASE ~Holds(list, id)
      BY <3>2 DEF Holds
    <3> QED
      BY <3>1, <3>2
  <2> HIDE DEF i, new
  <2>4. /\ Len(new) = Len(list)
        /\ \A j \in 1..Len(list) :
              new[j] = list[IF j = 1 THEN i ELSE IF j <= i THEN j - 1 ELSE j]
    BY <2>1, <2>2, BumpRefFacts DEF i
  <2>5. Atomic!MovedToFront(list, new, i)
    BY <2>4 DEF Atomic!MovedToFront
  <2>6. Atomic!Promise(op, list, new)
    BY <1>5, <2>1, <2>3, <2>5 DEF Atomic!Promise, Atomic!Positions, Positions
  <2> QED
    BY <2>6 DEF new
<1> QED
  BY <1>1, <1>2, <1>3, <1>4, <1>5 DEF Kinds

-----------------------------------------------------------------------------
(* Who has a call, and who has an answer.                                  *)
Phases ==
    \A r \in Requests :
        /\ pc[r] = "idle" <=> call[r] = NoCall
        /\ pc[r] = "done" <=> outcome[r] # "none"

(* A call is a record and NoCall is not.                                   *)
LEMMA CallsDiffer == NoCall \notin Calls
<1> SUFFICES ASSUME NoCall \in Calls PROVE FALSE
  OBVIOUS
<1>1. "kind" \in DOMAIN NoCall
  BY DEF Calls
<1>2. DOMAIN NoCall = 1..0
  BY DEF NoCall
<1> QED
  BY <1>1, <1>2

(* Phases follow the steps of a call.                                      *)
LEMMA PhasesKept == Spec => []Phases
<1>1. Init => Phases
  BY DEF Init, Phases
<1>2. TypeInv /\ Phases /\ [Next]_vars => Phases'
  <2> SUFFICES ASSUME TypeInv, Phases, [Next]_vars PROVE Phases'
    OBVIOUS
  <2> USE CallsDiffer DEF TypeInv, TypeOK, Phases
  <2>1. ASSUME NEW r \in Requests, NEW op \in Calls, Call(r, op) PROVE Phases'
    BY <2>1 DEF Call
  <2>2. ASSUME NEW r \in Requests, GetList(r) PROVE Phases'
    BY <2>2 DEF GetList, Examine, Finish
  <2>3. ASSUME NEW r \in Requests, GetLegacy(r) PROVE Phases'
    BY <2>3 DEF GetLegacy, Examine, Finish
  <2>4. ASSUME NEW r \in Requests, SaveWins(r) PROVE Phases'
    BY <2>4 DEF SaveWins, Finish
  <2>5. ASSUME NEW r \in Requests, SaveLoses(r) PROVE Phases'
    BY <2>5 DEF SaveLoses, RetryAt, Finish
  <2>6. ASSUME NEW r \in Requests, KVError(r) PROVE Phases'
    BY <2>6 DEF KVError, Finish
  <2>7. ASSUME NEW r \in Requests, Return(r) PROVE Phases'
    BY <2>7 DEF Return
  <2>8. CASE UNCHANGED vars
    BY <2>8 DEF vars
  <2> QED
    BY <2>1, <2>2, <2>3, <2>4, <2>5, <2>6, <2>7, <2>8 DEF Next, Step
<1> QED
  BY <1>1, <1>2, TypeCorrect, PTL DEF Spec

-----------------------------------------------------------------------------
(* The abstract state that ListStore's variables stand for.                *)
AbstractList == ListOf(stored)
AbstractAnswer == [r \in Requests |-> Answer(outcome[r])]

(* Every call to the store takes effect at one instant, its successful     *)
(* compare-and-set, or not at all (server/store.go, AddReference,          *)
(* RemoveReference, PopReference, BumpReference).                          *)
THEOREM StoreImplementsAtomicList == Spec => ImplementsAtomicList
<1> USE DEF Atomic!Refs, Refs, Atomic!Calls, Calls, Atomic!NoCall, NoCall, Atomic!Kinds, Kinds
<1>1. Init => Atomic!Init
  BY DEF Init, Atomic!Init, ListOf, Answer
<1>2. TypeInv /\ NoDuplicates /\ Phases /\ [Next]_vars => [Atomic!Next]_Atomic!vars
  <2> SUFFICES ASSUME TypeInv, NoDuplicates, Phases, [Next]_vars
               PROVE  Atomic!Next \/ UNCHANGED Atomic!vars
    BY DEF Atomic!vars
  <2> DEFINE Active(r) == pc[r] \in {"get", "legacy", "save"}
             Failures == Outcomes \ {"none", "ok"}
  <2>1. ASSUME NEW r \in Requests, Active(r)
        PROVE  call[r] \in Calls /\ call[r] # NoCall /\ AbstractAnswer[r] = "none"
    BY <2>1, CallsDiffer DEF TypeInv, TypeOK, Phases, AbstractAnswer, Answer
  <2>2. ASSUME NEW r \in Requests, NEW how \in Outcomes, Finish(r, how)
        PROVE  AbstractAnswer' = [AbstractAnswer EXCEPT ![r] = Answer(how)]
    BY <2>2 DEF Finish, AbstractAnswer, TypeInv, TypeOK
  <2>3. UNCHANGED stored => UNCHANGED AbstractList
    BY DEF AbstractList, ListOf
  <2>4. UNCHANGED outcome => UNCHANGED AbstractAnswer
    BY DEF AbstractAnswer, Answer
  <2>5. ASSUME NEW r \in Requests, Active(r), NEW how \in Failures, Finish(r, how),
               UNCHANGED <<stored, call>>
        PROVE  Atomic!Next
    <3>1. Answer(how) = "failed"
      BY DEF Answer, Outcomes
    <3>2. AbstractAnswer' = [AbstractAnswer EXCEPT ![r] = "failed"]
      BY <2>2, <2>5, <3>1
    <3>3. Atomic!Fail(r)
      BY <2>1, <2>3, <2>5, <3>2 DEF Atomic!Fail, AbstractAnswer, AbstractList
    <3> QED
      BY <3>3 DEF Atomic!Next
  <2>6. ASSUME UNCHANGED <<stored, call, outcome>> PROVE UNCHANGED Atomic!vars
    BY <2>3, <2>4, <2>6 DEF Atomic!vars, AbstractAnswer, AbstractList
  <2>7. ASSUME NEW r \in Requests, Active(r), Examine(r, stored), UNCHANGED <<stored, call>>
        PROVE  Atomic!Next \/ UNCHANGED Atomic!vars
    BY <2>5, <2>6, <2>7 DEF Examine, Outcomes
  <2>8. ASSUME NEW r \in Requests, NEW op \in Calls, Call(r, op) PROVE Atomic!Next
    <3>1. call[r] = NoCall
      BY <2>8 DEF Call, Phases
    <3>2. Atomic!Begin(r, op)
      BY <2>3, <2>4, <2>8, <3>1 DEF Call, Atomic!Begin, AbstractAnswer, AbstractList
    <3> QED
      BY <3>2 DEF Atomic!Next
  <2>9. ASSUME NEW r \in Requests, GetList(r)
        PROVE  Atomic!Next \/ UNCHANGED Atomic!vars
    BY <2>6, <2>7, <2>9 DEF GetList
  <2>10. ASSUME NEW r \in Requests, GetLegacy(r)
         PROVE  Atomic!Next \/ UNCHANGED Atomic!vars
    BY <2>5, <2>7, <2>10 DEF GetLegacy, Outcomes
  <2>11. ASSUME NEW r \in Requests, SaveWins(r) PROVE Atomic!Next
    <3> DEFINE new == Effect(AbstractList, call[r])
    <3>1. /\ pc[r] = "save" /\ snapshot[r] = stored
          /\ stored' = Encoded(new) /\ Finish(r, "ok") /\ UNCHANGED call
      BY <2>11 DEF SaveWins, Unmoved, AbstractList
    <3>2. call[r] \in Calls /\ call[r] # NoCall /\ AbstractAnswer[r] = "none"
      BY <2>1, <3>1
    <3>3. AbstractList \in Seq(Refs) /\ ~Refuses(AbstractList, call[r])
      BY <3>1, ListOfType DEF TypeInv, TypeOK, Checked, AbstractList
    <3>4. new \in Seq(Refs) /\ ListOf(Encoded(new)) = new
      BY <3>2, <3>3, EffectType, EncodedFacts
    <3>5. AbstractList' = new
      BY <3>1, <3>4 DEF AbstractList, ListOf
    <3>6. Atomic!Promise(call[r], AbstractList, new)
      BY <3>2, <3>3, EffectKeepsPromise DEF NoDuplicates, AbstractList
    <3>7. AbstractAnswer' = [AbstractAnswer EXCEPT ![r] = "ok"]
      BY <2>2, <3>1 DEF Answer, Outcomes
    <3>8. Atomic!Happen(r)
      BY <3>1, <3>2, <3>4, <3>5, <3>6, <3>7
      DEF Atomic!Happen, AbstractList, AbstractAnswer
    <3> QED
      BY <3>8 DEF Atomic!Next
  <2>12. ASSUME NEW r \in Requests, SaveLoses(r)
         PROVE  Atomic!Next \/ UNCHANGED Atomic!vars
    BY <2>5, <2>6, <2>12 DEF SaveLoses, Outcomes
  <2>13. ASSUME NEW r \in Requests, KVError(r) PROVE Atomic!Next
    BY <2>5, <2>13 DEF KVError, Outcomes
  <2>14. ASSUME NEW r \in Requests, Return(r) PROVE Atomic!Next
    <3>1. AbstractAnswer[r] # "none"
      BY <2>14 DEF Return, Phases, AbstractAnswer, Answer
    <3>2. AbstractAnswer' = [AbstractAnswer EXCEPT ![r] = "none"]
      BY <2>14 DEF Return, AbstractAnswer, Answer, TypeInv, TypeOK
    <3>3. Atomic!End(r)
      BY <2>3, <2>14, <3>1, <3>2 DEF Return, Atomic!End, AbstractAnswer, AbstractList
    <3> QED
      BY <3>3 DEF Atomic!Next
  <2>15. CASE UNCHANGED vars
    BY <2>6, <2>15 DEF vars
  <2> QED
    BY <2>8, <2>9, <2>10, <2>11, <2>12, <2>13, <2>14, <2>15 DEF Next, Step
<1> QED
  BY <1>1, <1>2, TypeCorrect, ListsStayUnique, PhasesKept, PTL
  DEF Spec, ImplementsAtomicList, Atomic!Spec
=============================================================================
