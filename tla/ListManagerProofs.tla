-------------------------- MODULE ListManagerProofs --------------------------
(***************************************************************************)
(* The list manager, for any number of users, todos and requests at the    *)
(* same time, under failing calls and crashes: first who owns what, then,  *)
(* from "Listings beside everything else", what a listing has to show.     *)
(***************************************************************************)
EXTENDS ListManager, IssueListsProofs

(* The other end of a reference, if it has one, is a todo of the user it   *)
(* names.                                                                  *)
PeerOwned(ref) ==
    ref.fuser # NoUser => ref.fissue \in IssueIds /\ owner[ref.fissue] = ref.fuser

RefOwned(u, ref) == owner[ref.issue] = u /\ PeerOwned(ref)

ListsOwned ==
    \A u \in Users, l \in Lists : \A i \in 1..Len(lists[u][l]) : RefOwned(u, lists[u][l][i])

(* Ids that were not handed out yet have no owner, so handing one out      *)
(* changes nobody's ownership.                                             *)
Fresh == \A id \in IssueIds : id > born => owner[id] = NoUser

StoreInv ==
    /\ lists \in [Users -> [Lists -> Seq(Ref)]]
    /\ issues \in [IssueIds -> Texts \cup {Gone}]
    /\ born \in 0..MaxIssues
    /\ faults \in 0..MaxFaults
    /\ crashes \in 0..MaxCrashes
    /\ owner \in [IssueIds -> Users \cup {NoUser}]
    /\ ListsOwned
    /\ Fresh

(* Where the todo of a request is known to be its user's: it was made for  *)
(* it, or found in one of the user's lists.                                *)
OwnLabels ==
    {"Add.save", "Add.list", "Send.save", "Send.saveTwin", "Send.out", "Send.in",
     "End.unlist", "End.take", "End.drop",
     "Assign.found", "Assign.ffind", "Assign.funlist", "Assign.ftake", "Assign.fdrop",
     "Assign.unlist", "Assign.my", "Assign.save", "Assign.out", "Assign.in", "Accept.my"}

(* Where a request has a copy for another user to deliver.                 *)
TwinLabels ==
    {"Send.save", "Send.saveTwin", "Send.out", "Send.in",
     "Assign.get", "Assign.find", "Assign.found", "Assign.ffind", "Assign.funlist",
     "Assign.ftake", "Assign.fdrop", "Assign.unlist", "Assign.my", "Assign.save",
     "Assign.out", "Assign.in"}

(* Where a request works at the other end of its reference.                *)
FarLabels ==
    {"End.ffind", "End.funlist", "End.ftake", "End.fdrop",
     "Assign.ffind", "Assign.funlist", "Assign.ftake", "Assign.fdrop"}

(* Where it relies on that other end, if there is one.                     *)
PeerLabels == {"End.unlist", "End.take", "End.drop", "Assign.found", "Accept.my"} \cup FarLabels

ReqOwned(label, q) ==
    /\ label \in Labels
    /\ label # "idle" => q.user \in Users
    /\ label = "Assign.get" => q.issue \in IssueIds
    /\ label \in OwnLabels => q.issue \in IssueIds /\ owner[q.issue] = q.user
    /\ label \in TwinLabels => q.twin \in IssueIds /\ q.to \in Users /\ owner[q.twin] = q.to
    /\ label \in PeerLabels => PeerOwned(q.ref)
    /\ label \in FarLabels => q.ref.fuser # NoUser

ReqInv ==
    /\ pc \in [Requests -> Labels]
    /\ req \in [Requests -> ReqType]
    /\ \A r \in Requests : ReqOwned(pc[r], req[r])

(* The inductive invariant: what the store holds, and what each handler    *)
(* knows at the point where it is.                                         *)
Inv == StoreInv /\ ReqInv

-----------------------------------------------------------------------------
(* What a step does to the requests.                                       *)

(* A request that goes on, with what its new place asks for.               *)
LEMMA Advance ==
    ASSUME ReqInv, UNCHANGED owner, NEW r \in Requests, NEW label,
           NEW q \in ReqType, ReqOwned(label, q),
           pc' = [pc EXCEPT ![r] = label], req' = [req EXCEPT ![r] = q]
    PROVE  ReqInv'
BY DEF ReqInv, ReqOwned, PeerOwned

(* The same for a request that keeps its local variables.                  *)
LEMMA GoOn ==
    ASSUME ReqInv, UNCHANGED owner, NEW r \in Requests, NEW label,
           ReqOwned(label, req[r]), pc' = [pc EXCEPT ![r] = label], Kept
    PROVE  ReqInv'
<1>1. req' = [req EXCEPT ![r] = req[r]] /\ req[r] \in ReqType
  BY DEF ReqInv, Kept
<1> QED
  BY <1>1, Advance

(* A request that goes on to one of two places: how most calls end.        *)
LEMMA GoOnEither ==
    ASSUME Inv, StoreInv', UNCHANGED <<born, crashes, owner>>, NEW r \in Requests,
           NEW a, NEW b, ReqOwned(a, req[r]), ReqOwned(b, req[r]),
           Goto(r, a) \/ Goto(r, b), Kept
    PROVE  Inv'
<1>1. UNCHANGED owner /\ ReqInv
  BY DEF Inv
<1>2. CASE Goto(r, a)
  BY <1>1, <1>2, GoOn DEF Inv, Goto
<1>3. CASE Goto(r, b)
  BY <1>1, <1>3, GoOn DEF Inv, Goto
<1> QED
  BY <1>2, <1>3

(* ... and for one that goes on with new local variables.                  *)
LEMMA AdvanceTo ==
    ASSUME Inv, StoreInv', UNCHANGED <<born, crashes, owner>>, NEW r \in Requests,
           NEW label, NEW q \in ReqType, ReqOwned(label, q),
           Goto(r, label), req' = [req EXCEPT ![r] = q]
    PROVE  Inv'
<1>1. UNCHANGED owner /\ ReqInv
  BY DEF Inv
<1> QED
  BY <1>1, Advance DEF Inv, Goto

-----------------------------------------------------------------------------
(* What the store calls do to the store.                                   *)

(* Ownership is about the lists alone: with them it stays.                 *)
LEMMA ListsUnchanged ==
    ASSUME StoreInv, UNCHANGED <<lists, born, owner>>
    PROVE  ListsOwned' /\ Fresh'
BY DEF StoreInv, ListsOwned, Fresh, RefOwned, PeerOwned

(* A failing call stays within the bound.                                  *)
LEMMA TroubleFacts ==
    ASSUME StoreInv, NEW r \in Requests, Trouble(r)
    PROVE  faults' \in 0..MaxFaults
BY BoundsAssumption DEF StoreInv, Trouble

(* Saving or dropping a record touches no list.                            *)
LEMMA SaveIssueFacts ==
    ASSUME StoreInv, UNCHANGED <<born, crashes, owner>>, NEW r \in Requests,
           NEW id, NEW text \in Texts \cup {Gone}, NEW ok, NEW err,
           SaveIssue(r, id, text, ok, err)
    PROVE  /\ StoreInv'
           /\ Goto(r, ok) \/ Goto(r, err)
<1>1. UNCHANGED lists
  BY DEF SaveIssue, store
<1>2. issues' \in [IssueIds -> Texts \cup {Gone}]
  BY DEF SaveIssue, store, StoreInv
<1>3. faults' \in 0..MaxFaults
  BY TroubleFacts DEF SaveIssue, StoreInv
<1>4. Goto(r, ok) \/ Goto(r, err)
  BY DEF SaveIssue
<1> QED
  BY <1>1, <1>2, <1>3, <1>4, ListsUnchanged DEF StoreInv

(* A list call adds at most the reference it is given.                     *)
LEMMA ChangeListFacts ==
    ASSUME StoreInv, UNCHANGED <<born, crashes, owner>>, NEW r \in Requests,
           NEW u, NEW l \in Lists, NEW op, NEW ok, NEW err,
           op.kind \in Kinds, op.kind = "add" => op.ref \in Ref /\ RefOwned(u, op.ref),
           ChangeList(r, u, l, op, ok, err)
    PROVE  /\ StoreInv'
           /\ Goto(r, ok) \/ Goto(r, err)
<1>1. Goto(r, ok) \/ Goto(r, err)
  BY DEF ChangeList
<1>2. UNCHANGED issues /\ faults' \in 0..MaxFaults
  BY TroubleFacts DEF ChangeList, StoreInv
<1>3. CASE UNCHANGED lists
  BY <1>1, <1>2, <1>3, ListsUnchanged DEF StoreInv
<1>4. CASE /\ ~Refuses(lists[u][l], op)
           /\ lists' = [lists EXCEPT ![u][l] = Effect(@, op)]
  <2>1. CASE u \notin Users
    <3>1. UNCHANGED lists
      BY <1>4, <2>1 DEF StoreInv
    <3> QED
      BY <1>3, <3>1
  <2>2. CASE u \in Users
    <3> DEFINE old == lists[u][l]
               new == Effect(old, op)
    <3>1. old \in Seq(Ref)
      BY <2>2 DEF StoreInv
    <3>2. /\ new \in Seq(Ref)
          /\ \A j \in 1..Len(new) :
                \/ \E i \in 1..Len(old) : new[j] = old[i]
                \/ op.kind = "add" /\ new[j] = op.ref
      BY <1>4, <3>1, EffectFacts
    <3> HIDE DEF new
    <3>3. lists' = [lists EXCEPT ![u] = [lists[u] EXCEPT ![l] = new]]
      BY <1>4 DEF new
    <3>4. lists' \in [Users -> [Lists -> Seq(Ref)]]
      BY <2>2, <3>2, <3>3 DEF StoreInv
    <3>5. \A i \in 1..Len(old) : RefOwned(u, old[i])
      BY <2>2 DEF StoreInv, ListsOwned
    <3>6. \A j \in 1..Len(new) : RefOwned(u, new[j])
      BY <3>2, <3>5
    <3>7. ASSUME NEW v \in Users, NEW m \in Lists, NEW i \in 1..Len(lists'[v][m])
          PROVE  RefOwned(v, lists'[v][m][i])
      <4>1. CASE v = u /\ m = l
        BY <2>2, <3>3, <3>6, <3>7, <4>1 DEF StoreInv
      <4>2. CASE ~(v = u /\ m = l)
        <5>1. lists'[v][m] = lists[v][m]
          BY <2>2, <3>3, <4>2 DEF StoreInv
        <5> QED
          BY <3>7, <5>1 DEF StoreInv, ListsOwned
      <4> QED
        BY <4>1, <4>2
    <3>8. ListsOwned'
      BY <3>7 DEF ListsOwned, RefOwned, PeerOwned
    <3>9. Fresh'
      BY DEF StoreInv, Fresh
    <3> QED
      BY <1>1, <1>2, <3>4, <3>8, <3>9 DEF StoreInv
  <2> QED
    BY <2>1, <2>2
<1> QED
  BY <1>3, <1>4 DEF ChangeList

(* AddReference keeps ownership if the reference it adds respects it.      *)
LEMMA AddReferenceFacts ==
    ASSUME StoreInv, UNCHANGED <<born, crashes, owner>>, NEW r \in Requests,
           NEW u, NEW id \in IssueIds, NEW l \in Lists,
           NEW fuser \in Users \cup {NoUser}, NEW fissue \in IssueIds \cup {NoIssue},
           NEW ok, NEW err,
           owner[id] = u, PeerOwned([issue |-> id, fuser |-> fuser, fissue |-> fissue]),
           AddReference(r, u, id, l, fuser, fissue, ok, err)
    PROVE  /\ StoreInv'
           /\ Goto(r, ok) \/ Goto(r, err)
<1> DEFINE ref == [issue |-> id, fuser |-> fuser, fissue |-> fissue]
           op == [kind |-> "add", ref |-> ref]
<1>1. ref \in Ref /\ RefOwned(u, ref)
  BY DEF Ref, RefOwned
<1>2. op.kind \in Kinds /\ op.ref = ref
  BY DEF Kinds
<1>3. ChangeList(r, u, l, op, ok, err)
  BY DEF AddReference
<1> HIDE DEF op, ref
<1> QED
  BY <1>1, <1>2, <1>3, ChangeListFacts

(* RemoveReference keeps ownership, whatever list it is called on.         *)
LEMMA RemoveReferenceFacts ==
    ASSUME StoreInv, UNCHANGED <<born, crashes, owner>>, NEW r \in Requests,
           NEW u, NEW id, NEW l \in Lists, NEW ok, NEW err,
           RemoveReference(r, u, id, l, ok, err)
    PROVE  /\ StoreInv'
           /\ Goto(r, ok) \/ Goto(r, err)
<1> DEFINE op == [kind |-> "remove", ref |-> [NoRef EXCEPT !.issue = id]]
<1>1. op.kind \in Kinds /\ op.kind # "add"
  BY DEF Kinds
<1>2. ChangeList(r, u, l, op, ok, err)
  BY DEF RemoveReference
<1> HIDE DEF op
<1> QED
  BY <1>1, <1>2, ChangeListFacts

(* So does BumpReference.                                                  *)
LEMMA BumpReferenceFacts ==
    ASSUME StoreInv, UNCHANGED <<born, crashes, owner>>, NEW r \in Requests,
           NEW u, NEW id, NEW l \in Lists, NEW ok, NEW err,
           BumpReference(r, u, id, l, ok, err)
    PROVE  /\ StoreInv'
           /\ Goto(r, ok) \/ Goto(r, err)
<1> DEFINE op == [kind |-> "bump", ref |-> [NoRef EXCEPT !.issue = id]]
<1>1. op.kind \in Kinds /\ op.kind # "add"
  BY DEF Kinds
<1>2. ChangeList(r, u, l, op, ok, err)
  BY DEF BumpReference
<1> HIDE DEF op
<1> QED
  BY <1>1, <1>2, ChangeListFacts

(* The calls that only read.                                               *)
LEMMA ReadFacts ==
    ASSUME StoreInv, UNCHANGED <<born, crashes, owner, store>>, NEW r \in Requests,
           UNCHANGED faults \/ Trouble(r)
    PROVE  StoreInv'
<1>1. faults' \in 0..MaxFaults
  BY TroubleFacts DEF StoreInv
<1> QED
  BY <1>1, ListsUnchanged DEF StoreInv, store

(* A branch between two calls leaves the store alone.                      *)
LEMMA ProceedFacts ==
    ASSUME StoreInv, UNCHANGED <<born, crashes, owner>>, NEW r \in Requests,
           NEW label, Proceed(r, label)
    PROVE  StoreInv' /\ Goto(r, label)
BY ReadFacts DEF Proceed

(* GetIssue only reads.                                                    *)
LEMMA GetIssueFacts ==
    ASSUME StoreInv, UNCHANGED <<born, crashes, owner>>, NEW r \in Requests,
           NEW id, NEW ok, NEW err, GetIssue(r, id, ok, err)
    PROVE  /\ StoreInv'
           /\ Goto(r, ok) \/ Goto(r, err)
BY ReadFacts DEF GetIssue

(* The text that GetAndRemoveIssue has read, or nil.                       *)
GotSome(r) ==
    \E got \in Texts \cup {Gone} : req' = [req EXCEPT ![r] = [req[r] EXCEPT !.got = got]]

(* The read of GetAndRemoveIssue: the request has the record, or nil.      *)
LEMMA TakeIssueFacts ==
    ASSUME Inv, UNCHANGED <<born, crashes, owner>>, NEW r \in Requests,
           NEW id \in IssueIds, NEW drop, NEW next, TakeIssue(r, id, drop, next)
    PROVE  /\ StoreInv'
           /\ Goto(r, drop) \/ Goto(r, next)
           /\ GotSome(r)
<1>1. issues[id] \in Texts \cup {Gone}
  BY DEF Inv, StoreInv
<1> QED
  BY <1>1, ReadFacts DEF TakeIssue, Inv, GotSome

(* Its deletion: the request has what it had, or nil.                      *)
LEMMA DropTakenFacts ==
    ASSUME Inv, UNCHANGED <<born, crashes, owner>>, NEW r \in Requests,
           NEW id, NEW next, DropTaken(r, id, next)
    PROVE  /\ StoreInv'
           /\ Goto(r, next)
           /\ Kept \/ GotSome(r)
<1>1. issues' \in [IssueIds -> Texts \cup {Gone}] /\ UNCHANGED lists
  BY DEF DropTaken, Inv, StoreInv
<1>2. faults' \in 0..MaxFaults
  BY TroubleFacts DEF DropTaken, Inv, StoreInv
<1>3. StoreInv'
  BY <1>1, <1>2, ListsUnchanged DEF Inv, StoreInv
<1> QED
  BY <1>3 DEF DropTaken, GotSome

(* Going on with what GetAndRemoveIssue has read asks for nothing new.     *)
LEMMA GoOnGot ==
    ASSUME ReqInv, UNCHANGED owner, NEW r \in Requests, NEW label,
           ReqOwned(label, req[r]), pc' = [pc EXCEPT ![r] = label], Kept \/ GotSome(r)
    PROVE  ReqInv'
<1>1. CASE Kept
  BY <1>1, GoOn
<1>2. CASE GotSome(r)
  <2>1. PICK got \in Texts \cup {Gone} : req' = [req EXCEPT ![r] = [req[r] EXCEPT !.got = got]]
    BY <1>2 DEF GotSome
  <2> DEFINE q == [req[r] EXCEPT !.got = got]
  <2>2. q \in ReqType /\ ReqOwned(label, q)
    BY ZenonT(60) DEF ReqInv, ReqType, ReqOwned, PeerOwned
  <2> HIDE DEF q
  <2> QED
    BY <2>1, <2>2, Advance DEF q
<1> QED
  BY <1>1, <1>2

(* GoOnEither, for the two calls of GetAndRemoveIssue.                     *)
LEMMA GoOnGotEither ==
    ASSUME Inv, StoreInv', UNCHANGED <<born, crashes, owner>>, NEW r \in Requests,
           NEW a, NEW b, ReqOwned(a, req[r]), ReqOwned(b, req[r]),
           Goto(r, a) \/ Goto(r, b), Kept \/ GotSome(r)
    PROVE  Inv'
<1>1. UNCHANGED owner /\ ReqInv
  BY DEF Inv
<1>2. CASE Goto(r, a)
  BY <1>1, <1>2, GoOnGot DEF Inv, Goto
<1>3. CASE Goto(r, b)
  BY <1>1, <1>3, GoOnGot DEF Inv, Goto
<1> QED
  BY <1>2, <1>3

(* A reference found in a user's list.                                     *)
LEMMA RefInFacts ==
    ASSUME StoreInv, NEW u \in Users, NEW l \in Lists, NEW id, Holds(lists[u][l], id)
    PROVE  /\ RefIn(u, l, id) \in Ref
           /\ RefIn(u, l, id).issue = id
           /\ RefOwned(u, RefIn(u, l, id))
<1>1. lists[u][l] \in Seq(Ref)
  BY DEF StoreInv
<1>2. /\ PositionOf(lists[u][l], id) \in 1..Len(lists[u][l])
      /\ lists[u][l][PositionOf(lists[u][l], id)].issue = id
  BY <1>1, PositionFacts
<1> QED
  BY <1>1, <1>2 DEF RefIn, StoreInv, ListsOwned

(* The reference popped from a user's list is that user's.                 *)
LEMMA PopReferenceFacts ==
    ASSUME Inv, UNCHANGED <<born, crashes, owner>>, NEW r \in Requests,
           NEW u \in Users, NEW l \in Lists, NEW ok, NEW err, PopReference(r, u, l, ok, err)
    PROVE  /\ StoreInv'
           /\ \/ Goto(r, err) /\ Kept
              \/ /\ Goto(r, ok)
                 /\ \E ref \in Ref :
                       /\ RefOwned(u, ref)
                       /\ req' = [req EXCEPT ![r] =
                                    [req[r] EXCEPT !.issue = ref.issue, !.ref = ref]]
<1> DEFINE old == lists[u][l]
<1>1. old \in Seq(Ref)
  BY DEF Inv, StoreInv
<1>2. UNCHANGED issues /\ faults' \in 0..MaxFaults
  BY TroubleFacts DEF PopReference, Inv, StoreInv
<1>3. CASE UNCHANGED <<lists, req>> /\ Goto(r, err)
  BY <1>2, <1>3, ListsUnchanged DEF Inv, StoreInv, Kept
<1>4. CASE /\ old # <<>>
           /\ lists' = [lists EXCEPT ![u][l] = PopRef(@)]
           /\ req' = [req EXCEPT ![r].issue = Head(old).issue, ![r].ref = Head(old)]
           /\ Goto(r, ok)
  <2>1. /\ Tail(old) \in Seq(Ref)
        /\ \A j \in 1..Len(Tail(old)) : j + 1 \in 1..Len(old) /\ Tail(old)[j] = old[j + 1]
    BY <1>1, <1>4
  <2>2. lists' = [lists EXCEPT ![u] = [lists[u] EXCEPT ![l] = Tail(old)]]
    BY <1>4 DEF PopRef
  <2>3. lists' \in [Users -> [Lists -> Seq(Ref)]]
    BY <2>1, <2>2 DEF Inv, StoreInv
  <2>4. ASSUME NEW v \in Users, NEW m \in Lists, NEW i \in 1..Len(lists'[v][m])
        PROVE  RefOwned(v, lists'[v][m][i])
    <3>1. CASE v = u /\ m = l
      <4>1. lists'[v][m] = Tail(old)
        BY <2>2, <3>1 DEF Inv, StoreInv
      <4> QED
        BY <2>1, <2>4, <3>1, <4>1 DEF Inv, StoreInv, ListsOwned
    <3>2. CASE ~(v = u /\ m = l)
      <4>1. lists'[v][m] = lists[v][m]
        BY <2>2, <3>2 DEF Inv, StoreInv
      <4> QED
        BY <2>4, <4>1 DEF Inv, StoreInv, ListsOwned
    <3> QED
      BY <3>1, <3>2
  <2>5. ListsOwned' /\ Fresh'
    BY <2>4 DEF ListsOwned, RefOwned, PeerOwned, Inv, StoreInv, Fresh
  <2>6. Head(old) \in Ref /\ RefOwned(u, Head(old))
    <3>1. Head(old) = old[1] /\ 1 \in 1..Len(old)
      BY <1>1, <1>4
    <3> QED
      BY <1>1, <3>1 DEF Inv, StoreInv, ListsOwned
  <2>7. req' = [req EXCEPT ![r] = [req[r] EXCEPT !.issue = Head(old).issue, !.ref = Head(old)]]
    BY <1>4 DEF Inv, ReqInv, ReqType
  <2>8. StoreInv'
    BY <1>2, <2>3, <2>5 DEF Inv, StoreInv
  <2> QED
    BY <1>4, <2>6, <2>7, <2>8
<1> QED
  BY <1>3, <1>4 DEF PopReference

(* The reference read from the user's list is the user's.                  *)
LEMMA GetReferenceFacts ==
    ASSUME Inv, UNCHANGED <<born, crashes, owner>>, NEW r \in Requests,
           NEW l \in Lists, NEW ok, NEW err, req[r].user \in Users,
           GetReference(r, l, ok, err)
    PROVE  /\ StoreInv'
           /\ \/ Goto(r, err) /\ Kept
              \/ /\ Goto(r, ok)
                 /\ \E ref \in Ref :
                       /\ ref.issue = req[r].issue
                       /\ RefOwned(req[r].user, ref)
                       /\ req' = [req EXCEPT ![r] = [req[r] EXCEPT !.ref = ref]]
<1>1. StoreInv'
  BY ReadFacts DEF GetReference, Inv
<1>2. CASE /\ Holds(lists[req[r].user][l], req[r].issue)
           /\ req' = [req EXCEPT ![r].ref = RefIn(req[r].user, l, req[r].issue)]
           /\ Goto(r, ok)
  <2> DEFINE ref == RefIn(req[r].user, l, req[r].issue)
  <2>1. ref \in Ref /\ ref.issue = req[r].issue /\ RefOwned(req[r].user, ref)
    BY <1>2, RefInFacts DEF Inv
  <2> HIDE DEF ref
  <2>2. req' = [req EXCEPT ![r] = [req[r] EXCEPT !.ref = ref]]
    BY <1>2 DEF ref
  <2> QED
    BY <1>1, <1>2, <2>1, <2>2
<1> QED
  BY <1>1, <1>2 DEF GetReference, Kept

(* The search for a todo, of any user and any id.                          *)
LEMMA SearchFacts ==
    ASSUME Inv, UNCHANGED <<born, crashes, owner>>, NEW r \in Requests,
           NEW u, NEW id, NEW hit, NEW miss, NEW whenFound, NEW whenLost,
           Search(r, u, id, hit, miss, whenFound, whenLost)
    PROVE  /\ StoreInv'
           /\ \/ /\ Holds(lists[u][Searched(r)], id)
                 /\ Goto(r, hit)
                 /\ req' = [req EXCEPT ![r] = [whenFound EXCEPT !.look = 1]]
              \/ /\ UNCHANGED pc
                 /\ \E n \in 1..3 : req' = [req EXCEPT ![r] = [req[r] EXCEPT !.look = n]]
              \/ /\ Goto(r, miss)
                 /\ req' = [req EXCEPT ![r] = [whenLost EXCEPT !.look = 1]]
<1>1. StoreInv'
  BY ReadFacts DEF Search, Inv
<1>2. req[r].look \in 1..3
  BY DEF Inv, ReqInv, ReqType
<1>3. ASSUME req[r].look < 3, req' = [req EXCEPT ![r].look = @ + 1]
      PROVE  \E n \in 1..3 : req' = [req EXCEPT ![r] = [req[r] EXCEPT !.look = n]]
  <2>1. req[r].look + 1 \in 1..3
    BY <1>2, <1>3
  <2>2. req' = [req EXCEPT ![r] = [req[r] EXCEPT !.look = req[r].look + 1]]
    BY <1>3
  <2> QED
    BY <2>1, <2>2
<1> QED
  BY <1>1, <1>3 DEF Search

(* Searching on: the request stays where it is.                            *)
LEMMA SearchOn ==
    ASSUME ReqInv, UNCHANGED owner, NEW r \in Requests, UNCHANGED pc, NEW n \in 1..3,
           req' = [req EXCEPT ![r] = [req[r] EXCEPT !.look = n]]
    PROVE  ReqInv'
<1> DEFINE q == [req[r] EXCEPT !.look = n]
<1>1. q \in ReqType /\ ReqOwned(pc[r], q)
  BY ZenonT(60) DEF ReqInv, ReqType, ReqOwned, PeerOwned
<1>2. pc' = [pc EXCEPT ![r] = pc[r]] /\ pc[r] \in Labels
  BY DEF ReqInv
<1> HIDE DEF q
<1> QED
  BY <1>1, <1>2, Advance DEF q

(* A search looks into one of the three lists.                             *)
LEMMA SearchedType ==
    ASSUME ReqInv, NEW r \in Requests
    PROVE  Searched(r) \in Lists
BY DEF ReqInv, ReqType, Searched, SearchOrder, Lists

(* Neither what a search ends with nor where asks for anything else.       *)
LEMMA LookFacts ==
    ASSUME NEW q \in ReqType, NEW n \in 1..3
    PROVE  /\ [q EXCEPT !.look = n] \in ReqType
           /\ \A label : ReqOwned(label, q) => ReqOwned(label, [q EXCEPT !.look = n])
BY DEF ReqType, ReqOwned, PeerOwned

(* A search that found the todo, searches on, or gives up.                 *)
LEMMA SearchEnds ==
    ASSUME Inv, StoreInv', UNCHANGED <<born, crashes, owner>>, NEW r \in Requests,
           NEW label, NEW q,
           \/ /\ q \in ReqType /\ ReqOwned(label, q)
              /\ Goto(r, label)
              /\ req' = [req EXCEPT ![r] = [q EXCEPT !.look = 1]]
           \/ /\ UNCHANGED pc
              /\ \E n \in 1..3 : req' = [req EXCEPT ![r] = [req[r] EXCEPT !.look = n]]
    PROVE  Inv'
<1>1. UNCHANGED owner /\ ReqInv
  BY DEF Inv
<1>2. CASE /\ q \in ReqType /\ ReqOwned(label, q)
           /\ Goto(r, label)
           /\ req' = [req EXCEPT ![r] = [q EXCEPT !.look = 1]]
  <2> DEFINE p == [q EXCEPT !.look = 1]
  <2>1. q \in ReqType /\ ReqOwned(label, q) /\ 1 \in 1..3
    BY <1>2
  <2>2. p \in ReqType /\ ReqOwned(label, p)
    BY ONLY <2>1, LookFacts, Zenon
  <2>3. pc' = [pc EXCEPT ![r] = label] /\ req' = [req EXCEPT ![r] = p]
    BY <1>2 DEF Goto
  <2> HIDE DEF p
  <2> QED
    BY <1>1, <2>2, <2>3, Advance DEF Inv
<1>3. CASE /\ UNCHANGED pc
           /\ \E n \in 1..3 : req' = [req EXCEPT ![r] = [req[r] EXCEPT !.look = n]]
  BY <1>1, <1>3, SearchOn DEF Inv
<1> QED
  BY <1>2, <1>3

(* A todo found in the lists of the request's user is the user's own.      *)
LEMMA FindOwnKeeps ==
    ASSUME Inv, UNCHANGED <<born, crashes, owner>>, NEW r \in Requests, NEW hit, NEW miss,
           pc[r] # "idle", hit \in Labels \ FarLabels, hit \in TwinLabels => pc[r] \in TwinLabels,
           miss = "err", FindOwn(r, hit, miss)
    PROVE  Inv'
<1> DEFINE q == req[r]
           l == Searched(r)
           ref == RefIn(q.user, l, q.issue)
           found == [q EXCEPT !.list = l, !.ref = ref]
           lost == [q EXCEPT !.list = "My", !.ref = NoRef]
<1>1. q \in ReqType /\ ReqOwned(pc[r], q) /\ q.user \in Users /\ l \in Lists
  BY SearchedType DEF Inv, ReqInv, ReqOwned
<1>2. Search(r, q.user, q.issue, hit, miss, found, lost)
  BY DEF FindOwn
<1>3. ASSUME Holds(lists[q.user][l], q.issue)
      PROVE  found \in ReqType /\ ReqOwned(hit, found)
  <2>1. ref \in Ref /\ ref.issue = q.issue /\ RefOwned(q.user, ref)
    BY <1>1, <1>3, RefInFacts DEF Inv
  <2> HIDE DEF ref, l, q
  <2>2. found \in ReqType
    BY <1>1, <2>1 DEF ReqType
  <2>3. /\ found.issue = q.issue /\ found.user = q.user /\ found.ref = ref
        /\ found.twin = q.twin /\ found.to = q.to
    BY <1>1 DEF ReqType
  <2>4. q.issue \in IssueIds /\ owner[q.issue] = q.user /\ PeerOwned(ref)
    BY <2>1 DEF RefOwned, Ref
  <2> HIDE DEF found
  <2> QED
    BY <1>1, <2>2, <2>3, <2>4 DEF ReqOwned
<1>4. lost \in ReqType /\ ReqOwned(miss, lost)
  <2> HIDE DEF q
  <2>1. lost \in ReqType
    BY <1>1 DEF ReqType, Lists
  <2>2. lost.user = q.user
    BY <1>1 DEF ReqType
  <2> HIDE DEF lost
  <2> QED
    BY <1>1, <2>1, <2>2 DEF ReqOwned, OwnLabels, TwinLabels, PeerLabels, FarLabels, Labels
<1>5. /\ StoreInv'
      /\ \/ /\ Holds(lists[q.user][l], q.issue)
            /\ Goto(r, hit)
            /\ req' = [req EXCEPT ![r] = [found EXCEPT !.look = 1]]
         \/ /\ UNCHANGED pc
            /\ \E n \in 1..3 : req' = [req EXCEPT ![r] = [req[r] EXCEPT !.look = n]]
         \/ /\ Goto(r, miss)
            /\ req' = [req EXCEPT ![r] = [lost EXCEPT !.look = 1]]
  <2> HIDE DEF found, lost
  <2> QED
    BY <1>2, SearchFacts
<1> HIDE DEF found, lost, q, l
<1> QED
  BY <1>3, <1>4, <1>5, SearchEnds

(* Where the copy is found does not matter to ownership.                   *)
LEMMA FindForeignKeeps ==
    ASSUME Inv, UNCHANGED <<born, crashes, owner>>, NEW r \in Requests, NEW hit, NEW miss,
           ReqOwned(hit, req[r]), ReqOwned(miss, req[r]), FindForeign(r, hit, miss)
    PROVE  Inv'
<1> DEFINE q == req[r]
           found == [q EXCEPT !.flist = Searched(r)]
           lost == [q EXCEPT !.flist = "My"]
<1>1. q \in ReqType /\ Searched(r) \in Lists /\ "My" \in Lists
  BY SearchedType DEF Inv, ReqInv, Lists
<1>2. Search(r, q.ref.fuser, q.ref.fissue, hit, miss, found, lost)
  BY DEF FindForeign
<1>3. ASSUME NEW l \in Lists
      PROVE  /\ [q EXCEPT !.flist = l] \in ReqType
             /\ \A label : ReqOwned(label, q) => ReqOwned(label, [q EXCEPT !.flist = l])
  <2> HIDE DEF q
  <2> QED
    BY <1>1 DEF ReqType, ReqOwned, PeerOwned
<1>4. /\ found \in ReqType /\ ReqOwned(hit, found)
      /\ lost \in ReqType /\ ReqOwned(miss, lost)
  BY <1>1, <1>3
<1> HIDE DEF found, lost, q
<1>5. /\ StoreInv'
      /\ \/ Goto(r, hit) /\ req' = [req EXCEPT ![r] = [found EXCEPT !.look = 1]]
         \/ /\ UNCHANGED pc
            /\ \E n \in 1..3 : req' = [req EXCEPT ![r] = [req[r] EXCEPT !.look = n]]
         \/ Goto(r, miss) /\ req' = [req EXCEPT ![r] = [lost EXCEPT !.look = 1]]
  BY <1>2, SearchFacts
<1> QED
  BY <1>4, <1>5, SearchEnds

-----------------------------------------------------------------------------
(* What the operations do.                                                 *)

(* AddIssue lists the todo that was made for its user.                     *)
LEMMA AddIssueKeeps ==
    ASSUME Inv, UNCHANGED <<born, crashes, owner>>, NEW r \in Requests, AddIssue(r)
    PROVE  Inv'
<1> DEFINE q == req[r]
<1>1. q \in ReqType /\ ReqOwned(pc[r], q)
  BY DEF Inv, ReqInv
<1>2. Kept
  BY DEF AddIssue
<1>3. CASE At(r, "Add.save") /\ SaveIssue(r, q.issue, q.text, "Add.list", "err")
  <2>1. ReqOwned("Add.list", q) /\ ReqOwned("err", q)
    BY <1>1, <1>3 DEF At, ReqOwned, OwnLabels, TwinLabels, PeerLabels, FarLabels, Labels
  <2>2. StoreInv' /\ (Goto(r, "Add.list") \/ Goto(r, "err"))
    BY <1>1, <1>3, SaveIssueFacts DEF Inv, ReqType
  <2> QED
    BY <1>2, <2>1, <2>2, GoOnEither
<1>4. CASE /\ At(r, "Add.list")
           /\ AddReference(r, q.user, q.issue, "My", NoUser, NoIssue, "ok", "Add.undo")
  <2>1. ReqOwned("ok", q) /\ ReqOwned("Add.undo", q)
    BY <1>1, <1>4 DEF At, ReqOwned, OwnLabels, TwinLabels, PeerLabels, FarLabels, Labels
  <2>2. q.issue \in IssueIds /\ owner[q.issue] = q.user
    BY <1>1, <1>4 DEF At, ReqOwned, OwnLabels
  <2>3. PeerOwned([issue |-> q.issue, fuser |-> NoUser, fissue |-> NoIssue]) /\ "My" \in Lists
    BY DEF PeerOwned, Lists
  <2>4. StoreInv' /\ (Goto(r, "ok") \/ Goto(r, "Add.undo"))
    BY <1>4, <2>2, <2>3, AddReferenceFacts DEF Inv
  <2> QED
    BY <1>2, <2>1, <2>4, GoOnEither
<1>5. CASE At(r, "Add.undo") /\ DropIssue(r, q.issue, "err")
  <2>1. ReqOwned("err", q)
    BY <1>1, <1>5 DEF At, ReqOwned, OwnLabels, TwinLabels, PeerLabels, FarLabels, Labels
  <2>2. StoreInv' /\ Goto(r, "err")
    BY <1>5, SaveIssueFacts DEF Inv, DropIssue
  <2> QED
    BY <1>2, <2>1, <2>2, GoOnEither
<1> QED
  BY <1>3, <1>4, <1>5 DEF AddIssue

(* SendIssue lists each of its two todos for the user it was made for.     *)
LEMMA SendIssueKeeps ==
    ASSUME Inv, UNCHANGED <<born, crashes, owner>>, NEW r \in Requests, SendIssue(r)
    PROVE  Inv'
<1> DEFINE q == req[r]
<1>1. q \in ReqType /\ ReqOwned(pc[r], q)
  BY DEF Inv, ReqInv
<1>2. Kept
  BY DEF SendIssue
<1>3. CASE At(r, "Send.save") /\ SaveIssue(r, q.issue, q.text, "Send.saveTwin", "err")
  <2>1. ReqOwned("Send.saveTwin", q) /\ ReqOwned("err", q)
    BY <1>1, <1>3 DEF At, ReqOwned, OwnLabels, TwinLabels, PeerLabels, FarLabels, Labels
  <2>2. StoreInv' /\ (Goto(r, "Send.saveTwin") \/ Goto(r, "err"))
    BY <1>1, <1>3, SaveIssueFacts DEF Inv, ReqType
  <2> QED
    BY <1>2, <2>1, <2>2, GoOnEither
<1>4. CASE At(r, "Send.saveTwin") /\ SaveIssue(r, q.twin, q.text, "Send.out", "Send.undo")
  <2>1. ReqOwned("Send.out", q) /\ ReqOwned("Send.undo", q)
    BY <1>1, <1>4 DEF At, ReqOwned, OwnLabels, TwinLabels, PeerLabels, FarLabels, Labels
  <2>2. StoreInv' /\ (Goto(r, "Send.out") \/ Goto(r, "Send.undo"))
    BY <1>1, <1>4, SaveIssueFacts DEF Inv, ReqType
  <2> QED
    BY <1>2, <2>1, <2>2, GoOnEither
<1>5. CASE /\ At(r, "Send.out")
           /\ AddReference(r, q.user, q.issue, "Out", q.to, q.twin, "Send.in", "Send.undo2")
  <2>1. ReqOwned("Send.in", q) /\ ReqOwned("Send.undo2", q)
    BY <1>1, <1>5 DEF At, ReqOwned, OwnLabels, TwinLabels, PeerLabels, FarLabels, Labels
  <2>2. /\ q.issue \in IssueIds /\ owner[q.issue] = q.user
        /\ q.to \in Users \cup {NoUser} /\ q.twin \in IssueIds \cup {NoIssue}
    BY <1>1, <1>5 DEF At, ReqOwned, OwnLabels, TwinLabels, ReqType, Ref, NoRef, Copy
  <2>3. PeerOwned([issue |-> q.issue, fuser |-> q.to, fissue |-> q.twin]) /\ "Out" \in Lists
    BY <1>1, <1>5 DEF At, ReqOwned, OwnLabels, TwinLabels, PeerLabels, PeerOwned, Copy, Lists
  <2>4. StoreInv' /\ (Goto(r, "Send.in") \/ Goto(r, "Send.undo2"))
    BY <1>5, <2>2, <2>3, AddReferenceFacts DEF Inv
  <2> QED
    BY <1>2, <2>1, <2>4, GoOnEither
<1>6. CASE /\ At(r, "Send.in")
           /\ AddReference(r, q.to, q.twin, "In", q.user, q.issue, "ok", "Send.undo3")
  <2>1. ReqOwned("ok", q) /\ ReqOwned("Send.undo3", q)
    BY <1>1, <1>6 DEF At, ReqOwned, OwnLabels, TwinLabels, PeerLabels, FarLabels, Labels
  <2>2. /\ q.twin \in IssueIds /\ owner[q.twin] = q.to
        /\ q.user \in Users \cup {NoUser} /\ q.issue \in IssueIds \cup {NoIssue}
    BY <1>1, <1>6 DEF At, ReqOwned, OwnLabels, TwinLabels, ReqType, Ref, NoRef, Copy
  <2>3. PeerOwned([issue |-> q.twin, fuser |-> q.user, fissue |-> q.issue]) /\ "In" \in Lists
    BY <1>1, <1>6 DEF At, ReqOwned, OwnLabels, TwinLabels, PeerLabels, PeerOwned, Copy, Lists
  <2>4. StoreInv' /\ (Goto(r, "ok") \/ Goto(r, "Send.undo3"))
    BY <1>6, <2>2, <2>3, AddReferenceFacts DEF Inv
  <2> QED
    BY <1>2, <2>1, <2>4, GoOnEither
<1>7. CASE At(r, "Send.undo") /\ DropIssue(r, q.issue, "err")
  <2>1. ReqOwned("err", q)
    BY <1>1, <1>7 DEF At, ReqOwned, OwnLabels, TwinLabels, PeerLabels, FarLabels, Labels
  <2>2. StoreInv' /\ Goto(r, "err")
    BY <1>7, SaveIssueFacts DEF Inv, DropIssue
  <2> QED
    BY <1>2, <2>1, <2>2, GoOnEither
<1>8. CASE At(r, "Send.undo2") /\ DropIssue(r, q.issue, "Send.undo2Twin")
  <2>1. ReqOwned("Send.undo2Twin", q)
    BY <1>1, <1>8 DEF At, ReqOwned, OwnLabels, TwinLabels, PeerLabels, FarLabels, Labels
  <2>2. StoreInv' /\ Goto(r, "Send.undo2Twin")
    BY <1>8, SaveIssueFacts DEF Inv, DropIssue
  <2> QED
    BY <1>2, <2>1, <2>2, GoOnEither
<1>9. CASE At(r, "Send.undo2Twin") /\ DropIssue(r, q.twin, "err")
  <2>1. ReqOwned("err", q)
    BY <1>1, <1>9 DEF At, ReqOwned, OwnLabels, TwinLabels, PeerLabels, FarLabels, Labels
  <2>2. StoreInv' /\ Goto(r, "err")
    BY <1>9, SaveIssueFacts DEF Inv, DropIssue
  <2> QED
    BY <1>2, <2>1, <2>2, GoOnEither
<1>10. CASE At(r, "Send.undo3") /\ DropIssue(r, q.issue, "Send.undo3Twin")
  <2>1. ReqOwned("Send.undo3Twin", q)
    BY <1>1, <1>10 DEF At, ReqOwned, OwnLabels, TwinLabels, PeerLabels, FarLabels, Labels
  <2>2. StoreInv' /\ Goto(r, "Send.undo3Twin")
    BY <1>10, SaveIssueFacts DEF Inv, DropIssue
  <2> QED
    BY <1>2, <2>1, <2>2, GoOnEither
<1>11. CASE At(r, "Send.undo3Twin") /\ DropIssue(r, q.twin, "Send.undo3Out")
  <2>1. ReqOwned("Send.undo3Out", q)
    BY <1>1, <1>11 DEF At, ReqOwned, OwnLabels, TwinLabels, PeerLabels, FarLabels, Labels
  <2>2. StoreInv' /\ Goto(r, "Send.undo3Out")
    BY <1>11, SaveIssueFacts DEF Inv, DropIssue
  <2> QED
    BY <1>2, <2>1, <2>2, GoOnEither
<1>12. CASE At(r, "Send.undo3Out") /\ RemoveReference(r, q.user, q.issue, "Out", "err", "err")
  <2>1. ReqOwned("err", q) /\ ReqOwned("err", q)
    BY <1>1, <1>12 DEF At, ReqOwned, OwnLabels, TwinLabels, PeerLabels, FarLabels, Labels
  <2>2. "Out" \in Lists
    BY <1>1 DEF ReqType, Lists
  <2>3. StoreInv' /\ (Goto(r, "err") \/ Goto(r, "err"))
    BY <1>12, <2>2, RemoveReferenceFacts DEF Inv
  <2> QED
    BY <1>2, <2>1, <2>3, GoOnEither
<1> QED
  BY <1>3, <1>4, <1>5, <1>6, <1>7, <1>8, <1>9, <1>10, <1>11, <1>12 DEF SendIssue

(* AcceptIssue lists what it found in its user's own inbox.                *)
LEMMA AcceptIssueKeeps ==
    ASSUME Inv, UNCHANGED <<born, crashes, owner>>, NEW r \in Requests, AcceptIssue(r)
    PROVE  Inv'
<1> DEFINE q == req[r]
<1>1. q \in ReqType /\ ReqOwned(pc[r], q)
  BY DEF Inv, ReqInv
<1>2. CASE At(r, "Accept.ref") /\ GetReference(r, "In", "Accept.my", "err")
  <2>1. q.user \in Users /\ "In" \in Lists
    BY <1>1, <1>2 DEF At, ReqOwned, Lists
  <2>2. /\ StoreInv'
        /\ \/ Goto(r, "err") /\ Kept
           \/ /\ Goto(r, "Accept.my")
              /\ \E ref \in Ref :
                    /\ ref.issue = q.issue
                    /\ RefOwned(q.user, ref)
                    /\ req' = [req EXCEPT ![r] = [q EXCEPT !.ref = ref]]
    BY <1>2, <2>1, GetReferenceFacts
  <2>3. CASE Goto(r, "err") /\ Kept
    <3>1. ReqOwned("err", q)
      BY <1>1, <1>2 DEF At, ReqOwned, OwnLabels, TwinLabels, PeerLabels, FarLabels, Labels
    <3> QED
      BY <2>2, <2>3, <3>1, GoOnEither
  <2>4. ASSUME Goto(r, "Accept.my"), NEW ref \in Ref, ref.issue = q.issue,
               RefOwned(q.user, ref), req' = [req EXCEPT ![r] = [q EXCEPT !.ref = ref]]
        PROVE  Inv'
    <3> DEFINE p == [q EXCEPT !.ref = ref]
    <3>1. p \in ReqType /\ p.user = q.user /\ p.issue = q.issue /\ p.ref = ref
      BY <1>1 DEF ReqType
    <3>2. q.issue \in IssueIds /\ owner[q.issue] = q.user /\ PeerOwned(ref)
      BY <2>4 DEF RefOwned, Ref
    <3>3. req' = [req EXCEPT ![r] = p]
      BY <2>4
    <3> HIDE DEF p
    <3>4. ReqOwned("Accept.my", p)
      BY <2>1, <3>1, <3>2 DEF ReqOwned, TwinLabels, FarLabels, Labels
    <3> QED
      BY <2>2, <2>4, <3>1, <3>3, <3>4, AdvanceTo
  <2> QED
    BY <2>2, <2>3, <2>4
<1>3. ASSUME Kept,
             \/ At(r, "Accept.get") /\ GetIssue(r, q.issue, "Accept.ref", "err")
             \/ At(r, "Accept.my")
                /\ AddReference(r, q.user, q.issue, "My", q.ref.fuser, Copy(q), "Accept.in", "err")
             \/ At(r, "Accept.in") /\ RemoveReference(r, q.user, q.issue, "In", "ok", "Accept.undo")
             \/ At(r, "Accept.undo") /\ RemoveReference(r, q.user, q.issue, "My", "err", "err")
      PROVE  Inv'
  <2>1. CASE At(r, "Accept.get") /\ GetIssue(r, q.issue, "Accept.ref", "err")
    <3>1. ReqOwned("Accept.ref", q) /\ ReqOwned("err", q)
      BY <1>1, <2>1 DEF At, ReqOwned, OwnLabels, TwinLabels, PeerLabels, FarLabels, Labels
    <3>2. StoreInv' /\ (Goto(r, "Accept.ref") \/ Goto(r, "err"))
      BY <2>1, GetIssueFacts DEF Inv
    <3> QED
      BY <1>3, <3>1, <3>2, GoOnEither
  <2>2. CASE /\ At(r, "Accept.my")
             /\ AddReference(r, q.user, q.issue, "My", q.ref.fuser, Copy(q), "Accept.in", "err")
    <3>1. ReqOwned("Accept.in", q) /\ ReqOwned("err", q)
      BY <1>1, <2>2 DEF At, ReqOwned, OwnLabels, TwinLabels, PeerLabels, FarLabels, Labels
    <3>2. /\ q.issue \in IssueIds /\ owner[q.issue] = q.user
          /\ q.ref.fuser \in Users \cup {NoUser} /\ Copy(q) \in IssueIds \cup {NoIssue}
      BY <1>1, <2>2 DEF At, ReqOwned, OwnLabels, TwinLabels, ReqType, Ref, NoRef, Copy
    <3>3. PeerOwned([issue |-> q.issue, fuser |-> q.ref.fuser, fissue |-> Copy(q)]) /\ "My" \in Lists
      BY <1>1, <2>2 DEF At, ReqOwned, OwnLabels, TwinLabels, PeerLabels, PeerOwned, Copy, Lists
    <3>4. StoreInv' /\ (Goto(r, "Accept.in") \/ Goto(r, "err"))
      BY <2>2, <3>2, <3>3, AddReferenceFacts DEF Inv
    <3> QED
      BY <1>3, <3>1, <3>4, GoOnEither
  <2>3. CASE At(r, "Accept.in") /\ RemoveReference(r, q.user, q.issue, "In", "ok", "Accept.undo")
    <3>1. ReqOwned("ok", q) /\ ReqOwned("Accept.undo", q)
      BY <1>1, <2>3 DEF At, ReqOwned, OwnLabels, TwinLabels, PeerLabels, FarLabels, Labels
    <3>2. "In" \in Lists
      BY <1>1 DEF ReqType, Lists
    <3>3. StoreInv' /\ (Goto(r, "ok") \/ Goto(r, "Accept.undo"))
      BY <2>3, <3>2, RemoveReferenceFacts DEF Inv
    <3> QED
      BY <1>3, <3>1, <3>3, GoOnEither
  <2>4. CASE At(r, "Accept.undo") /\ RemoveReference(r, q.user, q.issue, "My", "err", "err")
    <3>1. ReqOwned("err", q) /\ ReqOwned("err", q)
      BY <1>1, <2>4 DEF At, ReqOwned, OwnLabels, TwinLabels, PeerLabels, FarLabels, Labels
    <3>2. "My" \in Lists
      BY <1>1 DEF ReqType, Lists
    <3>3. StoreInv' /\ (Goto(r, "err") \/ Goto(r, "err"))
      BY <2>4, <3>2, RemoveReferenceFacts DEF Inv
    <3> QED
      BY <1>3, <3>1, <3>3, GoOnEither
  <2> QED
    BY <1>3, <2>1, <2>2, <2>3, <2>4
<1> QED
  BY <1>2, <1>3 DEF AcceptIssue

(* Where the handler goes from its own todo, it has what it needs.         *)
LEMMA OtherEndFacts ==
    ASSUME NEW q, NEW label \in {"End.take", "End.drop"}, ReqOwned(label, q)
    PROVE  ReqOwned(OtherEnd(q), q)
<1>1. q.user \in Users /\ PeerOwned(q.ref)
  BY DEF ReqOwned, PeerLabels
<1>2. CASE q.ref.fuser = NoUser
  BY <1>1, <1>2 DEF OtherEnd, ReqOwned, OwnLabels, TwinLabels, PeerLabels, FarLabels, Labels
<1>3. CASE q.ref.fuser # NoUser /\ q.kind = "Remove"
  BY <1>1, <1>3 DEF OtherEnd, ReqOwned, OwnLabels, TwinLabels, PeerLabels, FarLabels, Labels
<1>4. CASE q.ref.fuser # NoUser /\ q.kind # "Remove"
  BY <1>1, <1>4 DEF OtherEnd, ReqOwned, OwnLabels, TwinLabels, PeerLabels, FarLabels, Labels
<1> QED
  BY <1>2, <1>3, <1>4

(* Completing, removing and popping only take away ...                     *)
LEMMA EndTodoKeeps ==
    ASSUME Inv, UNCHANGED <<born, crashes, owner>>, NEW r \in Requests, EndTodo(r)
    PROVE  Inv'
<1> DEFINE q == req[r]
<1>1. q \in ReqType /\ ReqOwned(pc[r], q)
  BY DEF Inv, ReqInv
<1>2. CASE At(r, "End.find") /\ FindOwn(r, "End.unlist", "err")
  BY <1>2, FindOwnKeeps DEF At, TwinLabels, FarLabels, Labels
<1>3. CASE /\ At(r, "End.unlist")
           /\ RemoveReference(r, q.user, q.issue, q.list, "End.take", "err")
           /\ Kept
  <2>1. ReqOwned("End.take", q) /\ ReqOwned("err", q)
    BY <1>1, <1>3 DEF At, ReqOwned, OwnLabels, TwinLabels, PeerLabels, FarLabels, Labels
  <2>2. q.list \in Lists
    BY <1>1 DEF ReqType, Lists
  <2>3. StoreInv' /\ (Goto(r, "End.take") \/ Goto(r, "err"))
    BY <1>3, <2>2, RemoveReferenceFacts DEF Inv
  <2> QED
    BY <1>3, <2>1, <2>3, GoOnEither
<1>4. CASE At(r, "End.pop") /\ PopReference(r, q.user, "My", "End.take", "err")
  <2>1. q.user \in Users /\ "My" \in Lists
    BY <1>1, <1>4 DEF At, ReqOwned, Lists
  <2>2. /\ StoreInv'
        /\ \/ Goto(r, "err") /\ Kept
           \/ /\ Goto(r, "End.take")
              /\ \E ref \in Ref :
                    /\ RefOwned(q.user, ref)
                    /\ req' = [req EXCEPT ![r] = [q EXCEPT !.issue = ref.issue, !.ref = ref]]
    BY <1>4, <2>1, PopReferenceFacts
  <2>3. CASE Goto(r, "err") /\ Kept
    <3>1. ReqOwned("err", q)
      BY <1>1, <1>4 DEF At, ReqOwned, OwnLabels, TwinLabels, PeerLabels, FarLabels, Labels
    <3> QED
      BY <2>2, <2>3, <3>1, GoOnEither
  <2>4. ASSUME Goto(r, "End.take"), NEW ref \in Ref, RefOwned(q.user, ref),
               req' = [req EXCEPT ![r] = [q EXCEPT !.issue = ref.issue, !.ref = ref]]
        PROVE  Inv'
    <3> DEFINE p == [q EXCEPT !.issue = ref.issue, !.ref = ref]
    <3>1. ref.issue \in IssueIds /\ owner[ref.issue] = q.user /\ PeerOwned(ref)
      BY <2>4 DEF RefOwned, Ref
    <3>2. p \in ReqType /\ p.user = q.user /\ p.issue = ref.issue /\ p.ref = ref
      BY <1>1, <3>1 DEF ReqType
    <3>3. req' = [req EXCEPT ![r] = p]
      BY <2>4
    <3> HIDE DEF p
    <3>4. ReqOwned("End.take", p)
      BY <2>1, <3>1, <3>2 DEF ReqOwned, TwinLabels, FarLabels, Labels
    <3> QED
      BY <2>2, <2>4, <3>2, <3>3, <3>4, AdvanceTo
  <2> QED
    BY <2>2, <2>3, <2>4
<1>5. CASE At(r, "End.take") /\ TakeIssue(r, q.issue, "End.drop", OtherEnd(q))
  <2>1. ReqOwned("End.take", q) /\ ReqOwned("End.drop", q) /\ q.issue \in IssueIds
    BY <1>1, <1>5 DEF At, ReqOwned, OwnLabels, TwinLabels, PeerLabels, FarLabels, Labels
  <2>2. ReqOwned(OtherEnd(q), q)
    BY <2>1, OtherEndFacts
  <2>3. StoreInv' /\ (Goto(r, "End.drop") \/ Goto(r, OtherEnd(q))) /\ GotSome(r)
    BY <1>5, <2>1, TakeIssueFacts
  <2> QED
    BY <2>1, <2>2, <2>3, GoOnGotEither
<1>6. CASE At(r, "End.drop") /\ DropTaken(r, q.issue, OtherEnd(q))
  <2>1. ReqOwned(OtherEnd(q), q)
    BY <1>1, <1>6, OtherEndFacts DEF At
  <2>2. StoreInv' /\ Goto(r, OtherEnd(q)) /\ (Kept \/ GotSome(r))
    BY <1>6, DropTakenFacts
  <2> QED
    BY <2>1, <2>2, GoOnGotEither
<1> QED
  BY <1>2, <1>3, <1>4, <1>5, <1>6 DEF EndTodo

(* ... at both ends.                                                       *)
LEMMA EndCopyKeeps ==
    ASSUME Inv, UNCHANGED <<born, crashes, owner>>, NEW r \in Requests, EndCopy(r)
    PROVE  Inv'
<1> DEFINE q == req[r]
<1>1. q \in ReqType /\ ReqOwned(pc[r], q)
  BY DEF Inv, ReqInv
<1>2. CASE At(r, "End.ffind") /\ FindForeign(r, "End.funlist", "End.funlist")
  <2>1. ReqOwned("End.funlist", q)
    BY <1>1, <1>2 DEF At, ReqOwned, OwnLabels, TwinLabels, PeerLabels, FarLabels, Labels
  <2> QED
    BY <1>2, <2>1, FindForeignKeeps
<1> DEFINE l == IF q.kind = "Remove" THEN q.flist ELSE "Out"
<1>3. CASE /\ At(r, "End.funlist")
           /\ RemoveReference(r, q.ref.fuser, Copy(q), l, "End.ftake", "End.ftake")
           /\ Kept
  <2>1. ReqOwned("End.ftake", q)
    BY <1>1, <1>3 DEF At, ReqOwned, OwnLabels, TwinLabels, PeerLabels, FarLabels, Labels
  <2>2. l \in Lists
    BY <1>1 DEF ReqType, Lists
  <2>3. StoreInv' /\ Goto(r, "End.ftake")
    BY <1>3, <2>2, RemoveReferenceFacts DEF Inv
  <2> QED
    BY <1>3, <2>1, <2>3, GoOnEither
<1>4. CASE At(r, "End.ftake") /\ TakeIssue(r, Copy(q), "End.fdrop", "ok")
  <2>1. ReqOwned("End.fdrop", q) /\ ReqOwned("ok", q) /\ Copy(q) \in IssueIds
    BY <1>1, <1>4 DEF At, ReqOwned, OwnLabels, TwinLabels, PeerLabels, FarLabels, Labels,
      PeerOwned, Copy
  <2>2. StoreInv' /\ (Goto(r, "End.fdrop") \/ Goto(r, "ok")) /\ GotSome(r)
    BY <1>4, <2>1, TakeIssueFacts
  <2> QED
    BY <2>1, <2>2, GoOnGotEither
<1>5. CASE At(r, "End.fdrop") /\ DropTaken(r, Copy(q), "ok")
  <2>1. ReqOwned("ok", q)
    BY <1>1, <1>5 DEF At, ReqOwned, OwnLabels, TwinLabels, PeerLabels, FarLabels, Labels
  <2>2. StoreInv' /\ Goto(r, "ok") /\ (Kept \/ GotSome(r))
    BY <1>5, DropTakenFacts
  <2> QED
    BY <2>1, <2>2, GoOnGotEither
<1> QED
  BY <1>2, <1>3, <1>4, <1>5 DEF EndCopy

(* EditIssue changes no list.                                              *)
LEMMA EditIssueKeeps ==
    ASSUME Inv, UNCHANGED <<born, crashes, owner>>, NEW r \in Requests, EditIssue(r)
    PROVE  Inv'
<1> DEFINE q == req[r]
<1>1. q \in ReqType /\ ReqOwned(pc[r], q)
  BY DEF Inv, ReqInv
<1>2. CASE At(r, "Edit.find") /\ FindOwn(r, "Edit.found", "err")
  BY <1>2, FindOwnKeeps DEF At, TwinLabels, FarLabels, Labels
<1>3. CASE /\ At(r, "Edit.get")
           /\ GetIssue(r, q.issue, "Edit.find", "err")
           /\ Kept
  <2>1. ReqOwned("Edit.find", q) /\ ReqOwned("err", q)
    BY <1>1, <1>3 DEF At, ReqOwned, OwnLabels, TwinLabels, PeerLabels, FarLabels, Labels
  <2>2. StoreInv' /\ (Goto(r, "Edit.find") \/ Goto(r, "err"))
    BY <1>3, GetIssueFacts DEF Inv
  <2> QED
    BY <1>3, <2>1, <2>2, GoOnEither
<1>4. CASE /\ At(r, "Edit.found")
           /\ q.ref.fissue = NoIssue
           /\ Proceed(r, "Edit.save")
           /\ Kept
  <2>1. ReqOwned("Edit.save", q)
    BY <1>1, <1>4 DEF At, ReqOwned, OwnLabels, TwinLabels, PeerLabels, FarLabels, Labels
  <2>2. StoreInv' /\ Goto(r, "Edit.save")
    BY <1>4, ProceedFacts DEF Inv
  <2> QED
    BY <1>4, <2>1, <2>2, GoOnEither
<1>5. CASE /\ At(r, "Edit.found")
           /\ q.ref.fissue # NoIssue
           /\ Proceed(r, "Edit.fget")
           /\ Kept
  <2>1. ReqOwned("Edit.fget", q)
    BY <1>1, <1>5 DEF At, ReqOwned, OwnLabels, TwinLabels, PeerLabels, FarLabels, Labels
  <2>2. StoreInv' /\ Goto(r, "Edit.fget")
    BY <1>5, ProceedFacts DEF Inv
  <2> QED
    BY <1>5, <2>1, <2>2, GoOnEither
<1>6. CASE /\ At(r, "Edit.fget")
           /\ GetIssue(r, Copy(q), "Edit.fsave", "Edit.save")
           /\ Kept
  <2>1. ReqOwned("Edit.fsave", q) /\ ReqOwned("Edit.save", q)
    BY <1>1, <1>6 DEF At, ReqOwned, OwnLabels, TwinLabels, PeerLabels, FarLabels, Labels
  <2>2. StoreInv' /\ (Goto(r, "Edit.fsave") \/ Goto(r, "Edit.save"))
    BY <1>6, GetIssueFacts DEF Inv
  <2> QED
    BY <1>6, <2>1, <2>2, GoOnEither
<1>7. CASE /\ At(r, "Edit.fsave")
           /\ SaveIssue(r, Copy(q), q.text, "Edit.save", "Edit.save")
           /\ Kept
  <2>1. ReqOwned("Edit.save", q) /\ ReqOwned("Edit.save", q)
    BY <1>1, <1>7 DEF At, ReqOwned, OwnLabels, TwinLabels, PeerLabels, FarLabels, Labels
  <2>2. StoreInv' /\ (Goto(r, "Edit.save") \/ Goto(r, "Edit.save"))
    BY <1>1, <1>7, SaveIssueFacts DEF Inv, ReqType
  <2> QED
    BY <1>7, <2>1, <2>2, GoOnEither
<1>8. CASE /\ At(r, "Edit.save")
           /\ SaveIssue(r, q.issue, q.text, "ok", "err")
           /\ Kept
  <2>1. ReqOwned("ok", q) /\ ReqOwned("err", q)
    BY <1>1, <1>8 DEF At, ReqOwned, OwnLabels, TwinLabels, PeerLabels, FarLabels, Labels
  <2>2. StoreInv' /\ (Goto(r, "ok") \/ Goto(r, "err"))
    BY <1>1, <1>8, SaveIssueFacts DEF Inv, ReqType
  <2> QED
    BY <1>8, <2>1, <2>2, GoOnEither
<1> QED
  BY <1>2, <1>3, <1>4, <1>5, <1>6, <1>7, <1>8 DEF EditIssue

(* The first half of ChangeAssignment goes on with a todo of its user.     *)
LEMMA TakeBackKeeps ==
    ASSUME Inv, UNCHANGED <<born, crashes, owner>>, NEW r \in Requests, TakeBack(r)
    PROVE  Inv'
<1> DEFINE q == req[r]
<1>1. q \in ReqType /\ ReqOwned(pc[r], q)
  BY DEF Inv, ReqInv
<1>2. CASE /\ At(r, "Assign.get")
           /\ GetIssue(r, q.issue, "Assign.find", "err")
           /\ req' = [req EXCEPT ![r].text = issues[q.issue]]
  <2> DEFINE text == issues[q.issue]
             p == [q EXCEPT !.text = text]
  <2>1. ReqOwned("Assign.find", q) /\ ReqOwned("err", q) /\ q.issue \in IssueIds
    BY <1>1, <1>2 DEF At, ReqOwned, OwnLabels, TwinLabels, PeerLabels, FarLabels, Labels
  <2>2. text \in Texts \cup {Gone}
    BY <2>1 DEF Inv, StoreInv
  <2>3. req' = [req EXCEPT ![r] = p]
    BY <1>2
  <2>4. StoreInv' /\ (Goto(r, "Assign.find") \/ Goto(r, "err"))
    BY <1>2, GetIssueFacts DEF Inv
  <2> HIDE DEF text, q
  <2>5. p \in ReqType /\ \A label : ReqOwned(label, q) => ReqOwned(label, p)
    BY <1>1, <2>2 DEF ReqType, ReqOwned, PeerOwned
  <2> HIDE DEF p
  <2> QED
    BY <2>1, <2>3, <2>4, <2>5, AdvanceTo
<1>3. CASE At(r, "Assign.find") /\ FindOwn(r, "Assign.found", "err")
  BY <1>3, FindOwnKeeps DEF At, TwinLabels, FarLabels, Labels
<1> DEFINE next == CASE Received(q) -> "err"
                     [] ~Received(q) /\ q.ref.fuser # NoUser -> "Assign.ffind"
                     [] OTHER -> Route(q)
<1>4. CASE At(r, "Assign.found") /\ Proceed(r, next) /\ Kept
  <2>1. /\ ReqOwned("err", q) /\ ReqOwned(Route(q), q)
        /\ q.ref.fuser # NoUser => ReqOwned("Assign.ffind", q)
    BY <1>1, <1>4 DEF At, ReqOwned, OwnLabels, TwinLabels, PeerLabels, FarLabels, Labels, Route
  <2>2. next \in {"err", Route(q)} \/ (next = "Assign.ffind" /\ q.ref.fuser # NoUser)
    OBVIOUS
  <2>3. StoreInv' /\ Goto(r, next)
    BY <1>4, ProceedFacts DEF Inv
  <2> HIDE DEF next, q
  <2>4. ReqOwned(next, req[r])
    BY <2>1, <2>2 DEF q
  <2> QED
    BY <1>4, <2>3, <2>4, GoOnEither
<1>5. CASE At(r, "Assign.ffind") /\ FindForeign(r, "Assign.funlist", "err")
  <2>1. ReqOwned("Assign.funlist", q) /\ ReqOwned("err", q)
    BY <1>1, <1>5 DEF At, ReqOwned, OwnLabels, TwinLabels, PeerLabels, FarLabels, Labels
  <2> QED
    BY <1>5, <2>1, FindForeignKeeps
<1>6. CASE /\ At(r, "Assign.funlist")
           /\ RemoveReference(r, q.ref.fuser, Copy(q), q.flist, "Assign.ftake", "err")
           /\ Kept
  <2>1. ReqOwned("Assign.ftake", q) /\ ReqOwned("err", q)
    BY <1>1, <1>6 DEF At, ReqOwned, OwnLabels, TwinLabels, PeerLabels, FarLabels, Labels
  <2>2. q.flist \in Lists
    BY <1>1 DEF ReqType, Lists
  <2>3. StoreInv' /\ (Goto(r, "Assign.ftake") \/ Goto(r, "err"))
    BY <1>6, <2>2, RemoveReferenceFacts DEF Inv
  <2> QED
    BY <1>6, <2>1, <2>3, GoOnEither
<1>7. CASE At(r, "Assign.ftake") /\ TakeIssue(r, Copy(q), "Assign.fdrop", Route(q))
  <2>1. ReqOwned("Assign.fdrop", q) /\ ReqOwned(Route(q), q) /\ Copy(q) \in IssueIds
    BY <1>1, <1>7 DEF At, ReqOwned, OwnLabels, TwinLabels, PeerLabels, FarLabels, Labels,
      Route, PeerOwned, Copy
  <2>2. StoreInv' /\ (Goto(r, "Assign.fdrop") \/ Goto(r, Route(q))) /\ GotSome(r)
    BY <1>7, <2>1, TakeIssueFacts
  <2> QED
    BY <2>1, <2>2, GoOnGotEither
<1>8. CASE At(r, "Assign.fdrop") /\ DropTaken(r, Copy(q), Route(q))
  <2>1. ReqOwned(Route(q), q)
    BY <1>1, <1>8 DEF At, ReqOwned, OwnLabels, TwinLabels, PeerLabels, FarLabels, Labels, Route
  <2>2. StoreInv' /\ Goto(r, Route(q)) /\ (Kept \/ GotSome(r))
    BY <1>8, DropTakenFacts
  <2> QED
    BY <2>1, <2>2, GoOnGotEither
<1> QED
  BY <1>2, <1>3, <1>4, <1>5, <1>6, <1>7, <1>8 DEF TakeBack

(* The second half lists it, and the new copy, for their users.            *)
LEMMA AssignAnewKeeps ==
    ASSUME Inv, UNCHANGED <<born, crashes, owner>>, NEW r \in Requests, AssignAnew(r)
    PROVE  Inv'
<1> DEFINE q == req[r]
<1>1. q \in ReqType /\ ReqOwned(pc[r], q)
  BY DEF Inv, ReqInv
<1>2. Kept
  BY DEF AssignAnew
<1> DEFINE next == IF q.user = q.to THEN "Assign.my" ELSE "Assign.save"
<1>3. CASE At(r, "Assign.unlist") /\ RemoveReference(r, q.user, q.issue, q.list, next, "err")
  <2>1. ReqOwned(next, q) /\ ReqOwned("err", q)
    BY <1>1, <1>3 DEF At, ReqOwned, OwnLabels, TwinLabels, PeerLabels, FarLabels, Labels
  <2>2. q.list \in Lists
    BY <1>1 DEF ReqType
  <2>3. StoreInv' /\ (Goto(r, next) \/ Goto(r, "err"))
    BY <1>3, <2>2, RemoveReferenceFacts DEF Inv
  <2> HIDE DEF next
  <2> QED
    BY <1>2, <2>1, <2>3, GoOnEither
<1>4. CASE /\ At(r, "Assign.my")
           /\ AddReference(r, q.user, q.issue, "My", NoUser, NoIssue, "ok", "err")
  <2>1. ReqOwned("ok", q) /\ ReqOwned("err", q)
    BY <1>1, <1>4 DEF At, ReqOwned, OwnLabels, TwinLabels, PeerLabels, FarLabels, Labels
  <2>2. /\ q.issue \in IssueIds /\ owner[q.issue] = q.user
        /\ NoUser \in Users \cup {NoUser} /\ NoIssue \in IssueIds \cup {NoIssue}
    BY <1>1, <1>4 DEF At, ReqOwned, OwnLabels, TwinLabels, ReqType, Ref, NoRef, Copy
  <2>3. PeerOwned([issue |-> q.issue, fuser |-> NoUser, fissue |-> NoIssue]) /\ "My" \in Lists
    BY <1>1, <1>4 DEF At, ReqOwned, OwnLabels, TwinLabels, PeerLabels, PeerOwned, Copy, Lists
  <2>4. StoreInv' /\ (Goto(r, "ok") \/ Goto(r, "err"))
    BY <1>4, <2>2, <2>3, AddReferenceFacts DEF Inv
  <2> QED
    BY <1>2, <2>1, <2>4, GoOnEither
<1>5. CASE At(r, "Assign.save") /\ SaveIssue(r, q.twin, q.text, "Assign.out", "err")
  <2>1. ReqOwned("Assign.out", q) /\ ReqOwned("err", q)
    BY <1>1, <1>5 DEF At, ReqOwned, OwnLabels, TwinLabels, PeerLabels, FarLabels, Labels
  <2>2. StoreInv' /\ (Goto(r, "Assign.out") \/ Goto(r, "err"))
    BY <1>1, <1>5, SaveIssueFacts DEF Inv, ReqType
  <2> QED
    BY <1>2, <2>1, <2>2, GoOnEither
<1>6. CASE /\ At(r, "Assign.out")
           /\ AddReference(r, q.user, q.issue, "Out", q.to, q.twin, "Assign.in", "err")
  <2>1. ReqOwned("Assign.in", q) /\ ReqOwned("err", q)
    BY <1>1, <1>6 DEF At, ReqOwned, OwnLabels, TwinLabels, PeerLabels, FarLabels, Labels
  <2>2. /\ q.issue \in IssueIds /\ owner[q.issue] = q.user
        /\ q.to \in Users \cup {NoUser} /\ q.twin \in IssueIds \cup {NoIssue}
    BY <1>1, <1>6 DEF At, ReqOwned, OwnLabels, TwinLabels, ReqType, Ref, NoRef, Copy
  <2>3. PeerOwned([issue |-> q.issue, fuser |-> q.to, fissue |-> q.twin]) /\ "Out" \in Lists
    BY <1>1, <1>6 DEF At, ReqOwned, OwnLabels, TwinLabels, PeerLabels, PeerOwned, Copy, Lists
  <2>4. StoreInv' /\ (Goto(r, "Assign.in") \/ Goto(r, "err"))
    BY <1>6, <2>2, <2>3, AddReferenceFacts DEF Inv
  <2> QED
    BY <1>2, <2>1, <2>4, GoOnEither
<1>7. CASE /\ At(r, "Assign.in")
           /\ AddReference(r, q.to, q.twin, "In", q.user, q.issue, "ok", "err")
  <2>1. ReqOwned("ok", q) /\ ReqOwned("err", q)
    BY <1>1, <1>7 DEF At, ReqOwned, OwnLabels, TwinLabels, PeerLabels, FarLabels, Labels
  <2>2. /\ q.twin \in IssueIds /\ owner[q.twin] = q.to
        /\ q.user \in Users \cup {NoUser} /\ q.issue \in IssueIds \cup {NoIssue}
    BY <1>1, <1>7 DEF At, ReqOwned, OwnLabels, TwinLabels, ReqType, Ref, NoRef, Copy
  <2>3. PeerOwned([issue |-> q.twin, fuser |-> q.user, fissue |-> q.issue]) /\ "In" \in Lists
    BY <1>1, <1>7 DEF At, ReqOwned, OwnLabels, TwinLabels, PeerLabels, PeerOwned, Copy, Lists
  <2>4. StoreInv' /\ (Goto(r, "ok") \/ Goto(r, "err"))
    BY <1>7, <2>2, <2>3, AddReferenceFacts DEF Inv
  <2> QED
    BY <1>2, <2>1, <2>4, GoOnEither
<1> QED
  BY <1>3, <1>4, <1>5, <1>6, <1>7 DEF AssignAnew

(* BumpIssue reorders a list, whoever's it is.                             *)
LEMMA BumpIssueKeeps ==
    ASSUME Inv, UNCHANGED <<born, crashes, owner>>, NEW r \in Requests, BumpIssue(r)
    PROVE  Inv'
<1> DEFINE q == req[r]
<1>1. q \in ReqType /\ ReqOwned(pc[r], q)
  BY DEF Inv, ReqInv
<1>2. CASE At(r, "Bump.ref") /\ GetReference(r, "Out", "Bump.bump", "err")
  <2>1. q.user \in Users /\ "Out" \in Lists
    BY <1>1, <1>2 DEF At, ReqOwned, Lists
  <2>2. /\ StoreInv'
        /\ \/ Goto(r, "err") /\ Kept
           \/ /\ Goto(r, "Bump.bump")
              /\ \E ref \in Ref : req' = [req EXCEPT ![r] = [q EXCEPT !.ref = ref]]
    BY <1>2, <2>1, GetReferenceFacts
  <2>3. CASE Goto(r, "err") /\ Kept
    <3>1. ReqOwned("err", q)
      BY <1>1, <1>2 DEF At, ReqOwned, OwnLabels, TwinLabels, PeerLabels, FarLabels, Labels
    <3> QED
      BY <2>2, <2>3, <3>1, GoOnEither
  <2>4. ASSUME Goto(r, "Bump.bump"), NEW ref \in Ref,
               req' = [req EXCEPT ![r] = [q EXCEPT !.ref = ref]]
        PROVE  Inv'
    <3> DEFINE p == [q EXCEPT !.ref = ref]
    <3>1. p \in ReqType /\ p.user = q.user
      BY <1>1 DEF ReqType
    <3>2. req' = [req EXCEPT ![r] = p]
      BY <2>4
    <3> HIDE DEF p
    <3>3. ReqOwned("Bump.bump", p)
      BY <2>1, <3>1 DEF ReqOwned, OwnLabels, TwinLabels, PeerLabels, FarLabels, Labels
    <3> QED
      BY <2>2, <2>4, <3>1, <3>2, <3>3, AdvanceTo
  <2> QED
    BY <2>2, <2>3, <2>4
<1>3. CASE /\ At(r, "Bump.bump")
           /\ BumpReference(r, q.ref.fuser, Copy(q), "In", "Bump.get", "err")
           /\ Kept
  <2>1. ReqOwned("Bump.get", q) /\ ReqOwned("err", q)
    BY <1>1, <1>3 DEF At, ReqOwned, OwnLabels, TwinLabels, PeerLabels, FarLabels, Labels
  <2>2. "In" \in Lists
    BY <1>1 DEF ReqType, Lists
  <2>3. StoreInv' /\ (Goto(r, "Bump.get") \/ Goto(r, "err"))
    BY <1>3, <2>2, BumpReferenceFacts DEF Inv
  <2> QED
    BY <1>3, <2>1, <2>3, GoOnEither
<1>4. CASE /\ At(r, "Bump.get")
           /\ GetIssue(r, Copy(q), "ok", "ok")
           /\ Kept
  <2>1. ReqOwned("ok", q) /\ ReqOwned("ok", q)
    BY <1>1, <1>4 DEF At, ReqOwned, OwnLabels, TwinLabels, PeerLabels, FarLabels, Labels
  <2>2. StoreInv' /\ (Goto(r, "ok") \/ Goto(r, "ok"))
    BY <1>4, GetIssueFacts DEF Inv
  <2> QED
    BY <1>4, <2>1, <2>2, GoOnEither
<1> QED
  BY <1>2, <1>3, <1>4 DEF BumpIssue

(* GetAllList changes nothing but its own request.                         *)
LEMMA GetAllListKeeps ==
    ASSUME Inv, UNCHANGED <<born, crashes, owner>>, NEW r \in Requests, GetAllList(r)
    PROVE  Inv'
<1> DEFINE q == req[r]
<1>1. q \in ReqType /\ ReqOwned(pc[r], q)
  BY DEF Inv, ReqInv
<1>2. StoreInv' /\ "err" \in Labels
  BY ReadFacts DEF GetAllList, Inv, Labels
<1>3. CASE /\ At(r, "List.read")
           /\ req' = [req EXCEPT ![r].page = lists[q.user][ListOrder[q.look]]]
           /\ Goto(r, "List.get")
  <2> DEFINE page == lists[q.user][ListOrder[q.look]]
             p == [q EXCEPT !.page = page]
  <2>1. q.user \in Users /\ ReqOwned("List.get", q)
    BY <1>1, <1>3 DEF At, ReqOwned, OwnLabels, TwinLabels, PeerLabels, FarLabels, Labels
  <2>2. q.look \in 1..3
    BY <1>1 DEF ReqType
  <2>3. ListOrder[q.look] \in Lists
    BY <2>2 DEF ListOrder, Lists
  <2>4. page \in Seq(Ref)
    BY <2>1, <2>3 DEF Inv, StoreInv
  <2>5. req' = [req EXCEPT ![r] = p]
    BY <1>3
  <2> HIDE DEF page, q
  <2>6. p \in ReqType /\ ReqOwned("List.get", p)
    BY <1>1, <2>1, <2>4 DEF ReqType, ReqOwned, PeerOwned
  <2> HIDE DEF p
  <2> QED
    BY <1>2, <1>3, <2>5, <2>6, AdvanceTo
<1>4. CASE At(r, "List.read") /\ Goto(r, "err") /\ Kept
  <2>1. ReqOwned("err", q)
    BY <1>1, <1>4 DEF At, ReqOwned, OwnLabels, TwinLabels, PeerLabels, FarLabels, Labels
  <2> QED
    BY <1>2, <1>4, <2>1, GoOnEither
<1>5. ASSUME At(r, "List.get"), q.page # <<>>, Goto(r, "List.get"),
             NEW seen \in SUBSET IssueIds,
             req' = [req EXCEPT ![r] = [q EXCEPT !.page = Tail(q.page), !.seen = seen]]
      PROVE  Inv'
  <2> DEFINE page == Tail(q.page)
             p == [q EXCEPT !.page = page, !.seen = seen]
  <2>1. q.page \in Seq(Ref)
    BY <1>1 DEF ReqType
  <2>2. page \in Seq(Ref) /\ seen \in SUBSET IssueIds
    BY <1>5, <2>1
  <2>3. ReqOwned("List.get", q) /\ req' = [req EXCEPT ![r] = p]
    BY <1>1, <1>5 DEF At
  <2> HIDE DEF q, page
  <2>4. p \in ReqType
    BY <1>1, <2>2 DEF ReqType
  <2>5. ReqOwned("List.get", p)
    BY <1>1, <2>3 DEF ReqType, ReqOwned, OwnLabels, TwinLabels, PeerLabels, FarLabels
  <2> HIDE DEF p
  <2> QED
    BY <1>2, <1>5, <2>3, <2>4, <2>5, AdvanceTo
<1>6. CASE /\ At(r, "List.get")
           /\ q.page # <<>>
           /\ LET id == Head(q.page).issue IN
              \/ req' = [req EXCEPT ![r].page = Tail(@),
                           ![r].seen = IF issues[id] = Gone THEN @ ELSE @ \cup {id}]
              \/ req' = [req EXCEPT ![r].page = Tail(@)]
           /\ Goto(r, "List.get")
  <2> DEFINE id == Head(q.page).issue
             seen == IF issues[id] = Gone THEN q.seen ELSE q.seen \cup {id}
  <2>1. q.page \in Seq(Ref) /\ q.seen \in SUBSET IssueIds
    BY <1>1 DEF ReqType
  <2>2. Head(q.page) \in Ref
    BY <1>6, <2>1
  <2>3. seen \in SUBSET IssueIds
    BY <2>1, <2>2 DEF Ref
  <2>4. \/ req' = [req EXCEPT ![r] = [q EXCEPT !.page = Tail(q.page), !.seen = seen]]
        \/ req' = [req EXCEPT ![r] = [q EXCEPT !.page = Tail(q.page), !.seen = q.seen]]
    BY <1>1, <1>6 DEF Inv, ReqInv, ReqType
  <2> HIDE DEF seen, q
  <2> QED
    BY <1>5, <1>6, <2>1, <2>3, <2>4 DEF q
<1>7. CASE /\ At(r, "List.get")
           /\ Goto(r, IF q.look < 3 THEN "List.read" ELSE "ok")
           /\ req' = [req EXCEPT ![r].look = IF @ < 3 THEN @ + 1 ELSE @]
  <2> DEFINE n == IF q.look < 3 THEN q.look + 1 ELSE q.look
             label == IF q.look < 3 THEN "List.read" ELSE "ok"
             p == [q EXCEPT !.look = n]
  <2>1. ReqOwned(label, q)
    BY <1>1, <1>7 DEF At, ReqOwned, OwnLabels, TwinLabels, PeerLabels, FarLabels, Labels
  <2>2. q.look \in 1..3
    BY <1>1 DEF ReqType
  <2>3. n \in 1..3
    BY <2>2
  <2>4. Goto(r, label) /\ req' = [req EXCEPT ![r] = p]
    BY <1>7
  <2> HIDE DEF n, label
  <2>5. p \in ReqType /\ ReqOwned(label, p)
    BY <1>1, <2>1, <2>3, LookFacts
  <2> HIDE DEF p
  <2> QED
    BY <1>2, <2>4, <2>5, AdvanceTo
<1> QED
  BY <1>3, <1>4, <1>6, <1>7 DEF GetAllList

(* Every store call of every handler.                                      *)
LEMMA StepKeeps ==
    ASSUME Inv, NEW r \in Requests, Step(r)
    PROVE  Inv'
<1>1. UNCHANGED <<born, crashes, owner>>
  BY DEF Step
<1>2. CASE AddIssue(r)
  BY <1>1, <1>2, AddIssueKeeps
<1>3. CASE SendIssue(r)
  BY <1>1, <1>3, SendIssueKeeps
<1>4. CASE EndTodo(r)
  BY <1>1, <1>4, EndTodoKeeps
<1>5. CASE EndCopy(r)
  BY <1>1, <1>5, EndCopyKeeps
<1>6. CASE EditIssue(r)
  BY <1>1, <1>6, EditIssueKeeps
<1>7. CASE TakeBack(r)
  BY <1>1, <1>7, TakeBackKeeps
<1>8. CASE AssignAnew(r)
  BY <1>1, <1>8, AssignAnewKeeps
<1>9. CASE AcceptIssue(r)
  BY <1>1, <1>9, AcceptIssueKeeps
<1>10. CASE BumpIssue(r)
  BY <1>1, <1>10, BumpIssueKeeps
<1>11. CASE GetAllList(r)
  BY <1>1, <1>11, GetAllListKeeps
<1> QED
  BY <1>2, <1>3, <1>4, <1>5, <1>6, <1>7, <1>8, <1>9, <1>10, <1>11 DEF Step

-----------------------------------------------------------------------------
(* Requests that arrive, and requests that are over.                       *)

(* Handing out fresh ids changes nothing for anybody else.                 *)
LEMMA ArriveKeeps ==
    ASSUME Inv, UNCHANGED <<lists, issues, faults, crashes>>, NEW r \in Requests,
           NEW label, NEW q \in ReqType, NEW makers \in Seq(Users),
           Arrive(r, label, q, makers), ReqOwned(label, q)'
    PROVE  Inv'
<1> DEFINE new == born + 1 .. born + Len(makers)
<1>1. Len(makers) \in Nat /\ \A i \in 1..Len(makers) : makers[i] \in Users
  OBVIOUS
<1>2. /\ born \in 0..MaxIssues /\ born' = born + Len(makers) /\ born' \in 0..MaxIssues
      /\ owner' = [id \in IssueIds |-> IF id \in new THEN makers[id - born] ELSE owner[id]]
  BY <1>1, BoundsAssumption DEF Arrive, Inv, StoreInv
<1>3. owner' \in [IssueIds -> Users \cup {NoUser}]
  <2>1. ASSUME NEW id \in IssueIds
        PROVE  (IF id \in new THEN makers[id - born] ELSE owner[id]) \in Users \cup {NoUser}
    <3>1. CASE id \in new
      <4>1. id - born \in 1..Len(makers)
        BY <1>1, <1>2, <3>1
      <4> QED
        BY <1>1, <3>1, <4>1
    <3>2. CASE id \notin new
      BY <3>2 DEF Inv, StoreInv
    <3> QED
      BY <3>1, <3>2
  <2> QED
    BY <1>2, <2>1
<1>4. ASSUME NEW id \in IssueIds, owner[id] \in Users
      PROVE  owner'[id] = owner[id]
  <2>1. ~(id > born)
    BY <1>4, SentinelAssumption DEF Inv, StoreInv, Fresh
  <2>2. id \notin new
    BY <1>1, <1>2, <2>1 DEF IssueIds
  <2> QED
    BY <1>2, <2>2
<1>5. ASSUME NEW ref, ref.fuser \in Users \cup {NoUser}, PeerOwned(ref)
      PROVE  PeerOwned(ref)'
  BY <1>4, <1>5 DEF PeerOwned
<1>6. ListsOwned'
  <2> SUFFICES ASSUME NEW u \in Users, NEW l \in Lists, NEW i \in 1..Len(lists[u][l])
               PROVE  RefOwned(u, lists[u][l][i])'
    BY DEF ListsOwned
  <2>1. lists[u][l] \in Seq(Ref) /\ RefOwned(u, lists[u][l][i])
    BY DEF Inv, StoreInv, ListsOwned
  <2>2. lists[u][l][i] \in Ref
    BY <2>1
  <2> DEFINE ref == lists[u][l][i]
  <2>3. ref.issue \in IssueIds /\ ref.fuser \in Users \cup {NoUser}
    BY <2>2 DEF Ref
  <2>4. owner[ref.issue] = u /\ PeerOwned(ref)
    BY <2>1 DEF RefOwned
  <2>5. owner'[ref.issue] = u
    BY <1>4, <2>3, <2>4
  <2>6. \A x : x = ref => PeerOwned(x)'
    BY <1>5, <2>3, <2>4
  <2> QED
    BY <2>5, <2>6 DEF RefOwned
<1>7. Fresh'
  <2> SUFFICES ASSUME NEW id \in IssueIds, id > born' PROVE owner'[id] = NoUser
    BY DEF Fresh
  <2>1. id > born /\ id \notin new
    BY <1>1, <1>2 DEF IssueIds
  <2> QED
    BY <1>2, <2>1 DEF Inv, StoreInv, Fresh
<1>8. StoreInv'
  BY <1>2, <1>3, <1>6, <1>7 DEF Inv, StoreInv
<1>9. ASSUME NEW p \in ReqType, NEW at, ReqOwned(at, p)
      PROVE  ReqOwned(at, p)'
  <2>1. p.ref.fuser \in Users \cup {NoUser}
    BY DEF ReqType, Ref, NoRef
  <2>2. PeerOwned(p.ref) => PeerOwned(p.ref)'
    BY <1>5, <2>1
  <2>3. at \in OwnLabels \cup TwinLabels => p.user \in Users
    BY <1>9 DEF ReqOwned, OwnLabels, TwinLabels
  <2> QED
    BY <1>4, <1>9, <2>2, <2>3 DEF ReqOwned
<1>10. ReqInv'
  <2>1. pc' = [pc EXCEPT ![r] = label] /\ req' = [req EXCEPT ![r] = q]
    BY DEF Arrive, Goto
  <2>2. pc' \in [Requests -> Labels] /\ req' \in [Requests -> ReqType]
    BY <2>1 DEF Inv, ReqInv, ReqOwned
  <2>3. ASSUME NEW s \in Requests
        PROVE  ReqOwned(pc[s], req[s])'
    <3>1. CASE s = r
      BY <2>1, <3>1 DEF Inv, ReqInv, ReqOwned, PeerOwned
    <3>2. CASE s # r
      <4>1. pc'[s] = pc[s] /\ req'[s] = req[s]
        BY <2>1, <3>2 DEF Inv, ReqInv
      <4>2. req[s] \in ReqType /\ ReqOwned(pc[s], req[s])
        BY DEF Inv, ReqInv
      <4> QED
        BY <1>9, <4>1, <4>2 DEF ReqOwned, PeerOwned
    <3> QED
      BY <3>1, <3>2
  <2> QED
    BY <2>2, <2>3 DEF ReqInv
<1> QED
  BY <1>8, <1>10 DEF Inv

(* The ids a request hands out when it arrives, and whose they are.        *)
LEMMA MakersOwn ==
    ASSUME Inv, NEW r, NEW label, NEW q, NEW makers \in Seq(Users), Arrive(r, label, q, makers),
           NEW i \in 1..Len(makers)
    PROVE  born + i \in IssueIds /\ owner'[born + i] = makers[i]
<1>1. Len(makers) \in Nat /\ born \in Nat /\ born + Len(makers) <= MaxIssues
  BY DEF Arrive, Inv, StoreInv
<1>2. born + i \in IssueIds /\ born + i \in born + 1 .. born + Len(makers) /\ (born + i) - born = i
  BY <1>1, BoundsAssumption DEF IssueIds
<1> QED
  BY <1>2 DEF Arrive

(* The ids a client can name are ids.                                      *)
LEMMA KnownIds ==
    ASSUME Inv
    PROVE  Known \subseteq IssueIds
BY BoundsAssumption DEF Inv, StoreInv, Known, IssueIds

(* A request that is not there has the type of one.                        *)
LEMMA NoReqType == NoReq \in ReqType
BY DEF NoReq, ReqType, Lists, Operations

(* Requests that make todos own what they make.                            *)
LEMMA BeginNewKeeps ==
    ASSUME Inv, UNCHANGED <<lists, issues, faults, crashes>>, NEW r \in Requests, BeginNew(r)
    PROVE  Inv'
<1>1. ASSUME NEW u \in Users, NEW text \in Texts, NEW q,
             q = [[NoReq EXCEPT !.user = u, !.issue = born + 1, !.text = text] EXCEPT !.kind = "Add"],
             Arrive(r, "Add.save", q, <<u>>)
      PROVE  Inv'
  <2>1. <<u>> \in Seq(Users) /\ Len(<<u>>) = 1 /\ <<u>>[1] = u
    OBVIOUS
  <2>2. born + 1 \in IssueIds /\ owner'[born + 1] = u
    BY <1>1, <2>1, MakersOwn
  <2>3. q \in ReqType /\ q.user = u /\ q.issue = born + 1
    BY <1>1, <2>2, NoReqType DEF ReqType, Operations
  <2>4. ReqOwned("Add.save", q)'
    BY <2>2, <2>3 DEF ReqOwned, OwnLabels, TwinLabels, PeerLabels, FarLabels, Labels
  <2> QED
    BY <1>1, <2>1, <2>3, <2>4, ArriveKeeps
<1>2. ASSUME NEW u \in Users, NEW text \in Texts, NEW v \in Users, NEW q,
             q = [[NoReq EXCEPT !.user = u, !.issue = born + 1, !.text = text]
                     EXCEPT !.kind = "Send", !.to = v, !.twin = born + 2],
             Arrive(r, "Send.save", q, <<u, v>>)
      PROVE  Inv'
  <2>1. <<u, v>> \in Seq(Users) /\ Len(<<u, v>>) = 2 /\ <<u, v>>[1] = u /\ <<u, v>>[2] = v
    OBVIOUS
  <2>2. /\ born + 1 \in IssueIds /\ owner'[born + 1] = u
        /\ born + 2 \in IssueIds /\ owner'[born + 2] = v
    <3> DEFINE makers == <<u, v>>
    <3>1. /\ makers \in Seq(Users) /\ makers[1] = u /\ makers[2] = v
          /\ 1 \in 1..Len(makers) /\ 2 \in 1..Len(makers)
          /\ Arrive(r, "Send.save", q, makers)
      BY <1>2, <2>1
    <3> HIDE DEF makers
    <3> QED
      BY <3>1, MakersOwn
  <2>3. /\ q \in ReqType /\ q.user = u /\ q.issue = born + 1
        /\ q.to = v /\ q.twin = born + 2
    BY <1>2, <2>2, NoReqType DEF ReqType, Operations
  <2>4. ReqOwned("Send.save", q)'
    BY <2>2, <2>3 DEF ReqOwned, OwnLabels, TwinLabels, PeerLabels, FarLabels, Labels
  <2> QED
    BY <1>2, <2>1, <2>3, <2>4, ArriveKeeps
<1> QED
  BY <1>1, <1>2 DEF BeginNew

(* Requests that end a todo may name any id.                               *)
LEMMA BeginEndKeeps ==
    ASSUME Inv, UNCHANGED <<lists, issues, faults, crashes>>, NEW r \in Requests, BeginEnd(r)
    PROVE  Inv'
<1>1. << >> \in Seq(Users)
  OBVIOUS
<1>2. ASSUME NEW u \in Users, NEW id \in Known, NEW kind \in {"Complete", "Remove"}, NEW q,
             q = [NoReq EXCEPT !.kind = kind, !.user = u, !.issue = id],
             Arrive(r, "End.find", q, << >>)
      PROVE  Inv'
  <2>1. q \in ReqType /\ q.user = u
    BY <1>2, KnownIds, NoReqType DEF ReqType, Operations
  <2>2. ReqOwned("End.find", q)'
    BY <2>1 DEF ReqOwned, OwnLabels, TwinLabels, PeerLabels, FarLabels, Labels
  <2> QED
    BY <1>1, <1>2, <2>1, <2>2, ArriveKeeps
<1>3. ASSUME NEW u \in Users, NEW q, q = [NoReq EXCEPT !.kind = "Pop", !.user = u],
             Arrive(r, "End.pop", q, << >>)
      PROVE  Inv'
  <2>1. q \in ReqType /\ q.user = u
    BY <1>3, NoReqType DEF ReqType, Operations
  <2>2. ReqOwned("End.pop", q)'
    BY <2>1 DEF ReqOwned, OwnLabels, TwinLabels, PeerLabels, FarLabels, Labels
  <2> QED
    BY <1>1, <1>3, <2>1, <2>2, ArriveKeeps
<1> QED
  BY <1>2, <1>3 DEF BeginEnd

(* So may requests that change one.                                        *)
LEMMA BeginChangeKeeps ==
    ASSUME Inv, UNCHANGED <<lists, issues, faults, crashes>>, NEW r \in Requests, BeginChange(r)
    PROVE  Inv'
<1>1. << >> \in Seq(Users)
  OBVIOUS
<1>2. ASSUME NEW u \in Users, NEW id \in Known, NEW text \in Texts, NEW q,
             q = [[NoReq EXCEPT !.user = u, !.issue = id] EXCEPT !.kind = "Edit", !.text = text],
             Arrive(r, "Edit.get", q, << >>)
      PROVE  Inv'
  <2>1. q \in ReqType /\ q.user = u
    BY <1>2, KnownIds, NoReqType DEF ReqType, Operations
  <2>2. ReqOwned("Edit.get", q)'
    BY <2>1 DEF ReqOwned, OwnLabels, TwinLabels, PeerLabels, FarLabels, Labels
  <2> QED
    BY <1>1, <1>2, <2>1, <2>2, ArriveKeeps
<1>3. ASSUME NEW u \in Users, NEW id \in Known, NEW v \in Users, NEW q,
             q = [[NoReq EXCEPT !.user = u, !.issue = id]
                     EXCEPT !.kind = "Assign", !.to = v, !.twin = born + 1],
             Arrive(r, "Assign.get", q, <<v>>)
      PROVE  Inv'
  <2>1. <<v>> \in Seq(Users) /\ Len(<<v>>) = 1 /\ <<v>>[1] = v
    OBVIOUS
  <2>2. born + 1 \in IssueIds /\ owner'[born + 1] = v /\ id \in IssueIds
    <3> DEFINE makers == <<v>>
    <3>1. /\ makers \in Seq(Users) /\ makers[1] = v /\ 1 \in 1..Len(makers)
          /\ Arrive(r, "Assign.get", q, makers)
      BY <1>3, <2>1
    <3> HIDE DEF makers
    <3>2. born + 1 \in IssueIds /\ owner'[born + 1] = v
      BY <3>1, MakersOwn
    <3> QED
      BY <3>2, KnownIds
  <2>3. /\ q \in ReqType /\ q.user = u /\ q.issue = id
        /\ q.to = v /\ q.twin = born + 1
    BY <1>3, <2>2, NoReqType DEF ReqType, Operations
  <2>4. ReqOwned("Assign.get", q)'
    BY <2>2, <2>3 DEF ReqOwned, OwnLabels, TwinLabels, PeerLabels, FarLabels, Labels
  <2> QED
    BY <1>3, <2>1, <2>3, <2>4, ArriveKeeps
<1>4. ASSUME NEW u \in Users, NEW id \in Known, NEW kind \in {"Accept", "Bump"},
             NEW label \in {"Accept.get", "Bump.ref"}, NEW q,
             q = [[NoReq EXCEPT !.user = u, !.issue = id] EXCEPT !.kind = kind],
             Arrive(r, label, q, << >>)
      PROVE  Inv'
  <2>1. q \in ReqType /\ q.user = u
    BY <1>4, KnownIds, NoReqType DEF ReqType, Operations
  <2>2. ReqOwned(label, q)'
    BY <2>1 DEF ReqOwned, OwnLabels, TwinLabels, PeerLabels, FarLabels, Labels
  <2> QED
    BY <1>1, <1>4, <2>1, <2>2, ArriveKeeps
<1> QED
  BY <1>2, <1>3, <1>4 DEF BeginChange

(* Requests that list name none.                                           *)
LEMMA BeginListKeeps ==
    ASSUME Inv, UNCHANGED <<lists, issues, faults, crashes>>, NEW r \in Requests, BeginList(r)
    PROVE  Inv'
<1>1. << >> \in Seq(Users)
  OBVIOUS
<1>2. ASSUME NEW u \in Users, NEW q, q = [NoReq EXCEPT !.kind = "List", !.user = u],
             Arrive(r, "List.read", q, << >>)
      PROVE  Inv'
  <2>1. q \in ReqType /\ q.user = u
    BY <1>2, NoReqType DEF ReqType, Operations
  <2>2. ReqOwned("List.read", q)'
    BY <2>1 DEF ReqOwned, OwnLabels, TwinLabels, PeerLabels, FarLabels, Labels
  <2> QED
    BY <1>1, <1>2, <2>1, <2>2, ArriveKeeps
<1> QED
  BY <1>2 DEF BeginList

(* A request that was answered, or died, leaves its place to the next.     *)
LEMMA OverKeeps ==
    ASSUME Inv, NEW r \in Requests, Return(r) \/ Crash(r)
    PROVE  Inv'
<1>1. UNCHANGED <<lists, issues, born, faults, owner>> /\ crashes' \in 0..MaxCrashes
  BY BoundsAssumption DEF Return, Crash, Inv, StoreInv
<1>2. StoreInv'
  BY <1>1, ListsUnchanged DEF Inv, StoreInv
<1>3. ReqOwned("idle", NoReq)
  BY DEF ReqOwned, OwnLabels, TwinLabels, PeerLabels, FarLabels, Labels
<1>4. pc' = [pc EXCEPT ![r] = "idle"] /\ req' = [req EXCEPT ![r] = NoReq]
  BY DEF Return, Crash, Goto
<1> QED
  BY <1>1, <1>2, <1>3, <1>4, NoReqType, Advance DEF Inv

-----------------------------------------------------------------------------
(* The theorems.                                                           *)

(* The plugin starts with empty lists and no requests.                     *)
LEMMA InitEstablishes ==
    ASSUME Init
    PROVE  Inv
<1>1. ListsOwned
  BY DEF Init, ListsOwned
<1>2. StoreInv
  BY <1>1, BoundsAssumption DEF Init, StoreInv, Fresh
<1>3. ReqInv
  BY NoReqType DEF Init, ReqInv, ReqOwned, OwnLabels, TwinLabels, PeerLabels, FarLabels, Labels
<1> QED
  BY <1>2, <1>3 DEF Inv

(* The induction step.                                                     *)
LEMMA NextKeeps ==
    ASSUME Inv, [Next]_vars
    PROVE  Inv'
<1>1. ASSUME NEW r \in Requests, Begin(r)
      PROVE  Inv'
  BY <1>1, BeginNewKeeps, BeginEndKeeps, BeginChangeKeeps, BeginListKeeps DEF Begin
<1>2. ASSUME NEW r \in Requests, Step(r) \/ Return(r) \/ Crash(r)
      PROVE  Inv'
  BY <1>2, StepKeeps, OverKeeps
<1>3. CASE UNCHANGED vars
  BY <1>3 DEF vars, Inv, StoreInv, ReqInv, ListsOwned, Fresh, RefOwned, PeerOwned, ReqOwned
<1> QED
  BY <1>1, <1>2, <1>3 DEF Next

(* What a handler knows of the todos it works on is right at every step.   *)
THEOREM InvHolds == Spec => []Inv
<1>1. Init => Inv
  BY InitEstablishes
<1>2. Inv /\ [Next]_vars => Inv'
  BY NextKeeps
<1> QED
  BY <1>1, <1>2, PTL DEF Spec

(* A todo is only ever listed for the user it was made for, and what points*)
(* to another user names a todo of that user: whatever ids clients name,   *)
(* whatever calls fail and whichever handlers die, for any number of users *)
(* and requests.                                                           *)
THEOREM OwnershipKept == Spec => []OwnersOnly
<1>1. Inv => OwnersOnly
  BY DEF Inv, StoreInv, ListsOwned, RefOwned, PeerOwned, OwnersOnly
<1> QED
  BY <1>1, InvHolds, PTL

(* The history of a listing holds todos.                                   *)
LEMMA HeldType ==
    ASSUME held \in [Requests -> SUBSET IssueIds], TrackHeld
    PROVE  held' \in [Requests -> SUBSET IssueIds]
<1>1. \A u : HeldBy(u) \subseteq IssueIds
  BY DEF HeldBy
<1> QED
  BY <1>1 DEF TrackHeld

(* Every variable of the list manager keeps its type.                      *)
THEOREM TypeCorrect == Spec => []TypeOK
<1> DEFINE HeldOK == held \in [Requests -> SUBSET IssueIds]
<1>1. Init => HeldOK
  BY DEF Init
<1>2. HeldOK /\ [Next]_vars => HeldOK'
  <2>1. CASE UNCHANGED vars
    BY <2>1 DEF vars
  <2>2. CASE Next
    BY <2>2, HeldType DEF Next
  <2> QED
    BY <2>1, <2>2
<1>3. Inv /\ HeldOK => TypeOK
  BY DEF Inv, StoreInv, ReqInv, TypeOK
<1> QED
  BY <1>1, <1>2, <1>3, InvHolds, PTL DEF Spec

-----------------------------------------------------------------------------
(* Listings beside everything else.                                        *)
(*                                                                         *)
(* A listing reads the inbox, the own list and the sent list, one after    *)
(* the other.  A todo that stays with its user can be missed only if it    *)
(* moves from a list not read yet to one already read.  It does not: what  *)
(* is received goes from the inbox to the own list, what is one's own goes *)
(* between the own and the sent list, and is in neither on its way.        *)
(* So every id is one or the other for good.  C is the set of ids that     *)
(* were made for receivers: the copies.                                    *)

(* Where a reference may be: copies in the inbox, originals in the sent    *)
(* list, either in the own list, where the reference tells which it is.    *)
Fits(C, l, ref) ==
    /\ l = "In" => ref.issue \in C /\ ref.fissue # NoIssue
    /\ l = "Out" => ref.issue \notin C
    /\ l = "My" => (ref.issue \in C <=> ref.fissue # NoIssue)

ListsSorted(C) ==
    /\ C \subseteq 1..born
    /\ \A u \in Users, l \in Lists : IdsUnique(lists[u][l])
    /\ \A u \in Users, l \in Lists : \A i \in 1..Len(lists[u][l]) : Fits(C, l, lists[u][l][i])
    /\ \A u \in Users : \A id : ~(Holds(lists[u]["My"], id) /\ Holds(lists[u]["Out"], id))

(* Where a request has a todo of its user in hand: listed by nobody.       *)
CarryLabels ==
    {"Add.save", "Add.list", "Send.save", "Send.saveTwin", "Send.out",
     "Assign.my", "Assign.save", "Assign.out"}

(* Where it has found one, and is about to take it.                        *)
TakingLabels ==
    {"Assign.ffind", "Assign.funlist", "Assign.ftake", "Assign.fdrop", "Assign.unlist"}

ListLabels == {"List.read", "List.get"}

(* Where a request claims nothing and is no listing.                       *)
PlainLabels == Labels \ (CarryLabels \cup TwinLabels \cup ListLabels \cup {"Accept.my"})

Knows(C, label, q) ==
    /\ label \in CarryLabels => q.issue \notin C
    /\ label \in TwinLabels => q.twin \in C
    /\ label = "Accept.my" => q.issue \in C /\ q.ref.fissue # NoIssue
    /\ label = "Assign.found" /\ ~Received(q) => q.issue \notin C
    /\ label \in TakingLabels =>
          q.issue \notin C /\ q.list \in {"My", "Out"} /\ (q.to = q.user => q.list = "Out")
    /\ label \in ListLabels => q.kind = "List"
    /\ q.kind = "List" => label \in ListLabels \cup {"ok", "err"}

(* What is in one request's hand, or is a copy not delivered yet, is       *)
(* listed nowhere and in no other hand.                                    *)
Apart ==
    \A r \in Requests :
        /\ pc[r] \in CarryLabels =>
              /\ \A u \in Users : /\ ~Holds(lists[u]["My"], req[r].issue)
                                  /\ ~Holds(lists[u]["Out"], req[r].issue)
              /\ \A s \in Requests \ {r} :
                    pc[s] \in CarryLabels => req[s].issue # req[r].issue
        /\ pc[r] \in TwinLabels =>
              /\ \A u \in Users : /\ ~Holds(lists[u]["My"], req[r].twin)
                                  /\ ~Holds(lists[u]["In"], req[r].twin)
              /\ \A s \in Requests \ {r} :
                    pc[s] \in TwinLabels => req[s].twin # req[r].twin
              /\ \A s \in Requests : pc[s] = "Accept.my" => req[s].issue # req[r].twin

Sorted(C) ==
    /\ ListsSorted(C)
    /\ \A r \in Requests : Knows(C, pc[r], req[r])
    /\ Apart

-----------------------------------------------------------------------------
(* What a step does to the lists: it changes one of them, or none.         *)

Only(u, l) ==
    \A v \in Users, m \in Lists : v # u \/ m # l => lists'[v][m] = lists[v][m]

Shrinks(u, l) ==
    /\ Only(u, l)
    /\ IdsUnique(lists'[u][l])
    /\ \A j \in 1..Len(lists'[u][l]) :
          \E i \in 1..Len(lists[u][l]) : lists'[u][l][j] = lists[u][l][i]

Grows(u, l, ref) ==
    /\ Only(u, l)
    /\ ~Holds(lists[u][l], ref.issue)
    /\ lists'[u][l] = Append(lists[u][l], ref)

LEMMA HoldsMeans ==
    ASSUME NEW list, NEW id
    PROVE  Holds(list, id) <=> \E i \in 1..Len(list) : list[i].issue = id
BY DEF Holds, Positions

(* What shrinks has nothing new.                                           *)
LEMMA ShrinkingHolds ==
    ASSUME NEW u \in Users, NEW l \in Lists, Shrinks(u, l),
           NEW v \in Users, NEW m \in Lists, NEW id, Holds(lists'[v][m], id)
    PROVE  Holds(lists[v][m], id)
<1>1. CASE v # u \/ m # l
  BY <1>1 DEF Shrinks, Only
<1>2. CASE v = u /\ m = l
  <2>1. PICK j \in 1..Len(lists'[u][l]) : lists'[u][l][j].issue = id
    BY <1>2, HoldsMeans
  <2>2. PICK i \in 1..Len(lists[u][l]) : lists'[u][l][j] = lists[u][l][i]
    BY <2>1 DEF Shrinks
  <2> QED
    BY <1>2, <2>1, <2>2, HoldsMeans
<1> QED
  BY <1>1, <1>2

(* What grows has one todo more.                                           *)
LEMMA GrowingHolds ==
    ASSUME lists \in [Users -> [Lists -> Seq(Ref)]],
           NEW u \in Users, NEW l \in Lists, NEW ref \in Ref, Grows(u, l, ref),
           NEW v \in Users, NEW m \in Lists, NEW id
    PROVE  Holds(lists'[v][m], id) <=>
               Holds(lists[v][m], id) \/ (v = u /\ m = l /\ id = ref.issue)
<1>1. CASE v # u \/ m # l
  BY <1>1 DEF Grows, Only
<1>2. CASE v = u /\ m = l
  <2> DEFINE old == lists[u][l]
             new == Append(old, ref)
  <2>1. old \in Seq(Ref) /\ lists'[v][m] = new
    BY <1>2 DEF Grows
  <2>2. /\ Len(new) = Len(old) + 1 /\ Len(old) \in Nat
        /\ new[Len(old) + 1] = ref
        /\ \A i \in 1..Len(old) : new[i] = old[i]
    BY <2>1
  <2> HIDE DEF new, old
  <2>3. ASSUME Holds(new, id) PROVE Holds(old, id) \/ id = ref.issue
    <3>1. PICK i \in 1..Len(new) : new[i].issue = id
      BY <2>3, HoldsMeans
    <3>2. i \in 1..Len(old) \/ i = Len(old) + 1
      BY <2>2
    <3> QED
      BY <2>2, <3>1, <3>2, HoldsMeans
  <2>4. ASSUME Holds(old, id) PROVE Holds(new, id)
    <3>1. PICK i \in 1..Len(old) : old[i].issue = id
      BY <2>4, HoldsMeans
    <3>2. i \in 1..Len(new) /\ new[i] = old[i]
      BY <2>2
    <3> QED
      BY <3>1, <3>2, HoldsMeans
  <2>5. Holds(new, ref.issue)
    <3>1. Len(old) + 1 \in 1..Len(new) /\ new[Len(old) + 1].issue = ref.issue
      BY <2>2
    <3> QED
      BY <3>1, HoldsMeans
  <2> QED
    BY <1>2, <2>1, <2>3, <2>4, <2>5 DEF old
<1> QED
  BY <1>1, <1>2

(* Where a todo is listed after a list has grown.                          *)
LEMMA ListedAfter ==
    ASSUME StoreInv, NEW u \in Users, NEW l \in Lists, NEW ref \in Ref, Grows(u, l, ref)
    PROVE  \A v \in Users, m \in Lists : \A id : Holds(lists'[v][m], id) <=>
               Holds(lists[v][m], id) \/ (v = u /\ m = l /\ id = ref.issue)
BY GrowingHolds, ZenonT(60) DEF StoreInv

(* Removing a todo leaves the others, each once.                           *)
LEMMA RemoveReferenceMoves ==
    ASSUME StoreInv, \A v \in Users, m \in Lists : IdsUnique(lists[v][m]),
           NEW r \in Requests, NEW u, NEW id, NEW l \in Lists, NEW ok, NEW err,
           RemoveReference(r, u, id, l, ok, err)
    PROVE  \/ Goto(r, ok) /\ u \in Users /\ Shrinks(u, l)
              /\ Holds(lists[u][l], id) /\ ~Holds(lists'[u][l], id)
           \/ Goto(r, ok) /\ u \notin Users /\ UNCHANGED lists
           \/ Goto(r, err) /\ UNCHANGED lists
<1> DEFINE op == [kind |-> "remove", ref |-> [NoRef EXCEPT !.issue = id]]
           old == lists[u][l]
           new == Effect(old, op)
<1>1. op.kind = "remove" /\ op.kind \in Kinds /\ op.ref.issue = id
  BY DEF Kinds, NoRef
<1>2. \/ /\ ~Refuses(old, op)
         /\ lists' = [lists EXCEPT ![u][l] = new]
         /\ Goto(r, ok)
      \/ Goto(r, err) /\ UNCHANGED lists
  BY DEF RemoveReference, ChangeList
<1>3. CASE u \notin Users
  BY <1>2, <1>3 DEF StoreInv
<1>4. CASE u \in Users /\ Goto(r, err) /\ UNCHANGED lists
  BY <1>4
<1>5. CASE /\ u \in Users
           /\ ~Refuses(old, op)
           /\ lists' = [lists EXCEPT ![u][l] = new]
           /\ Goto(r, ok)
  <2>1. old \in Seq(Ref) /\ IdsUnique(old)
    BY <1>5 DEF StoreInv
  <2>2. Holds(old, id)
    BY <1>1, <1>5 DEF Refuses
  <2>3. lists'[u][l] = new /\ Only(u, l)
    BY <1>5 DEF StoreInv, Only
  <2> DEFINE p == PositionOf(old, id)
             cut == RemoveAt(old, p)
  <2>4. new = cut
    BY <1>1 DEF Effect, RemoveRef
  <2>5. p \in 1..Len(old) /\ old[p].issue = id
    BY <2>1, <2>2, PositionFacts
  <2> HIDE DEF p, old
  <2>6. /\ Len(cut) = Len(old) - 1 /\ Len(old) \in Nat
        /\ \A j \in 1..(Len(old) - 1) : cut[j] = old[IF j < p THEN j ELSE j + 1]
    <3>1. old \in Seq(Ref) /\ p \in 1..Len(old)
      BY <2>1, <2>5
    <3>2. Len(old) \in Nat
      BY <3>1
    <3>3. /\ Len(cut) = Len(old) - 1
          /\ \A j \in 1..(Len(old) - 1) : cut[j] = old[IF j < p THEN j ELSE j + 1]
      <4> HIDE DEF op, new
      <4> QED
        BY ONLY <3>1, RemoveAtFacts, ZenonT(60) DEF cut
    <3> QED
      BY <3>2, <3>3
  <2> HIDE DEF cut
  <2>7. ASSUME NEW j \in 1..Len(cut)
        PROVE  \E i \in 1..Len(old) : cut[j] = old[i] /\ i # p
    <3> DEFINE i == IF j < p THEN j ELSE j + 1
    <3>1. i \in 1..Len(old) /\ cut[j] = old[i] /\ i # p
      BY <2>5, <2>6
    <3> QED
      BY <3>1
  <2>8. ~Holds(cut, id)
    BY <2>1, <2>5, <2>7, HoldsMeans DEF IdsUnique
  <2>9. IdsUnique(cut)
    <3>1. ASSUME NEW j \in 1..Len(cut), NEW k \in 1..Len(cut), cut[j].issue = cut[k].issue
          PROVE  j = k
      <4> DEFINE a == IF j < p THEN j ELSE j + 1
                 b == IF k < p THEN k ELSE k + 1
      <4>1. a \in 1..Len(old) /\ b \in 1..Len(old) /\ cut[j] = old[a] /\ cut[k] = old[b]
        BY <2>5, <2>6
      <4>2. a = b
        BY <2>1, <3>1, <4>1 DEF IdsUnique
      <4> QED
        BY <4>2, <2>5, <2>6
    <3> QED
      BY <3>1 DEF IdsUnique
  <2>10. Shrinks(u, l)
    BY <2>3, <2>4, <2>7, <2>9 DEF Shrinks, old
  <2> QED
    BY <1>5, <2>2, <2>3, <2>4, <2>8, <2>10 DEF old
<1> QED
  BY <1>2, <1>3, <1>4, <1>5

(* A bump keeps what a list has.                                           *)
LEMMA BumpReferenceMoves ==
    ASSUME StoreInv, \A v \in Users, m \in Lists : IdsUnique(lists[v][m]),
           NEW r \in Requests, NEW u, NEW id, NEW l \in Lists, NEW ok, NEW err,
           BumpReference(r, u, id, l, ok, err)
    PROVE  UNCHANGED lists \/ \E v \in Users : Shrinks(v, l)
<1> DEFINE op == [kind |-> "bump", ref |-> [NoRef EXCEPT !.issue = id]]
           old == lists[u][l]
           new == Effect(old, op)
<1>1. op.kind = "bump" /\ op.kind \in Kinds /\ op.kind # "add"
  BY DEF Kinds
<1>2. \/ ~Refuses(old, op) /\ lists' = [lists EXCEPT ![u][l] = new]
      \/ UNCHANGED lists
  BY DEF BumpReference, ChangeList
<1>3. CASE u \notin Users
  BY <1>2, <1>3 DEF StoreInv
<1>4. CASE u \in Users /\ ~Refuses(old, op) /\ lists' = [lists EXCEPT ![u][l] = new]
  <2>1. old \in Seq(Ref) /\ IdsUnique(old)
    BY <1>4 DEF StoreInv
  <2>2. lists'[u][l] = new /\ Only(u, l)
    BY <1>4 DEF StoreInv, Only
  <2> HIDE DEF op, old
  <2>3. IdsUnique(new) /\ \A j \in 1..Len(new) : \E i \in 1..Len(old) : new[j] = old[i]
    BY <1>1, <1>4, <2>1, EffectFacts, EffectKeepsIdsUnique
  <2>4. Shrinks(u, l)
    BY <2>2, <2>3 DEF Shrinks, old
  <2> QED
    BY <1>4, <2>4
<1> QED
  BY <1>2, <1>3, <1>4

(* So does a pop, but for what is popped.                                  *)
LEMMA PopReferenceMoves ==
    ASSUME StoreInv, \A v \in Users, m \in Lists : IdsUnique(lists[v][m]),
           NEW r \in Requests, NEW u \in Users, NEW l \in Lists, NEW ok, NEW err,
           PopReference(r, u, l, ok, err)
    PROVE  UNCHANGED lists \/ Shrinks(u, l)
<1> DEFINE old == lists[u][l]
           new == Tail(old)
<1>1. CASE old # <<>> /\ lists' = [lists EXCEPT ![u][l] = PopRef(@)]
  <2>1. old \in Seq(Ref) /\ IdsUnique(old)
    BY DEF StoreInv
  <2>2. lists'[u][l] = new /\ Only(u, l)
    BY <1>1 DEF StoreInv, Only, PopRef
  <2>3. /\ Len(new) = Len(old) - 1 /\ Len(old) \in Nat
        /\ \A j \in 1..Len(new) : j + 1 \in 1..Len(old) /\ new[j] = old[j + 1]
    BY <1>1, <2>1
  <2> HIDE DEF new, old
  <2>4. IdsUnique(new)
    <3>1. ASSUME NEW j \in 1..Len(new), NEW k \in 1..Len(new), new[j].issue = new[k].issue
          PROVE  j = k
      <4>1. j + 1 = k + 1
        BY <2>1, <2>3, <3>1 DEF IdsUnique
      <4> QED
        BY <4>1, <2>3
    <3> QED
      BY <3>1 DEF IdsUnique
  <2> QED
    BY <2>2, <2>3, <2>4 DEF Shrinks, old
<1> QED
  BY <1>1 DEF PopReference

(* Adding a reference adds this reference, or nothing.                     *)
LEMMA AddReferenceMoves ==
    ASSUME StoreInv, NEW r \in Requests, NEW u \in Users, NEW id, NEW l \in Lists,
           NEW fuser, NEW fissue, NEW ok, NEW err,
           AddReference(r, u, id, l, fuser, fissue, ok, err)
    PROVE  \/ Goto(r, ok) /\ Grows(u, l, [issue |-> id, fuser |-> fuser, fissue |-> fissue])
           \/ Goto(r, err) /\ UNCHANGED lists
<1> DEFINE ref == [issue |-> id, fuser |-> fuser, fissue |-> fissue]
           op == [kind |-> "add", ref |-> ref]
<1>1. op.kind = "add" /\ op.ref = ref
  OBVIOUS
<1>2. ChangeList(r, u, l, op, ok, err)
  BY DEF AddReference
<1> HIDE DEF op, ref
<1>3. \/ /\ ~Refuses(lists[u][l], op)
         /\ lists' = [lists EXCEPT ![u][l] = Effect(@, op)]
         /\ Goto(r, ok)
      \/ Goto(r, err) /\ UNCHANGED lists
  BY <1>2 DEF ChangeList
<1>4. CASE /\ ~Refuses(lists[u][l], op)
           /\ lists' = [lists EXCEPT ![u][l] = Effect(@, op)]
           /\ Goto(r, ok)
  <2>1. ~Holds(lists[u][l], ref.issue)
    BY <1>1, <1>4 DEF Refuses
  <2>2. Effect(lists[u][l], op) = Append(lists[u][l], ref)
    BY <1>1 DEF Effect, AddRef
  <2>3. Only(u, l) /\ lists'[u][l] = Append(lists[u][l], ref)
    BY <1>4, <2>2 DEF StoreInv, Only
  <2> QED
    BY <1>4, <2>1, <2>3 DEF Grows, ref
<1> QED
  BY <1>3, <1>4 DEF ref

-----------------------------------------------------------------------------
(* What a step does to the claims of the requests.                         *)

(* What listings rely on: one list changes at most, and what comes into an *)
(* inbox was in no list of its user.                                       *)
Moves ==
    \/ UNCHANGED lists
    \/ \E u \in Users, l \in Lists : Shrinks(u, l)
    \/ \E u \in Users, l \in Lists, ref \in Ref :
          /\ Grows(u, l, ref)
          /\ l = "In" => \A m \in Lists : ~Holds(lists[u][m], ref.issue)

(* The other requests stay where they are.                                 *)
Others(r) ==
    \A s \in Requests \ {r} : pc'[s] = pc[s] /\ req'[s] = req[s]

(* The request claims nothing that it did not claim before.                *)
Less(r) ==
    /\ pc'[r] \in CarryLabels => pc[r] \in CarryLabels /\ req'[r].issue = req[r].issue
    /\ pc'[r] \in TwinLabels => pc[r] \in TwinLabels /\ req'[r].twin = req[r].twin
    /\ pc'[r] # "Accept.my"

(* The claims stay apart if what is claimed is not listed and what is new  *)
(* is not claimed by others.                                               *)
LEMMA ApartAfter ==
    ASSUME Apart, NEW r \in Requests, Others(r),
           \A s \in Requests : pc'[s] \in CarryLabels =>
               \A u \in Users : /\ ~Holds(lists'[u]["My"], req'[s].issue)
                                /\ ~Holds(lists'[u]["Out"], req'[s].issue),
           \A s \in Requests : pc'[s] \in TwinLabels =>
               \A u \in Users : /\ ~Holds(lists'[u]["My"], req'[s].twin)
                                /\ ~Holds(lists'[u]["In"], req'[s].twin),
           \A s \in Requests \ {r} :
               /\ pc'[r] \in CarryLabels /\ pc[s] \in CarryLabels =>
                     req[s].issue # req'[r].issue
               /\ pc'[r] \in TwinLabels /\ pc[s] \in TwinLabels => req[s].twin # req'[r].twin
               /\ pc'[r] \in TwinLabels /\ pc[s] = "Accept.my" => req[s].issue # req'[r].twin
               /\ pc'[r] = "Accept.my" /\ pc[s] \in TwinLabels => req[s].twin # req'[r].issue
    PROVE  Apart'
<1>1. ASSUME NEW a \in Requests, NEW s \in Requests \ {a},
             pc'[a] \in CarryLabels, pc'[s] \in CarryLabels
      PROVE  req'[s].issue # req'[a].issue
  BY <1>1 DEF Apart, Others
<1>2. ASSUME NEW a \in Requests, NEW s \in Requests \ {a},
             pc'[a] \in TwinLabels, pc'[s] \in TwinLabels
      PROVE  req'[s].twin # req'[a].twin
  BY <1>2 DEF Apart, Others
<1>3. ASSUME NEW a \in Requests, NEW s \in Requests,
             pc'[a] \in TwinLabels, pc'[s] = "Accept.my"
      PROVE  req'[s].issue # req'[a].twin
  <2>1. s # a
    BY <1>3 DEF TwinLabels
  <2> QED
    BY <1>3, <2>1 DEF Apart, Others
<1> QED
  BY <1>1, <1>2, <1>3 DEF Apart

(* A request that claims less claims what it claimed.                      *)
LEMMA LessClaims ==
    ASSUME NEW r \in Requests, Others(r), Less(r), NEW s \in Requests
    PROVE  /\ pc'[s] \in CarryLabels => pc[s] \in CarryLabels /\ req'[s].issue = req[s].issue
           /\ pc'[s] \in TwinLabels => pc[s] \in TwinLabels /\ req'[s].twin = req[s].twin
           /\ pc'[s] = "Accept.my" => pc[s] = "Accept.my" /\ req'[s].issue = req[s].issue
BY DEF Others, Less

(* What the requests know, they know still.                                *)
LEMMA KnownStill ==
    ASSUME NEW C, \A s \in Requests : Knows(C, pc[s], req[s]),
           NEW r \in Requests, Others(r), Knows(C, pc'[r], req'[r])
    PROVE  \A s \in Requests : Knows(C, pc'[s], req'[s])
BY DEF Others

(* A list that loses todos stays sorted.                                   *)
LEMMA SortedShrinking ==
    ASSUME NEW C, ListsSorted(C), UNCHANGED born,
           UNCHANGED lists \/ \E u \in Users, l \in Lists : Shrinks(u, l)
    PROVE  /\ ListsSorted(C)'
           /\ \A v \in Users, m \in Lists : \A id :
                 Holds(lists'[v][m], id) => Holds(lists[v][m], id)
<1>1. CASE UNCHANGED lists
  BY <1>1 DEF ListsSorted
<1>2. CASE \E u \in Users, l \in Lists : Shrinks(u, l)
  <2>1. PICK u \in Users, l \in Lists : Shrinks(u, l)
    BY <1>2
  <2>2. \A v \in Users, m \in Lists : \A id : Holds(lists'[v][m], id) => Holds(lists[v][m], id)
    BY <2>1, ShrinkingHolds
  <2>3. ASSUME NEW v \in Users, NEW m \in Lists
        PROVE  /\ IdsUnique(lists'[v][m])
               /\ \A i \in 1..Len(lists'[v][m]) : Fits(C, m, lists'[v][m][i])
    <3>1. CASE v # u \/ m # l
      BY <2>1, <3>1 DEF ListsSorted, Shrinks, Only
    <3>2. CASE v = u /\ m = l
      BY <2>1, <3>2 DEF ListsSorted, Shrinks
    <3> QED
      BY <3>1, <3>2
  <2>4. ASSUME NEW v \in Users, NEW id
        PROVE  ~(Holds(lists'[v]["My"], id) /\ Holds(lists'[v]["Out"], id))
    <3>1. "My" \in Lists /\ "Out" \in Lists
      BY DEF Lists
    <3> QED
      BY <2>2, <3>1 DEF ListsSorted
  <2>5. C \subseteq 1..born'
    BY DEF ListsSorted
  <2> QED
    BY <2>2, <2>3, <2>4, <2>5 DEF ListsSorted
<1> QED
  BY <1>1, <1>2

(* A step that neither lists nor claims anything new.                      *)
LEMMA SortedSmooth ==
    ASSUME NEW C, Sorted(C), UNCHANGED born, NEW r \in Requests, Others(r), Less(r),
           Knows(C, pc'[r], req'[r]),
           UNCHANGED lists \/ \E u \in Users, l \in Lists : Shrinks(u, l)
    PROVE  Sorted(C)' /\ Moves
<1>1. /\ ListsSorted(C)'
      /\ \A v \in Users, m \in Lists : \A id :
            Holds(lists'[v][m], id) => Holds(lists[v][m], id)
  BY SortedShrinking DEF Sorted
<1>2. Apart
  BY DEF Sorted
<1>3. "My" \in Lists /\ "In" \in Lists /\ "Out" \in Lists
  BY DEF Lists
<1>4. \A s \in Requests : pc'[s] \in CarryLabels =>
          \A u \in Users : /\ ~Holds(lists'[u]["My"], req'[s].issue)
                           /\ ~Holds(lists'[u]["Out"], req'[s].issue)
  BY <1>1, <1>2, <1>3, LessClaims DEF Apart
<1>5. \A s \in Requests : pc'[s] \in TwinLabels =>
          \A u \in Users : /\ ~Holds(lists'[u]["My"], req'[s].twin)
                           /\ ~Holds(lists'[u]["In"], req'[s].twin)
  BY <1>1, <1>2, <1>3, LessClaims DEF Apart
<1>6. ASSUME NEW s \in Requests \ {r}
      PROVE  /\ pc'[r] \in CarryLabels /\ pc[s] \in CarryLabels =>
                   req[s].issue # req'[r].issue
             /\ pc'[r] \in TwinLabels /\ pc[s] \in TwinLabels => req[s].twin # req'[r].twin
             /\ pc'[r] \in TwinLabels /\ pc[s] = "Accept.my" => req[s].issue # req'[r].twin
             /\ pc'[r] = "Accept.my" /\ pc[s] \in TwinLabels => req[s].twin # req'[r].issue
  BY <1>2, <1>6 DEF Apart, Less
<1>7. Apart'
  BY <1>2, <1>4, <1>5, <1>6, ApartAfter
<1>8. \A s \in Requests : Knows(C, pc'[s], req'[s])
  BY KnownStill DEF Sorted
<1> QED
  BY <1>1, <1>7, <1>8 DEF Sorted, Moves

(* A step that lists a todo where it belongs and where it cannot be yet.   *)
LEMMA SortedGrowing ==
    ASSUME NEW C, Sorted(C), StoreInv, UNCHANGED born, NEW r \in Requests, Others(r), Less(r),
           Knows(C, pc'[r], req'[r]),
           NEW u \in Users, NEW l \in Lists, NEW ref \in Ref, Grows(u, l, ref), Fits(C, l, ref),
           l = "My" => ~Holds(lists[u]["Out"], ref.issue),
           l = "Out" => ~Holds(lists[u]["My"], ref.issue),
           l # "In" => \A s \in Requests : pc'[s] \in CarryLabels => req'[s].issue # ref.issue,
           l # "Out" => \A s \in Requests : pc'[s] \in TwinLabels => req'[s].twin # ref.issue
    PROVE  Sorted(C)'
<1>1. \A v \in Users, m \in Lists : \A id :
          Holds(lists'[v][m], id) <=> Holds(lists[v][m], id) \/ (v = u /\ m = l /\ id = ref.issue)
  BY ListedAfter
<1>2. ListsSorted(C) /\ Apart
  BY DEF Sorted
<1>3. "My" \in Lists /\ "In" \in Lists /\ "Out" \in Lists
  BY DEF Lists
<1>4. \A s \in Requests : pc'[s] \in CarryLabels =>
          \A v \in Users : /\ ~Holds(lists'[v]["My"], req'[s].issue)
                           /\ ~Holds(lists'[v]["Out"], req'[s].issue)
  BY <1>1, <1>2, <1>3, LessClaims, SMTT(30) DEF Apart
<1>5. \A s \in Requests : pc'[s] \in TwinLabels =>
          \A v \in Users : /\ ~Holds(lists'[v]["My"], req'[s].twin)
                           /\ ~Holds(lists'[v]["In"], req'[s].twin)
  BY <1>1, <1>2, <1>3, LessClaims, SMTT(30) DEF Apart
<1>6. ASSUME NEW s \in Requests \ {r}
      PROVE  /\ pc'[r] \in CarryLabels /\ pc[s] \in CarryLabels =>
                   req[s].issue # req'[r].issue
             /\ pc'[r] \in TwinLabels /\ pc[s] \in TwinLabels => req[s].twin # req'[r].twin
             /\ pc'[r] \in TwinLabels /\ pc[s] = "Accept.my" => req[s].issue # req'[r].twin
             /\ pc'[r] = "Accept.my" /\ pc[s] \in TwinLabels => req[s].twin # req'[r].issue
  BY <1>2, <1>6 DEF Apart, Less
<1>7. Apart'
  BY <1>2, <1>4, <1>5, <1>6, ApartAfter
<1>8. ASSUME NEW v \in Users, NEW m \in Lists
      PROVE  /\ IdsUnique(lists'[v][m])
             /\ \A i \in 1..Len(lists'[v][m]) : Fits(C, m, lists'[v][m][i])
  <2>1. CASE v # u \/ m # l
    BY <1>2, <2>1 DEF ListsSorted, Grows, Only
  <2>2. CASE v = u /\ m = l
    <3> DEFINE old == lists[u][l]
               new == Append(old, ref)
    <3>1. /\ old \in Seq(Ref) /\ lists'[v][m] = new /\ IdsUnique(old)
          /\ \A i \in 1..Len(old) : Fits(C, l, old[i]) /\ old[i].issue # ref.issue
      BY <1>2, <2>2, HoldsMeans DEF Grows, StoreInv, ListsSorted
    <3>2. /\ Len(new) = Len(old) + 1 /\ Len(old) \in Nat
          /\ new[Len(old) + 1] = ref
          /\ \A i \in 1..Len(old) : new[i] = old[i]
      BY <3>1
    <3> HIDE DEF new, old
    <3>3. \A i \in 1..Len(new) : i \in 1..Len(old) \/ i = Len(old) + 1
      BY <3>2
    <3>4. IdsUnique(new)
      BY <3>1, <3>2, <3>3 DEF IdsUnique
    <3>5. \A i \in 1..Len(new) : Fits(C, l, new[i])
      BY <3>1, <3>2, <3>3
    <3> QED
      BY <2>2, <3>1, <3>4, <3>5
  <2> QED
    BY <2>1, <2>2
<1>9. ASSUME NEW v \in Users, NEW id,
             Holds(lists'[v]["My"], id), Holds(lists'[v]["Out"], id)
      PROVE  FALSE
  <2>1. ~Holds(lists[v]["My"], id) \/ ~Holds(lists[v]["Out"], id)
    BY <1>2 DEF ListsSorted
  <2>2. v = u /\ id = ref.issue /\ (l = "My" \/ l = "Out")
    BY <1>1, <1>3, <1>9, <2>1
  <2>3. l = "My" => Holds(lists[v]["Out"], id)
    BY <1>1, <1>3, <1>9
  <2>4. l = "Out" => Holds(lists[v]["My"], id)
    BY <1>1, <1>3, <1>9
  <2> QED
    BY <2>2, <2>3, <2>4
<1>10. ListsSorted(C)'
  BY <1>2, <1>8, <1>9 DEF ListsSorted
<1>11. \A s \in Requests : Knows(C, pc'[s], req'[s])
  BY KnownStill DEF Sorted
<1> QED
  BY <1>7, <1>10, <1>11 DEF Sorted

(* A todo that was in its request's hand, put into a list of its user.     *)
LEMMA SortedPlacing ==
    ASSUME NEW C, Sorted(C), StoreInv, UNCHANGED born, NEW r \in Requests, Others(r), Less(r),
           Knows(C, pc'[r], req'[r]), pc[r] \in CarryLabels, pc'[r] \notin CarryLabels,
           NEW u \in Users, NEW l \in {"My", "Out"}, NEW ref \in Ref, Grows(u, l, ref),
           ref.issue = req[r].issue, l = "My" => ref.fissue = NoIssue
    PROVE  Sorted(C)' /\ Moves
<1>1. ref.issue \notin C /\ Apart /\ l \in Lists
  BY DEF Sorted, Knows, Lists
<1>2. Fits(C, l, ref)
  BY <1>1 DEF Fits
<1>3. ~Holds(lists[u]["My"], ref.issue) /\ ~Holds(lists[u]["Out"], ref.issue)
  BY <1>1 DEF Apart
<1>4. \A s \in Requests : pc'[s] \in CarryLabels => req'[s].issue # ref.issue
  BY <1>1 DEF Apart, Others
<1>5. \A s \in Requests : pc'[s] \in TwinLabels => req'[s].twin # ref.issue
  BY <1>1, LessClaims DEF Sorted, Knows
<1>6. Moves
  BY <1>1 DEF Moves
<1> QED
  BY <1>1, <1>2, <1>3, <1>4, <1>5, <1>6, SortedGrowing

(* A copy delivered to the inbox.                                          *)
LEMMA SortedDelivery ==
    ASSUME NEW C, Sorted(C), StoreInv, UNCHANGED born, NEW r \in Requests, Others(r), Less(r),
           Knows(C, pc'[r], req'[r]), pc[r] \in TwinLabels, pc'[r] \notin TwinLabels,
           NEW u \in Users, NEW ref \in Ref, Grows(u, "In", ref),
           ref.issue = req[r].twin, ref.fissue # NoIssue
    PROVE  Sorted(C)' /\ Moves
<1>1. ref.issue \in C /\ Apart /\ "In" \in Lists
  BY DEF Sorted, Knows, Lists
<1>2. Fits(C, "In", ref)
  BY <1>1 DEF Fits
<1>3. \A s \in Requests : pc'[s] \in TwinLabels => req'[s].twin # ref.issue
  BY <1>1 DEF Apart, Others
<1>4. ASSUME NEW m \in Lists
      PROVE  ~Holds(lists[u][m], ref.issue)
  <2>1. ~Holds(lists[u]["My"], ref.issue) /\ ~Holds(lists[u]["In"], ref.issue)
    BY <1>1 DEF Apart
  <2>2. "Out" \in Lists => ~Holds(lists[u]["Out"], ref.issue)
    BY <1>1, HoldsMeans DEF Sorted, ListsSorted, Fits
  <2> QED
    BY <2>1, <2>2 DEF Lists
<1>5. Moves
  BY <1>1, <1>4 DEF Moves
<1> QED
  BY <1>1, <1>2, <1>3, <1>5, SortedGrowing

(* A received todo, added to the own list.                                 *)
LEMMA SortedAccepting ==
    ASSUME NEW C, Sorted(C), StoreInv, UNCHANGED born, NEW r \in Requests, Others(r), Less(r),
           Knows(C, pc'[r], req'[r]), pc[r] = "Accept.my",
           NEW u \in Users, NEW ref \in Ref, Grows(u, "My", ref),
           ref.issue = req[r].issue, ref.fissue # NoIssue
    PROVE  Sorted(C)' /\ Moves
<1>1. ref.issue \in C /\ Apart /\ "My" \in Lists /\ "Out" \in Lists
  BY DEF Sorted, Knows, Lists
<1>2. Fits(C, "My", ref)
  BY <1>1 DEF Fits
<1>3. ~Holds(lists[u]["Out"], ref.issue)
  BY <1>1, HoldsMeans DEF Sorted, ListsSorted, Fits
<1>4. \A s \in Requests : pc'[s] \in CarryLabels => req'[s].issue # ref.issue
  BY <1>1, LessClaims DEF Sorted, Knows
<1>5. \A s \in Requests : pc'[s] \in TwinLabels => req'[s].twin # ref.issue
  BY <1>1, LessClaims DEF Apart
<1>6. Moves
  BY <1>1 DEF Moves
<1> QED
  BY <1>1, <1>2, <1>3, <1>4, <1>5, <1>6, SortedGrowing

(* A todo taken from a list of its user into the request's hand.           *)
LEMMA SortedTaking ==
    ASSUME NEW C, Sorted(C), StoreInv, UNCHANGED born, NEW r \in Requests, Others(r),
           Knows(C, pc'[r], req'[r]), pc[r] \in TwinLabels, pc'[r] # "Accept.my",
           req'[r].issue = req[r].issue, req'[r].twin = req[r].twin,
           NEW u \in Users, NEW l \in {"My", "Out"}, Shrinks(u, l),
           Holds(lists[u][l], req[r].issue), ~Holds(lists'[u][l], req[r].issue)
    PROVE  Sorted(C)' /\ Moves
<1> DEFINE id == req[r].issue
<1>1. "My" \in Lists /\ "In" \in Lists /\ "Out" \in Lists /\ l \in Lists
  BY DEF Lists
<1>2. /\ ListsSorted(C)'
      /\ \A v \in Users, m \in Lists : \A i : Holds(lists'[v][m], i) => Holds(lists[v][m], i)
  BY <1>1, SortedShrinking DEF Sorted
<1>3. ListsSorted(C) /\ Apart
  BY DEF Sorted
<1>4. ASSUME NEW v \in Users, NEW m \in Lists, Holds(lists[v][m], id)
      PROVE  v = u
  <2>1. PICK i \in 1..Len(lists[v][m]) : lists[v][m][i].issue = id
    BY <1>4, HoldsMeans
  <2>2. PICK j \in 1..Len(lists[u][l]) : lists[u][l][j].issue = id
    BY HoldsMeans
  <2>3. owner[id] = v /\ owner[id] = u
    BY <1>1, <2>1, <2>2, SMTT(30) DEF StoreInv, ListsOwned, RefOwned
  <2> QED
    BY <2>3
<1>5. \A v \in Users : ~Holds(lists'[v]["My"], id) /\ ~Holds(lists'[v]["Out"], id)
  BY <1>1, <1>2, <1>3, <1>4 DEF ListsSorted
<1>6. \A s \in Requests : pc'[s] \in CarryLabels =>
          \A v \in Users : /\ ~Holds(lists'[v]["My"], req'[s].issue)
                           /\ ~Holds(lists'[v]["Out"], req'[s].issue)
  BY <1>1, <1>2, <1>3, <1>5 DEF Apart, Others
<1>7. \A s \in Requests : pc'[s] \in TwinLabels =>
          \A v \in Users : /\ ~Holds(lists'[v]["My"], req'[s].twin)
                           /\ ~Holds(lists'[v]["In"], req'[s].twin)
  BY <1>1, <1>2, <1>3 DEF Apart, Others
<1>8. ASSUME NEW s \in Requests \ {r}
      PROVE  /\ pc'[r] \in CarryLabels /\ pc[s] \in CarryLabels =>
                   req[s].issue # req'[r].issue
             /\ pc'[r] \in TwinLabels /\ pc[s] \in TwinLabels => req[s].twin # req'[r].twin
             /\ pc'[r] \in TwinLabels /\ pc[s] = "Accept.my" => req[s].issue # req'[r].twin
             /\ pc'[r] = "Accept.my" /\ pc[s] \in TwinLabels => req[s].twin # req'[r].issue
  BY <1>3, <1>8 DEF Apart
<1>9. Apart'
  BY <1>3, <1>6, <1>7, <1>8, ApartAfter
<1>10. \A s \in Requests : Knows(C, pc'[s], req'[s])
  BY KnownStill DEF Sorted
<1> QED
  BY <1>1, <1>2, <1>9, <1>10 DEF Sorted, Moves

-----------------------------------------------------------------------------
(* What a call does to the request that makes it.                          *)

(* The local variables that no search and no look-up changes ...           *)
Same(r) ==
    /\ req'[r].kind = req[r].kind
    /\ req'[r].user = req[r].user
    /\ req'[r].to = req[r].to
    /\ req'[r].issue = req[r].issue
    /\ req'[r].twin = req[r].twin

(* ... and those that only a search for the own todo changes.              *)
Steady(r) ==
    /\ Same(r)
    /\ req'[r].list = req[r].list
    /\ req'[r].ref = req[r].ref

(* A call that keeps the local variables.                                  *)
LEMMA KeptIsSteady ==
    ASSUME ReqInv, NEW r \in Requests, NEW label, Goto(r, label), Kept
    PROVE  Others(r) /\ Steady(r) /\ pc'[r] = label
BY DEF ReqInv, Goto, Kept, Others, Steady, Same

(* A call after which some local variables of the request are new.         *)
LEMMA GoesWith ==
    ASSUME ReqInv, NEW r \in Requests, NEW q,
           UNCHANGED pc \/ \E label : Goto(r, label), req' = [req EXCEPT ![r] = q]
    PROVE  Others(r) /\ req'[r] = q
BY DEF ReqInv, Goto, Others

LEMMA SaveIssueSteady ==
    ASSUME ReqInv, NEW r \in Requests, NEW id, NEW text, NEW ok, NEW err,
           SaveIssue(r, id, text, ok, err), Kept
    PROVE  UNCHANGED lists /\ Others(r) /\ Steady(r) /\ pc'[r] \in {ok, err}
<1>1. UNCHANGED lists /\ (Goto(r, ok) \/ Goto(r, err))
  BY DEF SaveIssue, store
<1> QED
  BY <1>1, KeptIsSteady

LEMMA GetIssueSteady ==
    ASSUME ReqInv, NEW r \in Requests, NEW id, NEW ok, NEW err,
           GetIssue(r, id, ok, err), Kept
    PROVE  UNCHANGED lists /\ Others(r) /\ Steady(r) /\ pc'[r] \in {ok, err}
<1>1. UNCHANGED lists /\ (Goto(r, ok) \/ Goto(r, err))
  BY DEF GetIssue, store
<1> QED
  BY <1>1, KeptIsSteady

LEMMA ProceedSteady ==
    ASSUME ReqInv, NEW r \in Requests, NEW label, Proceed(r, label), Kept
    PROVE  UNCHANGED lists /\ Others(r) /\ Steady(r) /\ pc'[r] = label
BY KeptIsSteady DEF Proceed, store

(* The two calls of GetAndRemoveIssue.                                     *)
LEMMA GotIsSteady ==
    ASSUME ReqInv, NEW r \in Requests, NEW label, Goto(r, label), Kept \/ GotSome(r)
    PROVE  Others(r) /\ Steady(r) /\ pc'[r] = label
<1>1. CASE Kept
  BY <1>1, KeptIsSteady
<1>2. CASE GotSome(r)
  <2>1. PICK got \in Texts \cup {Gone} : req' = [req EXCEPT ![r] = [req[r] EXCEPT !.got = got]]
    BY <1>2 DEF GotSome
  <2>2. Others(r) /\ req'[r] = [req[r] EXCEPT !.got = got]
    BY <2>1, GoesWith
  <2> QED
    BY <2>2 DEF ReqInv, ReqType, Goto, Steady, Same
<1> QED
  BY <1>1, <1>2

LEMMA TakeIssueSteady ==
    ASSUME Inv, UNCHANGED <<born, crashes, owner>>, NEW r \in Requests,
           NEW id \in IssueIds, NEW drop, NEW next, TakeIssue(r, id, drop, next)
    PROVE  UNCHANGED lists /\ Others(r) /\ Steady(r) /\ pc'[r] \in {drop, next}
<1>1. UNCHANGED lists
  BY DEF TakeIssue, store
<1>2. (Goto(r, drop) \/ Goto(r, next)) /\ GotSome(r)
  BY TakeIssueFacts
<1> QED
  BY <1>1, <1>2, GotIsSteady DEF Inv

LEMMA DropTakenSteady ==
    ASSUME Inv, UNCHANGED <<born, crashes, owner>>, NEW r \in Requests,
           NEW id, NEW next, DropTaken(r, id, next)
    PROVE  UNCHANGED lists /\ Others(r) /\ Steady(r) /\ pc'[r] = next
<1>1. UNCHANGED lists
  BY DEF DropTaken
<1>2. Goto(r, next) /\ (Kept \/ GotSome(r))
  BY DropTakenFacts
<1> QED
  BY <1>1, <1>2, GotIsSteady DEF Inv

(* The two searches.                                                       *)
LEMMA FindOwnMoves ==
    ASSUME Inv, UNCHANGED <<born, crashes, owner>>, NEW r \in Requests, NEW hit, NEW miss,
           FindOwn(r, hit, miss)
    PROVE  /\ UNCHANGED lists /\ Others(r) /\ Same(r)
           /\ \/ /\ pc'[r] = hit
                 /\ req'[r].list \in Lists
                 /\ Holds(lists[req[r].user][req'[r].list], req[r].issue)
                 /\ req'[r].ref = RefIn(req[r].user, req'[r].list, req[r].issue)
              \/ pc'[r] \in {pc[r], miss}
<1> DEFINE q == req[r]
           l == Searched(r)
           ref == RefIn(q.user, l, q.issue)
           found == [q EXCEPT !.list = l, !.ref = ref]
           lost == [q EXCEPT !.list = "My", !.ref = NoRef]
<1>1. q \in ReqType /\ l \in Lists /\ ReqInv
  BY SearchedType DEF Inv, ReqInv
<1>2. Search(r, q.user, q.issue, hit, miss, found, lost)
  BY DEF FindOwn
<1>3. UNCHANGED lists
  BY DEF FindOwn, Search, store
<1> HIDE DEF found, lost
<1>4. \/ /\ Holds(lists[q.user][l], q.issue)
         /\ Goto(r, hit)
         /\ req' = [req EXCEPT ![r] = [found EXCEPT !.look = 1]]
      \/ /\ UNCHANGED pc
         /\ \E n \in 1..3 : req' = [req EXCEPT ![r] = [q EXCEPT !.look = n]]
      \/ /\ Goto(r, miss)
         /\ req' = [req EXCEPT ![r] = [lost EXCEPT !.look = 1]]
  BY <1>2, SearchFacts
<1> HIDE DEF q, l
<1>5. CASE /\ Holds(lists[q.user][l], q.issue)
           /\ Goto(r, hit)
           /\ req' = [req EXCEPT ![r] = [found EXCEPT !.look = 1]]
  <2>1. Others(r) /\ req'[r] = [found EXCEPT !.look = 1]
    BY <1>1, <1>5, GoesWith
  <2>2. /\ req'[r].kind = q.kind /\ req'[r].user = q.user /\ req'[r].to = q.to
        /\ req'[r].issue = q.issue /\ req'[r].twin = q.twin
        /\ req'[r].list = l /\ req'[r].ref = ref
    BY <1>1, <2>1 DEF found, ReqType
  <2>3. pc'[r] = hit
    BY <1>1, <1>5 DEF ReqInv, Goto
  <2> QED
    BY <1>1, <1>3, <1>5, <2>1, <2>2, <2>3 DEF Same, q
<1>6. CASE /\ UNCHANGED pc
           /\ \E n \in 1..3 : req' = [req EXCEPT ![r] = [q EXCEPT !.look = n]]
  <2>1. PICK n \in 1..3 : req' = [req EXCEPT ![r] = [q EXCEPT !.look = n]]
    BY <1>6
  <2>2. Others(r) /\ req'[r] = [q EXCEPT !.look = n]
    BY <1>1, <1>6, <2>1, GoesWith
  <2>3. Same(r)
    BY <1>1, <2>2 DEF Same, q, ReqType
  <2> QED
    BY <1>3, <1>6, <2>2, <2>3
<1>7. CASE /\ Goto(r, miss)
           /\ req' = [req EXCEPT ![r] = [lost EXCEPT !.look = 1]]
  <2>1. Others(r) /\ req'[r] = [lost EXCEPT !.look = 1]
    BY <1>1, <1>7, GoesWith
  <2>2. Same(r)
    BY <1>1, <2>1 DEF Same, q, lost, ReqType
  <2>3. pc'[r] = miss
    BY <1>1, <1>7 DEF ReqInv, Goto
  <2> QED
    BY <1>3, <2>1, <2>2, <2>3
<1> QED
  BY <1>4, <1>5, <1>6, <1>7

LEMMA FindForeignMoves ==
    ASSUME Inv, UNCHANGED <<born, crashes, owner>>, NEW r \in Requests, NEW hit, NEW miss,
           FindForeign(r, hit, miss)
    PROVE  UNCHANGED lists /\ Others(r) /\ Steady(r) /\ pc'[r] \in {hit, pc[r], miss}
<1> DEFINE q == req[r]
           found == [q EXCEPT !.flist = Searched(r)]
           lost == [q EXCEPT !.flist = "My"]
<1>1. q \in ReqType /\ ReqInv
  BY DEF Inv, ReqInv
<1>2. Search(r, q.ref.fuser, q.ref.fissue, hit, miss, found, lost)
  BY DEF FindForeign
<1>3. UNCHANGED lists
  BY DEF FindForeign, Search, store
<1> HIDE DEF found, lost
<1>4. \/ /\ Goto(r, hit)
         /\ req' = [req EXCEPT ![r] = [found EXCEPT !.look = 1]]
      \/ /\ UNCHANGED pc
         /\ \E n \in 1..3 : req' = [req EXCEPT ![r] = [q EXCEPT !.look = n]]
      \/ /\ Goto(r, miss)
         /\ req' = [req EXCEPT ![r] = [lost EXCEPT !.look = 1]]
  BY <1>2, SearchFacts
<1> HIDE DEF q
<1>5. CASE Goto(r, hit) /\ req' = [req EXCEPT ![r] = [found EXCEPT !.look = 1]]
  <2>1. Others(r) /\ req'[r] = [found EXCEPT !.look = 1]
    BY <1>1, <1>5, GoesWith
  <2>2. Steady(r)
    BY <1>1, <2>1 DEF found, ReqType, Steady, Same, q
  <2> QED
    BY <1>1, <1>3, <1>5, <2>1, <2>2 DEF ReqInv, Goto
<1>6. CASE /\ UNCHANGED pc
           /\ \E n \in 1..3 : req' = [req EXCEPT ![r] = [q EXCEPT !.look = n]]
  <2>1. PICK n \in 1..3 : req' = [req EXCEPT ![r] = [q EXCEPT !.look = n]]
    BY <1>6
  <2>2. Others(r) /\ req'[r] = [q EXCEPT !.look = n]
    BY <1>1, <1>6, <2>1, GoesWith
  <2>3. Steady(r)
    BY <1>1, <2>2 DEF Steady, Same, q, ReqType
  <2> QED
    BY <1>3, <1>6, <2>2, <2>3
<1>7. CASE Goto(r, miss) /\ req' = [req EXCEPT ![r] = [lost EXCEPT !.look = 1]]
  <2>1. Others(r) /\ req'[r] = [lost EXCEPT !.look = 1]
    BY <1>1, <1>7, GoesWith
  <2>2. Steady(r)
    BY <1>1, <2>1 DEF lost, ReqType, Steady, Same, q
  <2> QED
    BY <1>1, <1>3, <1>7, <2>1, <2>2 DEF ReqInv, Goto
<1> QED
  BY <1>4, <1>5, <1>6, <1>7

-----------------------------------------------------------------------------
(* The operations keep the lists sorted and the claims apart.              *)

(* What every step of an operation other than a listing achieves.          *)
Fine(C, r) ==
    Sorted(C)' /\ Moves /\ Others(r) /\ req'[r].kind # "List"

LEMMA PlainMembers ==
    {"idle", "ok", "err", "Add.undo", "Send.undo", "Send.undo2", "Send.undo2Twin",
     "Send.undo3", "Send.undo3Twin", "Send.undo3Out",
     "End.find", "End.unlist", "End.pop", "End.take", "End.drop",
     "End.ffind", "End.funlist", "End.ftake", "End.fdrop",
     "Edit.get", "Edit.find", "Edit.found", "Edit.fget", "Edit.fsave", "Edit.save",
     "Accept.get", "Accept.ref", "Accept.in", "Accept.undo",
     "Bump.ref", "Bump.bump", "Bump.get"} \subseteq PlainLabels
BY DEF PlainLabels, Labels, CarryLabels, TwinLabels, ListLabels

(* A request that is in the middle of something else is no listing.        *)
LEMMA NoListing ==
    ASSUME NEW C, Sorted(C), NEW r \in Requests, pc[r] \notin ListLabels \cup {"ok", "err"}
    PROVE  req[r].kind # "List" /\ Knows(C, pc[r], req[r]) /\ Apart
BY DEF Sorted, Knows

(* A call after which the request claims nothing.                          *)
LEMMA PlainStep ==
    ASSUME NEW C, Sorted(C), UNCHANGED born, NEW r \in Requests, Others(r),
           pc'[r] \in PlainLabels, req'[r].kind # "List",
           UNCHANGED lists \/ \E u \in Users, l \in Lists : Shrinks(u, l)
    PROVE  Fine(C, r)
<1>1. Less(r)
  BY DEF Less, PlainLabels
<1>2. pc'[r] \notin TakingLabels /\ pc'[r] # "Assign.found"
  BY DEF PlainLabels, TakingLabels, TwinLabels
<1>3. Knows(C, pc'[r], req'[r])
  BY <1>2 DEF Knows, PlainLabels
<1> QED
  BY <1>1, <1>3, SortedSmooth DEF Fine

(* A call after which it claims what it did.                               *)
LEMMA SteadyStep ==
    ASSUME NEW C, Sorted(C), UNCHANGED born, NEW r \in Requests, Others(r), Steady(r),
           NEW label, pc'[r] = label, req[r].kind # "List",
           label \in CarryLabels => pc[r] \in CarryLabels,
           label \in TwinLabels => pc[r] \in TwinLabels,
           label \in TakingLabels => pc[r] \in TakingLabels,
           label \notin ListLabels \cup {"Accept.my", "Assign.found"},
           UNCHANGED lists \/ \E u \in Users, l \in Lists : Shrinks(u, l)
    PROVE  Fine(C, r) /\ Knows(C, pc'[r], req'[r]) /\ Less(r)
<1>1. Less(r)
  BY DEF Less, Steady, Same
<1>2. Knows(C, pc[r], req[r])
  BY DEF Sorted
<1>3. Knows(C, pc'[r], req'[r])
  BY <1>2 DEF Knows, Steady, Same
<1> QED
  BY <1>1, <1>3, SortedSmooth DEF Fine, Steady, Same

(* The same for the calls that most steps make.                            *)
LEMMA PlainCall ==
    ASSUME NEW C, Sorted(C), UNCHANGED born, NEW r \in Requests, Others(r), Same(r),
           pc[r] \notin ListLabels \cup {"ok", "err"}, pc'[r] \in PlainLabels,
           UNCHANGED lists \/ \E u \in Users, l \in Lists : Shrinks(u, l)
    PROVE  Fine(C, r)
BY NoListing, PlainStep DEF Same

LEMMA PlainSave ==
    ASSUME ReqInv, NEW C, Sorted(C), UNCHANGED born, NEW r \in Requests, Kept,
           pc[r] \notin ListLabels \cup {"ok", "err"},
           NEW id, NEW text, NEW ok \in PlainLabels, NEW err \in PlainLabels,
           SaveIssue(r, id, text, ok, err)
    PROVE  Fine(C, r)
BY SaveIssueSteady, PlainCall DEF Steady

LEMMA PlainGet ==
    ASSUME ReqInv, NEW C, Sorted(C), UNCHANGED born, NEW r \in Requests, Kept,
           pc[r] \notin ListLabels \cup {"ok", "err"},
           NEW id, NEW ok \in PlainLabels, NEW err \in PlainLabels,
           GetIssue(r, id, ok, err)
    PROVE  Fine(C, r)
BY GetIssueSteady, PlainCall DEF Steady

LEMMA PlainRemoval ==
    ASSUME Inv, NEW C, Sorted(C), UNCHANGED born, NEW r \in Requests, Kept,
           pc[r] \notin ListLabels \cup {"ok", "err"},
           NEW u, NEW id, NEW l \in Lists, NEW ok \in PlainLabels, NEW err \in PlainLabels,
           RemoveReference(r, u, id, l, ok, err)
    PROVE  Fine(C, r)
<1>1. /\ Goto(r, ok) \/ Goto(r, err)
      /\ UNCHANGED lists \/ \E v \in Users, m \in Lists : Shrinks(v, m)
  <2>1. \A v \in Users, m \in Lists : IdsUnique(lists[v][m])
    BY DEF Sorted, ListsSorted
  <2> QED
    BY <2>1, RemoveReferenceMoves DEF Inv
<1>2. Others(r) /\ Steady(r) /\ pc'[r] \in PlainLabels
  BY <1>1, KeptIsSteady DEF Inv
<1> QED
  BY <1>1, <1>2, PlainCall DEF Steady

(* A todo in hand goes into its user's own list.                           *)
LEMMA MySorted ==
    ASSUME Inv, NEW C, Sorted(C), UNCHANGED <<born, crashes, owner>>, NEW r \in Requests, Kept,
           pc[r] \in {"Add.list", "Assign.my"}, NEW err \in PlainLabels,
           AddReference(r, req[r].user, req[r].issue, "My", NoUser, NoIssue, "ok", err)
    PROVE  Fine(C, r)
<1> DEFINE q == req[r]
           ref == [issue |-> q.issue, fuser |-> NoUser, fissue |-> NoIssue]
<1>1. ReqInv /\ StoreInv /\ q \in ReqType /\ ReqOwned(pc[r], q)
  BY DEF Inv, ReqInv
<1>2. q.kind # "List" /\ pc[r] \in CarryLabels
  BY NoListing DEF ListLabels, CarryLabels
<1>3. q.user \in Users /\ "My" \in Lists /\ ref \in Ref
  BY <1>1 DEF ReqOwned, OwnLabels, Lists, Ref
<1>4. \/ Goto(r, "ok") /\ Grows(q.user, "My", ref)
      \/ Goto(r, err) /\ UNCHANGED lists
  BY <1>1, <1>3, AddReferenceMoves
<1>5. CASE Goto(r, "ok") /\ Grows(q.user, "My", ref)
  <2>1. Others(r) /\ Steady(r) /\ pc'[r] = "ok"
    BY <1>1, <1>5, KeptIsSteady
  <2>2. Knows(C, pc'[r], req'[r]) /\ Less(r) /\ pc'[r] \notin CarryLabels
    BY <1>2, <2>1 DEF Knows, Less, Steady, Same, CarryLabels, TwinLabels, TakingLabels, ListLabels
  <2>3. ref.issue = req[r].issue /\ ref.fissue = NoIssue
    OBVIOUS
  <2> HIDE DEF ref
  <2>4. Sorted(C)' /\ Moves
    BY <1>1, <1>2, <1>3, <1>5, <2>1, <2>2, <2>3, SortedPlacing
  <2> QED
    BY <1>2, <2>1, <2>4 DEF Fine, Steady, Same
<1>6. CASE Goto(r, err) /\ UNCHANGED lists
  <2>1. Others(r) /\ Steady(r) /\ pc'[r] \in PlainLabels
    BY <1>1, <1>6, KeptIsSteady
  <2> QED
    BY <1>2, <1>6, <2>1, PlainStep DEF Steady, Same
<1> QED
  BY <1>4, <1>5, <1>6

(* A new todo stays in hand until it is listed.                            *)
LEMMA AddIssueSorted ==
    ASSUME Inv, NEW C, Sorted(C), UNCHANGED <<born, crashes, owner>>, NEW r \in Requests,
           AddIssue(r)
    PROVE  Fine(C, r)
<1> DEFINE q == req[r]
<1>1. Kept /\ ReqInv /\ StoreInv /\ q \in ReqType /\ ReqOwned(pc[r], q)
  BY DEF AddIssue, Inv, ReqInv
<1>2. CASE At(r, "Add.save") /\ SaveIssue(r, q.issue, q.text, "Add.list", "err")
  <2>1. UNCHANGED lists /\ Others(r) /\ Steady(r) /\ pc'[r] \in {"Add.list", "err"}
    BY <1>1, <1>2, SaveIssueSteady
  <2>2. q.kind # "List"
    BY <1>2, NoListing DEF At, ListLabels
  <2>3. CASE pc'[r] = "Add.list"
    <3>1. pc[r] \in CarryLabels /\ "Add.list" \notin TwinLabels \cup TakingLabels \cup ListLabels
      BY <1>2 DEF At, CarryLabels, TwinLabels, TakingLabels, ListLabels
    <3> QED
      BY <2>1, <2>2, <2>3, <3>1, SteadyStep
  <2>4. CASE pc'[r] = "err"
    BY <2>1, <2>2, <2>4, PlainStep, PlainMembers DEF Steady, Same
  <2> QED
    BY <2>1, <2>3, <2>4
<1>3. CASE /\ At(r, "Add.list")
           /\ AddReference(r, q.user, q.issue, "My", NoUser, NoIssue, "ok", "Add.undo")
  BY <1>1, <1>3, MySorted, PlainMembers DEF At
<1>4. CASE At(r, "Add.undo") /\ DropIssue(r, q.issue, "err")
  BY <1>1, <1>4, PlainSave, PlainMembers DEF At, DropIssue, ListLabels
<1> QED
  BY <1>2, <1>3, <1>4 DEF AddIssue

(* The calls that both SendIssue and ChangeAssignment make: the sender's   *)
(* todo goes into the sent list ...                                        *)
LEMMA OutSorted ==
    ASSUME Inv, NEW C, Sorted(C), UNCHANGED <<born, crashes, owner>>, NEW r \in Requests, Kept,
           NEW ok, NEW err,
           \/ pc[r] = "Send.out" /\ ok = "Send.in" /\ err = "Send.undo2"
           \/ pc[r] = "Assign.out" /\ ok = "Assign.in" /\ err = "err",
           AddReference(r, req[r].user, req[r].issue, "Out", req[r].to, req[r].twin, ok, err)
    PROVE  Fine(C, r)
<1> DEFINE q == req[r]
           ref == [issue |-> q.issue, fuser |-> q.to, fissue |-> q.twin]
<1>1. ReqInv /\ StoreInv /\ q \in ReqType /\ ReqOwned(pc[r], q)
  BY DEF Inv, ReqInv
<1>2. q.kind # "List" /\ pc[r] \in CarryLabels /\ pc[r] \in TwinLabels /\ Knows(C, pc[r], q)
  BY NoListing DEF ListLabels, CarryLabels, TwinLabels
<1>3. q.user \in Users /\ "Out" \in Lists /\ ref \in Ref
  BY <1>1, <1>2 DEF ReqOwned, OwnLabels, Lists, Ref
<1>4. \/ Goto(r, ok) /\ Grows(q.user, "Out", ref)
      \/ Goto(r, err) /\ UNCHANGED lists
  BY <1>1, <1>3, AddReferenceMoves
<1>5. CASE Goto(r, ok) /\ Grows(q.user, "Out", ref)
  <2>1. Others(r) /\ Steady(r) /\ pc'[r] \in {"Send.in", "Assign.in"}
    BY <1>1, <1>5, KeptIsSteady
  <2>2. Knows(C, pc'[r], req'[r]) /\ Less(r) /\ pc'[r] \notin CarryLabels
    BY <1>2, <2>1 DEF Knows, Less, Steady, Same, CarryLabels, TwinLabels, TakingLabels, ListLabels
  <2>3. ref.issue = req[r].issue
    OBVIOUS
  <2> HIDE DEF ref
  <2>4. Sorted(C)' /\ Moves
    BY <1>1, <1>2, <1>3, <1>5, <2>1, <2>2, <2>3, SortedPlacing
  <2> QED
    BY <1>2, <2>1, <2>4 DEF Fine, Steady, Same
<1>6. CASE Goto(r, err) /\ UNCHANGED lists
  <2>1. Others(r) /\ Steady(r) /\ pc'[r] \in PlainLabels
    BY <1>1, <1>6, KeptIsSteady, PlainMembers
  <2> QED
    BY <1>2, <1>6, <2>1, PlainStep DEF Steady, Same
<1> QED
  BY <1>4, <1>5, <1>6

(* ... and the copy into the receiver's inbox.                             *)
LEMMA InSorted ==
    ASSUME Inv, NEW C, Sorted(C), UNCHANGED <<born, crashes, owner>>, NEW r \in Requests, Kept,
           pc[r] \in {"Send.in", "Assign.in"}, NEW err \in PlainLabels,
           AddReference(r, req[r].to, req[r].twin, "In", req[r].user, req[r].issue, "ok", err)
    PROVE  Fine(C, r)
<1> DEFINE q == req[r]
           ref == [issue |-> q.twin, fuser |-> q.user, fissue |-> q.issue]
<1>1. ReqInv /\ StoreInv /\ q \in ReqType /\ ReqOwned(pc[r], q)
  BY DEF Inv, ReqInv
<1>2. q.kind # "List" /\ pc[r] \in TwinLabels /\ Knows(C, pc[r], q)
  BY NoListing DEF ListLabels, TwinLabels
<1>3. q.to \in Users /\ "In" \in Lists /\ ref \in Ref /\ q.issue # NoIssue
  BY <1>1, <1>2 DEF ReqOwned, OwnLabels, Lists, Ref, IssueIds, NoIssue
<1>4. \/ Goto(r, "ok") /\ Grows(q.to, "In", ref)
      \/ Goto(r, err) /\ UNCHANGED lists
  BY <1>1, <1>3, AddReferenceMoves
<1>5. CASE Goto(r, "ok") /\ Grows(q.to, "In", ref)
  <2>1. Others(r) /\ Steady(r) /\ pc'[r] = "ok"
    BY <1>1, <1>5, KeptIsSteady
  <2>2. Knows(C, pc'[r], req'[r]) /\ Less(r) /\ pc'[r] \notin TwinLabels
    BY <1>2, <2>1 DEF Knows, Less, Steady, Same, CarryLabels, TwinLabels, TakingLabels, ListLabels
  <2>3. ref.issue = req[r].twin /\ ref.fissue # NoIssue
    BY <1>3
  <2> HIDE DEF ref
  <2>4. Sorted(C)' /\ Moves
    BY <1>1, <1>2, <1>3, <1>5, <2>1, <2>2, <2>3, SortedDelivery
  <2> QED
    BY <1>2, <2>1, <2>4 DEF Fine, Steady, Same
<1>6. CASE Goto(r, err) /\ UNCHANGED lists
  <2>1. Others(r) /\ Steady(r) /\ pc'[r] \in PlainLabels
    BY <1>1, <1>6, KeptIsSteady
  <2> QED
    BY <1>2, <1>6, <2>1, PlainStep DEF Steady, Same
<1> QED
  BY <1>4, <1>5, <1>6

(* The sender's todo stays in hand until it is in the sent list, the copy  *)
(* until it is delivered.                                                  *)
LEMMA SendIssueSorted ==
    ASSUME Inv, NEW C, Sorted(C), UNCHANGED <<born, crashes, owner>>, NEW r \in Requests,
           SendIssue(r)
    PROVE  Fine(C, r)
<1> DEFINE q == req[r]
<1>1. Kept /\ ReqInv /\ StoreInv /\ q \in ReqType /\ ReqOwned(pc[r], q)
  BY DEF SendIssue, Inv, ReqInv
<1>2. CASE At(r, "Send.save") /\ SaveIssue(r, q.issue, q.text, "Send.saveTwin", "err")
  <2>1. UNCHANGED lists /\ Others(r) /\ Steady(r) /\ pc'[r] \in {"Send.saveTwin", "err"}
    BY <1>1, <1>2, SaveIssueSteady
  <2>2. CASE pc'[r] = "Send.saveTwin"
    <3>1. q.kind # "List" /\ pc[r] \in CarryLabels /\ pc[r] \in TwinLabels
      BY <1>2, NoListing DEF At, CarryLabels, TwinLabels, ListLabels
    <3>2. "Send.saveTwin" \notin TakingLabels \cup ListLabels
      BY DEF TakingLabels, ListLabels
    <3> QED
      BY <2>1, <2>2, <3>1, <3>2, SteadyStep
  <2>3. CASE pc'[r] = "err"
    BY <1>2, <2>1, <2>3, PlainCall, PlainMembers DEF Steady, At, ListLabels
  <2> QED
    BY <2>1, <2>2, <2>3
<1>3. CASE At(r, "Send.saveTwin") /\ SaveIssue(r, q.twin, q.text, "Send.out", "Send.undo")
  <2>1. UNCHANGED lists /\ Others(r) /\ Steady(r) /\ pc'[r] \in {"Send.out", "Send.undo"}
    BY <1>1, <1>3, SaveIssueSteady
  <2>2. CASE pc'[r] = "Send.out"
    <3>1. q.kind # "List" /\ pc[r] \in CarryLabels /\ pc[r] \in TwinLabels
      BY <1>3, NoListing DEF At, CarryLabels, TwinLabels, ListLabels
    <3>2. "Send.out" \notin TakingLabels \cup ListLabels
      BY DEF TakingLabels, ListLabels
    <3> QED
      BY <2>1, <2>2, <3>1, <3>2, SteadyStep
  <2>3. CASE pc'[r] = "Send.undo"
    BY <1>3, <2>1, <2>3, PlainCall, PlainMembers DEF Steady, At, ListLabels
  <2> QED
    BY <2>1, <2>2, <2>3
<1>4. CASE /\ At(r, "Send.out")
           /\ AddReference(r, q.user, q.issue, "Out", q.to, q.twin, "Send.in", "Send.undo2")
  BY <1>1, <1>4, OutSorted DEF At
<1>5. CASE /\ At(r, "Send.in")
           /\ AddReference(r, q.to, q.twin, "In", q.user, q.issue, "ok", "Send.undo3")
  BY <1>1, <1>5, InSorted, PlainMembers DEF At
<1>6. CASE At(r, "Send.undo") /\ DropIssue(r, q.issue, "err")
  BY <1>1, <1>6, PlainSave, PlainMembers DEF At, DropIssue, ListLabels
<1>7. CASE At(r, "Send.undo2") /\ DropIssue(r, q.issue, "Send.undo2Twin")
  BY <1>1, <1>7, PlainSave, PlainMembers DEF At, DropIssue, ListLabels
<1>8. CASE At(r, "Send.undo2Twin") /\ DropIssue(r, q.twin, "err")
  BY <1>1, <1>8, PlainSave, PlainMembers DEF At, DropIssue, ListLabels
<1>9. CASE At(r, "Send.undo3") /\ DropIssue(r, q.issue, "Send.undo3Twin")
  BY <1>1, <1>9, PlainSave, PlainMembers DEF At, DropIssue, ListLabels
<1>10. CASE At(r, "Send.undo3Twin") /\ DropIssue(r, q.twin, "Send.undo3Out")
  BY <1>1, <1>10, PlainSave, PlainMembers DEF At, DropIssue, ListLabels
<1>11. CASE At(r, "Send.undo3Out") /\ RemoveReference(r, q.user, q.issue, "Out", "err", "err")
  <2>1. "Out" \in Lists /\ pc[r] \notin ListLabels \cup {"ok", "err"}
    BY <1>11 DEF Lists, At, ListLabels
  <2> QED
    BY <1>1, <1>11, <2>1, PlainRemoval, PlainMembers
<1> QED
  BY <1>2, <1>3, <1>4, <1>5, <1>6, <1>7, <1>8, <1>9, <1>10, <1>11 DEF SendIssue

(* Popping takes a todo out of the own list, and works on it.              *)
LEMMA PopSorted ==
    ASSUME Inv, NEW C, Sorted(C), UNCHANGED <<born, crashes, owner>>, NEW r \in Requests,
           pc[r] = "End.pop", PopReference(r, req[r].user, "My", "End.take", "err")
    PROVE  Fine(C, r)
<1> DEFINE q == req[r]
<1>1. q.user \in Users /\ "My" \in Lists /\ StoreInv /\ ReqInv /\ q \in ReqType
  BY DEF Inv, ReqInv, ReqOwned, Lists
<1>2. q.kind # "List"
  BY NoListing DEF ListLabels
<1>3. UNCHANGED lists \/ \E u \in Users, l \in Lists : Shrinks(u, l)
  <2>1. \A v \in Users, m \in Lists : IdsUnique(lists[v][m])
    BY DEF Sorted, ListsSorted
  <2>2. UNCHANGED lists \/ Shrinks(q.user, "My")
    BY <1>1, <2>1, PopReferenceMoves
  <2> QED
    BY <1>1, <2>2
<1>4. \/ Goto(r, "err") /\ Kept
      \/ /\ Goto(r, "End.take")
         /\ \E ref \in Ref :
               req' = [req EXCEPT ![r] = [q EXCEPT !.issue = ref.issue, !.ref = ref]]
  BY <1>1, PopReferenceFacts
<1>5. CASE Goto(r, "err") /\ Kept
  <2>1. Others(r) /\ Steady(r) /\ pc'[r] = "err"
    BY <1>1, <1>5, KeptIsSteady
  <2> QED
    BY <1>2, <1>3, <2>1, PlainStep, PlainMembers DEF Steady, Same
<1>6. ASSUME Goto(r, "End.take"), NEW ref \in Ref,
             req' = [req EXCEPT ![r] = [q EXCEPT !.issue = ref.issue, !.ref = ref]]
      PROVE  Fine(C, r)
  <2> DEFINE p == [q EXCEPT !.issue = ref.issue, !.ref = ref]
  <2>1. p.kind = q.kind /\ req' = [req EXCEPT ![r] = p]
    BY <1>1, <1>6 DEF ReqType
  <2> HIDE DEF p
  <2>2. Others(r) /\ req'[r] = p
    BY <1>1, <1>6, <2>1, GoesWith
  <2>3. pc'[r] = "End.take"
    BY <1>1, <1>6 DEF ReqInv, Goto
  <2> QED
    BY <1>2, <1>3, <2>1, <2>2, <2>3, PlainStep, PlainMembers
<1> QED
  BY <1>4, <1>5, <1>6

(* Completing, removing and popping claim nothing, ...                     *)
LEMMA EndTodoSorted ==
    ASSUME Inv, NEW C, Sorted(C), UNCHANGED <<born, crashes, owner>>, NEW r \in Requests,
           EndTodo(r)
    PROVE  Fine(C, r)
<1> DEFINE q == req[r]
<1>1. ReqInv /\ q \in ReqType /\ ReqOwned(pc[r], q)
  BY DEF Inv, ReqInv
<1>2. OtherEnd(q) \in PlainLabels
  <2>1. OtherEnd(q) \in {"ok", "End.ffind", "End.funlist"}
    BY DEF OtherEnd
  <2> QED
    BY <2>1, PlainMembers
<1>3. CASE At(r, "End.find") /\ FindOwn(r, "End.unlist", "err")
  <2>1. UNCHANGED lists /\ Others(r) /\ Same(r) /\ pc'[r] \in {"End.unlist", pc[r], "err"}
    BY <1>3, FindOwnMoves
  <2>2. pc'[r] \in PlainLabels /\ pc[r] \notin ListLabels \cup {"ok", "err"}
    BY <1>3, <2>1, PlainMembers DEF At, ListLabels
  <2> QED
    BY <2>1, <2>2, PlainCall
<1>4. CASE /\ At(r, "End.unlist")
           /\ RemoveReference(r, q.user, q.issue, q.list, "End.take", "err")
           /\ Kept
  <2>1. q.list \in Lists /\ pc[r] \notin ListLabels \cup {"ok", "err"}
    BY <1>1, <1>4 DEF ReqType, At, ListLabels
  <2> QED
    BY <1>4, <2>1, PlainRemoval, PlainMembers
<1>5. CASE At(r, "End.pop") /\ PopReference(r, q.user, "My", "End.take", "err")
  BY <1>5, PopSorted DEF At
<1>6. CASE At(r, "End.take") /\ TakeIssue(r, q.issue, "End.drop", OtherEnd(q))
  <2>1. q.issue \in IssueIds /\ pc[r] \notin ListLabels \cup {"ok", "err"}
    BY <1>1, <1>6 DEF At, ReqOwned, OwnLabels, ListLabels
  <2>2. UNCHANGED lists /\ Others(r) /\ Steady(r) /\ pc'[r] \in {"End.drop", OtherEnd(q)}
    BY <1>6, <2>1, TakeIssueSteady
  <2>3. pc'[r] \in PlainLabels
    BY <1>2, <2>2, PlainMembers
  <2> QED
    BY <2>1, <2>2, <2>3, PlainCall DEF Steady
<1>7. CASE At(r, "End.drop") /\ DropTaken(r, q.issue, OtherEnd(q))
  <2>1. UNCHANGED lists /\ Others(r) /\ Steady(r) /\ pc'[r] = OtherEnd(q)
    BY <1>7, DropTakenSteady
  <2>2. pc[r] \notin ListLabels \cup {"ok", "err"}
    BY <1>7 DEF At, ListLabels
  <2> QED
    BY <1>2, <2>1, <2>2, PlainCall DEF Steady
<1> QED
  BY <1>3, <1>4, <1>5, <1>6, <1>7 DEF EndTodo

(* ... at neither end.                                                     *)
LEMMA EndCopySorted ==
    ASSUME Inv, NEW C, Sorted(C), UNCHANGED <<born, crashes, owner>>, NEW r \in Requests,
           EndCopy(r)
    PROVE  Fine(C, r)
<1> DEFINE q == req[r]
           l == IF q.kind = "Remove" THEN q.flist ELSE "Out"
<1>1. ReqInv /\ q \in ReqType /\ ReqOwned(pc[r], q)
  BY DEF Inv, ReqInv
<1>2. CASE At(r, "End.ffind") /\ FindForeign(r, "End.funlist", "End.funlist")
  <2>1. UNCHANGED lists /\ Others(r) /\ Steady(r) /\ pc'[r] \in {"End.funlist", pc[r]}
    BY <1>2, FindForeignMoves
  <2>2. pc'[r] \in PlainLabels /\ pc[r] \notin ListLabels \cup {"ok", "err"}
    BY <1>2, <2>1, PlainMembers DEF At, ListLabels
  <2> QED
    BY <2>1, <2>2, PlainCall DEF Steady
<1>3. CASE /\ At(r, "End.funlist")
           /\ RemoveReference(r, q.ref.fuser, Copy(q), l, "End.ftake", "End.ftake")
           /\ Kept
  <2>1. l \in Lists /\ pc[r] \notin ListLabels \cup {"ok", "err"}
    BY <1>1, <1>3 DEF ReqType, Lists, At, ListLabels
  <2> HIDE DEF l
  <2> QED
    BY <1>3, <2>1, PlainRemoval, PlainMembers
<1>4. CASE At(r, "End.ftake") /\ TakeIssue(r, Copy(q), "End.fdrop", "ok")
  <2>1. Copy(q) \in IssueIds /\ pc[r] \notin ListLabels \cup {"ok", "err"}
    BY <1>1, <1>4 DEF At, ReqOwned, PeerLabels, FarLabels, PeerOwned, Copy, ListLabels
  <2>2. UNCHANGED lists /\ Others(r) /\ Steady(r) /\ pc'[r] \in {"End.fdrop", "ok"}
    BY <1>4, <2>1, TakeIssueSteady
  <2>3. pc'[r] \in PlainLabels
    BY <2>2, PlainMembers
  <2> QED
    BY <2>1, <2>2, <2>3, PlainCall DEF Steady
<1>5. CASE At(r, "End.fdrop") /\ DropTaken(r, Copy(q), "ok")
  <2>1. UNCHANGED lists /\ Others(r) /\ Steady(r) /\ pc'[r] = "ok"
    BY <1>5, DropTakenSteady
  <2>2. pc'[r] \in PlainLabels /\ pc[r] \notin ListLabels \cup {"ok", "err"}
    BY <1>5, <2>1, PlainMembers DEF At, ListLabels
  <2> QED
    BY <2>1, <2>2, PlainCall DEF Steady
<1> QED
  BY <1>2, <1>3, <1>4, <1>5 DEF EndCopy

(* An edit changes no list.                                                *)
LEMMA EditIssueSorted ==
    ASSUME Inv, NEW C, Sorted(C), UNCHANGED <<born, crashes, owner>>, NEW r \in Requests,
           EditIssue(r)
    PROVE  Fine(C, r)
<1> DEFINE q == req[r]
<1>1. ReqInv /\ pc[r] \notin ListLabels \cup {"ok", "err"}
  BY DEF Inv, EditIssue, At, ListLabels
<1>2. CASE At(r, "Edit.find") /\ FindOwn(r, "Edit.found", "err")
  <2>1. UNCHANGED lists /\ Others(r) /\ Same(r) /\ pc'[r] \in {"Edit.found", pc[r], "err"}
    BY <1>2, FindOwnMoves
  <2>2. pc'[r] \in PlainLabels
    BY <1>2, <2>1, PlainMembers DEF At
  <2> QED
    BY <1>1, <2>1, <2>2, PlainCall
<1>3. CASE At(r, "Edit.get") /\ GetIssue(r, q.issue, "Edit.find", "err") /\ Kept
  BY <1>1, <1>3, PlainGet, PlainMembers
<1>4. CASE At(r, "Edit.found") /\ Proceed(r, "Edit.save") /\ Kept
  BY <1>1, <1>4, ProceedSteady, PlainCall, PlainMembers DEF Steady
<1>5. CASE At(r, "Edit.found") /\ Proceed(r, "Edit.fget") /\ Kept
  BY <1>1, <1>5, ProceedSteady, PlainCall, PlainMembers DEF Steady
<1>6. CASE At(r, "Edit.fget") /\ GetIssue(r, Copy(q), "Edit.fsave", "Edit.save") /\ Kept
  BY <1>1, <1>6, PlainGet, PlainMembers
<1>7. CASE At(r, "Edit.fsave") /\ SaveIssue(r, Copy(q), q.text, "Edit.save", "Edit.save") /\ Kept
  BY <1>1, <1>7, PlainSave, PlainMembers
<1>8. CASE At(r, "Edit.save") /\ SaveIssue(r, q.issue, q.text, "ok", "err") /\ Kept
  BY <1>1, <1>8, PlainSave, PlainMembers
<1> QED
  BY <1>2, <1>3, <1>4, <1>5, <1>6, <1>7, <1>8 DEF EditIssue

(* What a look-up leaves to the request.                                   *)
LEMMA GetReferenceMoves ==
    ASSUME Inv, UNCHANGED <<born, crashes, owner>>, NEW r \in Requests,
           NEW l \in Lists, NEW ok, NEW err, req[r].user \in Users,
           GetReference(r, l, ok, err)
    PROVE  /\ UNCHANGED lists /\ Others(r) /\ Same(r)
           /\ \/ pc'[r] = err
              \/ /\ pc'[r] = ok
                 /\ Holds(lists[req[r].user][l], req[r].issue)
                 /\ req'[r].ref = RefIn(req[r].user, l, req[r].issue)
<1> DEFINE q == req[r]
           ref == RefIn(q.user, l, q.issue)
<1>1. UNCHANGED lists /\ ReqInv /\ q \in ReqType
  BY DEF GetReference, store, Inv, ReqInv
<1>2. CASE Goto(r, err) /\ Kept
  BY <1>1, <1>2, KeptIsSteady DEF Steady
<1>3. CASE /\ Holds(lists[q.user][l], q.issue)
           /\ req' = [req EXCEPT ![r].ref = ref]
           /\ Goto(r, ok)
  <2> DEFINE p == [q EXCEPT !.ref = ref]
  <2>1. req' = [req EXCEPT ![r] = p]
    BY <1>3
  <2>2. /\ p.kind = q.kind /\ p.user = q.user /\ p.to = q.to /\ p.issue = q.issue
        /\ p.twin = q.twin /\ p.ref = ref
    BY <1>1 DEF ReqType
  <2> HIDE DEF p, ref
  <2>3. Others(r) /\ req'[r] = p
    BY <1>1, <1>3, <2>1, GoesWith
  <2>4. pc'[r] = ok
    BY <1>1, <1>3 DEF ReqInv, Goto
  <2> QED
    BY <1>1, <1>3, <2>2, <2>3, <2>4 DEF Same, ref
<1> QED
  BY <1>2, <1>3 DEF GetReference, Kept

(* A bump changes the order of an inbox.                                   *)
LEMMA BumpIssueSorted ==
    ASSUME Inv, NEW C, Sorted(C), UNCHANGED <<born, crashes, owner>>, NEW r \in Requests,
           BumpIssue(r)
    PROVE  Fine(C, r)
<1> DEFINE q == req[r]
<1>1. ReqInv /\ pc[r] \notin ListLabels \cup {"ok", "err"} /\ q.user \in Users
  BY DEF Inv, ReqInv, ReqOwned, BumpIssue, At, ListLabels
<1>2. CASE At(r, "Bump.ref") /\ GetReference(r, "Out", "Bump.bump", "err")
  <2>1. "Out" \in Lists
    BY DEF Lists
  <2>2. UNCHANGED lists /\ Others(r) /\ Same(r) /\ pc'[r] \in {"Bump.bump", "err"}
    BY <1>1, <1>2, <2>1, GetReferenceMoves
  <2>3. pc'[r] \in PlainLabels
    BY <2>2, PlainMembers
  <2> QED
    BY <1>1, <2>2, <2>3, PlainCall
<1>3. CASE /\ At(r, "Bump.bump")
           /\ BumpReference(r, q.ref.fuser, Copy(q), "In", "Bump.get", "err")
           /\ Kept
  <2>1. (\A v \in Users, m \in Lists : IdsUnique(lists[v][m])) /\ "In" \in Lists /\ StoreInv
    BY DEF Sorted, ListsSorted, Lists, Inv
  <2>2. UNCHANGED lists \/ \E v \in Users : Shrinks(v, "In")
    BY <1>3, <2>1, BumpReferenceMoves
  <2>3. Goto(r, "Bump.get") \/ Goto(r, "err")
    BY <1>3 DEF BumpReference, ChangeList
  <2>4. Others(r) /\ Steady(r) /\ pc'[r] \in {"Bump.get", "err"}
    BY <1>1, <1>3, <2>3, KeptIsSteady
  <2>5. pc'[r] \in PlainLabels
    BY <2>4, PlainMembers
  <2> QED
    BY <1>1, <2>1, <2>2, <2>4, <2>5, PlainCall DEF Steady
<1>4. CASE At(r, "Bump.get") /\ GetIssue(r, Copy(q), "ok", "ok") /\ Kept
  BY <1>1, <1>4, PlainGet, PlainMembers
<1> QED
  BY <1>2, <1>3, <1>4 DEF BumpIssue

(* A received todo, found in the inbox, is a copy that was delivered.      *)
LEMMA SortedFinding ==
    ASSUME NEW C, Sorted(C), UNCHANGED <<born, lists>>, NEW r \in Requests, Others(r),
           pc'[r] = "Accept.my", Knows(C, pc'[r], req'[r]),
           NEW u \in Users, Holds(lists[u]["In"], req'[r].issue)
    PROVE  Sorted(C)' /\ Moves
<1>1. Apart /\ pc'[r] \notin CarryLabels /\ pc'[r] \notin TwinLabels
  BY DEF Sorted, CarryLabels, TwinLabels
<1>2. \A s \in Requests : pc'[s] \in CarryLabels =>
          \A v \in Users : /\ ~Holds(lists'[v]["My"], req'[s].issue)
                           /\ ~Holds(lists'[v]["Out"], req'[s].issue)
  BY <1>1 DEF Apart, Others
<1>3. \A s \in Requests : pc'[s] \in TwinLabels =>
          \A v \in Users : /\ ~Holds(lists'[v]["My"], req'[s].twin)
                           /\ ~Holds(lists'[v]["In"], req'[s].twin)
  BY <1>1 DEF Apart, Others
<1>4. ASSUME NEW s \in Requests \ {r}
      PROVE  /\ pc'[r] \in CarryLabels /\ pc[s] \in CarryLabels =>
                   req[s].issue # req'[r].issue
             /\ pc'[r] \in TwinLabels /\ pc[s] \in TwinLabels => req[s].twin # req'[r].twin
             /\ pc'[r] \in TwinLabels /\ pc[s] = "Accept.my" => req[s].issue # req'[r].twin
             /\ pc'[r] = "Accept.my" /\ pc[s] \in TwinLabels => req[s].twin # req'[r].issue
  BY <1>1, <1>4 DEF Apart
<1>5. Apart'
  BY <1>1, <1>2, <1>3, <1>4, ApartAfter
<1>6. \A s \in Requests : Knows(C, pc'[s], req'[s])
  BY KnownStill DEF Sorted
<1>7. ListsSorted(C)'
  BY DEF Sorted, ListsSorted
<1> QED
  BY <1>5, <1>6, <1>7 DEF Sorted, Moves

(* What is found in a sorted list is where it belongs.                     *)
LEMMA FoundFits ==
    ASSUME StoreInv, NEW C, Sorted(C), NEW u \in Users, NEW l \in Lists, NEW id,
           Holds(lists[u][l], id)
    PROVE  /\ RefIn(u, l, id).issue = id
           /\ RefIn(u, l, id) \in Ref
           /\ Fits(C, l, RefIn(u, l, id))
<1>1. lists[u][l] \in Seq(Ref)
  BY DEF StoreInv
<1>2. PositionOf(lists[u][l], id) \in 1..Len(lists[u][l])
  BY <1>1, PositionFacts
<1>3. RefIn(u, l, id).issue = id /\ RefIn(u, l, id) \in Ref
  BY RefInFacts
<1> QED
  BY <1>2, <1>3 DEF Sorted, ListsSorted, RefIn

(* Accepting adds a received todo to the own list.                         *)
LEMMA AcceptIssueSorted ==
    ASSUME Inv, NEW C, Sorted(C), UNCHANGED <<born, crashes, owner>>, NEW r \in Requests,
           AcceptIssue(r)
    PROVE  Fine(C, r)
<1> DEFINE q == req[r]
<1>1. /\ ReqInv /\ StoreInv /\ q \in ReqType /\ ReqOwned(pc[r], q)
      /\ pc[r] \notin ListLabels \cup {"ok", "err"} /\ q.user \in Users
  BY DEF Inv, ReqInv, ReqOwned, AcceptIssue, At, ListLabels
<1>2. q.kind # "List" /\ Knows(C, pc[r], q)
  BY <1>1, NoListing
<1>3. CASE At(r, "Accept.ref") /\ GetReference(r, "In", "Accept.my", "err")
  <2>1. "In" \in Lists
    BY DEF Lists
  <2>2. /\ UNCHANGED lists /\ Others(r) /\ Same(r)
        /\ \/ pc'[r] = "err"
           \/ /\ pc'[r] = "Accept.my"
              /\ Holds(lists[q.user]["In"], q.issue)
              /\ req'[r].ref = RefIn(q.user, "In", q.issue)
    BY <1>1, <1>3, <2>1, GetReferenceMoves
  <2>3. CASE pc'[r] = "err"
    BY <1>1, <2>2, <2>3, PlainCall, PlainMembers
  <2>4. CASE /\ pc'[r] = "Accept.my"
             /\ Holds(lists[q.user]["In"], q.issue)
             /\ req'[r].ref = RefIn(q.user, "In", q.issue)
    <3>1. q.issue \in C /\ req'[r].ref.fissue # NoIssue
      BY <1>1, <2>1, <2>4, FoundFits DEF Fits
    <3>2. Knows(C, pc'[r], req'[r])
      BY <1>2, <2>2, <2>4, <3>1
      DEF Knows, Same, CarryLabels, TwinLabels, TakingLabels, ListLabels
    <3>3. Sorted(C)' /\ Moves
      BY <1>1, <2>2, <2>4, <3>2, SortedFinding DEF Same
    <3> QED
      BY <1>2, <2>2, <3>3 DEF Fine, Same
  <2> QED
    BY <2>2, <2>3, <2>4
<1>4. CASE At(r, "Accept.get") /\ GetIssue(r, q.issue, "Accept.ref", "err") /\ Kept
  BY <1>1, <1>4, PlainGet, PlainMembers
<1>5. CASE /\ At(r, "Accept.my")
           /\ AddReference(r, q.user, q.issue, "My", q.ref.fuser, Copy(q), "Accept.in", "err")
           /\ Kept
  <2> DEFINE ref == [issue |-> q.issue, fuser |-> q.ref.fuser, fissue |-> Copy(q)]
  <2>1. "My" \in Lists /\ ref \in Ref /\ ref.issue = q.issue /\ ref.fissue # NoIssue
    <3>1. q.issue \in IssueIds /\ q.ref \in Ref \cup {NoRef} /\ q.ref.fissue # NoIssue
      BY <1>1, <1>2, <1>5 DEF At, ReqOwned, OwnLabels, ReqType, Knows
    <3>2. q.ref \in Ref
      BY <3>1 DEF NoRef
    <3> QED
      BY <3>1, <3>2 DEF Ref, Lists, Copy
  <2>2. \/ Goto(r, "Accept.in") /\ Grows(q.user, "My", ref)
        \/ Goto(r, "err") /\ UNCHANGED lists
    BY <1>1, <1>5, <2>1, AddReferenceMoves
  <2> HIDE DEF ref
  <2>3. CASE Goto(r, "Accept.in") /\ Grows(q.user, "My", ref)
    <3>1. Others(r) /\ Steady(r) /\ pc'[r] = "Accept.in"
      BY <1>1, <1>5, <2>3, KeptIsSteady
    <3>2. Knows(C, pc'[r], req'[r]) /\ Less(r)
      BY <1>2, <3>1 DEF Knows, Less, Steady, Same, CarryLabels, TwinLabels, TakingLabels, ListLabels
    <3>3. Sorted(C)' /\ Moves
      BY <1>1, <1>5, <2>1, <2>3, <3>1, <3>2, SortedAccepting DEF At
    <3> QED
      BY <1>2, <3>1, <3>3 DEF Fine, Steady, Same
  <2>4. CASE Goto(r, "err") /\ UNCHANGED lists
    <3>1. Others(r) /\ Steady(r) /\ pc'[r] = "err"
      BY <1>1, <1>5, <2>4, KeptIsSteady
    <3> QED
      BY <1>1, <2>4, <3>1, PlainCall, PlainMembers DEF Steady
  <2> QED
    BY <2>2, <2>3, <2>4
<1>6. CASE /\ At(r, "Accept.in")
           /\ RemoveReference(r, q.user, q.issue, "In", "ok", "Accept.undo") /\ Kept
  <2>1. "In" \in Lists
    BY DEF Lists
  <2> QED
    BY <1>1, <1>6, <2>1, PlainRemoval, PlainMembers
<1>7. CASE /\ At(r, "Accept.undo")
           /\ RemoveReference(r, q.user, q.issue, "My", "err", "err") /\ Kept
  <2>1. "My" \in Lists
    BY DEF Lists
  <2> QED
    BY <1>1, <1>7, <2>1, PlainRemoval, PlainMembers
<1> QED
  BY <1>3, <1>4, <1>5, <1>6, <1>7 DEF AcceptIssue

(* The web app offers to take back what was sent, and no own todo.         *)
TakesBackOnly ==
    \A r \in Requests :
        At(r, "Assign.found") /\ req[r].to = req[r].user => req[r].list # "My"

(* The first half of ChangeAssignment goes on with an original only, ...   *)
LEMMA TakeBackSorted ==
    ASSUME Inv, TakesBackOnly, NEW C, Sorted(C), UNCHANGED <<born, crashes, owner>>,
           NEW r \in Requests, TakeBack(r)
    PROVE  Fine(C, r)
<1> DEFINE q == req[r]
<1>1. /\ ReqInv /\ StoreInv /\ q \in ReqType /\ ReqOwned(pc[r], q)
      /\ pc[r] \in TwinLabels /\ pc[r] \notin ListLabels \cup {"ok", "err"} /\ q.user \in Users
  BY DEF Inv, ReqInv, ReqOwned, TakeBack, At, ListLabels, TwinLabels
<1>2. q.kind # "List" /\ Knows(C, pc[r], q)
  BY <1>1, NoListing
<1>3. (q.to = q.user => q.list = "Out") => Route(q) = "Assign.unlist"
  BY DEF Route
<1>4. ASSUME UNCHANGED lists \/ \E u \in Users, l \in Lists : Shrinks(u, l),
             Others(r), Steady(r), pc[r] \in TakingLabels, pc'[r] \in TakingLabels
      PROVE  Fine(C, r)
  <2>1. /\ pc'[r] \notin CarryLabels
        /\ pc'[r] \notin ListLabels \cup {"Accept.my", "Assign.found"}
    BY <1>4 DEF TakingLabels, CarryLabels, ListLabels
  <2> QED
    BY <1>1, <1>2, <1>4, <2>1, SteadyStep
<1>5. CASE /\ At(r, "Assign.get") /\ GetIssue(r, q.issue, "Assign.find", "err")
           /\ req' = [req EXCEPT ![r].text = issues[q.issue]]
  <2> DEFINE p == [q EXCEPT !.text = issues[q.issue]]
  <2>1. UNCHANGED lists /\ (Goto(r, "Assign.find") \/ Goto(r, "err"))
    BY <1>5 DEF GetIssue, store
  <2>2. req' = [req EXCEPT ![r] = p]
    BY <1>5
  <2>3. Others(r) /\ req'[r] = p /\ pc'[r] \in {"Assign.find", "err"}
    BY <1>1, <2>1, <2>2, GoesWith DEF ReqInv, Goto
  <2>4. Steady(r)
    BY <1>1, <2>3 DEF Steady, Same, ReqType
  <2>5. "Assign.find" \notin CarryLabels \cup TakingLabels \cup ListLabels
    BY DEF CarryLabels, TakingLabels, ListLabels
  <2>6. CASE pc'[r] = "Assign.find"
    BY <1>1, <1>2, <2>1, <2>3, <2>4, <2>5, <2>6, SteadyStep
  <2>7. CASE pc'[r] = "err"
    BY <1>1, <2>1, <2>3, <2>4, <2>7, PlainCall, PlainMembers DEF Steady
  <2> QED
    BY <2>3, <2>6, <2>7
<1>6. CASE At(r, "Assign.find") /\ FindOwn(r, "Assign.found", "err")
  <2>1. /\ UNCHANGED lists /\ Others(r) /\ Same(r)
        /\ \/ /\ pc'[r] = "Assign.found"
              /\ req'[r].list \in Lists
              /\ Holds(lists[q.user][req'[r].list], q.issue)
              /\ req'[r].ref = RefIn(q.user, req'[r].list, q.issue)
           \/ pc'[r] \in {"Assign.find", "err"}
    BY <1>6, FindOwnMoves DEF At
  <2>2. Less(r)
    BY <1>1, <2>1 DEF Less, Same, CarryLabels, TwinLabels
  <2>3. CASE /\ pc'[r] = "Assign.found"
             /\ req'[r].list \in Lists
             /\ Holds(lists[q.user][req'[r].list], q.issue)
             /\ req'[r].ref = RefIn(q.user, req'[r].list, q.issue)
    <3> DEFINE l == req'[r].list
    <3>1. req'[r].ref.issue = q.issue /\ Fits(C, l, req'[r].ref)
      BY <1>1, <2>3, FoundFits
    <3>2. ~Received(req'[r]) => q.issue \notin C
      BY <2>3, <3>1 DEF Received, Fits, Lists
    <3>3. Knows(C, pc'[r], req'[r])
      BY <1>1, <1>2, <2>1, <2>3, <3>2 DEF Knows, Same, CarryLabels, TakingLabels, ListLabels
    <3> QED
      BY <1>2, <2>1, <2>2, <3>3, SortedSmooth DEF Fine, Same
  <2>4. CASE pc'[r] = "Assign.find"
    <3>1. Knows(C, pc'[r], req'[r])
      BY <1>1, <1>2, <2>1, <2>4 DEF Knows, Same, CarryLabels, TakingLabels, ListLabels
    <3> QED
      BY <1>2, <2>1, <2>2, <3>1, SortedSmooth DEF Fine, Same
  <2>5. CASE pc'[r] = "err"
    BY <1>1, <2>1, <2>5, PlainCall, PlainMembers
  <2> QED
    BY <2>1, <2>3, <2>4, <2>5
<1>7. CASE /\ At(r, "Assign.found")
           /\ Proceed(r, CASE Received(q) -> "err"
                           [] ~Received(q) /\ q.ref.fuser # NoUser -> "Assign.ffind"
                           [] OTHER -> Route(q))
           /\ Kept
  <2> DEFINE label == CASE Received(q) -> "err"
                        [] ~Received(q) /\ q.ref.fuser # NoUser -> "Assign.ffind"
                        [] OTHER -> Route(q)
  <2>1. UNCHANGED lists /\ Others(r) /\ Steady(r) /\ pc'[r] = label
    <3> HIDE DEF label
    <3> QED
      BY <1>1, <1>7, ProceedSteady DEF label
  <2>2. CASE Received(q)
    BY <1>1, <2>1, <2>2, PlainCall, PlainMembers DEF Steady
  <2>3. CASE ~Received(q)
    <3>1. q.issue \notin C /\ q.list \in {"My", "Out"} /\ (q.to = q.user => q.list = "Out")
      BY <1>1, <1>2, <1>7, <2>3 DEF Knows, At, Received, ReqType, Lists, TakesBackOnly
    <3>2. pc'[r] \in {"Assign.ffind", "Assign.unlist"}
      BY <1>3, <2>1, <2>3, <3>1
    <3>3. Knows(C, pc'[r], req'[r]) /\ Less(r)
      BY <1>1, <1>2, <2>1, <3>1, <3>2
      DEF Knows, Less, Steady, Same, CarryLabels, TwinLabels, ListLabels
    <3> QED
      BY <1>2, <2>1, <3>3, SortedSmooth DEF Fine, Steady, Same
  <2> QED
    BY <2>2, <2>3
<1>8. CASE At(r, "Assign.ffind") /\ FindForeign(r, "Assign.funlist", "err")
  <2>1. /\ UNCHANGED lists /\ Others(r) /\ Steady(r)
        /\ pc'[r] \in {"Assign.funlist", "Assign.ffind", "err"}
    BY <1>8, FindForeignMoves DEF At
  <2>2. CASE pc'[r] \in {"Assign.funlist", "Assign.ffind"}
    BY <1>4, <1>8, <2>1, <2>2 DEF At, TakingLabels
  <2>3. CASE pc'[r] = "err"
    BY <1>1, <2>1, <2>3, PlainCall, PlainMembers DEF Steady
  <2> QED
    BY <2>1, <2>2, <2>3
<1>9. CASE /\ At(r, "Assign.funlist")
           /\ RemoveReference(r, q.ref.fuser, Copy(q), q.flist, "Assign.ftake", "err")
           /\ Kept
  <2>1. q.flist \in Lists /\ \A v \in Users, m \in Lists : IdsUnique(lists[v][m])
    BY <1>1 DEF ReqType, Sorted, ListsSorted
  <2>2. /\ Goto(r, "Assign.ftake") \/ Goto(r, "err")
        /\ UNCHANGED lists \/ \E u \in Users, l \in Lists : Shrinks(u, l)
    BY <1>1, <1>9, <2>1, RemoveReferenceMoves
  <2>3. Others(r) /\ Steady(r) /\ pc'[r] \in {"Assign.ftake", "err"}
    BY <1>1, <1>9, <2>2, KeptIsSteady
  <2>4. CASE pc'[r] = "Assign.ftake"
    BY <1>4, <1>9, <2>2, <2>3, <2>4 DEF At, TakingLabels
  <2>5. CASE pc'[r] = "err"
    BY <1>1, <2>2, <2>3, <2>5, PlainCall, PlainMembers DEF Steady
  <2> QED
    BY <2>3, <2>4, <2>5
<1>10. CASE At(r, "Assign.ftake") /\ TakeIssue(r, Copy(q), "Assign.fdrop", Route(q))
  <2>1. Copy(q) \in IssueIds /\ Route(q) = "Assign.unlist"
    BY <1>1, <1>2, <1>3, <1>10
    DEF At, ReqOwned, PeerLabels, FarLabels, PeerOwned, Copy, Knows, TakingLabels
  <2>2. /\ UNCHANGED lists /\ Others(r) /\ Steady(r)
        /\ pc'[r] \in {"Assign.fdrop", "Assign.unlist"}
    BY <1>10, <2>1, TakeIssueSteady
  <2> QED
    BY <1>4, <1>10, <2>2 DEF At, TakingLabels
<1>11. CASE At(r, "Assign.fdrop") /\ DropTaken(r, Copy(q), Route(q))
  <2>1. Route(q) = "Assign.unlist"
    BY <1>2, <1>3, <1>11 DEF At, Knows, TakingLabels
  <2>2. UNCHANGED lists /\ Others(r) /\ Steady(r) /\ pc'[r] = "Assign.unlist"
    BY <1>11, <2>1, DropTakenSteady
  <2> QED
    BY <1>4, <1>11, <2>2 DEF At, TakingLabels
<1> QED
  BY <1>5, <1>6, <1>7, <1>8, <1>9, <1>10, <1>11 DEF TakeBack

(* ... which the second half takes into its hand and lists again.          *)
LEMMA AssignAnewSorted ==
    ASSUME Inv, NEW C, Sorted(C), UNCHANGED <<born, crashes, owner>>, NEW r \in Requests,
           AssignAnew(r)
    PROVE  Fine(C, r)
<1> DEFINE q == req[r]
<1>1. /\ Kept /\ ReqInv /\ StoreInv /\ q \in ReqType /\ ReqOwned(pc[r], q)
      /\ pc[r] \in TwinLabels /\ pc[r] \notin ListLabels \cup {"ok", "err"} /\ q.user \in Users
  BY DEF Inv, ReqInv, ReqOwned, AssignAnew, At, ListLabels, TwinLabels
<1>2. q.kind # "List" /\ Knows(C, pc[r], q)
  BY <1>1, NoListing
<1> DEFINE next == IF q.user = q.to THEN "Assign.my" ELSE "Assign.save"
<1>3. CASE At(r, "Assign.unlist") /\ RemoveReference(r, q.user, q.issue, q.list, next, "err")
  <2>1. q.issue \notin C /\ q.list \in {"My", "Out"}
    BY <1>2, <1>3 DEF At, Knows, TakingLabels
  <2>2. q.list \in Lists /\ \A v \in Users, m \in Lists : IdsUnique(lists[v][m])
    BY <2>1 DEF Lists, Sorted, ListsSorted
  <2>3. next \in {"Assign.my", "Assign.save"}
    OBVIOUS
  <2> HIDE DEF next
  <2>4. \/ Goto(r, next) /\ Shrinks(q.user, q.list)
           /\ Holds(lists[q.user][q.list], q.issue) /\ ~Holds(lists'[q.user][q.list], q.issue)
        \/ Goto(r, "err") /\ UNCHANGED lists
    BY <1>1, <1>3, <2>2, RemoveReferenceMoves
  <2>5. CASE /\ Goto(r, next) /\ Shrinks(q.user, q.list)
             /\ Holds(lists[q.user][q.list], q.issue)
             /\ ~Holds(lists'[q.user][q.list], q.issue)
    <3>1. Others(r) /\ Steady(r) /\ pc'[r] \in {"Assign.my", "Assign.save"}
      BY <1>1, <2>3, <2>5, KeptIsSteady
    <3>2. Knows(C, pc'[r], req'[r])
      BY <1>1, <1>2, <2>1, <3>1 DEF Knows, Steady, Same, TakingLabels, ListLabels
    <3>3. Sorted(C)' /\ Moves
      BY <1>1, <2>1, <2>5, <3>1, <3>2, SortedTaking DEF Steady, Same
    <3> QED
      BY <1>2, <3>1, <3>3 DEF Fine, Steady, Same
  <2>6. CASE Goto(r, "err") /\ UNCHANGED lists
    <3>1. Others(r) /\ Steady(r) /\ pc'[r] = "err"
      BY <1>1, <2>6, KeptIsSteady
    <3> QED
      BY <1>1, <2>6, <3>1, PlainCall, PlainMembers DEF Steady
  <2> QED
    BY <2>4, <2>5, <2>6
<1>4. CASE /\ At(r, "Assign.my")
           /\ AddReference(r, q.user, q.issue, "My", NoUser, NoIssue, "ok", "err")
  BY <1>1, <1>4, MySorted, PlainMembers DEF At
<1>5. CASE At(r, "Assign.save") /\ SaveIssue(r, q.twin, q.text, "Assign.out", "err")
  <2>1. UNCHANGED lists /\ Others(r) /\ Steady(r) /\ pc'[r] \in {"Assign.out", "err"}
    BY <1>1, <1>5, SaveIssueSteady
  <2>2. CASE pc'[r] = "Assign.out"
    <3>1. pc[r] \in CarryLabels /\ "Assign.out" \notin TakingLabels \cup ListLabels
      BY <1>5 DEF At, CarryLabels, TakingLabels, ListLabels
    <3> QED
      BY <1>1, <1>2, <2>1, <2>2, <3>1, SteadyStep
  <2>3. CASE pc'[r] = "err"
    BY <1>1, <2>1, <2>3, PlainCall, PlainMembers DEF Steady
  <2> QED
    BY <2>1, <2>2, <2>3
<1>6. CASE /\ At(r, "Assign.out")
           /\ AddReference(r, q.user, q.issue, "Out", q.to, q.twin, "Assign.in", "err")
  BY <1>1, <1>6, OutSorted DEF At
<1>7. CASE /\ At(r, "Assign.in")
           /\ AddReference(r, q.to, q.twin, "In", q.user, q.issue, "ok", "err")
  BY <1>1, <1>7, InSorted, PlainMembers DEF At
<1> QED
  BY <1>3, <1>4, <1>5, <1>6, <1>7 DEF AssignAnew

(* A listing changes nothing.                                              *)
LEMMA GetAllListSorted ==
    ASSUME Inv, NEW C, Sorted(C), UNCHANGED <<born, crashes, owner>>, NEW r \in Requests,
           GetAllList(r)
    PROVE  Sorted(C)' /\ Moves /\ Others(r)
<1> DEFINE q == req[r]
<1>1. ReqInv /\ q \in ReqType /\ pc[r] \in ListLabels /\ UNCHANGED lists
  BY DEF Inv, ReqInv, GetAllList, At, ListLabels, store
<1>2. q.kind = "List"
  BY <1>1 DEF Sorted, Knows
<1>3. ASSUME NEW label \in ListLabels \cup {"ok", "err"}, Goto(r, label),
             NEW p, p.kind = q.kind, req' = [req EXCEPT ![r] = p]
      PROVE  Sorted(C)' /\ Moves /\ Others(r)
  <2>1. Others(r) /\ req'[r] = p /\ pc'[r] = label
    BY <1>1, <1>3, GoesWith DEF ReqInv, Goto
  <2>2. /\ label \notin CarryLabels /\ label \notin TwinLabels /\ label \notin TakingLabels
        /\ label # "Accept.my" /\ label # "Assign.found"
    BY DEF ListLabels, CarryLabels, TwinLabels, TakingLabels
  <2>3. Knows(C, pc'[r], req'[r]) /\ Less(r)
    BY <1>2, <1>3, <2>1, <2>2 DEF Knows, Less
  <2> QED
    BY <1>1, <2>1, <2>3, SortedSmooth
<1>4. /\ "List.read" \in ListLabels /\ "List.get" \in ListLabels
  BY DEF ListLabels
<1>5. CASE Kept /\ Goto(r, "err")
  <2>1. req' = [req EXCEPT ![r] = q]
    BY <1>1, <1>5 DEF Kept, ReqInv
  <2> QED
    BY <1>3, <1>5, <2>1
<1>6. CASE /\ Goto(r, "List.get")
           /\ req' = [req EXCEPT ![r].page = lists[q.user][ListOrder[q.look]]]
  <2> DEFINE p == [q EXCEPT !.page = lists[q.user][ListOrder[q.look]]]
  <2>1. req' = [req EXCEPT ![r] = p] /\ p.kind = q.kind
    BY <1>1, <1>6 DEF ReqType
  <2> HIDE DEF p
  <2> QED
    BY <1>3, <1>4, <1>6, <2>1
<1>7. CASE /\ Goto(r, "List.get")
           /\ \E seen : req' = [req EXCEPT ![r].page = Tail(@), ![r].seen = seen]
  <2>1. PICK seen : req' = [req EXCEPT ![r].page = Tail(@), ![r].seen = seen]
    BY <1>7
  <2> DEFINE p == [q EXCEPT !.page = Tail(@), !.seen = seen]
  <2>2. req' = [req EXCEPT ![r] = p] /\ p.kind = q.kind
    BY <1>1, <2>1 DEF ReqType, ReqInv
  <2> HIDE DEF p
  <2> QED
    BY <1>3, <1>4, <1>7, <2>2
<1>8. CASE /\ Goto(r, "List.get")
           /\ req' = [req EXCEPT ![r].page = Tail(@)]
  <2> DEFINE p == [q EXCEPT !.page = Tail(@)]
  <2>1. req' = [req EXCEPT ![r] = p] /\ p.kind = q.kind
    BY <1>1, <1>8 DEF ReqType
  <2> HIDE DEF p
  <2> QED
    BY <1>3, <1>4, <1>8, <2>1
<1>9. CASE /\ Goto(r, IF q.look < 3 THEN "List.read" ELSE "ok")
           /\ req' = [req EXCEPT ![r].look = IF @ < 3 THEN @ + 1 ELSE @]
  <2> DEFINE p == [q EXCEPT !.look = IF @ < 3 THEN @ + 1 ELSE @]
             label == IF q.look < 3 THEN "List.read" ELSE "ok"
  <2>1. req' = [req EXCEPT ![r] = p] /\ p.kind = q.kind /\ Goto(r, label)
    BY <1>1, <1>9 DEF ReqType
  <2>2. label \in ListLabels \cup {"ok", "err"}
    BY <1>4
  <2> HIDE DEF p, label
  <2> QED
    BY <1>3, <2>1, <2>2
<1>10. \/ Kept /\ Goto(r, "err")
       \/ /\ Goto(r, "List.get")
          /\ req' = [req EXCEPT ![r].page = lists[q.user][ListOrder[q.look]]]
       \/ /\ Goto(r, "List.get")
          /\ \E seen : req' = [req EXCEPT ![r].page = Tail(@), ![r].seen = seen]
       \/ /\ Goto(r, "List.get")
          /\ req' = [req EXCEPT ![r].page = Tail(@)]
       \/ /\ Goto(r, IF q.look < 3 THEN "List.read" ELSE "ok")
          /\ req' = [req EXCEPT ![r].look = IF @ < 3 THEN @ + 1 ELSE @]
  BY DEF GetAllList
<1> QED
  BY <1>5, <1>6, <1>7, <1>8, <1>9, <1>10

(* Whatever a handler does next.                                           *)
LEMMA StepSorted ==
    ASSUME Inv, TakesBackOnly, NEW C, Sorted(C), NEW r \in Requests, Step(r)
    PROVE  Sorted(C)' /\ Moves /\ Others(r) /\ (GetAllList(r) \/ req'[r].kind # "List")
<1>1. UNCHANGED <<born, crashes, owner>>
  BY DEF Step
<1>2. CASE GetAllList(r)
  BY <1>1, <1>2, GetAllListSorted
<1>3. CASE AddIssue(r) \/ SendIssue(r) \/ EndTodo(r) \/ EndCopy(r) \/ EditIssue(r)
  BY <1>1, <1>3, AddIssueSorted, SendIssueSorted, EndTodoSorted, EndCopySorted, EditIssueSorted
  DEF Fine
<1>4. CASE TakeBack(r) \/ AssignAnew(r) \/ AcceptIssue(r) \/ BumpIssue(r)
  BY <1>1, <1>4, TakeBackSorted, AssignAnewSorted, AcceptIssueSorted, BumpIssueSorted DEF Fine
<1> QED
  BY <1>2, <1>3, <1>4 DEF Step

(* A request that is over has nothing in hand.                             *)
LEMMA OverSorted ==
    ASSUME Inv, NEW C, Sorted(C), NEW r \in Requests, Return(r) \/ Crash(r)
    PROVE  Fine(C, r) /\ pc'[r] = "idle"
<1>1. /\ UNCHANGED <<lists, born>> /\ ReqInv
      /\ Goto(r, "idle") /\ req' = [req EXCEPT ![r] = NoReq]
  BY DEF Return, Crash, Inv
<1>2. Others(r) /\ req'[r] = NoReq /\ pc'[r] = "idle"
  BY <1>1, GoesWith DEF ReqInv, Goto
<1>3. NoReq.kind # "List"
  BY DEF NoReq
<1> QED
  BY <1>1, <1>2, <1>3, PlainStep, PlainMembers

-----------------------------------------------------------------------------
(* Requests that arrive: what they make joins the originals or the copies. *)

(* Ids with an owner have been handed out.                                 *)
LEMMA BornAlready ==
    ASSUME StoreInv, NEW id \in IssueIds, owner[id] \in Users
    PROVE  id \in 1..born
BY SentinelAssumption, BoundsAssumption DEF StoreInv, Fresh, IssueIds

LEMMA ListedIsBorn ==
    ASSUME StoreInv, NEW u \in Users, NEW l \in Lists, NEW id, Holds(lists[u][l], id)
    PROVE  id \in 1..born
<1>1. PICK i \in 1..Len(lists[u][l]) : lists[u][l][i].issue = id
  BY HoldsMeans
<1>2. lists[u][l] \in Seq(Ref) /\ owner[lists[u][l][i].issue] = u
  BY <1>1 DEF StoreInv, ListsOwned, RefOwned
<1>3. lists[u][l][i] \in Ref
  BY <1>1, <1>2
<1> QED
  BY <1>1, <1>2, <1>3, BornAlready DEF Ref

LEMMA ClaimedIsBorn ==
    ASSUME Inv, NEW s \in Requests
    PROVE  /\ pc[s] \in CarryLabels \cup TakingLabels \cup {"Accept.my", "Assign.found"} =>
                  req[s].issue \in 1..born
           /\ pc[s] \in TwinLabels => req[s].twin \in 1..born
<1>1. ReqOwned(pc[s], req[s]) /\ StoreInv
  BY DEF Inv, ReqInv
<1>2. /\ CarryLabels \cup TakingLabels \cup {"Accept.my", "Assign.found"} \subseteq OwnLabels
      /\ "idle" \notin OwnLabels /\ "idle" \notin TwinLabels
  BY DEF CarryLabels, TakingLabels, OwnLabels, TwinLabels
<1>3. ASSUME pc[s] \in CarryLabels \cup TakingLabels \cup {"Accept.my", "Assign.found"}
      PROVE  req[s].issue \in 1..born
  BY <1>1, <1>2, <1>3, BornAlready DEF ReqOwned
<1>4. ASSUME pc[s] \in TwinLabels
      PROVE  req[s].twin \in 1..born
  BY <1>1, <1>4, BornAlready DEF ReqOwned
<1> QED
  BY <1>3, <1>4

(* D adds to the copies some of the ids handed out.                        *)
LEMMA ArriveSorted ==
    ASSUME Inv, NEW C, Sorted(C), UNCHANGED lists, NEW r \in Requests,
           NEW label, NEW q, NEW makers \in Seq(Users), Arrive(r, label, q, makers),
           NEW D, C \subseteq D, D \ C \subseteq born + 1 .. born + Len(makers),
           Knows(D, label, q), label # "Accept.my",
           label \in CarryLabels => q.issue \in born + 1 .. born + Len(makers),
           label \in TwinLabels => q.twin \in born + 1 .. born + Len(makers)
    PROVE  Sorted(D)' /\ Moves /\ Others(r) /\ pc[r] = "idle" /\ pc'[r] = label /\ req'[r] = q
<1>1. /\ ReqInv /\ StoreInv /\ pc[r] = "idle" /\ Goto(r, label)
      /\ req' = [req EXCEPT ![r] = q] /\ born' = born + Len(makers)
  BY DEF Inv, Arrive
<1>2. Others(r) /\ req'[r] = q /\ pc'[r] = label
  BY <1>1, GoesWith DEF ReqInv, Goto
<1>3. Len(makers) \in Nat /\ born \in Nat
  BY <1>1, BoundsAssumption DEF StoreInv
<1> DEFINE new == born + 1 .. born + Len(makers)
<1>4. /\ \A id \in 1..born : id \in C <=> id \in D
      /\ \A id \in new : id \notin 1..born
  BY <1>3
<1>5. D \subseteq 1..born'
  BY <1>1, <1>3 DEF Sorted, ListsSorted
<1> HIDE DEF new
<1>6. ListsSorted(D)'
  <2>1. ASSUME NEW u \in Users, NEW l \in Lists, NEW i \in 1..Len(lists[u][l])
        PROVE  Fits(D, l, lists[u][l][i])
    <3>1. Holds(lists[u][l], lists[u][l][i].issue)
      BY HoldsMeans
    <3>2. lists[u][l][i].issue \in 1..born
      BY <1>1, <3>1, ListedIsBorn
    <3>3. Fits(C, l, lists[u][l][i])
      BY DEF Sorted, ListsSorted
    <3> QED
      BY <1>4, <3>2, <3>3 DEF Fits
  <2>2. ListsSorted(C)
    BY DEF Sorted
  <2> QED
    BY <1>5, <2>1, <2>2 DEF ListsSorted
<1>7. ASSUME NEW s \in Requests
      PROVE  Knows(D, pc'[s], req'[s])
  <2>1. CASE s = r
    BY <1>2, <2>1
  <2>2. CASE s # r
    <3>1. Knows(C, pc[s], req[s]) /\ pc'[s] = pc[s] /\ req'[s] = req[s]
      BY <1>2, <2>2 DEF Sorted, Others
    <3> QED
      BY <1>4, <3>1, ClaimedIsBorn DEF Knows
  <2> QED
    BY <2>1, <2>2
<1>8. Apart
  BY DEF Sorted
<1>9. "My" \in Lists /\ "In" \in Lists /\ "Out" \in Lists
  BY DEF Lists
<1>10. ASSUME NEW s \in Requests, pc'[s] \in CarryLabels, NEW u \in Users
       PROVE  ~Holds(lists'[u]["My"], req'[s].issue) /\ ~Holds(lists'[u]["Out"], req'[s].issue)
  <2>1. CASE s = r
    BY <1>1, <1>2, <1>4, <1>9, <1>10, <2>1, ListedIsBorn DEF new
  <2>2. CASE s # r
    BY <1>2, <1>8, <1>10, <2>2 DEF Others, Apart
  <2> QED
    BY <2>1, <2>2
<1>11. ASSUME NEW s \in Requests, pc'[s] \in TwinLabels, NEW u \in Users
       PROVE  ~Holds(lists'[u]["My"], req'[s].twin) /\ ~Holds(lists'[u]["In"], req'[s].twin)
  <2>1. CASE s = r
    BY <1>1, <1>2, <1>4, <1>9, <1>11, <2>1, ListedIsBorn DEF new
  <2>2. CASE s # r
    BY <1>2, <1>8, <1>11, <2>2 DEF Others, Apart
  <2> QED
    BY <2>1, <2>2
<1>12. ASSUME NEW s \in Requests \ {r}
       PROVE  /\ pc'[r] \in CarryLabels /\ pc[s] \in CarryLabels =>
                    req[s].issue # req'[r].issue
              /\ pc'[r] \in TwinLabels /\ pc[s] \in TwinLabels => req[s].twin # req'[r].twin
              /\ pc'[r] \in TwinLabels /\ pc[s] = "Accept.my" => req[s].issue # req'[r].twin
              /\ pc'[r] = "Accept.my" /\ pc[s] \in TwinLabels => req[s].twin # req'[r].issue
  BY <1>2, <1>4, ClaimedIsBorn DEF new
<1>13. Apart'
  BY <1>2, <1>8, <1>10, <1>11, <1>12, ApartAfter
<1> QED
  BY <1>1, <1>2, <1>6, <1>7, <1>13 DEF Sorted, Moves

(* What a request that arrives finds, and what it is.                      *)
Arrived(r) ==
    /\ \E D : Sorted(D)'
    /\ Moves
    /\ Others(r)
    /\ pc[r] = "idle"
    /\ \/ req'[r].kind # "List"
       \/ pc'[r] = "List.read" /\ req'[r].look = 1

(* A request that makes nothing, and claims nothing.                       *)
LEMMA PlainArrival ==
    ASSUME Inv, NEW C, Sorted(C), UNCHANGED lists, NEW r \in Requests,
           NEW label \in PlainLabels, NEW q, q.kind # "List", Arrive(r, label, q, << >>)
    PROVE  Arrived(r)
<1>1. /\ << >> \in Seq(Users) /\ C \subseteq C
      /\ C \ C \subseteq born + 1 .. born + Len(<< >>)
  OBVIOUS
<1>2. /\ label \notin CarryLabels /\ label \notin TwinLabels /\ label \notin ListLabels
      /\ label # "Accept.my"
  BY DEF PlainLabels
<1>3. label \notin TakingLabels /\ label # "Assign.found"
  BY <1>2 DEF TakingLabels, TwinLabels
<1>4. Knows(C, label, q)
  BY <1>2, <1>3 DEF Knows
<1>5. Sorted(C)' /\ Moves /\ Others(r) /\ pc[r] = "idle" /\ pc'[r] = label /\ req'[r] = q
  BY <1>1, <1>2, <1>4, ArriveSorted
<1> QED
  BY <1>5 DEF Arrived

(* A request that makes a copy, to be delivered later.                     *)
LEMMA TwinArrival ==
    ASSUME Inv, NEW C, Sorted(C), UNCHANGED lists, NEW r \in Requests,
           NEW label, NEW q, NEW makers \in Seq(Users), Arrive(r, label, q, makers),
           q.kind # "List", q.twin \in born + 1 .. born + Len(makers),
           label \notin ListLabels \cup TakingLabels \cup {"Accept.my", "Assign.found"},
           label \in CarryLabels =>
               q.issue \in born + 1 .. born + Len(makers) /\ q.issue # q.twin
    PROVE  Arrived(r)
<1>1. C \subseteq 1..born /\ born \in Nat
  BY BoundsAssumption DEF Sorted, ListsSorted, Inv, StoreInv
<1>2. \A id \in born + 1 .. born + Len(makers) : id \notin C
  BY <1>1
<1>3. ASSUME NEW D, D = C \cup {q.twin}
      PROVE  Arrived(r)
  <2>1. C \subseteq D /\ D \ C \subseteq born + 1 .. born + Len(makers)
    BY <1>3
  <2>2. Knows(D, label, q)
    BY <1>2, <1>3 DEF Knows
  <2>3. label # "Accept.my"
    OBVIOUS
  <2>4. /\ label \in CarryLabels => q.issue \in born + 1 .. born + Len(makers)
        /\ label \in TwinLabels => q.twin \in born + 1 .. born + Len(makers)
    OBVIOUS
  <2>5. Sorted(D)' /\ Moves /\ Others(r) /\ pc[r] = "idle" /\ req'[r] = q
    BY <2>1, <2>2, <2>3, <2>4, ArriveSorted
  <2> QED
    BY <2>5 DEF Arrived
<1> QED
  BY <1>3

(* What is added joins the originals, and so does what is sent; its twin   *)
(* joins the copies.                                                       *)
LEMMA BeginNewSorted ==
    ASSUME Inv, NEW C, Sorted(C), UNCHANGED lists, NEW r \in Requests, BeginNew(r)
    PROVE  Arrived(r)
<1>1. C \subseteq 1..born /\ born \in Nat
  BY BoundsAssumption DEF Sorted, ListsSorted, Inv, StoreInv
<1>2. ASSUME NEW u \in Users, NEW text \in Texts,
             Arrive(r, "Add.save",
                    [[NoReq EXCEPT !.user = u, !.issue = born + 1, !.text = text]
                        EXCEPT !.kind = "Add"], <<u>>)
      PROVE  Arrived(r)
  <2> DEFINE q == [[NoReq EXCEPT !.user = u, !.issue = born + 1, !.text = text]
                      EXCEPT !.kind = "Add"]
             makers == <<u>>
             label == "Add.save"
  <2>1. makers \in Seq(Users) /\ Len(makers) = 1
    OBVIOUS
  <2>2. q.issue = born + 1 /\ q.kind # "List"
    BY DEF NoReq
  <2>3. Arrive(r, label, q, makers)
    BY <1>2
  <2>4. /\ label \notin TwinLabels /\ label \notin ListLabels /\ label \notin TakingLabels
        /\ label # "Accept.my" /\ label # "Assign.found"
    BY DEF TwinLabels, ListLabels, TakingLabels
  <2> HIDE DEF makers, q, label
  <2>5. /\ C \subseteq C /\ C \ C \subseteq born + 1 .. born + Len(makers)
        /\ q.issue \in born + 1 .. born + Len(makers) /\ q.issue \notin C
    BY <1>1, <2>1, <2>2
  <2>6. Knows(C, label, q)
    BY <2>2, <2>4, <2>5 DEF Knows
  <2>7. /\ Sorted(C)' /\ Moves /\ Others(r) /\ pc[r] = "idle" /\ req'[r] = q
    BY <2>1, <2>3, <2>4, <2>5, <2>6, ArriveSorted, ZenonT(60)
  <2> QED
    BY <2>2, <2>7 DEF Arrived
<1>3. ASSUME NEW u \in Users, NEW text \in Texts, NEW v \in Users,
             Arrive(r, "Send.save",
                    [[NoReq EXCEPT !.user = u, !.issue = born + 1, !.text = text]
                        EXCEPT !.kind = "Send", !.to = v, !.twin = born + 2], <<u, v>>)
      PROVE  Arrived(r)
  <2> DEFINE q == [[NoReq EXCEPT !.user = u, !.issue = born + 1, !.text = text]
                      EXCEPT !.kind = "Send", !.to = v, !.twin = born + 2]
             makers == <<u, v>>
             label == "Send.save"
  <2>1. makers \in Seq(Users) /\ Len(makers) = 2
    OBVIOUS
  <2>2. q.issue = born + 1 /\ q.twin = born + 2 /\ q.kind # "List"
    BY DEF NoReq
  <2>3. Arrive(r, label, q, makers)
    BY <1>3
  <2>4. /\ label \notin ListLabels /\ label \notin TakingLabels
        /\ label # "Accept.my" /\ label # "Assign.found"
    BY DEF ListLabels, TakingLabels
  <2> HIDE DEF makers, q, label
  <2>5. born + 2 # born + 1
    BY <1>1
  <2>6. /\ born + 2 \in born + 1 .. born + Len(makers)
        /\ born + 1 \in born + 1 .. born + Len(makers)
    BY <1>1, <2>1
  <2> QED
    BY <2>1, <2>2, <2>3, <2>4, <2>5, <2>6, TwinArrival
<1> QED
  BY <1>2, <1>3 DEF BeginNew

LEMMA BeginEndSorted ==
    ASSUME Inv, NEW C, Sorted(C), UNCHANGED lists, NEW r \in Requests, BeginEnd(r)
    PROVE  Arrived(r)
<1>1. ASSUME NEW u \in Users, NEW id \in Known, NEW kind \in {"Complete", "Remove"},
             Arrive(r, "End.find", [NoReq EXCEPT !.kind = kind, !.user = u, !.issue = id], << >>)
      PROVE  Arrived(r)
  <2> DEFINE q == [NoReq EXCEPT !.kind = kind, !.user = u, !.issue = id]
  <2>1. q.kind # "List" /\ Arrive(r, "End.find", q, << >>)
    BY <1>1 DEF NoReq
  <2> HIDE DEF q
  <2> QED
    BY <2>1, PlainArrival, PlainMembers
<1>2. ASSUME NEW u \in Users,
             Arrive(r, "End.pop", [NoReq EXCEPT !.kind = "Pop", !.user = u], << >>)
      PROVE  Arrived(r)
  <2> DEFINE q == [NoReq EXCEPT !.kind = "Pop", !.user = u]
  <2>1. q.kind # "List" /\ Arrive(r, "End.pop", q, << >>)
    BY <1>2 DEF NoReq
  <2> HIDE DEF q
  <2> QED
    BY <2>1, PlainArrival, PlainMembers
<1> QED
  BY <1>1, <1>2 DEF BeginEnd

(* The copy that an assignment is about to give joins the copies.          *)
LEMMA BeginChangeSorted ==
    ASSUME Inv, NEW C, Sorted(C), UNCHANGED lists, NEW r \in Requests, BeginChange(r)
    PROVE  Arrived(r)
<1>1. C \subseteq 1..born /\ born \in Nat
  BY BoundsAssumption DEF Sorted, ListsSorted, Inv, StoreInv
<1>2. ASSUME NEW u \in Users, NEW id \in Known, NEW text \in Texts,
             Arrive(r, "Edit.get",
                    [[NoReq EXCEPT !.user = u, !.issue = id] EXCEPT !.kind = "Edit", !.text = text],
                    << >>)
      PROVE  Arrived(r)
  <2> DEFINE q == [[NoReq EXCEPT !.user = u, !.issue = id]
                      EXCEPT !.kind = "Edit", !.text = text]
  <2>1. q.kind # "List" /\ Arrive(r, "Edit.get", q, << >>)
    BY <1>2 DEF NoReq
  <2> HIDE DEF q
  <2> QED
    BY <2>1, PlainArrival, PlainMembers
<1>3. ASSUME NEW u \in Users, NEW id \in Known, NEW v \in Users,
             Arrive(r, "Assign.get",
                    [[NoReq EXCEPT !.user = u, !.issue = id]
                        EXCEPT !.kind = "Assign", !.to = v, !.twin = born + 1], <<v>>)
      PROVE  Arrived(r)
  <2> DEFINE q == [[NoReq EXCEPT !.user = u, !.issue = id]
                      EXCEPT !.kind = "Assign", !.to = v, !.twin = born + 1]
             makers == <<v>>
             label == "Assign.get"
  <2>1. makers \in Seq(Users) /\ Len(makers) = 1
    OBVIOUS
  <2>2. q.twin = born + 1 /\ q.kind # "List"
    BY DEF NoReq
  <2>3. Arrive(r, label, q, makers)
    BY <1>3
  <2>4. /\ label \notin CarryLabels /\ label \notin ListLabels /\ label \notin TakingLabels
        /\ label # "Accept.my" /\ label # "Assign.found"
    BY DEF CarryLabels, ListLabels, TakingLabels
  <2> HIDE DEF makers, q, label
  <2>5. born + 1 \in born + 1 .. born + Len(makers)
    BY <1>1, <2>1
  <2> QED
    BY <2>1, <2>2, <2>3, <2>4, <2>5, TwinArrival
<1>4. ASSUME NEW u \in Users, NEW id \in Known, NEW kind \in {"Accept", "Bump"},
             NEW label \in {"Accept.get", "Bump.ref"},
             Arrive(r, label, [[NoReq EXCEPT !.user = u, !.issue = id] EXCEPT !.kind = kind], << >>)
      PROVE  Arrived(r)
  <2> DEFINE q == [[NoReq EXCEPT !.user = u, !.issue = id] EXCEPT !.kind = kind]
  <2>1. q.kind # "List" /\ Arrive(r, label, q, << >>)
    BY <1>4 DEF NoReq
  <2> HIDE DEF q
  <2> QED
    BY <2>1, PlainArrival, PlainMembers
<1> QED
  BY <1>2, <1>3, <1>4 DEF BeginChange

LEMMA BeginListSorted ==
    ASSUME Inv, NEW C, Sorted(C), UNCHANGED lists, NEW r \in Requests, BeginList(r)
    PROVE  Arrived(r)
<1>1. ASSUME NEW u \in Users,
             Arrive(r, "List.read", [NoReq EXCEPT !.kind = "List", !.user = u], << >>)
      PROVE  Arrived(r)
  <2> DEFINE q == [NoReq EXCEPT !.kind = "List", !.user = u]
             label == "List.read"
             makers == << >>
  <2>1. q.kind = "List" /\ q.look = 1
    BY DEF NoReq
  <2>2. /\ label \notin CarryLabels /\ label \notin TwinLabels
        /\ label \notin TakingLabels /\ label \in ListLabels
        /\ label # "Accept.my" /\ label # "Assign.found"
    BY DEF CarryLabels, TwinLabels, TakingLabels, ListLabels
  <2>3. Arrive(r, label, q, makers)
    BY <1>1
  <2>4. makers \in Seq(Users) /\ C \subseteq C /\ C \ C \subseteq born + 1 .. born + Len(makers)
    OBVIOUS
  <2> HIDE DEF makers, q, label
  <2>5. Knows(C, label, q)
    BY <2>1, <2>2 DEF Knows
  <2>6. /\ Sorted(C)' /\ Moves /\ Others(r)
        /\ pc[r] = "idle" /\ pc'[r] = label /\ req'[r] = q
    BY <2>2, <2>3, <2>4, <2>5, ArriveSorted
  <2> QED
    BY <2>1, <2>6 DEF Arrived, label
<1> QED
  BY <1>1 DEF BeginList

LEMMA BeginSorted ==
    ASSUME Inv, NEW C, Sorted(C), NEW r \in Requests, Begin(r)
    PROVE  Arrived(r)
BY BeginNewSorted, BeginEndSorted, BeginChangeSorted, BeginListSorted DEF Begin

(* At the start there are no copies.                                       *)
LEMMA InitSorted ==
    ASSUME Init
    PROVE  Sorted({})
<1>1. ListsSorted({})
  <2>1. ASSUME NEW u \in Users, NEW l \in Lists
        PROVE  lists[u][l] = << >>
    BY DEF Init
  <2>2. 1..Len(<< >>) = {}
    OBVIOUS
  <2>3. \A u \in Users, l \in Lists : 1..Len(lists[u][l]) = {}
    BY <2>1, <2>2
  <2>4. "My" \in Lists
    BY DEF Lists
  <2>5. \A u \in Users : \A id : ~Holds(lists[u]["My"], id)
    BY <2>3, <2>4, HoldsMeans
  <2> QED
    BY <2>3, <2>5 DEF ListsSorted, IdsUnique
<1>2. \A r \in Requests : Knows({}, pc[r], req[r])
  BY DEF Init, Knows, NoReq, CarryLabels, TwinLabels, TakingLabels, ListLabels
<1>3. Apart
  BY DEF Init, Apart, CarryLabels, TwinLabels
<1> QED
  BY <1>1, <1>2, <1>3 DEF Sorted

-----------------------------------------------------------------------------
(* What a listing has, and what it will still see.                         *)

(* The lists that it has not read yet.                                     *)
Unread(label, q) ==
    {ListOrder[n] : n \in {m \in 1..3 : q.look < m \/ (label = "List.read" /\ q.look = m)}}

(* A todo that it has, or is about to read the record of.                  *)
Covered(label, q, id) ==
    id \in q.seen \/ (label = "List.get" /\ Holds(q.page, id))

(* What its user has had throughout is covered or in a list not read yet;  *)
(* what is in the inbox, once that is read, is covered: it may be in the   *)
(* own list as well, and leave that.                                       *)
Complete(label, q, had) ==
    /\ label \in ListLabels =>
          /\ had \subseteq HeldBy(q.user)
          /\ \A id \in had :
                /\ Covered(label, q, id) \/ \E l \in Unread(label, q) : Holds(lists[q.user][l], id)
                /\ "In" \notin Unread(label, q) /\ Holds(lists[q.user]["In"], id) =>
                      Covered(label, q, id)
    /\ label = "ok" /\ q.kind = "List" => had \subseteq q.seen

AllComplete == \A r \in Requests : Complete(pc[r], req[r], held[r])

(* The inbox is read first.                                                *)
LEMMA UnreadFacts ==
    ASSUME NEW label, NEW q, q.look \in 1..3
    PROVE  /\ Unread(label, q) \subseteq Lists
           /\ "In" \in Unread(label, q) => Unread(label, q) = Lists
           /\ label = "List.read" /\ q.look = 1 => Unread(label, q) = Lists
           /\ q.look = 3 /\ label # "List.read" => Unread(label, q) = {}
<1>1. ListOrder[1] = "In" /\ ListOrder[2] = "My" /\ ListOrder[3] = "Out"
  BY DEF ListOrder
<1>2. \A l : l \in Unread(label, q) <=>
          \/ l = "In" /\ label = "List.read" /\ q.look = 1
          \/ l = "My" /\ (q.look < 2 \/ (label = "List.read" /\ q.look = 2))
          \/ l = "Out" /\ (q.look < 3 \/ (label = "List.read" /\ q.look = 3))
  <2>1. \A m \in 1..3 : m = 1 \/ m = 2 \/ m = 3
    OBVIOUS
  <2> QED
    BY <1>1, <2>1 DEF Unread
<1> QED
  BY <1>2 DEF Lists

(* What a listing's user is recorded to have had.                          *)
LEMMA HeldFacts ==
    ASSUME TrackHeld, NEW r \in Requests, req'[r].kind = "List"
    PROVE  /\ pc[r] = "idle" => held'[r] = HeldBy(req'[r].user)
           /\ req[r].kind = "List" /\ pc[r] \in {"ok", "err"} => held'[r] = held[r]
           /\ pc[r] \notin {"idle", "ok", "err"} => held'[r] = held[r] \cap HeldBy(req[r].user)'
BY DEF TrackHeld

(* A todo is in two lists only while it is being accepted.                 *)
LEMMA InTwoLists ==
    ASSUME NEW C, Sorted(C), NEW u \in Users, NEW l \in Lists, NEW m \in Lists, l # m, NEW id,
           Holds(lists[u][l], id), Holds(lists[u][m], id)
    PROVE  l = "In" \/ m = "In"
<1>1. ~(Holds(lists[u]["My"], id) /\ Holds(lists[u]["Out"], id))
  BY DEF Sorted, ListsSorted
<1> QED
  BY <1>1 DEF Lists

LEMMA InboxNotSent ==
    ASSUME NEW C, Sorted(C), NEW u \in Users, NEW id,
           Holds(lists[u]["In"], id), Holds(lists[u]["Out"], id)
    PROVE  FALSE
<1>1. PICK i \in 1..Len(lists[u]["In"]) : lists[u]["In"][i].issue = id
  BY HoldsMeans
<1>2. PICK j \in 1..Len(lists[u]["Out"]) : lists[u]["Out"][j].issue = id
  BY HoldsMeans
<1>3. "In" \in Lists /\ "Out" \in Lists
  BY DEF Lists
<1>4. Fits(C, "In", lists[u]["In"][i]) /\ Fits(C, "Out", lists[u]["Out"][j])
  BY <1>1, <1>2, <1>3 DEF Sorted, ListsSorted
<1> QED
  BY <1>1, <1>2, <1>4 DEF Fits

(* What others do in the meantime takes nothing from a listing.            *)
LEMMA BesideListing ==
    ASSUME Inv, NEW C, Sorted(C), Moves, TrackHeld, NEW s \in Requests,
           pc'[s] = pc[s], req'[s] = req[s], Complete(pc[s], req[s], held[s])
    PROVE  Complete(pc[s], req[s], held[s])'
<1> DEFINE q == req[s]
           u == q.user
<1>1. ASSUME pc[s] \in ListLabels
      PROVE  /\ held'[s] \subseteq HeldBy(u)'
             /\ \A id \in held'[s] :
                   /\ \/ Covered(pc[s], q, id)
                      \/ \E l \in Unread(pc[s], q) : Holds(lists'[u][l], id)
                   /\ "In" \notin Unread(pc[s], q) /\ Holds(lists'[u]["In"], id) =>
                         Covered(pc[s], q, id)
  <2>1. /\ q.kind = "List" /\ u \in Users /\ q.look \in 1..3
        /\ pc[s] \notin {"idle", "ok", "err"} /\ StoreInv
    BY <1>1 DEF Sorted, Knows, Inv, ReqInv, ReqOwned, ReqType, ListLabels
  <2>2. held'[s] = held[s] \cap HeldBy(u)'
    BY <2>1, HeldFacts
  <2>3. /\ Unread(pc[s], q) \subseteq Lists
        /\ "In" \in Unread(pc[s], q) => Unread(pc[s], q) = Lists
    BY <2>1, UnreadFacts
  <2>4. "In" \in Lists
    BY DEF Lists
  <2> SUFFICES ASSUME NEW id \in held'[s]
               PROVE  /\ \/ Covered(pc[s], q, id)
                         \/ \E l \in Unread(pc[s], q) : Holds(lists'[u][l], id)
                      /\ "In" \notin Unread(pc[s], q) /\ Holds(lists'[u]["In"], id) =>
                            Covered(pc[s], q, id)
    BY <2>2
  <2>5. id \in held[s] /\ id \in HeldBy(u) /\ id \in HeldBy(u)'
    BY <1>1, <2>2 DEF Complete
  <2>6. PICK before \in Lists : Holds(lists[u][before], id)
    BY <2>5 DEF HeldBy
  <2>7. PICK after \in Lists : Holds(lists'[u][after], id)
    BY <2>5 DEF HeldBy
  <2>8. /\ Covered(pc[s], q, id) \/ \E l \in Unread(pc[s], q) : Holds(lists[u][l], id)
        /\ "In" \notin Unread(pc[s], q) /\ Holds(lists[u]["In"], id) => Covered(pc[s], q, id)
    BY <1>1, <2>5 DEF Complete
  <2> HIDE DEF u, q
  <2>9. CASE UNCHANGED lists
    BY <2>8, <2>9
  <2>10. CASE \E v \in Users, k \in Lists : Shrinks(v, k)
    <3>1. PICK v \in Users, k \in Lists : Shrinks(v, k)
      BY <2>10
    <3>2. \A m \in Lists : Holds(lists'[u][m], id) => Holds(lists[u][m], id)
      BY <2>1, <3>1, ShrinkingHolds
    <3>3. ASSUME ~Covered(pc[s], q, id)
          PROVE  \E l \in Unread(pc[s], q) : Holds(lists'[u][l], id)
      <4>1. PICK l \in Unread(pc[s], q) : Holds(lists[u][l], id)
        BY <2>8, <3>3
      <4>2. l \in Lists
        BY <2>3, <4>1
      <4>3. CASE v # u \/ k # l
        <5>1. lists'[u][l] = lists[u][l]
          BY <2>1, <3>1, <4>2, <4>3 DEF Shrinks, Only
        <5> QED
          BY <4>1, <5>1
      <4>4. CASE after = l
        BY <2>7, <4>1, <4>4
      <4>5. CASE after # l
        <5>1. Holds(lists[u][after], id)
          BY <2>7, <3>2
        <5>2. l = "In" \/ after = "In"
          BY <2>1, <2>7, <4>1, <4>2, <4>5, <5>1, InTwoLists
        <5>3. "In" \in Unread(pc[s], q)
          BY <2>8, <3>3, <4>1, <5>1, <5>2
        <5> QED
          BY <2>3, <2>7, <5>3
      <4> QED
        BY <4>4, <4>5
    <3> QED
      BY <2>4, <2>8, <3>2, <3>3
  <2>11. CASE \E v \in Users, k \in Lists, ref \in Ref :
                 /\ Grows(v, k, ref)
                 /\ k = "In" => \A m \in Lists : ~Holds(lists[v][m], ref.issue)
    <3>1. PICK v \in Users, k \in Lists, ref \in Ref :
             /\ Grows(v, k, ref)
             /\ k = "In" => \A m \in Lists : ~Holds(lists[v][m], ref.issue)
      BY <2>11
    <3>2. \A w \in Users, m \in Lists : \A i : Holds(lists'[w][m], i) <=>
              Holds(lists[w][m], i) \/ (w = v /\ m = k /\ i = ref.issue)
      BY <2>1, <3>1, ListedAfter
    <3>3. Holds(lists'[u]["In"], id) => Holds(lists[u]["In"], id)
      BY <2>1, <2>4, <2>6, <3>1, <3>2
    <3> QED
      BY <2>1, <2>3, <2>8, <3>2, <3>3
  <2> QED
    BY <2>9, <2>10, <2>11 DEF Moves
<1>2. ASSUME pc[s] = "ok", q.kind = "List"
      PROVE  held'[s] \subseteq q.seen
  BY <1>2, HeldFacts DEF Complete
<1> QED
  BY <1>1, <1>2 DEF Complete, Covered, Unread

(* A listing, reading: what is in no list left to read is in what it has.  *)
LEMMA GetAllListComplete ==
    ASSUME "List" \notin Troubled, Inv, NEW C, Sorted(C), TrackHeld, NEW r \in Requests,
           GetAllList(r), Complete(pc[r], req[r], held[r])
    PROVE  Complete(pc[r], req[r], held[r])'
<1> PICK q, u : q = req[r] /\ u = q.user
  OBVIOUS
<1>1. /\ ReqInv /\ StoreInv /\ q \in ReqType /\ u \in Users /\ q.look \in 1..3
      /\ pc[r] \in ListLabels /\ pc[r] \notin {"idle", "ok", "err"}
      /\ UNCHANGED <<lists, issues>>
  BY DEF Inv, ReqInv, ReqOwned, ReqType, GetAllList, At, ListLabels, store
<1>2. q.kind = "List" /\ ~Trouble(r)
  BY <1>1 DEF Sorted, Knows, Trouble
<1>3. HeldBy(u)' = HeldBy(u)
  BY <1>1, <1>2 DEF HeldBy
<1>4. /\ held[r] \subseteq HeldBy(u)
      /\ \A id \in held[r] :
            /\ Covered(pc[r], q, id) \/ \E l \in Unread(pc[r], q) : Holds(lists[u][l], id)
            /\ "In" \notin Unread(pc[r], q) /\ Holds(lists[u]["In"], id) => Covered(pc[r], q, id)
  BY <1>1 DEF Complete
<1>5. ASSUME NEW label, NEW p, p.kind = "List", p.user = u, label \in ListLabels,
             Goto(r, label), req' = [req EXCEPT ![r] = p],
             \A id \in HeldBy(u) :
                /\ Covered(pc[r], q, id) => Covered(label, p, id)
                /\ \A l \in Unread(pc[r], q) : Holds(lists[u][l], id) =>
                      Covered(label, p, id) \/ l \in Unread(label, p)
      PROVE  Complete(pc[r], req[r], held[r])'
  <2>1. pc'[r] = label /\ req'[r] = p
    BY <1>1, <1>5 DEF ReqInv, Goto
  <2>2. held'[r] = held[r]
    <3>1. held'[r] = held[r] \cap HeldBy(u)'
      BY <1>1, <1>5, <2>1, HeldFacts
    <3> QED
      BY <1>3, <1>4, <3>1
  <2>3. label # "ok"
    BY <1>5 DEF ListLabels
  <2>4. ASSUME NEW id \in held[r]
        PROVE  /\ Covered(label, p, id) \/ \E l \in Unread(label, p) : Holds(lists[u][l], id)
               /\ "In" \notin Unread(label, p) /\ Holds(lists[u]["In"], id) => Covered(label, p, id)
    BY <1>4, <1>5
  <2>5. held[r] \subseteq HeldBy(p.user)' /\ lists'[p.user] = lists[u]
    BY <1>1, <1>3, <1>4, <1>5
  <2> QED
    BY <1>5, <2>1, <2>2, <2>3, <2>4, <2>5 DEF Complete, Covered, Unread
<1>6. CASE /\ At(r, "List.read")
           /\ req' = [req EXCEPT ![r].page = lists[u][ListOrder[q.look]]]
           /\ Goto(r, "List.get")
  <2> DEFINE p == [q EXCEPT !.page = lists[u][ListOrder[q.look]]]
  <2>1. req' = [req EXCEPT ![r] = p]
    BY <1>6
  <2>2. /\ p.kind = "List" /\ p.user = u /\ p.look = q.look /\ p.seen = q.seen
        /\ p.page = lists[u][ListOrder[q.look]]
    BY <1>1, <1>2 DEF ReqType
  <2> HIDE DEF p
  <2>3. \A l \in Unread(pc[r], q) : l = ListOrder[q.look] \/ l \in Unread("List.get", p)
    BY <1>1, <1>6, <2>2 DEF Unread
  <2>4. "List.get" \in ListLabels
    BY DEF ListLabels
  <2>5. \A id : Covered(pc[r], q, id) => Covered("List.get", p, id)
    BY <1>6, <2>2 DEF Covered, At
  <2>6. \A id : Holds(lists[u][ListOrder[q.look]], id) => Covered("List.get", p, id)
    BY <2>2 DEF Covered
  <2> QED
    BY <1>5, <1>6, <2>1, <2>2, <2>3, <2>4, <2>5, <2>6
<1>7. CASE /\ At(r, "List.get")
           /\ q.page # <<>>
           /\ req' = [req EXCEPT ![r].page = Tail(@),
                        ![r].seen = IF issues[Head(q.page).issue] = Gone THEN @
                                    ELSE @ \cup {Head(q.page).issue}]
           /\ Goto(r, "List.get")
  <2> DEFINE first == Head(q.page).issue
             p == [q EXCEPT !.page = Tail(@),
                            !.seen = IF issues[first] = Gone THEN @ ELSE @ \cup {first}]
  <2>1. req' = [req EXCEPT ![r] = p]
    BY <1>1, <1>7 DEF ReqInv
  <2>2. /\ p.kind = "List" /\ p.user = u /\ p.look = q.look /\ p.page = Tail(q.page)
        /\ q.seen \subseteq p.seen /\ (issues[first] # Gone => first \in p.seen)
        /\ q.page \in Seq(Ref)
    BY <1>1, <1>2 DEF ReqType
  <2>3. \A id : Holds(q.page, id) => id = first \/ Holds(Tail(q.page), id)
    <3> SUFFICES ASSUME NEW id, Holds(q.page, id), id # first
                 PROVE  Holds(Tail(q.page), id)
      OBVIOUS
    <3>1. PICK i \in 1..Len(q.page) : q.page[i].issue = id
      BY HoldsMeans
    <3> DEFINE page == q.page
    <3>2. page \in Seq(Ref) /\ page # << >> /\ i \in 1..Len(page) /\ page[1].issue = first
      BY <1>7, <2>2, <3>1
    <3>3. i # 1
      BY <3>1, <3>2
    <3> HIDE DEF page
    <3>4. i - 1 \in 1..Len(Tail(page)) /\ Tail(page)[i - 1] = page[i]
      BY <3>2, <3>3
    <3> QED
      BY <3>1, <3>4, HoldsMeans DEF page
  <2> HIDE DEF p, first
  <2>4. Unread(pc[r], q) = Unread("List.get", p)
    BY <1>7, <2>2 DEF Unread, At
  <2>5. "List.get" \in ListLabels
    BY DEF ListLabels
  <2>6. ASSUME NEW id \in HeldBy(u), Covered(pc[r], q, id)
        PROVE  Covered("List.get", p, id)
    <3>1. issues[id] # Gone
      BY DEF HeldBy
    <3> QED
      BY <2>2, <2>3, <2>6, <3>1 DEF Covered
  <2> QED
    BY <1>5, <1>7, <2>1, <2>2, <2>4, <2>5, <2>6
<1>8. CASE /\ At(r, "List.get")
           /\ q.page = <<>>
           /\ Goto(r, IF q.look < 3 THEN "List.read" ELSE "ok")
           /\ req' = [req EXCEPT ![r].look = IF @ < 3 THEN @ + 1 ELSE @]
  <2>1. \A id : Covered(pc[r], q, id) <=> id \in q.seen
    <3>1. \A id : ~Holds(<<>>, id)
      BY HoldsMeans
    <3> QED
      BY <1>8, <3>1 DEF Covered
  <2>2. CASE q.look < 3
    <3> DEFINE p == [q EXCEPT !.look = q.look + 1]
    <3>1. req' = [req EXCEPT ![r] = p] /\ Goto(r, "List.read")
      BY <1>8, <2>2
    <3>2. p.kind = "List" /\ p.user = u /\ p.look = q.look + 1 /\ p.seen = q.seen
      BY <1>1, <1>2 DEF ReqType
    <3> HIDE DEF p
    <3>3. Unread(pc[r], q) \subseteq Unread("List.read", p)
      BY <1>1, <1>8, <3>2 DEF Unread, At
    <3>4. "List.read" \in ListLabels
      BY DEF ListLabels
    <3>5. \A id : Covered(pc[r], q, id) => Covered("List.read", p, id)
      BY <2>1, <3>2 DEF Covered
    <3> QED
      BY <1>5, <3>1, <3>2, <3>3, <3>4, <3>5
  <2>3. CASE q.look = 3
    <3> DEFINE p == [q EXCEPT !.look = q.look]
    <3>0. req' = [req EXCEPT ![r] = p] /\ Goto(r, "ok") /\ p = q
      BY <1>1, <1>8, <2>3 DEF ReqType, ReqInv
    <3> HIDE DEF p
    <3>1. req' = [req EXCEPT ![r] = q] /\ Goto(r, "ok")
      BY <3>0
    <3>2. req'[r] = q /\ pc'[r] = "ok"
      BY <1>1, <3>1 DEF ReqInv, Goto
    <3>3. Unread(pc[r], q) = {}
      BY <1>8, <2>3, UnreadFacts DEF At
    <3>4. held[r] \subseteq q.seen
      BY <1>4, <2>1, <3>3
    <3>5. held'[r] = held[r]
      <4>1. held'[r] = held[r] \cap HeldBy(u)'
        BY <1>1, <1>2, <3>2, HeldFacts
      <4> QED
        BY <1>3, <1>4, <4>1
    <3>6. "ok" \notin ListLabels
      BY DEF ListLabels
    <3> QED
      BY <3>2, <3>4, <3>5, <3>6 DEF Complete
  <2> QED
    BY <1>1, <2>2, <2>3
<1> QED
  BY <1>2, <1>6, <1>7, <1>8 DEF GetAllList

-----------------------------------------------------------------------------
(* The listings.                                                           *)

(* Only a listing has something to be complete about.                      *)
LEMMA NothingToMiss ==
    ASSUME NEW C, NEW r \in Requests, Knows(C, pc'[r], req'[r]), req'[r].kind # "List"
    PROVE  Complete(pc[r], req[r], held[r])'
BY DEF Knows, Complete

LEMMA InitComplete ==
    ASSUME Init
    PROVE  AllComplete
BY DEF Init, AllComplete, Complete, ListLabels

LEMMA NextComplete ==
    ASSUME "List" \notin Troubled, Inv, TakesBackOnly, NEW C, Sorted(C), AllComplete,
           [Next]_vars
    PROVE  (\E D : Sorted(D)') /\ AllComplete'
<1>1. ASSUME NEW r \in Requests, TrackHeld, Moves, Others(r),
             NEW D, Sorted(D)', Complete(pc[r], req[r], held[r])'
      PROVE  (\E E : Sorted(E)') /\ AllComplete'
  <2>1. ASSUME NEW s \in Requests
        PROVE  Complete(pc[s], req[s], held[s])'
    <3>1. CASE s = r
      BY <1>1, <3>1
    <3>2. CASE s # r
      <4>1. pc'[s] = pc[s] /\ req'[s] = req[s] /\ Complete(pc[s], req[s], held[s])
        BY <1>1, <3>2 DEF Others, AllComplete
      <4> QED
        BY <1>1, <4>1, BesideListing
    <3> QED
      BY <3>1, <3>2
  <2> QED
    BY <1>1, <2>1 DEF AllComplete
<1>2. ASSUME NEW r \in Requests, TrackHeld, Begin(r)
      PROVE  (\E D : Sorted(D)') /\ AllComplete'
  <2>1. Arrived(r)
    BY <1>2, BeginSorted
  <2>2. PICK D : Sorted(D)'
    BY <2>1 DEF Arrived
  <2>3. CASE req'[r].kind # "List"
    <3>1. Knows(D, pc'[r], req'[r])
      BY <2>2 DEF Sorted
    <3>2. Complete(pc[r], req[r], held[r])'
      BY <2>3, <3>1, NothingToMiss
    <3> QED
      BY <1>1, <1>2, <2>1, <2>2, <3>2 DEF Arrived
  <2>4. CASE pc'[r] = "List.read" /\ req'[r].look = 1
    <3> DEFINE u == req'[r].user
    <3>1. req'[r].kind = "List"
      BY <2>2, <2>4 DEF Sorted, Knows, ListLabels
    <3>2. held'[r] = HeldBy(u)
      BY <1>2, <2>1, <3>1, HeldFacts DEF Arrived
    <3>3. UNCHANGED <<lists, issues>>
      BY <1>2 DEF Begin
    <3>4. Unread(pc'[r], req'[r]) = Lists
      BY <2>4, UnreadFacts
    <3>5. "In" \in Lists
      BY DEF Lists
    <3>6. \A id \in HeldBy(u) : \E l \in Lists : Holds(lists'[u][l], id)
      BY <3>3 DEF HeldBy
    <3>7. held'[r] \subseteq HeldBy(req[r].user)'
      BY <3>2, <3>3 DEF HeldBy
    <3>8. Complete(pc[r], req[r], held[r])'
      BY <2>4, <3>2, <3>4, <3>5, <3>6, <3>7 DEF Complete, Unread, Covered
    <3> QED
      BY <1>1, <1>2, <2>1, <2>2, <3>8 DEF Arrived
  <2> QED
    BY <2>1, <2>3, <2>4 DEF Arrived
<1>3. ASSUME NEW r \in Requests, TrackHeld, Step(r)
      PROVE  (\E D : Sorted(D)') /\ AllComplete'
  <2>1. Sorted(C)' /\ Moves /\ Others(r) /\ (GetAllList(r) \/ req'[r].kind # "List")
    BY <1>3, StepSorted
  <2>2. Complete(pc[r], req[r], held[r])'
    <3>1. CASE GetAllList(r)
      BY <1>3, <3>1, GetAllListComplete DEF AllComplete
    <3>2. CASE req'[r].kind # "List"
      <4>1. Knows(C, pc'[r], req'[r])
        BY <2>1 DEF Sorted
      <4> QED
        BY <3>2, <4>1, NothingToMiss
    <3> QED
      BY <2>1, <3>1, <3>2
  <2> QED
    BY <1>1, <1>3, <2>1, <2>2
<1>4. ASSUME NEW r \in Requests, TrackHeld, Return(r) \/ Crash(r)
      PROVE  (\E D : Sorted(D)') /\ AllComplete'
  <2>1. Sorted(C)' /\ Moves /\ Others(r) /\ req'[r].kind # "List"
    BY <1>4, OverSorted DEF Fine
  <2>2. Knows(C, pc'[r], req'[r])
    BY <2>1 DEF Sorted
  <2>3. Complete(pc[r], req[r], held[r])'
    BY <2>1, <2>2, NothingToMiss
  <2> QED
    BY <1>1, <1>4, <2>1, <2>3
<1>5. CASE UNCHANGED vars
  <2>1. Sorted(C)'
    BY <1>5 DEF vars, Sorted, ListsSorted, Apart
  <2>2. AllComplete'
    BY <1>5 DEF vars, AllComplete, Complete, HeldBy, Covered, Unread
  <2> QED
    BY <2>1, <2>2
<1> QED
  BY <1>2, <1>3, <1>4, <1>5 DEF Next

(* A listing has every todo that its user had from its first read to its   *)
(* last, whatever other requests do in between, whatever calls of theirs   *)
(* fail and whichever handlers die: GetAllList reads the inbox first and   *)
(* AcceptIssue adds before it removes.  A record that a listing fails to   *)
(* read it leaves out, as the code says; and a todo of one's own that is   *)
(* assigned to oneself is lost to ChangeAssignment, not to the listing.    *)
THEOREM ListingsAreComplete ==
    ASSUME "List" \notin Troubled
    PROVE  Spec /\ []TakesBackOnly => []ListingMissesNothing
<1> DEFINE Whole == Inv /\ (\E C : Sorted(C)) /\ AllComplete
<1>1. Init => Whole
  BY InitEstablishes, InitSorted, InitComplete
<1>2. Whole /\ TakesBackOnly /\ [Next]_vars => Whole'
  BY NextKeeps, NextComplete
<1>3. Whole => ListingMissesNothing
  BY DEF AllComplete, Complete, ListingMissesNothing
<1> QED
  BY <1>1, <1>2, <1>3, PTL DEF Spec
=============================================================================
