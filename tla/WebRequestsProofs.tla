--------------------------- MODULE WebRequestsProofs ---------------------------
(***************************************************************************)
(* One request after the other leaves records, lists and the two copies of *)
(* a sent todo fitting together, for any number of users, todos, texts and *)
(* requests.                                                               *)
(*                                                                         *)
(* They do not fit together while a request is under way.  Courses says    *)
(* what holds then: there are lists and records that did fit (E0 and I0,   *)
(* those of when it arrived), and at each label of `pc' those of now are   *)
(* E0 and I0 but for what the request has added and taken by then (SoFar), *)
(* and what it has looked up is right (Learnt).  Where an operation ends,  *)
(* it has added and taken what makes them fit again.                       *)
(*                                                                         *)
(* An edit or an assignment that fails half way leaves something lost, and *)
(* so does a handler that dies.  Tracks says what holds then: what is left *)
(* between requests fits together though it may not be all (Sound), and at *)
(* each label a request is aware of what its next calls rely on (Aware).   *)
(***************************************************************************)
EXTENDS SeenTodos, ListManagerProofs, FiniteSetTheorems

-----------------------------------------------------------------------------
(* What the lists hold, without the order they hold it in: who has which   *)
(* reference in which list.                                                *)
EntryType == [user : Users, list : Lists, ref : Ref]

Entries ==
    {e \in EntryType : \E i \in 1..Len(lists[e.user][e.list]) : lists[e.user][e.list][i] = e.ref}

(* Two entries that are the two ends of a sent todo: one in the sender's   *)
(* sent list, the other in the inbox or the own list of the receiver.      *)
Ends(e, f) ==
    /\ f.user = e.ref.fuser /\ f.ref.issue = e.ref.fissue
    /\ e.user = f.ref.fuser /\ e.ref.issue = f.ref.fissue
    /\ e.list = "Out" <=> f.list # "Out"

(* An entry is of a todo that its user keeps, or of one of the two ends of *)
(* a sent todo, whose records say the same.                                *)
Matched(e, E, I) ==
    IF e.ref.fuser = NoUser
    THEN e.list = "My" /\ e.ref.fissue = NoIssue
    ELSE \E f \in E : Ends(e, f) /\ I[f.ref.issue] = I[e.ref.issue]

(* Entries and records that fit together: a todo with a record is listed   *)
(* once, one without nowhere.                                              *)
Whole(E, I) ==
    /\ E \subseteq EntryType
    /\ I \in [IssueIds -> Texts \cup {Gone}]
    /\ \A e, f \in E : e.ref.issue = f.ref.issue => e = f
    /\ \A e \in E : I[e.ref.issue] # Gone
    /\ \A id \in IssueIds : I[id] # Gone => \E e \in E : e.ref.issue = id
    /\ \A e \in E : Matched(e, E, I)

(* What users see of entries and records: a todo where its author has an   *)
(* entry, which waits for an answer while the other end is in an inbox.    *)
ByAuthor(e) == e.list = "Out" \/ e.ref.fuser = NoUser

Waits(e, E) ==
    \E f \in E : f.user = e.ref.fuser /\ f.list = "In" /\ f.ref.issue = e.ref.fissue

AsTodo(e, E, I) ==
    [id |-> e.ref.issue, author |-> e.user, holder |-> e.ref.fuser,
     state |-> IF e.list = "My" THEN "own" ELSE IF Waits(e, E) THEN "pending" ELSE "accepted",
     text |-> I[e.ref.issue]]

SeenIn(E, I) == {AsTodo(e, E, I) : e \in {f \in E : ByAuthor(f)}}

(* A step of SharedTodos between two sets of todos, or none.               *)
Edited(t, text) == [t EXCEPT !.text = text]
Accepted(t) == [t EXCEPT !.state = "accepted"]
Passed(t, v) == [t EXCEPT !.holder = v, !.state = "pending"]
TakenBack(t) == [t EXCEPT !.holder = NoUser, !.state = "own"]

Turns(S, T) ==
    \/ T = S
    \/ \E id \in IssueIds, u \in Users, text \in Texts, v \in Users \cup {NoUser} :
          /\ v # u
          /\ \A t \in S : t.id # id
          /\ T = S \cup {[id |-> id, author |-> u, holder |-> v,
                          state |-> IF v = NoUser THEN "own" ELSE "pending", text |-> text]}
    \/ \E t \in S : T = S \ {t}
    \/ \E t \in S : \E new :
          /\ T = (S \ {t}) \cup {new}
          /\ \/ \E text \in Texts : new = Edited(t, text)
             \/ t.state = "pending" /\ new = Accepted(t)
             \/ \E v \in Users : v # t.author /\ new = Passed(t, v)
             \/ t.state # "own" /\ new = TakenBack(t)

-----------------------------------------------------------------------------
(* The way of a request from E0 and I0, which fit together, to the next    *)
(* entries and records that do.  At a label it has ...                     *)

(* ... taken todos out of lists,                                           *)
Unlisted(label, q) ==
    (IF label \in {"End.take", "End.drop", "End.ffind", "End.funlist", "End.ftake", "End.fdrop",
                   "Assign.my", "Assign.save", "Assign.out", "Assign.in"}
     THEN {q.issue} ELSE {})
    \cup (IF label \in {"End.ftake", "End.fdrop", "Assign.ftake", "Assign.fdrop", "Assign.unlist",
                        "Assign.my", "Assign.save", "Assign.out", "Assign.in"}
          THEN {q.ref.fissue} ELSE {})

Entry(u, l, ref) == [user |-> u, list |-> l, ref |-> ref]

SentRef(q) == [issue |-> q.issue, fuser |-> q.to, fissue |-> q.twin]

(* put others into them,                                                   *)
Listed(label, q) ==
    (IF label \in {"Send.in", "Send.undo3", "Send.undo3Twin", "Send.undo3Out", "Assign.in"}
     THEN {Entry(q.user, "Out", SentRef(q))} ELSE {})
    \cup (IF label \in {"Accept.in", "Accept.undo"} THEN {Entry(q.user, "My", q.ref)} ELSE {})

(* dropped records,                                                        *)
Dropped(label, q) ==
    (IF label \in {"End.ffind", "End.funlist", "End.ftake", "End.fdrop"} THEN {q.issue} ELSE {})
    \cup (IF label \in {"Assign.unlist", "Assign.my", "Assign.save", "Assign.out", "Assign.in"}
          THEN {q.ref.fissue} ELSE {})

(* and saved some.                                                         *)
Saved(label, q) ==
    (IF label \in {"Add.list", "Add.undo", "Send.saveTwin", "Send.undo", "Send.out", "Send.undo2",
                   "Send.in", "Send.undo3"}
     THEN {q.issue} ELSE {})
    \cup (IF label \in {"Send.out", "Send.undo2", "Send.undo2Twin", "Send.in", "Send.undo3",
                        "Send.undo3Twin", "Assign.out", "Assign.in"}
          THEN {q.twin} ELSE {})
    \cup (IF label = "Edit.save" THEN {q.ref.fissue} ELSE {})

SoFar(label, q, E0, I0, E, I) ==
    /\ E = {e \in E0 : e.ref.issue \notin Unlisted(label, q)} \cup Listed(label, q)
    /\ I \in [IssueIds -> Texts \cup {Gone}]
    /\ \A id \in IssueIds :
          I[id] = IF id \in Saved(label, q) THEN q.text
                  ELSE IF id \in Dropped(label, q) THEN Gone ELSE I0[id]

(* What it goes by: a new todo has no record yet, ...                      *)
NewKnown(label, q, I0) ==
    LET Sending == {"Send.save", "Send.saveTwin", "Send.out", "Send.in", "Send.undo", "Send.undo2",
                    "Send.undo2Twin", "Send.undo3", "Send.undo3Twin", "Send.undo3Out"}
        Assigning == {"Assign.get", "Assign.find", "Assign.found", "Assign.ffind",
                      "Assign.funlist", "Assign.ftake", "Assign.fdrop", "Assign.unlist",
                      "Assign.my", "Assign.save", "Assign.out", "Assign.in"}
    IN  /\ label \in {"Add.save", "Add.list", "Add.undo"} \cup Sending =>
              q.user \in Users /\ q.issue \in IssueIds /\ q.text \in Texts /\ I0[q.issue] = Gone
        /\ label \in Sending => q.to # q.user
        /\ label \in Sending \cup Assigning =>
              /\ q.user \in Users /\ q.to \in Users
              /\ q.twin \in IssueIds \ {q.issue} /\ I0[q.twin] = Gone
        /\ label \in Assigning => q.kind = "Assign"

(* ... the reference it has found was in the list where it was found, ...  *)
RefKnown(label, q, E0) ==
    /\ label \in {"End.unlist", "End.take", "End.drop", "End.ffind", "End.funlist", "End.ftake",
                  "End.fdrop", "Edit.found", "Edit.fget", "Edit.fsave", "Edit.save",
                  "Assign.found", "Assign.ffind", "Assign.funlist", "Assign.ftake",
                  "Assign.fdrop", "Assign.unlist", "Assign.my", "Assign.save", "Assign.out",
                  "Assign.in"} =>
          Entry(q.user, q.list, q.ref) \in E0 /\ q.ref.issue = q.issue
    /\ label \in {"Accept.my", "Accept.in", "Accept.undo"} =>
          Entry(q.user, "In", q.ref) \in E0 /\ q.ref.issue = q.issue
    /\ label \in {"End.ffind", "End.funlist", "End.ftake", "End.fdrop",
                  "Assign.ffind", "Assign.funlist", "Assign.ftake", "Assign.fdrop"} =>
          q.ref.fuser # NoUser

(* (where the copy of a todo that ends is looked for)                      *)
FarList(q) == IF q.kind = "Remove" THEN q.flist ELSE "Out"

(* ... what ends is in no sent list, or its copy is searched for, ...      *)
EndKnown(label, q, E0) ==
    LET Dropping == {"End.drop", "End.ffind", "End.funlist", "End.ftake", "End.fdrop"}
        Far(f) == Ends(Entry(q.user, q.list, q.ref), f)
    IN  /\ q.kind \in {"Complete", "Remove", "Pop"} =>
              label \in {"End.find", "End.pop", "End.unlist", "End.take", "ok", "err"} \cup Dropping
        /\ label = "End.find" =>
              /\ q.kind \in {"Complete", "Remove"}
              /\ q.kind = "Complete" =>
                    \A e \in E0 : e.user = q.user /\ e.ref.issue = q.issue => e.list # "Out"
        /\ label = "End.pop" => q.kind = "Pop" /\ q.list = "My" /\ q.look = 1
        /\ label \in {"End.unlist", "End.take"} \cup Dropping =>
              /\ q.kind \in {"Complete", "Remove", "Pop"}
              /\ q.kind # "Remove" => q.list # "Out"
        /\ label \in {"End.unlist", "End.take", "End.drop"} => q.look = 1
        /\ label = "End.ffind" =>
              /\ q.kind = "Remove"
              /\ \A f \in E0 : Far(f) => \A n \in 1..3 : n < q.look => SearchOrder[n] # f.list
        /\ label \in {"End.funlist", "End.ftake", "End.fdrop"} =>
              \A f \in E0 : Far(f) => f.list = FarList(q)
        /\ label \in Dropping \/ (label = "ok" /\ q.kind \in {"Complete", "Remove", "Pop"}) =>
              q.got # Gone

(* ... and what is assigned is its user's own or sent by him.              *)
AssignKnown(label, q, E0, I0) ==
    LET Passing == {"Assign.ffind", "Assign.funlist", "Assign.ftake", "Assign.fdrop",
                    "Assign.unlist", "Assign.my", "Assign.save", "Assign.out", "Assign.in"}
    IN  /\ label \in {"Assign.get", "Assign.find"} /\ q.to = q.user =>
              \E e \in E0 : e.user = q.user /\ e.list = "Out" /\ e.ref.issue = q.issue
        /\ label \in {"Assign.found"} \cup Passing /\ q.to = q.user => q.list = "Out"
        /\ label \in {"Assign.find", "Assign.found"} \cup Passing => q.text = I0[q.issue]
        /\ label \in Passing => q.list = "Out" \/ (q.list = "My" /\ q.ref.fissue = NoIssue)
        /\ label = "Assign.funlist" =>
              \A f \in E0 : Ends(Entry(q.user, q.list, q.ref), f) => f.list = q.flist
        /\ label = "Assign.my" => q.to = q.user
        /\ label \in {"Assign.save", "Assign.out", "Assign.in"} => q.to # q.user

EditKnown(label, q) ==
    /\ label \in {"Edit.get", "Edit.find", "Edit.found", "Edit.fget", "Edit.fsave", "Edit.save"} =>
          q.kind = "Edit" /\ q.text \in Texts
    /\ label \in {"Edit.fget", "Edit.fsave"} => q.ref.fissue # NoIssue

Learnt(label, q, E0, I0) ==
    /\ NewKnown(label, q, I0)
    /\ RefKnown(label, q, E0)
    /\ EndKnown(label, q, E0)
    /\ AssignKnown(label, q, E0, I0)
    /\ EditKnown(label, q)

Way(label, q, E0, I0, E, I) == Learnt(label, q, E0, I0) /\ SoFar(label, q, E0, I0, E, I)

(* On the way from where users saw S.                                      *)
OnCourse(label, q, S, E, I) ==
    \E E0, I0 : Whole(E0, I0) /\ SeenIn(E0, I0) = S /\ Way(label, q, E0, I0, E, I)

Put(I, id, text) == [I EXCEPT ![id] = text]

Taken(E, u, l, id) == {e \in E : ~(e.user = u /\ e.list = l /\ e.ref.issue = id)}

-----------------------------------------------------------------------------
(* From label to label, one operation after the other.                     *)

(* A todo that has no record is not listed.                                *)
LEMMA NotListed ==
    ASSUME NEW E, NEW I, Whole(E, I), NEW id, I[id] = Gone
    PROVE  \A e \in E : e.ref.issue # id
BY DEF Whole

(* Nor is it the other end of anything.                                    *)
LEMMA NotAnEnd ==
    ASSUME NEW E, NEW I, Whole(E, I), NEW id, I[id] = Gone, id # NoIssue
    PROVE  \A e \in E : e.ref.fissue # id
BY DEF Whole, Matched, Ends

LEMMA EntryFields ==
    ASSUME NEW u, NEW l, NEW ref
    PROVE  /\ Entry(u, l, ref).user = u
           /\ Entry(u, l, ref).list = l
           /\ Entry(u, l, ref).ref = ref
BY DEF Entry

LEMMA AddWay ==
    ASSUME NEW q, NEW E0, NEW I0, NEW E, NEW I
    PROVE  /\ Way("Add.save", q, E0, I0, E, I) =>
                 /\ Way("Add.list", q, E0, I0, E, Put(I, q.issue, q.text))
                 /\ Way("err", q, E0, I0, E, I)
           /\ Way("Add.list", q, E0, I0, E, I) => Way("Add.undo", q, E0, I0, E, I)
           /\ Way("Add.undo", q, E0, I0, E, I) => Way("err", q, E0, I0, E, Put(I, q.issue, Gone))
BY DEF Way, Learnt, NewKnown, RefKnown, EndKnown, AssignKnown, EditKnown,
       SoFar, Unlisted, Listed, Dropped, Saved, Put

LEMMA SendWay ==
    ASSUME NEW q, NEW E0, NEW I0, NEW E, NEW I
    PROVE  /\ Way("Send.save", q, E0, I0, E, I) => Way("Send.saveTwin", q, E0, I0, E, Put(I, q.issue, q.text))
           /\ Way("Send.save", q, E0, I0, E, I) => Way("err", q, E0, I0, E, I)
           /\ Way("Send.saveTwin", q, E0, I0, E, I) => Way("Send.out", q, E0, I0, E, Put(I, q.twin, q.text))
           /\ Way("Send.saveTwin", q, E0, I0, E, I) => Way("Send.undo", q, E0, I0, E, I)
           /\ Way("Send.out", q, E0, I0, E, I) =>
              Way("Send.in", q, E0, I0, E \cup {Entry(q.user, "Out", SentRef(q))}, I)
           /\ Way("Send.out", q, E0, I0, E, I) => Way("Send.undo2", q, E0, I0, E, I)
           /\ Way("Send.in", q, E0, I0, E, I) => Way("Send.undo3", q, E0, I0, E, I)
           /\ Way("Send.undo", q, E0, I0, E, I) => Way("err", q, E0, I0, E, Put(I, q.issue, Gone))
           /\ Way("Send.undo2", q, E0, I0, E, I) => Way("Send.undo2Twin", q, E0, I0, E, Put(I, q.issue, Gone))
           /\ Way("Send.undo2Twin", q, E0, I0, E, I) => Way("err", q, E0, I0, E, Put(I, q.twin, Gone))
           /\ Way("Send.undo3", q, E0, I0, E, I) => Way("Send.undo3Twin", q, E0, I0, E, Put(I, q.issue, Gone))
           /\ Way("Send.undo3Twin", q, E0, I0, E, I) => Way("Send.undo3Out", q, E0, I0, E, Put(I, q.twin, Gone))
<1> USE DEF Way, Learnt, NewKnown, RefKnown, EndKnown, AssignKnown, EditKnown,
           SoFar, Unlisted, Listed, Dropped, Saved, Put
<1>1. Way("Send.save", q, E0, I0, E, I) => Way("Send.saveTwin", q, E0, I0, E, Put(I, q.issue, q.text))
  OBVIOUS
<1>2. Way("Send.save", q, E0, I0, E, I) => Way("err", q, E0, I0, E, I)
  OBVIOUS
<1>3. Way("Send.saveTwin", q, E0, I0, E, I) => Way("Send.out", q, E0, I0, E, Put(I, q.twin, q.text))
  OBVIOUS
<1>4. Way("Send.saveTwin", q, E0, I0, E, I) => Way("Send.undo", q, E0, I0, E, I)
  OBVIOUS
<1>5. Way("Send.out", q, E0, I0, E, I) =>
        Way("Send.in", q, E0, I0, E \cup {Entry(q.user, "Out", SentRef(q))}, I)
  OBVIOUS
<1>6. Way("Send.out", q, E0, I0, E, I) => Way("Send.undo2", q, E0, I0, E, I)
  OBVIOUS
<1>7. Way("Send.in", q, E0, I0, E, I) => Way("Send.undo3", q, E0, I0, E, I)
  OBVIOUS
<1>8. Way("Send.undo", q, E0, I0, E, I) => Way("err", q, E0, I0, E, Put(I, q.issue, Gone))
  OBVIOUS
<1>9. Way("Send.undo2", q, E0, I0, E, I) => Way("Send.undo2Twin", q, E0, I0, E, Put(I, q.issue, Gone))
  OBVIOUS
<1>10. Way("Send.undo2Twin", q, E0, I0, E, I) => Way("err", q, E0, I0, E, Put(I, q.twin, Gone))
  OBVIOUS
<1>11. Way("Send.undo3", q, E0, I0, E, I) => Way("Send.undo3Twin", q, E0, I0, E, Put(I, q.issue, Gone))
  OBVIOUS
<1>12. Way("Send.undo3Twin", q, E0, I0, E, I) => Way("Send.undo3Out", q, E0, I0, E, Put(I, q.twin, Gone))
  OBVIOUS
<1> HIDE DEF Way, Learnt, NewKnown, RefKnown, EndKnown, AssignKnown, EditKnown,
             SoFar, Unlisted, Listed, Dropped, Saved, Put
<1> QED
  BY <1>1, <1>2, <1>3, <1>4, <1>5, <1>6, <1>7, <1>8, <1>9, <1>10, <1>11, <1>12

(* Nothing but the entry just made is of the new todo.                     *)
LEMMA SendUndone ==
    ASSUME NEW q, NEW E0, NEW I0, NEW E, NEW I, Whole(E0, I0),
           Way("Send.undo3Out", q, E0, I0, E, I)
    PROVE  Way("err", q, E0, I0, Taken(E, q.user, "Out", q.issue), I)
<1> USE DEF Way, Learnt, NewKnown, RefKnown, EndKnown, AssignKnown, EditKnown,
            SoFar, Unlisted, Listed, Dropped, Saved
<1>1. \A e \in E0 : e.ref.issue # q.issue
  BY NotListed
<1>2. /\ E = E0 \cup {Entry(q.user, "Out", SentRef(q))}
      /\ SentRef(q).issue = q.issue
  BY DEF SentRef
<1>3. Taken(E, q.user, "Out", q.issue) = E0
  BY <1>1, <1>2, EntryFields DEF Taken
<1>4. /\ I \in [IssueIds -> Texts \cup {Gone}]
      /\ \A id \in IssueIds : I[id] = I0[id]
  OBVIOUS
<1> QED
  BY <1>3, <1>4

-----------------------------------------------------------------------------
(* Where the ways end: what fits together again.                           *)

OwnRef(id) == [issue |-> id, fuser |-> NoUser, fissue |-> NoIssue]

(* A new todo in the own list.                                             *)
LEMMA NewOwnFits ==
    ASSUME NEW E, NEW I, Whole(E, I), NEW u \in Users, NEW id \in IssueIds, I[id] = Gone,
           NEW J \in [IssueIds -> Texts \cup {Gone}], J[id] # Gone,
           \A i \in IssueIds : i # id => J[i] = I[i]
    PROVE  Whole(E \cup {Entry(u, "My", OwnRef(id))}, J)
<1> DEFINE e == Entry(u, "My", OwnRef(id))
<1>1. /\ e \in EntryType /\ e.user = u /\ e.list = "My"
      /\ e.ref.issue = id /\ e.ref.fuser = NoUser /\ e.ref.fissue = NoIssue
  BY DEF Entry, OwnRef, EntryType, Ref, Lists
<1>2. \A f \in E : f.ref.issue # id /\ f.ref.issue \in IssueIds
  BY NotListed DEF Whole, EntryType, Ref
<1> HIDE DEF e
<1>3. \A f \in E : J[f.ref.issue] = I[f.ref.issue]
  BY <1>2
<1>4. ASSUME NEW f \in E \cup {e} PROVE Matched(f, E \cup {e}, J)
  <2>1. CASE f = e
    BY <1>1, <2>1 DEF Matched
  <2>2. CASE f \in E
    BY <1>3, <2>2 DEF Whole, Matched
  <2> QED
    BY <2>1, <2>2
<1> HIDE DEF Matched
<1>5. \A f, g \in E \cup {e} : f.ref.issue = g.ref.issue => f = g
  BY <1>1, <1>2 DEF Whole
<1>6. \A f \in E \cup {e} : J[f.ref.issue] # Gone
  BY <1>1, <1>3 DEF Whole
<1>7. \A i \in IssueIds : J[i] # Gone => \E f \in E \cup {e} : f.ref.issue = i
  BY <1>1 DEF Whole
<1>8. E \cup {e} \subseteq EntryType
  BY <1>1 DEF Whole
<1>9. Whole(E \cup {e}, J)
  BY <1>4, <1>5, <1>6, <1>7, <1>8 DEF Whole
<1> QED
  BY <1>9 DEF e

(* A new todo with its copy.                                               *)
LEMMA NewPairFits ==
    ASSUME NEW E, NEW I, Whole(E, I), NEW u \in Users, NEW v \in Users,
           NEW id \in IssueIds, NEW twin \in IssueIds, id # twin, I[id] = Gone, I[twin] = Gone,
           NEW J \in [IssueIds -> Texts \cup {Gone}], J[id] # Gone, J[twin] = J[id],
           \A i \in IssueIds : i # id /\ i # twin => J[i] = I[i],
           NEW e, e = Entry(u, "Out", [issue |-> id, fuser |-> v, fissue |-> twin]),
           NEW g, g = Entry(v, "In", [issue |-> twin, fuser |-> u, fissue |-> id])
    PROVE  Whole((E \cup {e}) \cup {g}, J)
<1>1. /\ e \in EntryType /\ e.user = u /\ e.list = "Out"
      /\ e.ref.issue = id /\ e.ref.fuser = v /\ e.ref.fissue = twin
  BY DEF Entry, EntryType, Ref, Lists
<1>2. /\ g \in EntryType /\ g.user = v /\ g.list = "In"
      /\ g.ref.issue = twin /\ g.ref.fuser = u /\ g.ref.fissue = id
  BY DEF Entry, EntryType, Ref, Lists
<1>3. \A f \in E : f.ref.issue # id /\ f.ref.issue # twin /\ f.ref.issue \in IssueIds
  BY NotListed DEF Whole, EntryType, Ref
<1>4. \A f \in E : J[f.ref.issue] = I[f.ref.issue]
  BY <1>3
<1>5. Ends(e, g) /\ Ends(g, e)
  BY <1>1, <1>2 DEF Ends
<1>6. ASSUME NEW f \in (E \cup {e}) \cup {g} PROVE Matched(f, (E \cup {e}) \cup {g}, J)
  <2>1. CASE f \in {e, g}
    BY <1>1, <1>2, <1>5, <2>1, SentinelAssumption DEF Matched
  <2>2. CASE f \in E
    BY <1>4, <2>2 DEF Whole, Matched
  <2> QED
    BY <2>1, <2>2
<1>7. \A f, h \in (E \cup {e}) \cup {g} : f.ref.issue = h.ref.issue => f = h
  BY <1>1, <1>2, <1>3 DEF Whole
<1>8. \A f \in (E \cup {e}) \cup {g} : J[f.ref.issue] # Gone
  BY <1>1, <1>2, <1>4 DEF Whole
<1>9. \A i \in IssueIds : J[i] # Gone => \E f \in (E \cup {e}) \cup {g} : f.ref.issue = i
  BY <1>1, <1>2 DEF Whole
<1>10. (E \cup {e}) \cup {g} \subseteq EntryType
  BY <1>1, <1>2 DEF Whole
<1> QED
  BY <1>6, <1>7, <1>8, <1>9, <1>10 DEF Whole

(* A todo and its copy gone.                                               *)
LEMMA EndingFits ==
    ASSUME NEW E, NEW I, Whole(E, I), NEW e \in E,
           NEW F, F = {f \in E : f.ref.issue \notin {e.ref.issue, e.ref.fissue}},
           NEW J \in [IssueIds -> Texts \cup {Gone}],
           \A i \in IssueIds : J[i] = IF i \in {e.ref.issue, e.ref.fissue} THEN Gone ELSE I[i]
    PROVE  Whole(F, J)
<1>1. \A f \in F : f \in E /\ f.ref.issue \in IssueIds /\ J[f.ref.issue] = I[f.ref.issue]
  BY DEF Whole, EntryType, Ref
<1>2. ASSUME NEW f \in F PROVE Matched(f, F, J)
  <2>1. CASE f.ref.fuser = NoUser
    BY <1>1, <2>1 DEF Whole, Matched
  <2>2. CASE f.ref.fuser # NoUser
    <3>1. PICK g \in E : Ends(f, g) /\ I[g.ref.issue] = I[f.ref.issue]
      BY <1>1, <2>2 DEF Whole, Matched
    <3>2. g.ref.issue # e.ref.issue
      <4>1. SUFFICES ASSUME g.ref.issue = e.ref.issue PROVE FALSE
        OBVIOUS
      <4>2. g = e
        BY <4>1 DEF Whole
      <4> QED
        BY <3>1, <4>2 DEF Ends
    <3>3. g.ref.issue # e.ref.fissue
      <4>1. SUFFICES ASSUME g.ref.issue = e.ref.fissue PROVE FALSE
        OBVIOUS
      <4>2. e.ref.fuser # NoUser
        BY <4>1, <3>1 DEF Whole, Matched, EntryType, Ref, IssueIds, NoIssue
      <4>3. PICK h \in E : Ends(e, h)
        BY <4>2 DEF Whole, Matched
      <4>4. h = g
        BY <4>1, <4>3 DEF Whole, Ends
      <4> QED
        BY <3>1, <4>3, <4>4 DEF Ends
    <3>4. g \in F
      BY <3>2, <3>3
    <3> QED
      BY <1>1, <2>2, <3>1, <3>4 DEF Matched
  <2> QED
    BY <2>1, <2>2
<1>3. \A id \in IssueIds : J[id] # Gone => \E f \in F : f.ref.issue = id
  BY DEF Whole
<1> QED
  BY <1>1, <1>2, <1>3 DEF Whole

(* A received todo in the own list.                                        *)
LEMMA AcceptedFits ==
    ASSUME NEW E, NEW I, Whole(E, I), NEW u, NEW ref, Entry(u, "In", ref) \in E
    PROVE  Whole(Taken(E \cup {Entry(u, "My", ref)}, u, "In", ref.issue), I)
<1> DEFINE e == Entry(u, "In", ref)
           g == Entry(u, "My", ref)
           F == Taken(E \cup {g}, u, "In", ref.issue)
<1>1. e.user = u /\ e.list = "In" /\ e.ref = ref /\ g.user = u /\ g.list = "My" /\ g.ref = ref
  BY EntryFields
<1>2. g \in EntryType /\ ref.fuser # NoUser
  BY <1>1 DEF Whole, Matched, EntryType, Entry, Lists
<1> HIDE DEF e, g
<1>3. e \in E /\ F = (E \ {e}) \cup {g}
  BY <1>1 DEF Taken, Whole, e
<1> HIDE DEF F
<1>4. ASSUME NEW f \in F PROVE Matched(f, F, I)
  <2>1. CASE f = g
    <3>1. PICK h \in E : Ends(e, h) /\ I[h.ref.issue] = I[e.ref.issue]
      BY <1>1, <1>2, <1>3 DEF Whole, Matched
    <3>2. h # e /\ Ends(g, h)
      BY <1>1, <3>1 DEF Ends
    <3> QED
      BY <1>1, <1>2, <1>3, <2>1, <3>1, <3>2 DEF Matched
  <2>2. CASE f \in E
    <3>1. CASE f.ref.fuser = NoUser
      BY <1>3, <2>2, <3>1 DEF Whole, Matched
    <3>2. CASE f.ref.fuser # NoUser
      <4>1. PICK h \in E : Ends(f, h) /\ I[h.ref.issue] = I[f.ref.issue]
        BY <2>2, <3>2 DEF Whole, Matched
      <4>2. CASE h = e
        <5>1. Ends(f, g) /\ I[g.ref.issue] = I[f.ref.issue]
          BY <1>1, <4>1, <4>2 DEF Ends
        <5> QED
          BY <1>3, <3>2, <5>1 DEF Matched
      <4>3. CASE h # e
        BY <1>3, <3>2, <4>1, <4>3 DEF Matched
      <4> QED
        BY <4>2, <4>3
    <3> QED
      BY <3>1, <3>2
  <2> QED
    BY <1>3, <2>1, <2>2
<1>5. \A f, h \in F : f.ref.issue = h.ref.issue => f = h
  BY <1>1, <1>3 DEF Whole
<1>6. \A f \in F : I[f.ref.issue] # Gone
  BY <1>1, <1>3 DEF Whole
<1>7. \A i \in IssueIds : I[i] # Gone => \E f \in F : f.ref.issue = i
  BY <1>1, <1>3 DEF Whole
<1>8. F \subseteq EntryType /\ I \in [IssueIds -> Texts \cup {Gone}]
  BY <1>2, <1>3 DEF Whole
<1>9. Whole(F, I)
  BY <1>4, <1>5, <1>6, <1>7, <1>8 DEF Whole
<1> QED
  BY <1>1, <1>9 DEF F, g

(* Both records with a new text.                                           *)
LEMMA EditedFits ==
    ASSUME NEW E, NEW I, Whole(E, I), NEW e \in E, NEW text \in Texts,
           NEW J \in [IssueIds -> Texts \cup {Gone}],
           \A i \in IssueIds : J[i] = IF i \in {e.ref.issue, e.ref.fissue} THEN text ELSE I[i]
    PROVE  Whole(E, J)
<1>1. \A f \in E : f.ref.issue \in IssueIds /\ J[f.ref.issue] # Gone
  BY SentinelAssumption DEF Whole, EntryType, Ref
<1>2. ASSUME NEW f \in E PROVE Matched(f, E, J)
  <2>1. CASE f.ref.fuser = NoUser
    BY <2>1 DEF Whole, Matched
  <2>2. CASE f.ref.fuser # NoUser
    <3>1. PICK g \in E : Ends(f, g) /\ I[g.ref.issue] = I[f.ref.issue]
      BY <2>2 DEF Whole, Matched
    <3>2. CASE f = e \/ g = e
      BY <1>1, <2>2, <3>1, <3>2 DEF Matched, Ends
    <3>3. CASE f # e /\ g # e
      <4>1. f.ref.issue # e.ref.issue /\ g.ref.issue # e.ref.issue
        BY <3>3 DEF Whole
      <4>2. f.ref.issue # e.ref.fissue /\ g.ref.issue # e.ref.fissue
        <5>1. CASE e.ref.fuser = NoUser
          BY <1>1, <5>1 DEF Whole, Matched, IssueIds, NoIssue
        <5>2. CASE e.ref.fuser # NoUser
          <6>1. PICK h \in E : Ends(e, h)
            BY <5>2 DEF Whole, Matched
          <6>2. h # f
            BY <3>1, <3>3, <6>1 DEF Whole, Ends
          <6>3. h # g
            BY <3>1, <3>3, <6>1 DEF Whole, Ends
          <6> QED
            BY <6>1, <6>2, <6>3 DEF Whole, Ends
        <5> QED
          BY <5>1, <5>2
      <4> QED
        BY <1>1, <2>2, <3>1, <4>1, <4>2 DEF Matched
    <3> QED
      BY <3>2, <3>3
  <2> QED
    BY <2>1, <2>2
<1>3. \A id \in IssueIds : J[id] # Gone => \E f \in E : f.ref.issue = id
  <2>1. e.ref.fissue \in IssueIds => \E f \in E : f.ref.issue = e.ref.fissue
    BY DEF Whole, Matched, Ends, IssueIds, NoIssue
  <2> QED
    BY <2>1 DEF Whole
<1> QED
  BY <1>1, <1>2, <1>3 DEF Whole

(* The new todo is in the own list: all is done.                           *)
LEMMA AddDone ==
    ASSUME NEW q, NEW E0, NEW I0, NEW E, NEW I, Whole(E0, I0), Way("Add.list", q, E0, I0, E, I)
    PROVE  Whole(E \cup {Entry(q.user, "My", OwnRef(q.issue))}, I)
<1>1. /\ q.user \in Users /\ q.issue \in IssueIds /\ q.text \in Texts /\ I0[q.issue] = Gone
      /\ E = E0
      /\ I \in [IssueIds -> Texts \cup {Gone}]
      /\ \A id \in IssueIds : I[id] = IF id = q.issue THEN q.text ELSE I0[id]
  BY DEF Way, Learnt, NewKnown, SoFar, Unlisted, Listed, Dropped, Saved
<1>2. I[q.issue] # Gone
  BY <1>1, SentinelAssumption
<1> QED
  BY <1>1, <1>2, NewOwnFits

(* Both copies are listed: all is done.                                    *)
LEMMA SendDone ==
    ASSUME NEW q, NEW E0, NEW I0, NEW E, NEW I, Whole(E0, I0), Way("Send.in", q, E0, I0, E, I),
           NEW ref, ref = [issue |-> q.twin, fuser |-> q.user, fissue |-> q.issue]
    PROVE  Whole(E \cup {Entry(q.to, "In", ref)}, I)
<1>1. /\ q.user \in Users /\ q.issue \in IssueIds /\ q.text \in Texts /\ I0[q.issue] = Gone
      /\ q.to \in Users /\ q.twin \in IssueIds /\ q.twin # q.issue /\ I0[q.twin] = Gone
      /\ E = E0 \cup {Entry(q.user, "Out", SentRef(q))}
      /\ I \in [IssueIds -> Texts \cup {Gone}]
      /\ \A id \in IssueIds : I[id] = IF id \in {q.issue, q.twin} THEN q.text ELSE I0[id]
  BY DEF Way, Learnt, NewKnown, SoFar, Unlisted, Listed, Dropped, Saved
<1>2. I[q.issue] # Gone /\ I[q.twin] = I[q.issue]
  BY <1>1, SentinelAssumption
<1>3. \A id \in IssueIds : id # q.issue /\ id # q.twin => I[id] = I0[id]
  BY <1>1
<1> QED
  BY <1>1, <1>2, <1>3, NewPairFits DEF SentRef

-----------------------------------------------------------------------------
(* Ending a todo.                                                          *)

(* What there is at the other end of an entry.                             *)
LEMMA FarEnd ==
    ASSUME NEW E, NEW I, Whole(E, I), NEW e \in E, e.ref.fuser # NoUser
    PROVE  \E f \in E : /\ Ends(e, f) /\ f # e
                        /\ f.user = e.ref.fuser /\ f.ref.issue = e.ref.fissue
                        /\ e.ref.fissue \in IssueIds /\ I[e.ref.fissue] # Gone
                        /\ e.ref.fissue # e.ref.issue
                        /\ \A g \in E : g.ref.issue = e.ref.fissue => g = f
<1>1. PICK f \in E : Ends(e, f)
  BY DEF Whole, Matched
<1>2. f # e
  BY <1>1 DEF Ends
<1>3. e.ref.fissue \in IssueIds /\ I[e.ref.fissue] # Gone
  BY <1>1 DEF Whole, Ends, EntryType, Ref
<1> QED
  BY <1>1, <1>2, <1>3 DEF Whole, Ends

(* The todo searched for in the user's lists, or popped, is the entry the  *)
(* request goes on with.                                                   *)
LEMMA EndFound ==
    ASSUME NEW q, NEW p, NEW E0, NEW I0, NEW E, NEW I, Whole(E0, I0),
           NEW ref, NEW l, Entry(q.user, l, ref) \in E, ref.issue = p.issue,
           p.kind = q.kind, p.user = q.user, p.list = l, p.ref = ref, p.look = 1
    PROVE  /\ Way("End.find", q, E0, I0, E, I) /\ p.issue = q.issue =>
                 Way("End.unlist", p, E0, I0, E, I)
           /\ Way("End.pop", q, E0, I0, E, I) /\ l = "My" =>
                 Way("End.take", p, E0, I0, Taken(E, q.user, "My", p.issue), I)
<1> USE DEF Way, Learnt, NewKnown, RefKnown, EndKnown, AssignKnown, EditKnown,
            SoFar, Unlisted, Listed, Dropped, Saved
<1>1. Way("End.find", q, E0, I0, E, I) /\ p.issue = q.issue => Way("End.unlist", p, E0, I0, E, I)
  BY EntryFields
<1>2. ASSUME Way("End.pop", q, E0, I0, E, I), l = "My"
      PROVE  Way("End.take", p, E0, I0, Taken(E, q.user, "My", p.issue), I)
  <2>1. E = E0 /\ Entry(q.user, "My", ref) \in E0
    BY <1>2
  <2>2. Taken(E, q.user, "My", p.issue) = {e \in E0 : e.ref.issue \notin {p.issue}}
    BY <2>1, EntryFields DEF Whole, Taken
  <2> QED
    BY <1>2, <2>1, <2>2
<1> QED
  BY <1>1, <1>2

LEMMA EndSearching ==
    ASSUME NEW q, NEW p, NEW E0, NEW I0, NEW E, NEW I,
           p.kind = q.kind, p.user = q.user, p.issue = q.issue
    PROVE  /\ Way("End.find", q, E0, I0, E, I) =>
                 Way("End.find", p, E0, I0, E, I) 
           /\ Way("End.find", q, E0, I0, E, I) \/ Way("End.pop", q, E0, I0, E, I) \/ Way("End.unlist", q, E0, I0, E, I) =>
                 Way("err", p, E0, I0, E, I)
<1> USE DEF Way, Learnt, NewKnown, RefKnown, EndKnown, AssignKnown, EditKnown,
            SoFar, Unlisted, Listed, Dropped, Saved
<1> QED
  OBVIOUS

LEMMA EndUnlisted ==
    ASSUME NEW q, NEW E0, NEW I0, NEW E, NEW I, Whole(E0, I0), Way("End.unlist", q, E0, I0, E, I)
    PROVE  Way("End.take", q, E0, I0, Taken(E, q.user, q.list, q.issue), I)
<1> USE DEF Way, Learnt, NewKnown, RefKnown, EndKnown, AssignKnown, EditKnown,
            SoFar, Unlisted, Listed, Dropped, Saved
<1>1. E = E0 /\ Entry(q.user, q.list, q.ref) \in E0 /\ q.ref.issue = q.issue
  OBVIOUS
<1>2. Taken(E, q.user, q.list, q.issue) = {e \in E0 : e.ref.issue \notin {q.issue}}
  BY <1>1, EntryFields DEF Whole, Taken
<1> QED
  BY <1>1, <1>2

LEMMA EndTaken ==
    ASSUME NEW q, NEW p, NEW E0, NEW I0, NEW E, NEW I, Whole(E0, I0),
           Way("End.take", q, E0, I0, E, I),
           p.kind = q.kind, p.user = q.user, p.issue = q.issue, p.list = q.list, p.ref = q.ref,
           p.look = q.look, p.got # Gone
    PROVE  /\ q.issue \in IssueIds /\ I[q.issue] # Gone
           /\ Way("End.drop", p, E0, I0, E, I)
<1> USE DEF Way, Learnt, NewKnown, RefKnown, EndKnown, AssignKnown, EditKnown,
            SoFar, Unlisted, Listed, Dropped, Saved
<1>1. Entry(q.user, q.list, q.ref) \in E0 /\ q.ref.issue = q.issue
  OBVIOUS
<1>2. q.issue \in IssueIds /\ I0[q.issue] # Gone
  BY <1>1, EntryFields DEF Whole, EntryType, Ref
<1>3. I[q.issue] # Gone
  BY <1>2
<1> QED
  BY <1>2, <1>3

(* Without another end the todo is gone; its copy is next otherwise.       *)
LEMMA EndDropped ==
    ASSUME NEW q, NEW E0, NEW I0, NEW E, NEW I, Whole(E0, I0), Way("End.drop", q, E0, I0, E, I)
    PROVE  LET J == Put(I, q.issue, Gone) IN
           /\ q.issue \in IssueIds /\ q.got # Gone
           /\ q.ref.fuser = NoUser => Whole(E, J)
           /\ q.ref.fuser # NoUser /\ q.kind = "Remove" => Way("End.ffind", q, E0, I0, E, J)
           /\ q.ref.fuser # NoUser /\ q.kind # "Remove" => Way("End.funlist", q, E0, I0, E, J)
<1> USE DEF Way, Learnt, NewKnown, RefKnown, EndKnown, AssignKnown, EditKnown,
            SoFar, Unlisted, Listed, Dropped, Saved
<1> DEFINE J == Put(I, q.issue, Gone)
           e == Entry(q.user, q.list, q.ref)
<1>1. e \in E0 /\ e.user = q.user /\ e.list = q.list /\ e.ref = q.ref /\ q.ref.issue = q.issue
  BY EntryFields
<1>2. q.issue \in IssueIds /\ q.got # Gone
  BY <1>1 DEF Whole, EntryType, Ref
<1>3. /\ E = {f \in E0 : f.ref.issue \notin {q.issue}}
      /\ J \in [IssueIds -> Texts \cup {Gone}]
      /\ \A id \in IssueIds : J[id] = IF id = q.issue THEN Gone ELSE I0[id]
  BY <1>2 DEF Put
<1> HIDE DEF J, e
<1>4. ASSUME q.ref.fuser = NoUser PROVE Whole(E, J)
  <2>1. q.ref.fissue = NoIssue
    BY <1>1, <1>4 DEF Whole, Matched
  <2>2. \A f \in E0 : f.ref.issue # NoIssue
    BY DEF Whole, EntryType, Ref, IssueIds, NoIssue
  <2>3. E = {f \in E0 : f.ref.issue \notin {e.ref.issue, e.ref.fissue}}
    BY <1>1, <1>3, <2>1, <2>2
  <2>4. \A id \in IssueIds : J[id] = IF id \in {e.ref.issue, e.ref.fissue} THEN Gone ELSE I0[id]
    BY <1>1, <1>3, <2>1 DEF IssueIds, NoIssue
  <2> QED
    BY <1>1, <1>3, <2>3, <2>4, EndingFits
<1>5. q.ref.fuser # NoUser /\ q.kind = "Remove" => Way("End.ffind", q, E0, I0, E, J)
  BY <1>1, <1>2, <1>3 DEF e
<1>6. q.ref.fuser # NoUser /\ q.kind # "Remove" => Way("End.funlist", q, E0, I0, E, J)
  BY <1>1, <1>2, <1>3 DEF e, Ends, FarList
<1> QED
  BY <1>2, <1>4, <1>5, <1>6 DEF J

(* The entry at the other end is still there, and where it is taken to be. *)
LEMMA FarEndThere ==
    ASSUME NEW q, NEW E0, NEW I0, NEW E, NEW I, Whole(E0, I0),
           NEW label \in {"End.ffind", "End.funlist"}, Way(label, q, E0, I0, E, I)
    PROVE  \E f \in E : /\ f.user = q.ref.fuser /\ f.ref.issue = q.ref.fissue /\ f \in E0
                        /\ f.user \in Users /\ f.list \in Lists
                        /\ Ends(Entry(q.user, q.list, q.ref), f)
                        /\ \A g \in E : g.ref.issue = q.ref.fissue => g = f
                        /\ \A g \in E0 : g.ref.issue = q.ref.fissue => g = f
                        /\ label = "End.funlist" => f.list = FarList(q)
<1> USE DEF Way, Learnt, NewKnown, RefKnown, EndKnown, AssignKnown, EditKnown,
            SoFar, Unlisted, Listed, Dropped, Saved
<1> DEFINE e == Entry(q.user, q.list, q.ref)
<1>1. e \in E0 /\ e.ref = q.ref /\ q.ref.issue = q.issue /\ q.ref.fuser # NoUser
  BY EntryFields
<1>2. E = {f \in E0 : f.ref.issue \notin {q.issue}}
  OBVIOUS
<1>3. label = "End.funlist" => \A f \in E0 : Ends(e, f) => f.list = FarList(q)
  OBVIOUS
<1> HIDE DEF e, Way
<1>4. PICK f \in E0 : /\ Ends(e, f) /\ f # e
                      /\ f.user = e.ref.fuser /\ f.ref.issue = e.ref.fissue
                      /\ e.ref.fissue # e.ref.issue
                      /\ \A g \in E0 : g.ref.issue = e.ref.fissue => g = f
  BY <1>1, FarEnd
<1>5. f \in E /\ f.user \in Users /\ f.list \in Lists
  BY <1>1, <1>2, <1>4 DEF Whole, EntryType
<1> QED
  BY <1>1, <1>2, <1>3, <1>4, <1>5 DEF e

(* Searching for it list by list finds it.                                 *)
LEMMA EndFarSearching ==
    ASSUME NEW q, NEW p, NEW E0, NEW I0, NEW E, NEW I, Whole(E0, I0), q.look \in 1..3,
           Way("End.ffind", q, E0, I0, E, I),
           p.kind = q.kind, p.user = q.user, p.issue = q.issue, p.list = q.list, p.ref = q.ref,
           p.got = q.got,
           NEW l, l = SearchOrder[q.look], NEW hit \in BOOLEAN,
           hit <=> \E f \in E : f.user = q.ref.fuser /\ f.list = l /\ f.ref.issue = q.ref.fissue
    PROVE  /\ hit /\ p.flist = l => Way("End.funlist", p, E0, I0, E, I)
           /\ ~hit => /\ q.look < 3
                      /\ p.look = q.look + 1 => Way("End.ffind", p, E0, I0, E, I)
<1> DEFINE Far(f) == Ends(Entry(q.user, q.list, q.ref), f)
<1>1. PICK f \in E : /\ f.user = q.ref.fuser /\ f.ref.issue = q.ref.fissue /\ f \in E0
                     /\ f.list \in Lists /\ Far(f)
                     /\ \A g \in E : g.ref.issue = q.ref.fissue => g = f
                     /\ \A g \in E0 : g.ref.issue = q.ref.fissue => g = f
  BY FarEndThere
<1>2. hit <=> f.list = l
  BY <1>1
<1>3. \A g \in E0 : Far(g) => g = f
  BY <1>1, EntryFields DEF Ends
<1>4. \A n \in 1..3 : n < q.look => SearchOrder[n] # f.list
  BY <1>1 DEF Way, Learnt, EndKnown
<1>5. hit /\ p.flist = l => Way("End.funlist", p, E0, I0, E, I)
  BY <1>2, <1>3 DEF Way, Learnt, NewKnown, RefKnown, EndKnown, AssignKnown, EditKnown,
            SoFar, Unlisted, Listed, Dropped, Saved, FarList
<1>6. ASSUME ~hit
      PROVE  /\ q.look < 3
             /\ p.look = q.look + 1 => Way("End.ffind", p, E0, I0, E, I)
  <2>1. \A n \in 1..3 : n < q.look + 1 => SearchOrder[n] # f.list
    BY <1>2, <1>4, <1>6
  <2>2. q.look < 3
    <3>1. SearchOrder[1] = "My" /\ SearchOrder[2] = "Out" /\ SearchOrder[3] = "In"
      BY DEF SearchOrder
    <3>2. \E n \in 1..3 : SearchOrder[n] = f.list
      BY <1>1, <3>1 DEF Lists
    <3> QED
      BY <2>1, <3>2
  <2>3. p.look = q.look + 1 => Way("End.ffind", p, E0, I0, E, I)
    BY <1>3, <2>1 DEF Way, Learnt, NewKnown, RefKnown, EndKnown, AssignKnown, EditKnown,
            SoFar, Unlisted, Listed, Dropped, Saved
  <2> QED
    BY <2>2, <2>3
<1> QED
  BY <1>5, <1>6

LEMMA EndFarUnlisted ==
    ASSUME NEW q, NEW E0, NEW I0, NEW E, NEW I, Whole(E0, I0), Way("End.funlist", q, E0, I0, E, I)
    PROVE  /\ Way("End.ftake", q, E0, I0, Taken(E, q.ref.fuser, FarList(q), q.ref.fissue), I)
           /\ q.ref.fuser \in Users /\ FarList(q) \in Lists
           /\ \E f \in E : f.user = q.ref.fuser /\ f.list = FarList(q) /\ f.ref.issue = q.ref.fissue
<1> DEFINE F == Taken(E, q.ref.fuser, FarList(q), q.ref.fissue)
<1>1. PICK f \in E : /\ f.user = q.ref.fuser /\ f.ref.issue = q.ref.fissue
                     /\ f.user \in Users /\ f.list \in Lists /\ f.list = FarList(q)
                     /\ \A g \in E : g.ref.issue = q.ref.fissue => g = f
  BY FarEndThere
<1>2. E = {g \in E0 : g.ref.issue \notin {q.issue}}
  BY DEF Way, SoFar, Unlisted, Listed
<1>3. F = {g \in E0 : g.ref.issue \notin {q.issue} \cup {q.ref.fissue}}
  BY <1>1, <1>2 DEF Taken
<1> HIDE DEF F
<1>4. Way("End.ftake", q, E0, I0, F, I)
  BY <1>3 DEF Way, Learnt, NewKnown, RefKnown, EndKnown, AssignKnown, EditKnown,
            SoFar, Unlisted, Listed, Dropped, Saved
<1> QED
  BY <1>1, <1>4 DEF F

LEMMA EndFarTaken ==
    ASSUME NEW q, NEW p, NEW E0, NEW I0, NEW E, NEW I, Whole(E0, I0),
           p.kind = q.kind, p.user = q.user, p.issue = q.issue, p.list = q.list, p.ref = q.ref,
           p.flist = q.flist, p.got # Gone
    PROVE  /\ Way("End.ftake", q, E0, I0, E, I) =>
                 /\ q.ref.fissue \in IssueIds /\ I[q.ref.fissue] # Gone
                 /\ Way("End.fdrop", p, E0, I0, E, I)
           /\ Way("End.fdrop", q, E0, I0, E, I) =>
                 /\ q.ref.fissue \in IssueIds /\ q.got # Gone
                 /\ Whole(E, Put(I, q.ref.fissue, Gone))
<1> USE DEF Way, Learnt, NewKnown, RefKnown, EndKnown, AssignKnown, EditKnown,
            SoFar, Unlisted, Listed, Dropped, Saved
<1> DEFINE e == Entry(q.user, q.list, q.ref)
           J == Put(I, q.ref.fissue, Gone)
           C == Way("End.ftake", q, E0, I0, E, I)
           D == Way("End.fdrop", q, E0, I0, E, I)
<1>1. C \/ D => /\ e \in E0 /\ e.ref = q.ref /\ q.ref.issue = q.issue /\ q.ref.fuser # NoUser
                /\ E = {g \in E0 : g.ref.issue \notin {q.issue} \cup {q.ref.fissue}}
                /\ I \in [IssueIds -> Texts \cup {Gone}]
                /\ \A id \in IssueIds : I[id] = IF id = q.issue THEN Gone ELSE I0[id]
  BY EntryFields
<1>2. C => Way("End.fdrop", p, E0, I0, E, I)
  BY DEF FarList
<1>3. D => q.got # Gone
  OBVIOUS
<1> HIDE DEF e, J, C, D, Way
<1>4. ASSUME C \/ D
      PROVE  /\ q.ref.fissue \in IssueIds /\ I[q.ref.fissue] # Gone /\ Whole(E, J)
  <2>1. q.ref.fissue \in IssueIds /\ I0[q.ref.fissue] # Gone /\ q.ref.fissue # q.issue
    BY <1>1, <1>4, FarEnd
  <2>2. I[q.ref.fissue] # Gone
    BY <1>1, <1>4, <2>1
  <2>3. /\ J \in [IssueIds -> Texts \cup {Gone}]
        /\ \A id \in IssueIds : J[id] = IF id \in {e.ref.issue, e.ref.fissue} THEN Gone ELSE I0[id]
    BY <1>1, <1>4, <2>1 DEF Put, J
  <2>4. E = {f \in E0 : f.ref.issue \notin {e.ref.issue, e.ref.fissue}}
    BY <1>1, <1>4
  <2>5. Whole(E, J)
    BY <1>1, <1>4, <2>3, <2>4, EndingFits
  <2> QED
    BY <2>1, <2>2, <2>5
<1> QED
  BY <1>2, <1>3, <1>4 DEF C, D, J

-----------------------------------------------------------------------------
(* Editing a todo and its copy.                                            *)

LEMMA EditWay ==
    ASSUME NEW q, NEW p, NEW E0, NEW I0, NEW E, NEW I,
           p.kind = q.kind, p.user = q.user, p.issue = q.issue, p.text = q.text
    PROVE  /\ Way("Edit.get", q, E0, I0, E, I) => Way("Edit.find", q, E0, I0, E, I)
           /\ Way("Edit.get", q, E0, I0, E, I) => Way("err", q, E0, I0, E, I)
           /\ Way("Edit.find", q, E0, I0, E, I) => Way("Edit.find", p, E0, I0, E, I)
           /\ Way("Edit.find", q, E0, I0, E, I) => Way("err", p, E0, I0, E, I)
           /\ Way("Edit.find", q, E0, I0, E, I)
                 /\ Entry(q.user, p.list, p.ref) \in E /\ p.ref.issue = q.issue =>
              Way("Edit.found", p, E0, I0, E, I)
           /\ Way("Edit.found", q, E0, I0, E, I) /\ q.ref.fissue # NoIssue =>
              Way("Edit.fget", q, E0, I0, E, I)
           /\ Way("Edit.fget", q, E0, I0, E, I) => Way("Edit.fsave", q, E0, I0, E, I)
           /\ Way("Edit.fsave", q, E0, I0, E, I) =>
              Way("Edit.save", q, E0, I0, E, Put(I, q.ref.fissue, q.text))
<1> USE DEF Way, Learnt, NewKnown, RefKnown, EndKnown, AssignKnown, EditKnown,
            SoFar, Unlisted, Listed, Dropped, Saved, Put
<1>1. Way("Edit.get", q, E0, I0, E, I) => Way("Edit.find", q, E0, I0, E, I)
  OBVIOUS
<1>2. Way("Edit.get", q, E0, I0, E, I) => Way("err", q, E0, I0, E, I)
  OBVIOUS
<1>3. Way("Edit.find", q, E0, I0, E, I) => Way("Edit.find", p, E0, I0, E, I)
  OBVIOUS
<1>4. Way("Edit.find", q, E0, I0, E, I) => Way("err", p, E0, I0, E, I)
  OBVIOUS
<1>5. Way("Edit.find", q, E0, I0, E, I)
         /\ Entry(q.user, p.list, p.ref) \in E /\ p.ref.issue = q.issue =>
      Way("Edit.found", p, E0, I0, E, I)
  OBVIOUS
<1>6. Way("Edit.found", q, E0, I0, E, I) /\ q.ref.fissue # NoIssue => Way("Edit.fget", q, E0, I0, E, I)
  OBVIOUS
<1>7. Way("Edit.fget", q, E0, I0, E, I) => Way("Edit.fsave", q, E0, I0, E, I)
  OBVIOUS
<1>8. Way("Edit.fsave", q, E0, I0, E, I) => Way("Edit.save", q, E0, I0, E, Put(I, q.ref.fissue, q.text))
  OBVIOUS
<1> HIDE DEF Way, Learnt, NewKnown, RefKnown, EndKnown, AssignKnown, EditKnown,
             SoFar, Unlisted, Listed, Dropped, Saved, Put
<1> QED
  BY <1>1, <1>2, <1>3, <1>4, <1>5, <1>6, <1>7, <1>8

(* A todo without a copy has nothing else to be saved.                     *)
LEMMA EditAlone ==
    ASSUME NEW q, NEW E0, NEW I0, NEW E, NEW I,
           Way("Edit.found", q, E0, I0, E, I), q.ref.fissue = NoIssue
    PROVE  Way("Edit.save", q, E0, I0, E, I)
<1>1. q.ref.fissue \notin IssueIds
  BY DEF IssueIds, NoIssue
<1> QED
  BY <1>1 DEF Way, Learnt, NewKnown, RefKnown, EndKnown, AssignKnown, EditKnown,
              SoFar, Unlisted, Listed, Dropped, Saved

(* The copy has its record.                                                *)
LEMMA EditFar ==
    ASSUME NEW q, NEW E0, NEW I0, NEW E, NEW I, Whole(E0, I0), Way("Edit.fget", q, E0, I0, E, I)
    PROVE  q.ref.fissue \in IssueIds /\ I[q.ref.fissue] # Gone
<1> DEFINE e == Entry(q.user, q.list, q.ref)
<1>1. /\ e \in E0 /\ e.ref = q.ref /\ q.ref.fissue # NoIssue
      /\ \A id \in IssueIds : I[id] = I0[id]
  BY EntryFields DEF Way, Learnt, NewKnown, RefKnown, EndKnown, AssignKnown, EditKnown,
              SoFar, Unlisted, Listed, Dropped, Saved
<1> HIDE DEF e
<1>2. e.ref.fuser # NoUser
  BY <1>1 DEF Whole, Matched
<1>3. q.ref.fissue \in IssueIds /\ I0[q.ref.fissue] # Gone
  BY <1>1, <1>2, FarEnd
<1> QED
  BY <1>1, <1>3

LEMMA EditDone ==
    ASSUME NEW q, NEW E0, NEW I0, NEW E, NEW I, Whole(E0, I0), Way("Edit.save", q, E0, I0, E, I)
    PROVE  q.issue \in IssueIds /\ Whole(E, Put(I, q.issue, q.text))
<1> DEFINE e == Entry(q.user, q.list, q.ref)
           J == Put(I, q.issue, q.text)
<1>1. /\ e \in E0 /\ e.ref = q.ref /\ q.ref.issue = q.issue
      /\ E = E0 /\ q.text \in Texts
      /\ I \in [IssueIds -> Texts \cup {Gone}]
      /\ \A id \in IssueIds : I[id] = IF id = q.ref.fissue THEN q.text ELSE I0[id]
  BY EntryFields DEF Way, Learnt, NewKnown, RefKnown, EndKnown, AssignKnown, EditKnown,
              SoFar, Unlisted, Listed, Dropped, Saved
<1> HIDE DEF e
<1>2. q.issue \in IssueIds
  BY <1>1 DEF Whole, EntryType, Ref
<1>3. /\ J \in [IssueIds -> Texts \cup {Gone}]
      /\ \A id \in IssueIds : J[id] = IF id \in {e.ref.issue, e.ref.fissue} THEN q.text ELSE I0[id]
  BY <1>1, <1>2 DEF Put
<1> HIDE DEF J
<1>4. Whole(E0, J)
  BY <1>1, <1>3, EditedFits
<1> QED
  BY <1>1, <1>2, <1>4 DEF J

-----------------------------------------------------------------------------
(* Accepting a received todo.                                              *)

LEMMA AcceptWay ==
    ASSUME NEW q, NEW p, NEW E0, NEW I0, NEW E, NEW I,
           p.kind = q.kind, p.user = q.user, p.issue = q.issue
    PROVE  /\ Way("Accept.get", q, E0, I0, E, I) => Way("Accept.ref", q, E0, I0, E, I)
           /\ Way("Accept.get", q, E0, I0, E, I) => Way("err", q, E0, I0, E, I)
           /\ Way("Accept.ref", q, E0, I0, E, I) => Way("err", q, E0, I0, E, I)
           /\ Way("Accept.ref", q, E0, I0, E, I)
                 /\ Entry(q.user, "In", p.ref) \in E /\ p.ref.issue = q.issue =>
              Way("Accept.my", p, E0, I0, E, I)
           /\ Way("Accept.my", q, E0, I0, E, I) =>
              Way("Accept.in", q, E0, I0, E \cup {Entry(q.user, "My", q.ref)}, I)
           /\ Way("Accept.my", q, E0, I0, E, I) => Way("err", q, E0, I0, E, I)
           /\ Way("Accept.in", q, E0, I0, E, I) => Way("Accept.undo", q, E0, I0, E, I)
<1> USE DEF Way, Learnt, NewKnown, RefKnown, EndKnown, AssignKnown, EditKnown,
            SoFar, Unlisted, Listed, Dropped, Saved
<1>1. Way("Accept.get", q, E0, I0, E, I) => Way("Accept.ref", q, E0, I0, E, I)
  OBVIOUS
<1>2. Way("Accept.get", q, E0, I0, E, I) => Way("err", q, E0, I0, E, I)
  OBVIOUS
<1>3. Way("Accept.ref", q, E0, I0, E, I) => Way("err", q, E0, I0, E, I)
  OBVIOUS
<1>4. Way("Accept.ref", q, E0, I0, E, I)
         /\ Entry(q.user, "In", p.ref) \in E /\ p.ref.issue = q.issue =>
      Way("Accept.my", p, E0, I0, E, I)
  OBVIOUS
<1>5. Way("Accept.my", q, E0, I0, E, I) =>
      Way("Accept.in", q, E0, I0, E \cup {Entry(q.user, "My", q.ref)}, I)
  OBVIOUS
<1>6. Way("Accept.my", q, E0, I0, E, I) => Way("err", q, E0, I0, E, I)
  OBVIOUS
<1>7. Way("Accept.in", q, E0, I0, E, I) => Way("Accept.undo", q, E0, I0, E, I)
  OBVIOUS
<1> HIDE DEF Way, Learnt, NewKnown, RefKnown, EndKnown, AssignKnown, EditKnown,
             SoFar, Unlisted, Listed, Dropped, Saved
<1> QED
  BY <1>1, <1>2, <1>3, <1>4, <1>5, <1>6, <1>7

(* The inbox gives the todo up; if it does not, the own list does.         *)
LEMMA AcceptDone ==
    ASSUME NEW q, NEW E0, NEW I0, NEW E, NEW I, Whole(E0, I0)
    PROVE  /\ Way("Accept.in", q, E0, I0, E, I) => Whole(Taken(E, q.user, "In", q.issue), I)
           /\ Way("Accept.undo", q, E0, I0, E, I) => Way("err", q, E0, I0, Taken(E, q.user, "My", q.issue), I)
<1> USE DEF Way, Learnt, NewKnown, RefKnown, EndKnown, AssignKnown, EditKnown,
            SoFar, Unlisted, Listed, Dropped, Saved
<1> DEFINE A == Way("Accept.in", q, E0, I0, E, I)
           B == Way("Accept.undo", q, E0, I0, E, I)
<1>1. A \/ B => /\ Entry(q.user, "In", q.ref) \in E0 /\ q.ref.issue = q.issue
                /\ E = E0 \cup {Entry(q.user, "My", q.ref)}
                /\ I \in [IssueIds -> Texts \cup {Gone}]
                /\ \A id \in IssueIds : I[id] = I0[id]
  OBVIOUS
<1>2. A \/ B => I = I0
  BY <1>1 DEF Whole
<1> HIDE DEF A, B, Way
<1>3. A => Whole(Taken(E, q.user, "In", q.issue), I)
  BY <1>1, <1>2, AcceptedFits
<1>4. ASSUME B PROVE Way("err", q, E0, I0, Taken(E, q.user, "My", q.issue), I)
  <2>1. \A e \in E0 : ~(e.user = q.user /\ e.list = "My" /\ e.ref.issue = q.issue)
    BY <1>1, <1>4, EntryFields DEF Whole
  <2>2. Taken(E, q.user, "My", q.issue) = E0
    BY <1>1, <1>4, <2>1, EntryFields DEF Taken
  <2> QED
    BY <1>1, <1>4, <1>2, <2>2 DEF Way
<1> QED
  BY <1>3, <1>4 DEF A, B

-----------------------------------------------------------------------------
(* Assigning a todo to someone else, or taking it back.                    *)

LEMMA AssignWay ==
    ASSUME NEW q, NEW p, NEW E0, NEW I0, NEW E, NEW I, Whole(E0, I0),
           p.kind = q.kind, p.user = q.user, p.to = q.to, p.issue = q.issue, p.twin = q.twin
    PROVE  /\ Way("Assign.get", q, E0, I0, E, I) /\ p.text = I[q.issue] =>
              Way("Assign.find", p, E0, I0, E, I)
           /\ Way("Assign.get", q, E0, I0, E, I) => Way("err", p, E0, I0, E, I)
           /\ Way("Assign.find", q, E0, I0, E, I) /\ p.text = q.text => Way("Assign.find", p, E0, I0, E, I)
           /\ Way("Assign.find", q, E0, I0, E, I) => Way("err", p, E0, I0, E, I)
           /\ Way("Assign.find", q, E0, I0, E, I) /\ p.text = q.text
                 /\ Entry(q.user, p.list, p.ref) \in E /\ p.ref.issue = q.issue =>
              Way("Assign.found", p, E0, I0, E, I)
<1> DEFINE Here == \/ Way("Assign.get", q, E0, I0, E, I)
                   \/ Way("Assign.find", q, E0, I0, E, I)
<1> USE DEF Way, Learnt, NewKnown, RefKnown, EndKnown, AssignKnown, EditKnown,
            SoFar, Unlisted, Listed, Dropped, Saved
<1>1. Here => I = I0 /\ E = E0
  BY DEF Whole
<1>2. Way("Assign.get", q, E0, I0, E, I) /\ p.text = I[q.issue] => Way("Assign.find", p, E0, I0, E, I)
  BY <1>1
<1>3. Way("Assign.get", q, E0, I0, E, I) => Way("err", p, E0, I0, E, I)
  OBVIOUS
<1>4. Way("Assign.find", q, E0, I0, E, I) /\ p.text = q.text => Way("Assign.find", p, E0, I0, E, I)
  OBVIOUS
<1>5. Way("Assign.find", q, E0, I0, E, I) => Way("err", p, E0, I0, E, I)
  OBVIOUS
<1>6. Way("Assign.find", q, E0, I0, E, I) /\ p.text = q.text
         /\ Entry(q.user, p.list, p.ref) \in E /\ p.ref.issue = q.issue =>
      Way("Assign.found", p, E0, I0, E, I)
  BY EntryFields DEF Whole
<1> HIDE DEF Way, Learnt, NewKnown, RefKnown, EndKnown, AssignKnown, EditKnown,
             SoFar, Unlisted, Listed, Dropped, Saved, Here
<1> QED
  BY <1>2, <1>3, <1>4, <1>5, <1>6

(* A todo that was sent is taken back first.                               *)
LEMMA AssignFound ==
    ASSUME NEW q, NEW E0, NEW I0, NEW E, NEW I, Whole(E0, I0), Way("Assign.found", q, E0, I0, E, I)
    PROVE  /\ Way("err", q, E0, I0, E, I)
           /\ Route(q) = "Assign.unlist"
           /\ ~Received(q) /\ q.ref.fuser # NoUser => Way("Assign.ffind", q, E0, I0, E, I)
           /\ ~Received(q) /\ q.ref.fuser = NoUser => Way("Assign.unlist", q, E0, I0, E, I)
<1> DEFINE e == Entry(q.user, q.list, q.ref)
<1> USE DEF Way, Learnt, NewKnown, RefKnown, EndKnown, AssignKnown, EditKnown,
            SoFar, Unlisted, Listed, Dropped, Saved
<1>1. e \in E0 /\ e.list = q.list /\ e.ref = q.ref
  BY EntryFields
<1>2. Way("err", q, E0, I0, E, I)
  OBVIOUS
<1>3. Route(q) = "Assign.unlist"
  BY DEF Route
<1> HIDE DEF e
<1>4. /\ q.list \in Lists /\ \A f \in E0 : f.ref.issue # NoIssue
      /\ q.ref.fuser = NoUser => q.ref.fissue = NoIssue
  BY <1>1 DEF Whole, EntryType, Ref, IssueIds, NoIssue, Matched
<1>5. ~Received(q) => q.list = "Out" \/ (q.list = "My" /\ q.ref.fissue = NoIssue)
  BY <1>4 DEF Received, Lists
<1>6. ~Received(q) /\ q.ref.fuser # NoUser => Way("Assign.ffind", q, E0, I0, E, I)
  BY <1>5
<1>7. ~Received(q) /\ q.ref.fuser = NoUser => Way("Assign.unlist", q, E0, I0, E, I)
  BY <1>4, <1>5 DEF IssueIds, NoIssue
<1> QED
  BY <1>2, <1>3, <1>6, <1>7

(* Up to here nothing has changed.                                         *)
LEMMA AssignGivenUp ==
    ASSUME NEW q, NEW p, NEW E0, NEW I0, NEW E, NEW I, p.kind = q.kind,
           NEW label \in {"Assign.ffind", "Assign.funlist"}, Way(label, q, E0, I0, E, I)
    PROVE  Way("err", p, E0, I0, E, I)
BY DEF Way, Learnt, NewKnown, RefKnown, EndKnown, AssignKnown, EditKnown,
       SoFar, Unlisted, Listed, Dropped, Saved

LEMMA AssignFarFound ==
    ASSUME NEW q, NEW p, NEW E0, NEW I0, NEW E, NEW I, Whole(E0, I0),
           p.kind = q.kind, p.user = q.user, p.to = q.to, p.issue = q.issue, p.twin = q.twin,
           p.text = q.text, p.list = q.list, p.ref = q.ref,
           Way("Assign.ffind", q, E0, I0, E, I)
    PROVE  /\ Way("Assign.ffind", p, E0, I0, E, I)
           /\ (\E f \in E : f.user = q.ref.fuser /\ f.list = p.flist /\ f.ref.issue = q.ref.fissue) =>
                 Way("Assign.funlist", p, E0, I0, E, I)
<1> DEFINE e == Entry(q.user, q.list, q.ref)
<1> USE DEF Way, Learnt, NewKnown, RefKnown, EndKnown, AssignKnown, EditKnown,
            SoFar, Unlisted, Listed, Dropped, Saved
<1>1. e.ref = q.ref /\ E = E0
  BY EntryFields
<1>2. Way("Assign.ffind", p, E0, I0, E, I)
  OBVIOUS
<1>3. ASSUME NEW f \in E, f.list = p.flist, f.ref.issue = q.ref.fissue
      PROVE  Way("Assign.funlist", p, E0, I0, E, I)
  <2>1. \A g \in E0 : Ends(e, g) => g.list = p.flist
    BY <1>1, <1>3 DEF Whole, Ends
  <2> QED
    BY <2>1
<1> QED
  BY <1>2, <1>3

(* The copy is taken out of the list where it was found.                   *)
LEMMA AssignFarUnlisted ==
    ASSUME NEW q, NEW E0, NEW I0, NEW E, NEW I, Whole(E0, I0), Way("Assign.funlist", q, E0, I0, E, I)
    PROVE  Way("Assign.ftake", q, E0, I0, Taken(E, q.ref.fuser, q.flist, q.ref.fissue), I)
<1> DEFINE e == Entry(q.user, q.list, q.ref)
           F == Taken(E, q.ref.fuser, q.flist, q.ref.fissue)
<1> USE DEF Way, Learnt, NewKnown, RefKnown, EndKnown, AssignKnown, EditKnown,
            SoFar, Unlisted, Listed, Dropped, Saved
<1>1. /\ e \in E0 /\ e.ref = q.ref /\ E = E0 /\ q.ref.fuser # NoUser
      /\ \A f \in E0 : Ends(e, f) => f.list = q.flist
  BY EntryFields
<1> HIDE DEF e, Way
<1>2. PICK f \in E0 : /\ f.user = q.ref.fuser /\ f.list = q.flist /\ f.ref.issue = q.ref.fissue
                      /\ \A g \in E0 : g.ref.issue = q.ref.fissue => g = f
  BY <1>1, FarEnd
<1>3. F = {g \in E0 : g.ref.issue \notin {q.ref.fissue}}
  BY <1>1, <1>2 DEF Taken
<1> HIDE DEF F
<1>4. Way("Assign.ftake", q, E0, I0, F, I)
  BY <1>3 DEF Way
<1> QED
  BY <1>4 DEF F

LEMMA AssignFarTaken ==
    ASSUME NEW q, NEW p, NEW E0, NEW I0, NEW E, NEW I, Whole(E0, I0),
           p.kind = q.kind, p.user = q.user, p.to = q.to, p.issue = q.issue, p.twin = q.twin,
           p.text = q.text, p.list = q.list, p.ref = q.ref
    PROVE  /\ Way("Assign.ftake", q, E0, I0, E, I) =>
                 I[q.ref.fissue] # Gone /\ Way("Assign.fdrop", p, E0, I0, E, I)
           /\ Way("Assign.fdrop", q, E0, I0, E, I) =>
                 Route(q) = "Assign.unlist" /\ Way("Assign.unlist", q, E0, I0, E, Put(I, q.ref.fissue, Gone))
<1> DEFINE e == Entry(q.user, q.list, q.ref)
           C == Way("Assign.ftake", q, E0, I0, E, I)
           D == Way("Assign.fdrop", q, E0, I0, E, I)
<1> USE DEF Way, Learnt, NewKnown, RefKnown, EndKnown, AssignKnown, EditKnown,
            SoFar, Unlisted, Listed, Dropped, Saved
<1>1. C \/ D => /\ e \in E0 /\ e.ref = q.ref /\ q.ref.fuser # NoUser
                /\ \A id \in IssueIds : I[id] = I0[id]
  BY EntryFields
<1>2. C => Way("Assign.fdrop", p, E0, I0, E, I)
  OBVIOUS
<1>3. D => Route(q) = "Assign.unlist"
  BY DEF Route
<1>4. D => Way("Assign.unlist", q, E0, I0, E, Put(I, q.ref.fissue, Gone))
  BY DEF Put
<1> HIDE DEF e, C, D, Way
<1>5. C => I[q.ref.fissue] # Gone
  BY <1>1, FarEnd
<1> QED
  BY <1>2, <1>3, <1>4, <1>5 DEF C, D

(* Only the record of the todo is left of it.                              *)
LEMMA AssignUnlisted ==
    ASSUME NEW q, NEW E0, NEW I0, NEW E, NEW I, Whole(E0, I0), Way("Assign.unlist", q, E0, I0, E, I)
    PROVE  /\ \E e \in E : e.user = q.user /\ e.list = q.list /\ e.ref.issue = q.issue
           /\ Way(IF q.user = q.to THEN "Assign.my" ELSE "Assign.save", q, E0, I0,
                  Taken(E, q.user, q.list, q.issue), I)
<1> DEFINE e == Entry(q.user, q.list, q.ref)
           F == Taken(E, q.user, q.list, q.issue)
<1> USE DEF Way, Learnt, NewKnown, RefKnown, EndKnown, AssignKnown, EditKnown,
            SoFar, Unlisted, Listed, Dropped, Saved
<1>1. /\ e \in E0 /\ e.user = q.user /\ e.list = q.list /\ e.ref = q.ref /\ q.ref.issue = q.issue
      /\ E = {f \in E0 : f.ref.issue \notin {q.ref.fissue}}
  BY EntryFields
<1> HIDE DEF e, Way
<1>2. q.ref.fissue # q.issue
  <2>1. CASE e.ref.fuser = NoUser
    BY <1>1, <2>1 DEF Whole, Matched, EntryType, Ref, IssueIds, NoIssue
  <2>2. CASE e.ref.fuser # NoUser
    BY <1>1, <2>2, FarEnd
  <2> QED
    BY <2>1, <2>2
<1>3. e \in E
  BY <1>1, <1>2
<1>4. F = {f \in E0 : f.ref.issue \notin {q.issue} \cup {q.ref.fissue}}
  BY <1>1, <1>2 DEF Taken, Whole
<1> HIDE DEF F
<1>5. q.user = q.to => Way("Assign.my", q, E0, I0, F, I)
  BY <1>4 DEF Way
<1>6. q.user # q.to => Way("Assign.save", q, E0, I0, F, I)
  BY <1>4 DEF Way
<1> QED
  BY <1>1, <1>3, <1>5, <1>6 DEF F

(* What has become of the todo and its copy.                               *)
LEMMA AssignTaken ==
    ASSUME NEW q, NEW E0, NEW I0, Whole(E0, I0), NEW e \in E0, e.ref = q.ref, q.ref.issue = q.issue
    PROVE  LET E1 == {f \in E0 : f.ref.issue \notin {q.issue, q.ref.fissue}}
               J == [i \in IssueIds |-> IF i \in {q.issue, q.ref.fissue} THEN Gone ELSE I0[i]]
           IN  Whole(E1, J) /\ q.issue \in IssueIds /\ I0[q.issue] \in Texts /\ q.ref.fissue # q.issue
<1>1. q.issue \in IssueIds /\ I0[q.issue] \in Texts
  BY DEF Whole, EntryType, Ref
<1>2. q.ref.fissue # q.issue
  <2>1. CASE e.ref.fuser = NoUser
    BY <1>1, <2>1 DEF Whole, Matched, IssueIds, NoIssue
  <2>2. CASE e.ref.fuser # NoUser
    BY <2>2, FarEnd
  <2> QED
    BY <2>1, <2>2
<1> DEFINE E1 == {f \in E0 : f.ref.issue \notin {q.issue, q.ref.fissue}}
           J == [i \in IssueIds |-> IF i \in {q.issue, q.ref.fissue} THEN Gone ELSE I0[i]]
<1>3. J \in [IssueIds -> Texts \cup {Gone}]
  BY DEF Whole
<1>4. \A i \in IssueIds : J[i] = IF i \in {e.ref.issue, e.ref.fissue} THEN Gone ELSE I0[i]
  OBVIOUS
<1>5. E1 = {f \in E0 : f.ref.issue \notin {e.ref.issue, e.ref.fissue}}
  OBVIOUS
<1> HIDE DEF J, E1
<1>6. Whole(E1, J)
  BY <1>3, <1>4, <1>5, EndingFits
<1> QED
  BY <1>1, <1>2, <1>6 DEF E1, J

(* The todo is in the own list again, as a new one would be.               *)
LEMMA AssignToSelfDone ==
    ASSUME NEW q, NEW E0, NEW I0, NEW E, NEW I, Whole(E0, I0), Way("Assign.my", q, E0, I0, E, I)
    PROVE  /\ \A f \in E : f.ref.issue # q.issue
           /\ Whole(E \cup {Entry(q.user, "My", OwnRef(q.issue))}, I)
<1> DEFINE e == Entry(q.user, q.list, q.ref)
           E1 == {f \in E0 : f.ref.issue \notin {q.issue, q.ref.fissue}}
           J == [i \in IssueIds |-> IF i \in {q.issue, q.ref.fissue} THEN Gone ELSE I0[i]]
<1> USE DEF Way, Learnt, NewKnown, RefKnown, EndKnown, AssignKnown, EditKnown,
            SoFar, Unlisted, Listed, Dropped, Saved
<1>1. /\ e \in E0 /\ e.ref = q.ref /\ q.ref.issue = q.issue /\ q.user \in Users
      /\ E = E1
      /\ I \in [IssueIds -> Texts \cup {Gone}]
      /\ \A id \in IssueIds : I[id] = IF id = q.ref.fissue THEN Gone ELSE I0[id]
  BY EntryFields
<1>2. /\ J[q.issue] = Gone
      /\ \A id \in IssueIds : id # q.issue => J[id] = I[id]
  <2>1. q.issue \in IssueIds
    BY <1>1 DEF Whole, EntryType, Ref
  <2> QED
    BY <1>1, <2>1
<1> HIDE DEF e, E1, J, Way
<1>3. Whole(E1, J) /\ q.issue \in IssueIds /\ I0[q.issue] \in Texts /\ q.ref.fissue # q.issue
  BY <1>1, AssignTaken DEF E1, J
<1>4. I[q.issue] # Gone
  BY <1>1, <1>3, SentinelAssumption
<1>5. Whole(E1 \cup {Entry(q.user, "My", OwnRef(q.issue))}, I)
  BY <1>1, <1>2, <1>3, <1>4, NewOwnFits
<1>6. \A f \in E1 : f.ref.issue # q.issue
  BY DEF E1
<1> QED
  BY <1>1, <1>5, <1>6

LEMMA AssignAnewWay ==
    ASSUME NEW q, NEW E0, NEW I0, NEW E, NEW I, Whole(E0, I0)
    PROVE  /\ Way("Assign.save", q, E0, I0, E, I) =>
                 Way("Assign.out", q, E0, I0, E, Put(I, q.twin, q.text))
           /\ Way("Assign.out", q, E0, I0, E, I) =>
                 /\ \A f \in E : f.ref.issue # q.issue
                 /\ Way("Assign.in", q, E0, I0, E \cup {Entry(q.user, "Out", SentRef(q))}, I)
<1> USE DEF Way, Learnt, NewKnown, RefKnown, EndKnown, AssignKnown, EditKnown,
            SoFar, Unlisted, Listed, Dropped, Saved
<1>1. Way("Assign.save", q, E0, I0, E, I) => Way("Assign.out", q, E0, I0, E, Put(I, q.twin, q.text))
  <2>1. SUFFICES ASSUME Way("Assign.save", q, E0, I0, E, I)
                 PROVE  Way("Assign.out", q, E0, I0, E, Put(I, q.twin, q.text))
    OBVIOUS
  <2>2. q.text \in Texts \cup {Gone}
    <3>1. q.issue \in IssueIds
      BY <2>1, EntryFields DEF Whole, EntryType, Ref
    <3> QED
      BY <2>1, <3>1 DEF Whole
  <2> QED
    BY <2>1, <2>2 DEF Put
<1>2. Way("Assign.out", q, E0, I0, E, I) => \A f \in E : f.ref.issue # q.issue
  OBVIOUS
<1>3. Way("Assign.out", q, E0, I0, E, I) =>
         Way("Assign.in", q, E0, I0, E \cup {Entry(q.user, "Out", SentRef(q))}, I)
  OBVIOUS
<1> HIDE DEF Way
<1> QED
  BY <1>1, <1>2, <1>3

(* The todo and its new copy are as new ones would be.                     *)
LEMMA AssignDone ==
    ASSUME NEW q, NEW E0, NEW I0, NEW E, NEW I, Whole(E0, I0), Way("Assign.in", q, E0, I0, E, I),
           NEW ref, ref = [issue |-> q.twin, fuser |-> q.user, fissue |-> q.issue]
    PROVE  /\ \A f \in E : f.ref.issue # q.twin
           /\ Whole(E \cup {Entry(q.to, "In", ref)}, I)
<1> DEFINE e == Entry(q.user, q.list, q.ref)
           E1 == {f \in E0 : f.ref.issue \notin {q.issue, q.ref.fissue}}
           J == [i \in IssueIds |-> IF i \in {q.issue, q.ref.fissue} THEN Gone ELSE I0[i]]
           g == Entry(q.user, "Out", SentRef(q))
<1> USE DEF Way, Learnt, NewKnown, RefKnown, EndKnown, AssignKnown, EditKnown,
            SoFar, Unlisted, Listed, Dropped, Saved
<1>1. /\ e \in E0 /\ e.ref = q.ref /\ q.ref.issue = q.issue /\ q.user \in Users /\ q.to \in Users
      /\ E = E1 \cup {g}
      /\ q.twin \in IssueIds /\ q.twin # q.issue /\ I0[q.twin] = Gone /\ q.text = I0[q.issue]
      /\ I \in [IssueIds -> Texts \cup {Gone}]
      /\ \A id \in IssueIds : I[id] = IF id = q.twin THEN q.text
                                      ELSE IF id = q.ref.fissue THEN Gone ELSE I0[id]
  BY EntryFields
<1> HIDE DEF e, Way
<1>2. Whole(E1, J) /\ q.issue \in IssueIds /\ I0[q.issue] \in Texts /\ q.ref.fissue # q.issue
  BY <1>1, AssignTaken DEF E1, J
<1>3. /\ J[q.issue] = Gone /\ J[q.twin] = Gone
      /\ \A id \in IssueIds : id # q.issue /\ id # q.twin => I[id] = J[id]
  BY <1>1, <1>2
<1> HIDE DEF E1, J, g
<1>4. I[q.issue] # Gone /\ I[q.twin] = I[q.issue]
  BY <1>1, <1>2, SentinelAssumption
<1>5. Whole((E1 \cup {g}) \cup {Entry(q.to, "In", ref)}, I)
  BY <1>1, <1>2, <1>3, <1>4, NewPairFits DEF g, SentRef
<1>6. \A f \in E : f.ref.issue # q.twin
  BY <1>1, <1>2, <1>3, NotListed, EntryFields DEF g, SentRef
<1> QED
  BY <1>1, <1>5, <1>6

-----------------------------------------------------------------------------
(* What users see where the ways end.                                      *)

LEMMA TodoFields ==
    ASSUME NEW e, NEW E, NEW I, NEW t, t = AsTodo(e, E, I)
    PROVE  /\ t.id = e.ref.issue /\ t.author = e.user /\ t.holder = e.ref.fuser
           /\ t.text = I[e.ref.issue]
           /\ t.state = IF e.list = "My" THEN "own"
                        ELSE IF Waits(e, E) THEN "pending" ELSE "accepted"
           /\ t = [id |-> t.id, author |-> t.author, holder |-> t.holder, state |-> t.state,
                   text |-> t.text]
BY DEF AsTodo

LEMMA SameTodo ==
    ASSUME NEW e, NEW E, NEW I, NEW F, NEW J, J[e.ref.issue] = I[e.ref.issue],
           Waits(e, F) <=> Waits(e, E)
    PROVE  AsTodo(e, F, J) = AsTodo(e, E, I)
BY DEF AsTodo

(* A todo more, ...                                                        *)
LEMMA SeenGrows ==
    ASSUME NEW E, NEW I, NEW F, NEW J, NEW e \in F, ByAuthor(e),
           \A f \in E : ByAuthor(f) => f \in F /\ AsTodo(f, F, J) = AsTodo(f, E, I),
           \A f \in F : ByAuthor(f) => f \in E \/ f = e
    PROVE  SeenIn(F, J) = SeenIn(E, I) \cup {AsTodo(e, F, J)}
<1>1. ASSUME NEW t \in SeenIn(F, J) PROVE t \in SeenIn(E, I) \cup {AsTodo(e, F, J)}
  <2>1. PICK f \in F : ByAuthor(f) /\ t = AsTodo(f, F, J)
    BY <1>1 DEF SeenIn
  <2>2. f \in E => t = AsTodo(f, E, I)
    BY <2>1
  <2> QED
    BY <2>1, <2>2 DEF SeenIn
<1>2. ASSUME NEW t \in SeenIn(E, I) PROVE t \in SeenIn(F, J)
  <2>1. PICK f \in E : ByAuthor(f) /\ t = AsTodo(f, E, I)
    BY <1>2 DEF SeenIn
  <2> QED
    BY <2>1 DEF SeenIn
<1>3. AsTodo(e, F, J) \in SeenIn(F, J)
  BY DEF SeenIn
<1> QED
  BY <1>1, <1>2, <1>3

(* ... a todo less, ...                                                    *)
LEMMA SeenShrinks ==
    ASSUME NEW E, NEW I, NEW F, NEW J, Whole(E, I), NEW a \in E, ByAuthor(a),
           \A f \in F : ByAuthor(f) => f \in E /\ f # a /\ AsTodo(f, F, J) = AsTodo(f, E, I),
           \A f \in E : ByAuthor(f) /\ f # a => f \in F
    PROVE  SeenIn(F, J) = SeenIn(E, I) \ {AsTodo(a, E, I)}
<1>1. ASSUME NEW t \in SeenIn(F, J) PROVE t \in SeenIn(E, I) \ {AsTodo(a, E, I)}
  <2>1. PICK f \in F : ByAuthor(f) /\ t = AsTodo(f, F, J)
    BY <1>1 DEF SeenIn
  <2>2. f \in E /\ f # a /\ t = AsTodo(f, E, I)
    BY <2>1
  <2>3. f.ref.issue # a.ref.issue
    BY <2>2 DEF Whole
  <2>4. t # AsTodo(a, E, I)
    BY <2>2, <2>3, TodoFields
  <2> QED
    BY <2>1, <2>2, <2>4 DEF SeenIn
<1>2. ASSUME NEW t \in SeenIn(E, I), t # AsTodo(a, E, I) PROVE t \in SeenIn(F, J)
  <2>1. PICK f \in E : ByAuthor(f) /\ t = AsTodo(f, E, I)
    BY <1>2 DEF SeenIn
  <2>2. f \in F /\ t = AsTodo(f, F, J)
    BY <1>2, <2>1
  <2> QED
    BY <2>1, <2>2 DEF SeenIn
<1> QED
  BY <1>1, <1>2

(* ... or a todo that becomes another one.                                 *)
LEMMA SeenChanges ==
    ASSUME NEW E, NEW I, NEW F, NEW J, Whole(E, I), NEW a \in E, a \in F, ByAuthor(a),
           \A f \in F : ByAuthor(f) /\ f # a => f \in E /\ AsTodo(f, F, J) = AsTodo(f, E, I),
           \A f \in E : ByAuthor(f) => f \in F
    PROVE  SeenIn(F, J) = (SeenIn(E, I) \ {AsTodo(a, E, I)}) \cup {AsTodo(a, F, J)}
<1>1. ASSUME NEW t \in SeenIn(F, J)
      PROVE  t \in (SeenIn(E, I) \ {AsTodo(a, E, I)}) \cup {AsTodo(a, F, J)}
  <2>1. PICK f \in F : ByAuthor(f) /\ t = AsTodo(f, F, J)
    BY <1>1 DEF SeenIn
  <2>2. CASE f = a
    BY <2>1, <2>2
  <2>3. CASE f # a
    <3>1. f \in E /\ t = AsTodo(f, E, I)
      BY <2>1, <2>3
    <3>2. f.ref.issue # a.ref.issue
      BY <2>3, <3>1 DEF Whole
    <3>3. t # AsTodo(a, E, I)
      BY <3>1, <3>2, TodoFields
    <3> QED
      BY <2>1, <3>1, <3>3 DEF SeenIn
  <2> QED
    BY <2>2, <2>3
<1>2. ASSUME NEW t \in SeenIn(E, I), t # AsTodo(a, E, I) PROVE t \in SeenIn(F, J)
  <2>1. PICK f \in E : ByAuthor(f) /\ t = AsTodo(f, E, I)
    BY <1>2 DEF SeenIn
  <2>2. f # a /\ f \in F
    BY <1>2, <2>1
  <2>3. t = AsTodo(f, F, J)
    BY <2>1, <2>2
  <2> QED
    BY <2>1, <2>2, <2>3 DEF SeenIn
<1>3. AsTodo(a, F, J) \in SeenIn(F, J)
  BY DEF SeenIn
<1> QED
  BY <1>1, <1>2, <1>3

(* Of a todo and its copy one is its author's.                             *)
LEMMA AuthorsEntry ==
    ASSUME NEW E, NEW I, Whole(E, I), NEW e \in E
    PROVE  \E a \in E :
             /\ ByAuthor(a) /\ a.ref.issue \in {e.ref.issue, e.ref.fissue}
             /\ \A b \in E : ByAuthor(b) /\ b.ref.issue \in {e.ref.issue, e.ref.fissue} => b = a
             /\ ByAuthor(e) => a = e
             /\ ~ByAuthor(e) => Ends(e, a) /\ a.list = "Out"
<1>1. CASE e.ref.fuser = NoUser
  <2>1. e.ref.fissue = NoIssue /\ \A b \in E : b.ref.issue # NoIssue
    BY <1>1 DEF Whole, Matched, EntryType, Ref, IssueIds, NoIssue
  <2>2. ByAuthor(e)
    BY <1>1 DEF ByAuthor
  <2> QED
    BY <2>1, <2>2 DEF Whole
<1>2. CASE e.ref.fuser # NoUser
  <2>1. PICK f \in E : Ends(e, f) /\ f.ref.issue = e.ref.fissue
                       /\ \A g \in E : g.ref.issue = e.ref.fissue => g = f
    BY <1>2, FarEnd
  <2>2. e.user = f.ref.fuser /\ (e.list = "Out" <=> f.list # "Out") /\ e.user # NoUser
    BY <2>1, SentinelAssumption DEF Ends, Whole, EntryType
  <2>3. CASE e.list = "Out"
    <3>1. ByAuthor(e) /\ ~ByAuthor(f)
      BY <2>2, <2>3 DEF ByAuthor
    <3> QED
      BY <2>1, <3>1 DEF Whole
  <2>4. CASE e.list # "Out"
    <3>1. ~ByAuthor(e) /\ ByAuthor(f) /\ f.list = "Out"
      BY <1>2, <2>2, <2>4 DEF ByAuthor
    <3> QED
      BY <2>1, <3>1 DEF Whole
  <2> QED
    BY <2>3, <2>4
<1> QED
  BY <1>1, <1>2

(* A new own todo, ...                                                     *)
LEMMA NewOwnSeen ==
    ASSUME NEW E, NEW I, Whole(E, I), NEW u \in Users, NEW id \in IssueIds, I[id] = Gone,
           NEW J, \A i \in IssueIds : i # id => J[i] = I[i],
           NEW e, e = Entry(u, "My", OwnRef(id))
    PROVE  /\ \A t \in SeenIn(E, I) : t.id # id
           /\ SeenIn(E \cup {e}, J) =
                SeenIn(E, I) \cup {[id |-> id, author |-> u, holder |-> NoUser, state |-> "own",
                                    text |-> J[id]]}
<1>1. e.user = u /\ e.list = "My" /\ e.ref.issue = id /\ e.ref.fuser = NoUser
  BY EntryFields DEF OwnRef
<1>2. \A f \in E : f.ref.issue # id /\ f.ref.issue \in IssueIds
  BY NotListed DEF Whole, EntryType, Ref
<1>3. \A f \in E : AsTodo(f, E \cup {e}, J) = AsTodo(f, E, I)
  BY <1>1, <1>2, SameTodo DEF Waits
<1>4. SeenIn(E \cup {e}, J) = SeenIn(E, I) \cup {AsTodo(e, E \cup {e}, J)}
  <2> DEFINE F == E \cup {e}
  <2>1. /\ e \in F /\ ByAuthor(e)
        /\ \A f \in E : ByAuthor(f) => f \in F /\ AsTodo(f, F, J) = AsTodo(f, E, I)
        /\ \A f \in F : ByAuthor(f) => f \in E \/ f = e
    BY <1>1, <1>3 DEF ByAuthor
  <2> HIDE DEF F
  <2>2. SeenIn(F, J) = SeenIn(E, I) \cup {AsTodo(e, F, J)}
    BY <2>1, SeenGrows
  <2> QED
    BY <2>2 DEF F
<1>5. AsTodo(e, E \cup {e}, J) =
        [id |-> id, author |-> u, holder |-> NoUser, state |-> "own", text |-> J[id]]
  BY <1>1 DEF AsTodo
<1>6. \A t \in SeenIn(E, I) : t.id # id
  BY <1>2, TodoFields DEF SeenIn
<1> QED
  BY <1>4, <1>5, <1>6

(* ... a new sent one, ...                                                 *)
LEMMA NewPairSeen ==
    ASSUME NEW E, NEW I, Whole(E, I), NEW u \in Users, NEW v \in Users,
           NEW id \in IssueIds, NEW twin \in IssueIds, id # twin, I[id] = Gone, I[twin] = Gone,
           NEW J, \A i \in IssueIds : i # id /\ i # twin => J[i] = I[i],
           NEW e, e = Entry(u, "Out", [issue |-> id, fuser |-> v, fissue |-> twin]),
           NEW g, g = Entry(v, "In", [issue |-> twin, fuser |-> u, fissue |-> id])
    PROVE  /\ \A t \in SeenIn(E, I) : t.id # id
           /\ SeenIn((E \cup {e}) \cup {g}, J) =
                SeenIn(E, I) \cup {[id |-> id, author |-> u, holder |-> v, state |-> "pending",
                                    text |-> J[id]]}
<1> DEFINE F == (E \cup {e}) \cup {g}
<1>1. /\ e.user = u /\ e.list = "Out" /\ e.ref.issue = id /\ e.ref.fuser = v /\ e.ref.fissue = twin
      /\ g.user = v /\ g.list = "In" /\ g.ref.issue = twin /\ g.ref.fuser = u
  BY EntryFields
<1>2. \A f \in E : f.ref.issue # id /\ f.ref.issue # twin /\ f.ref.issue \in IssueIds
  BY NotListed DEF Whole, EntryType, Ref
<1>3. \A f \in E : f.ref.fissue # twin
  BY NotAnEnd DEF IssueIds, NoIssue
<1>4. \A f \in E : AsTodo(f, F, J) = AsTodo(f, E, I)
  BY <1>1, <1>2, <1>3, SameTodo DEF Waits
<1>5. ~ByAuthor(g) /\ ByAuthor(e) /\ e \in F /\ g \in F
  BY <1>1, SentinelAssumption DEF ByAuthor
<1>6. SeenIn(F, J) = SeenIn(E, I) \cup {AsTodo(e, F, J)}
  BY <1>4, <1>5, SeenGrows
<1>7. Waits(e, F)
  BY <1>1, <1>5 DEF Waits
<1>8. AsTodo(e, F, J) =
        [id |-> id, author |-> u, holder |-> v, state |-> "pending", text |-> J[id]]
  BY <1>1, <1>7 DEF AsTodo
<1>9. \A t \in SeenIn(E, I) : t.id # id
  BY <1>2, TodoFields DEF SeenIn
<1> QED
  BY <1>6, <1>8, <1>9

(* A todo that waits has its other end in an inbox.                        *)
LEMMA WaitsForOne ==
    ASSUME NEW E, NEW I, Whole(E, I), NEW e \in E, Waits(e, E), ByAuthor(e)
    PROVE  \E f \in E : Ends(e, f) /\ f.list = "In"
<1>1. PICK f \in E : f.user = e.ref.fuser /\ f.list = "In" /\ f.ref.issue = e.ref.fissue
  BY DEF Waits
<1>2. e.ref.fuser # NoUser
  BY <1>1, SentinelAssumption DEF Whole, EntryType
<1>3. PICK g \in E : Ends(e, g)
  BY <1>2 DEF Whole, Matched
<1> QED
  BY <1>1, <1>3 DEF Whole, Ends

(* ... a todo that is gone with its copy, ...                              *)
LEMMA EndingSeen ==
    ASSUME NEW E, NEW I, Whole(E, I), NEW e \in E,
           NEW J \in [IssueIds -> Texts \cup {Gone}],
           \A i \in IssueIds : J[i] = IF i \in {e.ref.issue, e.ref.fissue} THEN Gone ELSE I[i]
    PROVE  LET F == {f \in E : f.ref.issue \notin {e.ref.issue, e.ref.fissue}}
           IN  \E a \in E : /\ ByAuthor(a)
                            /\ SeenIn(F, J) = SeenIn(E, I) \ {AsTodo(a, E, I)}
                            /\ ByAuthor(e) => a = e
<1> DEFINE F == {f \in E : f.ref.issue \notin {e.ref.issue, e.ref.fissue}}
<1>1. PICK a \in E :
        /\ ByAuthor(a) /\ a.ref.issue \in {e.ref.issue, e.ref.fissue}
        /\ \A b \in E : ByAuthor(b) /\ b.ref.issue \in {e.ref.issue, e.ref.fissue} => b = a
        /\ ByAuthor(e) => a = e
  BY AuthorsEntry
<1>2. \A f \in F : f \in E /\ f # a /\ f.ref.issue \in IssueIds /\ J[f.ref.issue] = I[f.ref.issue]
  BY <1>1 DEF Whole, EntryType, Ref
<1>3. Whole(F, J)
  BY EndingFits
<1> HIDE DEF F
<1>4. ASSUME NEW f \in F, ByAuthor(f) PROVE Waits(f, F) <=> Waits(f, E)
  <2>1. ASSUME Waits(f, E) PROVE Waits(f, F)
    <3>1. PICK g \in E : Ends(f, g) /\ g.list = "In"
      BY <1>2, <1>4, <2>1, WaitsForOne
    <3>2. f.ref.fuser # NoUser
      BY <3>1, SentinelAssumption DEF Ends, Whole, EntryType
    <3>3. PICK h \in F : Ends(f, h)
      BY <1>3, <3>2 DEF Whole, Matched
    <3>4. h = g
      BY <1>2, <3>1, <3>3 DEF Whole, Ends
    <3> QED
      BY <3>1, <3>3, <3>4 DEF Waits, Ends
  <2>2. Waits(f, F) => Waits(f, E)
    BY <1>2 DEF Waits
  <2> QED
    BY <2>1, <2>2
<1>5. \A f \in F : ByAuthor(f) => AsTodo(f, F, J) = AsTodo(f, E, I)
  BY <1>2, <1>4, SameTodo
<1>6. \A f \in E : ByAuthor(f) /\ f # a => f \in F
  BY <1>1 DEF F
<1>7. SeenIn(F, J) = SeenIn(E, I) \ {AsTodo(a, E, I)}
  BY <1>1, <1>2, <1>5, <1>6, SeenShrinks
<1> QED
  BY <1>1, <1>7 DEF F

(* ... accepted, ...                                                       *)
LEMMA AcceptedSeen ==
    ASSUME NEW E, NEW I, Whole(E, I), NEW e \in E, e.list = "In",
           NEW g, g.user = e.user, g.list = "My", g.ref = e.ref,
           NEW F, F = (E \ {e}) \cup {g}
    PROVE  \E a \in E :
             LET t == AsTodo(a, E, I) IN
             /\ ByAuthor(a) /\ t.state = "pending"
             /\ SeenIn(F, I) = (SeenIn(E, I) \ {t}) \cup {Accepted(t)}
<1>1. e.user \in Users /\ e.ref.fuser # NoUser /\ ~ByAuthor(e) /\ ~ByAuthor(g)
  BY DEF Whole, Matched, ByAuthor, EntryType
<1>2. PICK a \in E : ByAuthor(a) /\ Ends(e, a) /\ a.list = "Out"
  BY <1>1, AuthorsEntry
<1>3. a # e /\ a \in F /\ e.user = a.ref.fuser /\ e.ref.issue = a.ref.fissue
  BY <1>1, <1>2 DEF Ends
<1>4. Waits(a, E)
  BY <1>3 DEF Waits
<1>5. ~Waits(a, F)
  <2>1. \A f \in F : f.ref.issue = e.ref.issue => f = g
    BY DEF Whole
  <2> QED
    BY <1>3, <2>1 DEF Waits
<1>6. ASSUME NEW f \in F, ByAuthor(f), f # a
      PROVE  f \in E /\ AsTodo(f, F, I) = AsTodo(f, E, I)
  <2>1. f \in E
    BY <1>1, <1>6
  <2>2. ASSUME Waits(f, E) PROVE Waits(f, F)
    <3>1. PICK h \in E : Ends(f, h) /\ h.list = "In"
      BY <1>6, <2>1, <2>2, WaitsForOne
    <3>2. h # e
      BY <1>2, <1>6, <2>1, <3>1 DEF Ends, Whole
    <3> QED
      BY <3>1, <3>2 DEF Waits, Ends
  <2>3. Waits(f, F) => Waits(f, E)
    BY DEF Waits
  <2> QED
    BY <2>1, <2>2, <2>3, SameTodo
<1>7. /\ \A f \in F : ByAuthor(f) /\ f # a => f \in E /\ AsTodo(f, F, I) = AsTodo(f, E, I)
      /\ \A f \in E : ByAuthor(f) => f \in F
  BY <1>1, <1>6
<1>8. SeenIn(F, I) = (SeenIn(E, I) \ {AsTodo(a, E, I)}) \cup {AsTodo(a, F, I)}
  BY <1>2, <1>3, <1>7, SeenChanges
<1>9. /\ AsTodo(a, E, I).state = "pending"
       /\ AsTodo(a, F, I) = Accepted(AsTodo(a, E, I))
  BY <1>2, <1>4, <1>5 DEF AsTodo, Accepted
<1> QED
  BY <1>2, <1>8, <1>9

(* ... or edited.                                                          *)
LEMMA EditedSeen ==
    ASSUME NEW E, NEW I, Whole(E, I), NEW e \in E, NEW text \in Texts,
           NEW J \in [IssueIds -> Texts \cup {Gone}],
           \A i \in IssueIds : J[i] = IF i \in {e.ref.issue, e.ref.fissue} THEN text ELSE I[i]
    PROVE  \E a \in E :
             LET t == AsTodo(a, E, I) IN
             /\ ByAuthor(a)
             /\ SeenIn(E, J) = (SeenIn(E, I) \ {t}) \cup {Edited(t, text)}
<1>1. PICK a \in E :
        /\ ByAuthor(a) /\ a.ref.issue \in {e.ref.issue, e.ref.fissue}
        /\ \A b \in E : ByAuthor(b) /\ b.ref.issue \in {e.ref.issue, e.ref.fissue} => b = a
  BY AuthorsEntry
<1>2. \A f \in E : f.ref.issue \in IssueIds
  BY DEF Whole, EntryType, Ref
<1>3. \A f \in E : ByAuthor(f) /\ f # a => AsTodo(f, E, J) = AsTodo(f, E, I)
  BY <1>1, <1>2, SameTodo
<1>4. SeenIn(E, J) = (SeenIn(E, I) \ {AsTodo(a, E, I)}) \cup {AsTodo(a, E, J)}
  BY <1>1, <1>3, SeenChanges
<1>5. AsTodo(a, E, J) = Edited(AsTodo(a, E, I), text)
  BY <1>1, <1>2 DEF AsTodo, Edited
<1> QED
  BY <1>1, <1>4, <1>5

(* So each way ends in a step of SharedTodos.                              *)
LEMMA Creates ==
    ASSUME NEW S, NEW id \in IssueIds, NEW u \in Users, NEW text \in Texts,
           NEW v \in Users \cup {NoUser}, v # u, \A t \in S : t.id # id
    PROVE  Turns(S, S \cup {[id |-> id, author |-> u, holder |-> v,
                             state |-> IF v = NoUser THEN "own" ELSE "pending", text |-> text]})
BY DEF Turns

LEMMA AddTurns ==
    ASSUME NEW q, NEW E0, NEW I0, NEW E, NEW I, Whole(E0, I0), Way("Add.list", q, E0, I0, E, I)
    PROVE  Turns(SeenIn(E0, I0), SeenIn(E \cup {Entry(q.user, "My", OwnRef(q.issue))}, I))
<1>1. /\ q.user \in Users /\ q.issue \in IssueIds /\ q.text \in Texts /\ I0[q.issue] = Gone
      /\ E = E0 /\ I[q.issue] = q.text
      /\ \A id \in IssueIds : id # q.issue => I[id] = I0[id]
  BY DEF Way, Learnt, NewKnown, SoFar, Unlisted, Listed, Dropped, Saved
<1>2. /\ \A t \in SeenIn(E0, I0) : t.id # q.issue
      /\ SeenIn(E \cup {Entry(q.user, "My", OwnRef(q.issue))}, I) = SeenIn(E0, I0) \cup
           {[id |-> q.issue, author |-> q.user, holder |-> NoUser, state |-> "own", text |-> q.text]}
  BY <1>1, NewOwnSeen
<1>3. q.user # NoUser
  BY <1>1, SentinelAssumption
<1> QED
  BY <1>1, <1>2, <1>3 DEF Turns

LEMMA SendTurns ==
    ASSUME NEW q, NEW E0, NEW I0, NEW E, NEW I, Whole(E0, I0), Way("Send.in", q, E0, I0, E, I),
           NEW ref, ref = [issue |-> q.twin, fuser |-> q.user, fissue |-> q.issue]
    PROVE  Turns(SeenIn(E0, I0), SeenIn(E \cup {Entry(q.to, "In", ref)}, I))
<1>1. /\ q.user \in Users /\ q.issue \in IssueIds /\ q.text \in Texts /\ I0[q.issue] = Gone
      /\ q.to \in Users /\ q.twin \in IssueIds /\ q.twin # q.issue /\ I0[q.twin] = Gone
      /\ q.to # q.user /\ I[q.issue] = q.text
      /\ E = E0 \cup {Entry(q.user, "Out", SentRef(q))}
      /\ \A id \in IssueIds : id # q.issue /\ id # q.twin => I[id] = I0[id]
  BY DEF Way, Learnt, NewKnown, SoFar, Unlisted, Listed, Dropped, Saved
<1>2. /\ \A t \in SeenIn(E0, I0) : t.id # q.issue
      /\ SeenIn(E \cup {Entry(q.to, "In", ref)}, I) = SeenIn(E0, I0) \cup
           {[id |-> q.issue, author |-> q.user, holder |-> q.to, state |-> "pending", text |-> q.text]}
  BY <1>1, NewPairSeen DEF SentRef
<1>3. q.to # NoUser
  BY <1>1, SentinelAssumption
<1> DEFINE S == SeenIn(E0, I0)
<1> HIDE DEF S
<1>4. Turns(S, S \cup {[id |-> q.issue, author |-> q.user, holder |-> q.to,
                        state |-> IF q.to = NoUser THEN "own" ELSE "pending", text |-> q.text]})
  BY <1>1, <1>2, Creates DEF S
<1> QED
  BY <1>2, <1>3, <1>4 DEF S

LEMMA EndTurns ==
    ASSUME NEW q, NEW E0, NEW I0, NEW E, NEW I, Whole(E0, I0)
    PROVE  /\ Way("End.drop", q, E0, I0, E, I) /\ q.ref.fuser = NoUser =>
                 Turns(SeenIn(E0, I0), SeenIn(E, Put(I, q.issue, Gone)))
           /\ Way("End.fdrop", q, E0, I0, E, I) =>
                 Turns(SeenIn(E0, I0), SeenIn(E, Put(I, q.ref.fissue, Gone)))
<1> DEFINE e == Entry(q.user, q.list, q.ref)
           F == {f \in E0 : f.ref.issue \notin {e.ref.issue, e.ref.fissue}}
<1>1. ASSUME NEW J \in [IssueIds -> Texts \cup {Gone}], e \in E0,
             \A i \in IssueIds : J[i] = IF i \in {e.ref.issue, e.ref.fissue} THEN Gone ELSE I0[i]
      PROVE  Turns(SeenIn(E0, I0), SeenIn(F, J))
  <2> HIDE DEF e
  <2>1. \E a \in E0 : ByAuthor(a) /\ SeenIn(F, J) = SeenIn(E0, I0) \ {AsTodo(a, E0, I0)}
    BY <1>1, EndingSeen
  <2> HIDE DEF F
  <2>2. PICK a \in E0 : ByAuthor(a) /\ SeenIn(F, J) = SeenIn(E0, I0) \ {AsTodo(a, E0, I0)}
    BY <2>1
  <2>3. AsTodo(a, E0, I0) \in SeenIn(E0, I0)
    BY <2>2 DEF SeenIn
  <2> QED
    BY <2>2, <2>3 DEF Turns
<1>2. ASSUME Way("End.drop", q, E0, I0, E, I), q.ref.fuser = NoUser
      PROVE  Turns(SeenIn(E0, I0), SeenIn(E, Put(I, q.issue, Gone)))
  <2> DEFINE J == Put(I, q.issue, Gone)
  <2>1. /\ e \in E0 /\ e.ref = q.ref /\ q.ref.issue = q.issue
        /\ E = {f \in E0 : f.ref.issue \notin {q.issue}}
        /\ I \in [IssueIds -> Texts \cup {Gone}]
        /\ \A id \in IssueIds : I[id] = I0[id]
    BY <1>2, EntryFields DEF Way, Learnt, NewKnown, RefKnown, EndKnown, SoFar, Unlisted, Listed,
         Dropped, Saved
  <2> HIDE DEF e
  <2>2. e.ref.fissue = NoIssue /\ \A f \in E0 : f.ref.issue \in IssueIds
    BY <1>2, <2>1 DEF Whole, Matched, EntryType, Ref
  <2>3. NoIssue \notin IssueIds
    BY DEF IssueIds, NoIssue
  <2>4. /\ J \in [IssueIds -> Texts \cup {Gone}]
        /\ E = F
        /\ \A i \in IssueIds : J[i] = IF i \in {e.ref.issue, e.ref.fissue} THEN Gone ELSE I0[i]
    BY <2>1, <2>2, <2>3 DEF Put
  <2> HIDE DEF J, F
  <2>5. Turns(SeenIn(E0, I0), SeenIn(E, J))
    BY <1>1, <2>1, <2>4
  <2> QED
    BY <2>5 DEF J
<1>3. ASSUME Way("End.fdrop", q, E0, I0, E, I)
      PROVE  Turns(SeenIn(E0, I0), SeenIn(E, Put(I, q.ref.fissue, Gone)))
  <2> DEFINE J == Put(I, q.ref.fissue, Gone)
  <2>1. /\ e \in E0 /\ e.ref = q.ref /\ q.ref.issue = q.issue
        /\ E = F
        /\ I \in [IssueIds -> Texts \cup {Gone}]
        /\ \A id \in IssueIds : I[id] = IF id = q.issue THEN Gone ELSE I0[id]
    BY <1>3, EntryFields DEF Way, Learnt, NewKnown, RefKnown, EndKnown, SoFar, Unlisted, Listed,
         Dropped, Saved
  <2> HIDE DEF e
  <2>2. /\ J \in [IssueIds -> Texts \cup {Gone}]
        /\ \A i \in IssueIds : J[i] = IF i \in {e.ref.issue, e.ref.fissue} THEN Gone ELSE I0[i]
    BY <2>1 DEF Put
  <2> HIDE DEF J, F
  <2>3. Turns(SeenIn(E0, I0), SeenIn(E, J))
    BY <1>1, <2>1, <2>2
  <2> QED
    BY <2>3 DEF J
<1> QED
  BY <1>2, <1>3

LEMMA EditTurns ==
    ASSUME NEW q, NEW E0, NEW I0, NEW E, NEW I, Whole(E0, I0), Way("Edit.save", q, E0, I0, E, I)
    PROVE  Turns(SeenIn(E0, I0), SeenIn(E, Put(I, q.issue, q.text)))
<1> DEFINE e == Entry(q.user, q.list, q.ref)
           J == Put(I, q.issue, q.text)
<1>1. /\ e \in E0 /\ e.ref = q.ref /\ q.ref.issue = q.issue
      /\ E = E0 /\ q.text \in Texts
      /\ I \in [IssueIds -> Texts \cup {Gone}]
      /\ \A id \in IssueIds : I[id] = IF id = q.ref.fissue THEN q.text ELSE I0[id]
  BY EntryFields DEF Way, Learnt, NewKnown, RefKnown, EndKnown, AssignKnown, EditKnown,
              SoFar, Unlisted, Listed, Dropped, Saved
<1> HIDE DEF e
<1>2. /\ J \in [IssueIds -> Texts \cup {Gone}]
      /\ \A i \in IssueIds : J[i] = IF i \in {e.ref.issue, e.ref.fissue} THEN q.text ELSE I0[i]
  BY <1>1 DEF Put
<1> HIDE DEF J
<1>3. PICK a \in E0 :
        LET t == AsTodo(a, E0, I0) IN
        /\ ByAuthor(a)
        /\ SeenIn(E0, J) = (SeenIn(E0, I0) \ {t}) \cup {Edited(t, q.text)}
  BY <1>1, <1>2, EditedSeen
<1>4. AsTodo(a, E0, I0) \in SeenIn(E0, I0)
  BY <1>3 DEF SeenIn
<1>5. Turns(SeenIn(E0, I0), SeenIn(E0, J))
  BY <1>1, <1>3, <1>4 DEF Turns
<1> QED
  BY <1>1, <1>5 DEF J

LEMMA AcceptTurns ==
    ASSUME NEW q, NEW E0, NEW I0, NEW E, NEW I, Whole(E0, I0), Way("Accept.in", q, E0, I0, E, I)
    PROVE  Turns(SeenIn(E0, I0), SeenIn(Taken(E, q.user, "In", q.issue), I))
<1>1. /\ Entry(q.user, "In", q.ref) \in E0 /\ q.ref.issue = q.issue
      /\ E = E0 \cup {Entry(q.user, "My", q.ref)}
      /\ I \in [IssueIds -> Texts \cup {Gone}]
      /\ \A id \in IssueIds : I[id] = I0[id]
  BY DEF Way, Learnt, RefKnown, SoFar, Unlisted, Listed, Dropped, Saved
<1>2. I = I0
  BY <1>1 DEF Whole
<1> DEFINE e == Entry(q.user, "In", q.ref)
           g == Entry(q.user, "My", q.ref)
           F == Taken(E, q.user, "In", q.issue)
<1>3. /\ e \in E0 /\ e.user = q.user /\ e.list = "In" /\ e.ref = q.ref
      /\ g.user = q.user /\ g.list = "My" /\ g.ref = q.ref
  BY <1>1, EntryFields
<1>4. F = (E0 \ {e}) \cup {g}
  <2>1. E = E0 \cup {g}
    BY <1>1
  <2> HIDE DEF e, g
  <2> QED
    BY <1>1, <1>3, <2>1 DEF Taken, Whole
<1> HIDE DEF e, g, F
<1>5. PICK a \in E0 :
        LET t == AsTodo(a, E0, I0) IN
        /\ ByAuthor(a) /\ t.state = "pending"
        /\ SeenIn(F, I0) = (SeenIn(E0, I0) \ {t}) \cup {Accepted(t)}
  BY <1>3, <1>4, AcceptedSeen
<1>6. AsTodo(a, E0, I0) \in SeenIn(E0, I0)
  BY <1>5 DEF SeenIn
<1>7. Turns(SeenIn(E0, I0), SeenIn(F, I0))
  BY <1>5, <1>6 DEF Turns
<1> QED
  BY <1>2, <1>7 DEF F

LEMMA PassedFields ==
    ASSUME NEW id, NEW u, NEW h, NEW s, NEW x,
           NEW t, t = [id |-> id, author |-> u, holder |-> h, state |-> s, text |-> x]
    PROVE  /\ TakenBack(t) = [id |-> id, author |-> u, holder |-> NoUser, state |-> "own", text |-> x]
           /\ \A v : Passed(t, v) =
                      [id |-> id, author |-> u, holder |-> v, state |-> "pending", text |-> x]
<1>1. ASSUME NEW v, NEW p
      PROVE  [t EXCEPT !.holder = v, !.state = p] =
               [id |-> id, author |-> u, holder |-> v, state |-> p, text |-> x]
  <2> DEFINE t1 == [t EXCEPT !.holder = v]
  <2>1. t1 = [id |-> id, author |-> u, holder |-> v, state |-> s, text |-> x]
    OBVIOUS
  <2>2. [t EXCEPT !.holder = v, !.state = p] = [t1 EXCEPT !.state = p]
    BY Zenon
  <2> HIDE DEF t1
  <2>3. [t1 EXCEPT !.state = p] = [id |-> id, author |-> u, holder |-> v, state |-> p, text |-> x]
    BY <2>1
  <2> QED
    BY <2>2, <2>3, Zenon
<1> QED
  BY <1>1, Zenon DEF TakenBack, Passed

(* Taken back or sent to another user, a todo is one that has ended and    *)
(* begun anew.                                                             *)
LEMMA AnewTurns ==
    ASSUME NEW E0, NEW I0, Whole(E0, I0), NEW e \in E0, ByAuthor(e), NEW T,
           NEW id, id = e.ref.issue, NEW u, u = e.user, NEW t, t = AsTodo(e, E0, I0),
           NEW new,
           \/ e.list = "Out" /\ new = [id |-> id, author |-> u, holder |-> NoUser,
                                       state |-> "own", text |-> I0[id]]
           \/ \E v \in Users : v # u /\ new = [id |-> id, author |-> u, holder |-> v,
                                               state |-> "pending", text |-> I0[id]],
           T = (SeenIn(E0, I0) \ {t}) \cup {new}
    PROVE  Turns(SeenIn(E0, I0), T)
<1>1. t = [id |-> id, author |-> u, holder |-> e.ref.fuser, text |-> I0[id],
           state |-> t.state]
  BY DEF AsTodo
<1>2. t \in SeenIn(E0, I0)
  BY DEF SeenIn
<1>3. t.author = u /\ (e.list = "Out" => t.state # "own")
  BY DEF AsTodo
<1>4. TakenBack(t) = [id |-> id, author |-> u, holder |-> NoUser, state |-> "own", text |-> I0[id]]
  BY <1>1, PassedFields
<1>5. \A v : Passed(t, v) = [id |-> id, author |-> u, holder |-> v, state |-> "pending",
                            text |-> I0[id]]
  BY <1>1, PassedFields
<1>6. \/ t.state # "own" /\ new = TakenBack(t)
      \/ \E v \in Users : v # t.author /\ new = Passed(t, v)
  BY <1>3, <1>4, <1>5
<1> QED
  BY <1>2, <1>6 DEF Turns

LEMMA AssignToSelfTurns ==
    ASSUME NEW q, NEW E0, NEW I0, NEW E, NEW I, Whole(E0, I0), Way("Assign.my", q, E0, I0, E, I)
    PROVE  Turns(SeenIn(E0, I0), SeenIn(E \cup {Entry(q.user, "My", OwnRef(q.issue))}, I))
<1> DEFINE e == Entry(q.user, q.list, q.ref)
           F == {f \in E0 : f.ref.issue \notin {e.ref.issue, e.ref.fissue}}
           J == [i \in IssueIds |-> IF i \in {e.ref.issue, e.ref.fissue} THEN Gone ELSE I0[i]]
           new == [id |-> q.issue, author |-> q.user, holder |-> NoUser, state |-> "own",
                   text |-> I0[q.issue]]
<1>1. /\ e \in E0 /\ e.user = q.user /\ e.list = q.list /\ e.ref = q.ref /\ q.ref.issue = q.issue
      /\ q.user \in Users /\ q.list = "Out"
      /\ E = {f \in E0 : f.ref.issue \notin {q.issue, q.ref.fissue}}
      /\ \A id \in IssueIds : I[id] = IF id = q.ref.fissue THEN Gone ELSE I0[id]
  BY EntryFields DEF Way, Learnt, NewKnown, RefKnown, AssignKnown, SoFar, Unlisted, Listed, Dropped,
     Saved
<1> HIDE DEF e, Way
<1>2. q.issue \in IssueIds /\ q.ref.fissue # q.issue /\ ByAuthor(e)
  BY <1>1, AssignTaken DEF ByAuthor
<1>3. Whole(F, J)
  BY <1>1, AssignTaken
<1>4. E = F
  BY <1>1
<1>5. /\ J \in [IssueIds -> Texts \cup {Gone}]
      /\ \A i \in IssueIds : J[i] = IF i \in {e.ref.issue, e.ref.fissue} THEN Gone ELSE I0[i]
  BY DEF Whole
<1>6. SeenIn(F, J) = SeenIn(E0, I0) \ {AsTodo(e, E0, I0)}
  <2>1. \E a \in E0 : /\ ByAuthor(a)
                      /\ SeenIn(F, J) = SeenIn(E0, I0) \ {AsTodo(a, E0, I0)}
                      /\ ByAuthor(e) => a = e
    <3> HIDE DEF J
    <3> QED
      BY <1>1, <1>5, EndingSeen
  <2> HIDE DEF F, J
  <2> QED
    BY <1>2, <2>1
<1>7. J[q.issue] = Gone /\ \A i \in IssueIds : i # q.issue => I[i] = J[i]
  BY <1>1, <1>2
<1>8. I[q.issue] = I0[q.issue]
  BY <1>1, <1>2
<1> HIDE DEF F, J
<1>9. SeenIn(F \cup {Entry(q.user, "My", OwnRef(q.issue))}, I) =
        SeenIn(F, J) \cup {[id |-> q.issue, author |-> q.user, holder |-> NoUser, state |-> "own",
                            text |-> I[q.issue]]}
  BY <1>1, <1>2, <1>3, <1>7, NewOwnSeen
<1> DEFINE T == SeenIn(E \cup {Entry(q.user, "My", OwnRef(q.issue))}, I)
<1>10. T = (SeenIn(E0, I0) \ {AsTodo(e, E0, I0)}) \cup {new}
  BY <1>4, <1>6, <1>8, <1>9
<1>11. /\ q.issue = e.ref.issue /\ q.user = e.user /\ e.list = "Out"
       /\ new = [id |-> q.issue, author |-> q.user, holder |-> NoUser, state |-> "own",
                 text |-> I0[q.issue]]
  BY <1>1
<1> HIDE DEF new, T
<1>12. Turns(SeenIn(E0, I0), T)
  BY <1>1, <1>2, <1>10, <1>11, AnewTurns
<1> QED
  BY <1>12 DEF T

LEMMA AssignTurns ==
    ASSUME NEW q, NEW E0, NEW I0, NEW E, NEW I, Whole(E0, I0), Way("Assign.in", q, E0, I0, E, I),
           NEW ref, ref = [issue |-> q.twin, fuser |-> q.user, fissue |-> q.issue]
    PROVE  Turns(SeenIn(E0, I0), SeenIn(E \cup {Entry(q.to, "In", ref)}, I))
<1> DEFINE e == Entry(q.user, q.list, q.ref)
           F == {f \in E0 : f.ref.issue \notin {e.ref.issue, e.ref.fissue}}
           J == [i \in IssueIds |-> IF i \in {e.ref.issue, e.ref.fissue} THEN Gone ELSE I0[i]]
           new == [id |-> q.issue, author |-> q.user, holder |-> q.to, state |-> "pending",
                   text |-> I0[q.issue]]
           g == Entry(q.user, "Out", SentRef(q))
           h == Entry(q.to, "In", ref)
<1>1. /\ e \in E0 /\ e.user = q.user /\ e.list = q.list /\ e.ref = q.ref /\ q.ref.issue = q.issue
      /\ q.user \in Users /\ q.to \in Users /\ q.to # q.user
      /\ q.list = "Out" \/ (q.list = "My" /\ q.ref.fissue = NoIssue)
      /\ E = {f \in E0 : f.ref.issue \notin {q.issue, q.ref.fissue}} \cup {g}
      /\ q.twin \in IssueIds /\ q.twin # q.issue /\ I0[q.twin] = Gone /\ q.text = I0[q.issue]
      /\ \A id \in IssueIds : I[id] = IF id = q.twin THEN q.text
                                      ELSE IF id = q.ref.fissue THEN Gone ELSE I0[id]
  BY EntryFields DEF Way, Learnt, NewKnown, RefKnown, AssignKnown, SoFar, Unlisted, Listed, Dropped,
     Saved
<1> HIDE DEF e, g, Way
<1>2. q.issue \in IssueIds /\ q.ref.fissue # q.issue
  BY <1>1, AssignTaken
<1>3. ByAuthor(e)
  <2>1. \A f \in E0 : f.ref.issue # NoIssue
    BY DEF Whole, EntryType, Ref, IssueIds, NoIssue
  <2> QED
    BY <1>1, <2>1 DEF ByAuthor, Whole, Matched, Ends
<1>4. Whole(F, J)
  BY <1>1, AssignTaken
<1>5. E = F \cup {g}
  BY <1>1
<1>6. /\ J \in [IssueIds -> Texts \cup {Gone}]
      /\ \A i \in IssueIds : J[i] = IF i \in {e.ref.issue, e.ref.fissue} THEN Gone ELSE I0[i]
  BY DEF Whole
<1>7. SeenIn(F, J) = SeenIn(E0, I0) \ {AsTodo(e, E0, I0)}
  <2>1. \E a \in E0 : /\ ByAuthor(a)
                      /\ SeenIn(F, J) = SeenIn(E0, I0) \ {AsTodo(a, E0, I0)}
                      /\ ByAuthor(e) => a = e
    <3> HIDE DEF J
    <3> QED
      BY <1>1, <1>6, EndingSeen
  <2> HIDE DEF F, J
  <2> QED
    BY <1>3, <2>1
<1>8. /\ J[q.issue] = Gone /\ J[q.twin] = Gone
      /\ \A i \in IssueIds : i # q.issue /\ i # q.twin => I[i] = J[i]
  BY <1>1, <1>2
<1>9. I[q.issue] = I0[q.issue]
  BY <1>1, <1>2
<1> HIDE DEF F, J
<1>10. /\ g = Entry(q.user, "Out", [issue |-> q.issue, fuser |-> q.to, fissue |-> q.twin])
       /\ h = Entry(q.to, "In", [issue |-> q.twin, fuser |-> q.user, fissue |-> q.issue])
  BY DEF g, SentRef
<1> HIDE DEF h
<1>11. SeenIn((F \cup {g}) \cup {h}, I) =
         SeenIn(F, J) \cup {[id |-> q.issue, author |-> q.user, holder |-> q.to, state |-> "pending",
                             text |-> I[q.issue]]}
  BY <1>1, <1>2, <1>4, <1>8, <1>10, NewPairSeen
<1> DEFINE T == SeenIn(E \cup {h}, I)
<1>12. T = (SeenIn(E0, I0) \ {AsTodo(e, E0, I0)}) \cup {new}
  BY <1>5, <1>7, <1>9, <1>11
<1>13. /\ q.issue = e.ref.issue /\ q.user = e.user
       /\ \E v \in Users : v # q.user /\ new = [id |-> q.issue, author |-> q.user, holder |-> v,
                                                state |-> "pending", text |-> I0[q.issue]]
  BY <1>1
<1> HIDE DEF new, T
<1>14. Turns(SeenIn(E0, I0), T)
  BY <1>1, <1>3, <1>12, <1>13, AnewTurns
<1> QED
  BY <1>14 DEF T, h

-----------------------------------------------------------------------------
(* Bumping and listing change nothing, nor does anything without a label   *)
(* of its own here.                                                        *)
Aside == {"Bump.ref", "Bump.bump", "Bump.get", "List.read", "List.get"}

Ending == {"Complete", "Remove", "Pop"}

LEMMA AsideWay ==
    ASSUME NEW q, NEW p, NEW S, NEW E, NEW I, NEW label, OnCourse(label, q, S, E, I),
           NEW next, label \in Aside, next \in Aside \cup {"ok", "err"},
           p.kind = q.kind, q.kind \notin Ending
    PROVE  OnCourse(next, p, S, E, I)
<1>1. PICK E0, I0 : Whole(E0, I0) /\ SeenIn(E0, I0) = S /\ Way(label, q, E0, I0, E, I)
  BY DEF OnCourse
<1>2. Way(next, p, E0, I0, E, I)
  BY <1>1 DEF Aside, Ending, Way, Learnt, NewKnown, RefKnown, EndKnown, AssignKnown, EditKnown,
       SoFar, Unlisted, Listed, Dropped, Saved
<1> QED
  BY <1>1, <1>2 DEF OnCourse

(* A request is done when all fits together again, and starts from there.  *)
LEMMA DoneWay ==
    ASSUME NEW q, NEW E, NEW I, Whole(E, I), NEW label \in {"ok", "err"},
           label = "ok" /\ q.kind \in Ending => q.got # Gone
    PROVE  OnCourse(label, q, SeenIn(E, I), E, I)
<1>1. Way(label, q, E, I, E, I)
  BY DEF Ending, Whole, Way, Learnt, NewKnown, RefKnown, EndKnown, AssignKnown, EditKnown,
       SoFar, Unlisted, Listed, Dropped, Saved
<1> QED
  BY <1>1 DEF OnCourse

(* ... and all that fits together is left when it is done.                 *)
LEMMA WayDone ==
    ASSUME NEW q, NEW S, NEW E, NEW I, NEW label \in {"idle", "ok", "err"},
           OnCourse(label, q, S, E, I)
    PROVE  /\ Whole(E, I) /\ S = SeenIn(E, I)
           /\ label = "ok" /\ q.kind \in Ending => q.got # Gone
<1>1. PICK E0, I0 : Whole(E0, I0) /\ SeenIn(E0, I0) = S /\ Way(label, q, E0, I0, E, I)
  BY DEF OnCourse
<1>2. E = E0 /\ I = I0 /\ (label = "ok" /\ q.kind \in Ending => q.got # Gone)
  BY <1>1 DEF Ending, Whole, Way, Learnt, NewKnown, RefKnown, EndKnown, AssignKnown, EditKnown,
       SoFar, Unlisted, Listed, Dropped, Saved
<1> QED
  BY <1>1, <1>2

-----------------------------------------------------------------------------
(* What the store calls do to the entries.                                 *)

AllUnique == \A u \in Users, l \in Lists : IdsUnique(lists[u][l])

LEMMA ListEntries ==
    ASSUME Inv, NEW u \in Users, NEW l \in Lists
    PROVE  /\ lists[u][l] \in Seq(Ref)
           /\ \A ref : Entry(u, l, ref) \in Entries <=>
                 \E i \in 1..Len(lists[u][l]) : lists[u][l][i] = ref
<1>1. lists[u][l] \in Seq(Ref)
  BY DEF Inv, StoreInv
<1>2. \A i \in 1..Len(lists[u][l]) : lists[u][l][i] \in Ref
  BY <1>1
<1> QED
  BY <1>1, <1>2 DEF Entries, EntryType, Entry

LEMMA EntryIs ==
    ASSUME NEW e \in Entries
    PROVE  /\ e.user \in Users /\ e.list \in Lists /\ e.ref \in Ref
           /\ e = Entry(e.user, e.list, e.ref)
BY DEF Entries, EntryType, Entry

(* A list holds a todo if there is an entry of it.                         *)
LEMMA HeldEntry ==
    ASSUME Inv, NEW u \in Users, NEW l \in Lists, NEW id
    PROVE  Holds(lists[u][l], id) <=>
               \E e \in Entries : e.user = u /\ e.list = l /\ e.ref.issue = id
<1>1. ASSUME Holds(lists[u][l], id)
      PROVE  \E e \in Entries : e.user = u /\ e.list = l /\ e.ref.issue = id
  <2>1. PICK i \in 1..Len(lists[u][l]) : lists[u][l][i].issue = id
    BY <1>1, HoldsMeans
  <2>2. Entry(u, l, lists[u][l][i]) \in Entries
    BY ListEntries
  <2> QED
    BY <2>1, <2>2, EntryFields
<1>2. ASSUME NEW e \in Entries, e.user = u, e.list = l, e.ref.issue = id
      PROVE  Holds(lists[u][l], id)
  BY <1>2, HoldsMeans DEF Entries
<1> QED
  BY <1>1, <1>2

LEMMA RefInEntry ==
    ASSUME Inv, NEW u \in Users, NEW l \in Lists, NEW id, Holds(lists[u][l], id)
    PROVE  Entry(u, l, RefIn(u, l, id)) \in Entries /\ RefIn(u, l, id).issue = id
<1>1. lists[u][l] \in Seq(Ref)
  BY ListEntries
<1>2. /\ PositionOf(lists[u][l], id) \in 1..Len(lists[u][l])
      /\ lists[u][l][PositionOf(lists[u][l], id)].issue = id
  BY <1>1, PositionFacts
<1> QED
  BY <1>2, ListEntries DEF RefIn

(* An entry is one after a step if its list has its reference then.        *)
LEMMA EntriesNext ==
    ASSUME NEW u \in Users, NEW l \in Lists, Only(u, l),
           NEW F, F \subseteq EntryType,
           \A ref \in Ref : Entry(u, l, ref) \in F <=>
               \E i \in 1..Len(lists'[u][l]) : lists'[u][l][i] = ref,
           \A e \in EntryType : e.user # u \/ e.list # l => (e \in F <=> e \in Entries)
    PROVE  Entries' = F
<1>1. ASSUME NEW e \in EntryType PROVE e \in Entries' <=> e \in F
  <2>1. e.user \in Users /\ e.list \in Lists /\ e.ref \in Ref /\ e = Entry(e.user, e.list, e.ref)
    BY DEF EntryType, Entry
  <2>2. e \in Entries' <=>
          \E i \in 1..Len(lists'[e.user][e.list]) : lists'[e.user][e.list][i] = e.ref
    BY DEF Entries
  <2>3. CASE e.user = u /\ e.list = l
    BY <2>1, <2>2, <2>3
  <2>4. CASE e.user # u \/ e.list # l
    <3>1. lists'[e.user][e.list] = lists[e.user][e.list]
      BY <2>1, <2>4 DEF Only
    <3>2. e \in Entries' <=> e \in Entries
      BY <2>2, <3>1 DEF Entries
    <3> QED
      BY <2>4, <3>2
  <2> QED
    BY <2>3, <2>4
<1>2. Entries' \subseteq EntryType
  BY DEF Entries
<1> QED
  BY <1>1, <1>2

LEMMA EntriesSame ==
    ASSUME UNCHANGED lists
    PROVE  Entries' = Entries /\ (AllUnique => AllUnique')
BY DEF Entries, AllUnique

LEMMA UniqueNext ==
    ASSUME AllUnique, NEW u \in Users, NEW l \in Lists, Only(u, l), IdsUnique(lists'[u][l])
    PROVE  AllUnique'
<1>1. ASSUME NEW v \in Users, NEW m \in Lists PROVE IdsUnique(lists'[v][m])
  <2>1. CASE v = u /\ m = l
    BY <2>1
  <2>2. CASE v # u \/ m # l
    BY <2>2 DEF Only, AllUnique
  <2> QED
    BY <2>1, <2>2
<1> QED
  BY <1>1 DEF AllUnique

LEMMA EntriesGrow ==
    ASSUME Inv, AllUnique, NEW u \in Users, NEW l \in Lists, NEW ref \in Ref, Grows(u, l, ref)
    PROVE  Entries' = Entries \cup {Entry(u, l, ref)} /\ AllUnique'
<1> DEFINE old == lists[u][l]
           new == lists'[u][l]
<1>1. old \in Seq(Ref) /\ (\A x : Entry(u, l, x) \in Entries <=> \E i \in 1..Len(old) : old[i] = x)
  BY ListEntries
<1>2. new = Append(old, ref) /\ Only(u, l) /\ ~Holds(old, ref.issue)
  BY DEF Grows
<1> HIDE DEF old, new
<1>3. \A x : (\E i \in 1..Len(new) : new[i] = x) <=> (\E i \in 1..Len(old) : old[i] = x) \/ x = ref
  <2>1. Len(new) = Len(old) + 1 /\ new[Len(old) + 1] = ref /\ \A i \in 1..Len(old) : new[i] = old[i]
    BY <1>1, <1>2
  <2> QED
    BY <1>1, <2>1
<1>4. IdsUnique(new)
  <2>1. \A i \in 1..Len(old) : old[i].issue # ref.issue
    BY <1>2, HoldsMeans
  <2>2. IdsUnique(old)
    BY DEF AllUnique, old
  <2> QED
    BY <1>1, <1>2, <2>1, <2>2 DEF IdsUnique
<1>5. AllUnique'
  BY <1>2, <1>4, UniqueNext DEF new
<1> DEFINE F == Entries \cup {Entry(u, l, ref)}
<1>6. F \subseteq EntryType
  BY DEF Entries, EntryType, Entry
<1>7. \A x \in Ref : Entry(u, l, x) \in F <=> \E i \in 1..Len(new) : new[i] = x
  <2>1. \A x : Entry(u, l, x) = Entry(u, l, ref) => x = ref
    BY EntryFields
  <2>2. \A x : Entry(u, l, x) \in F <=> Entry(u, l, x) \in Entries \/ x = ref
    BY <2>1
  <2> QED
    BY <1>1, <1>3, <2>2
<1>8. \A e \in EntryType : e.user # u \/ e.list # l => (e \in F <=> e \in Entries)
  BY EntryFields
<1> HIDE DEF F
<1>9. Entries' = F
  BY <1>2, <1>6, <1>7, <1>8, EntriesNext DEF new
<1> QED
  BY <1>5, <1>9 DEF F

(* A list without a todo: all of its references but one are left.          *)
LEMMA RemovedRefs ==
    ASSUME NEW S, NEW s \in Seq(S), IdsUnique(s), NEW i \in 1..Len(s), NEW t, t = RemoveAt(s, i)
    PROVE  \A x : (\E j \in 1..Len(t) : t[j] = x) <=>
                     (\E j \in 1..Len(s) : s[j] = x) /\ x.issue # s[i].issue
<1>1. /\ Len(t) = Len(s) - 1
      /\ \A j \in 1..(Len(s) - 1) : t[j] = s[IF j < i THEN j ELSE j + 1]
  BY RemoveAtFacts
<1>2. ASSUME NEW j \in 1..Len(t)
      PROVE  \E k \in 1..Len(s) : s[k] = t[j] /\ t[j].issue # s[i].issue
  <2>1. /\ (IF j < i THEN j ELSE j + 1) \in 1..Len(s)
        /\ (IF j < i THEN j ELSE j + 1) # i
    BY <1>1
  <2> QED
    BY <1>1, <2>1 DEF IdsUnique
<1>3. ASSUME NEW j \in 1..Len(s), s[j].issue # s[i].issue
      PROVE  \E k \in 1..Len(t) : t[k] = s[j]
  <2>1. CASE j < i
    BY <1>1, <2>1
  <2>2. CASE j > i
    <3>1. j - 1 \in 1..(Len(s) - 1) /\ ~(j - 1 < i)
      BY <2>2
    <3>2. t[j - 1] = s[(j - 1) + 1]
      BY <1>1, <3>1
    <3> QED
      BY <1>1, <3>1, <3>2
  <2>3. j # i
    BY <1>3
  <2> QED
    BY <2>1, <2>2, <2>3
<1> QED
  BY <1>2, <1>3

(* A list that has lost the references of a todo.                          *)
LEMMA EntriesShrink ==
    ASSUME Inv, AllUnique, NEW u \in Users, NEW l \in Lists, NEW id,
           Only(u, l), IdsUnique(lists'[u][l]),
           \A x : (\E j \in 1..Len(lists'[u][l]) : lists'[u][l][j] = x) <=>
                     (\E j \in 1..Len(lists[u][l]) : lists[u][l][j] = x) /\ x.issue # id
    PROVE  Entries' = Taken(Entries, u, l, id) /\ AllUnique'
<1> DEFINE F == Taken(Entries, u, l, id)
<1>1. F \subseteq EntryType
  BY DEF Entries, Taken
<1>2. \A x : Entry(u, l, x) \in F <=> Entry(u, l, x) \in Entries /\ x.issue # id
  BY EntryFields DEF Taken
<1>3. \A e \in EntryType : e.user # u \/ e.list # l => (e \in F <=> e \in Entries)
  BY DEF Taken
<1> HIDE DEF F
<1>4. \A x : Entry(u, l, x) \in Entries <=> \E j \in 1..Len(lists[u][l]) : lists[u][l][j] = x
  BY ListEntries
<1>5. \A x : Entry(u, l, x) \in F <=> \E j \in 1..Len(lists'[u][l]) : lists'[u][l][j] = x
  BY <1>2, <1>4, Zenon
<1>6. \A x \in Ref : Entry(u, l, x) \in F <=> \E j \in 1..Len(lists'[u][l]) : lists'[u][l][j] = x
  BY <1>5
<1>7. Entries' = F
  BY <1>1, <1>3, <1>6, EntriesNext
<1> QED
  BY <1>7, UniqueNext DEF F

(* A list in another order.                                                *)
LEMMA EntriesStay ==
    ASSUME Inv, AllUnique, NEW u \in Users, NEW l \in Lists,
           Only(u, l), IdsUnique(lists'[u][l]),
           \A x : (\E j \in 1..Len(lists'[u][l]) : lists'[u][l][j] = x) <=>
                     (\E j \in 1..Len(lists[u][l]) : lists[u][l][j] = x)
    PROVE  Entries' = Entries /\ AllUnique'
<1> DEFINE F == Entries
<1>1. F \subseteq EntryType
  BY DEF Entries
<1>2. \A e \in EntryType : e.user # u \/ e.list # l => (e \in F <=> e \in Entries)
  OBVIOUS
<1>3. \A x \in Ref : Entry(u, l, x) \in F <=> \E j \in 1..Len(lists'[u][l]) : lists'[u][l][j] = x
  BY ListEntries
<1> HIDE DEF F
<1>4. Entries' = F
  BY <1>1, <1>2, <1>3, EntriesNext
<1> QED
  BY <1>4, UniqueNext DEF F

-----------------------------------------------------------------------------
(* The calls of a handler, as far as its course is concerned: done, or not *)
(* with nothing changed.                                                   *)

Still == Entries' = Entries /\ issues' = issues /\ (AllUnique => AllUnique')

LEMMA SaveCall ==
    ASSUME Inv, NEW r \in Requests, NEW id, NEW text, NEW ok, NEW err,
           SaveIssue(r, id, text, ok, err)
    PROVE  /\ Entries' = Entries /\ (AllUnique => AllUnique')
           /\ \/ Goto(r, ok) /\ issues' = Put(issues, id, text)
              \/ Goto(r, err) /\ Trouble(r) /\ issues' = issues
BY EntriesSame DEF SaveIssue, Put, store

LEMMA ReadCall ==
    ASSUME UNCHANGED store
    PROVE  Still
BY EntriesSame DEF Still, store

(* One list is changed, or none.                                           *)
LEMMA ChangeCall ==
    ASSUME Inv, AllUnique, NEW r \in Requests, NEW u \in Users, NEW l \in Lists,
           NEW op, op.kind \in Kinds, op.kind = "add" => op.ref \in Ref, NEW ok, NEW err,
           ChangeList(r, u, l, op, ok, err)
    PROVE  /\ issues' = issues
           /\ \/ /\ Goto(r, ok) /\ ~Refuses(lists[u][l], op) /\ Only(u, l)
                 /\ lists'[u][l] = Effect(lists[u][l], op)
                 /\ IdsUnique(lists'[u][l])
              \/ /\ Goto(r, err) /\ (Refuses(lists[u][l], op) \/ Trouble(r))
                 /\ lists' = lists
<1> DEFINE new == Effect(lists[u][l], op)
<1>1. lists[u][l] \in Seq(Ref) /\ IdsUnique(lists[u][l])
  BY DEF Inv, StoreInv, AllUnique
<1>2. issues' = issues
  BY DEF ChangeList
<1>3. \/ Goto(r, ok) /\ ~Refuses(lists[u][l], op) /\ lists' = [lists EXCEPT ![u][l] = new]
      \/ Goto(r, err) /\ (Refuses(lists[u][l], op) \/ Trouble(r)) /\ lists' = lists
  BY DEF ChangeList
<1> HIDE DEF new
<1>4. CASE ~Refuses(lists[u][l], op) /\ lists' = [lists EXCEPT ![u][l] = new]
  <2>1. IdsUnique(new)
    BY <1>1, <1>4, EffectKeepsIdsUnique DEF new
  <2>2. lists'[u][l] = new /\ Only(u, l)
    BY <1>4 DEF Inv, StoreInv, Only
  <2> QED
    BY <1>2, <1>3, <1>4, <2>1, <2>2 DEF new
<1> QED
  BY <1>2, <1>3, <1>4

LEMMA AddCall ==
    ASSUME Inv, AllUnique, NEW r \in Requests, NEW u \in Users, NEW id \in IssueIds,
           NEW l \in Lists, NEW fuser \in Users \cup {NoUser}, NEW fissue \in IssueIds \cup {NoIssue},
           NEW ok, NEW err, AddReference(r, u, id, l, fuser, fissue, ok, err)
    PROVE  \/ /\ Goto(r, ok) /\ issues' = issues /\ AllUnique'
              /\ Entries' = Entries \cup
                     {Entry(u, l, [issue |-> id, fuser |-> fuser, fissue |-> fissue])}
           \/ /\ Goto(r, err) /\ Still
              /\ Trouble(r) \/ \E e \in Entries : e.user = u /\ e.list = l /\ e.ref.issue = id
<1> DEFINE ref == [issue |-> id, fuser |-> fuser, fissue |-> fissue]
           op == [kind |-> "add", ref |-> ref]
<1>1. op.kind = "add" /\ op.kind \in Kinds /\ op.ref = ref /\ ref \in Ref /\ ref.issue = id
  BY DEF Kinds, Ref
<1>2. ChangeList(r, u, l, op, ok, err)
  BY DEF AddReference
<1> HIDE DEF op, ref
<1>3. /\ issues' = issues
      /\ \/ /\ Goto(r, ok) /\ ~Refuses(lists[u][l], op) /\ Only(u, l)
            /\ lists'[u][l] = Effect(lists[u][l], op)
         \/ Goto(r, err) /\ (Refuses(lists[u][l], op) \/ Trouble(r)) /\ lists' = lists
  BY <1>1, <1>2, ChangeCall
<1>4. CASE /\ Goto(r, ok) /\ ~Refuses(lists[u][l], op) /\ Only(u, l)
           /\ lists'[u][l] = Effect(lists[u][l], op)
  <2>1. Grows(u, l, ref)
    BY <1>1, <1>4 DEF Grows, Refuses, Effect, AddRef
  <2>2. Entries' = Entries \cup {Entry(u, l, ref)} /\ AllUnique'
    BY <1>1, <2>1, EntriesGrow
  <2> QED
    BY <1>3, <1>4, <2>2 DEF ref
<1>5. CASE Goto(r, err) /\ (Refuses(lists[u][l], op) \/ Trouble(r)) /\ lists' = lists
  <2>1. Still
    BY <1>3, <1>5, EntriesSame DEF Still
  <2>2. Refuses(lists[u][l], op) => \E e \in Entries : e.user = u /\ e.list = l /\ e.ref.issue = id
    <3>1. Refuses(lists[u][l], op) => Holds(lists[u][l], id)
      BY <1>1 DEF Refuses
    <3> QED
      BY <3>1, HeldEntry
  <2> QED
    BY <1>5, <2>1, <2>2
<1> QED
  BY <1>3, <1>4, <1>5

LEMMA RemoveCall ==
    ASSUME Inv, AllUnique, NEW r \in Requests, NEW u \in Users, NEW id,
           NEW l \in Lists, NEW ok, NEW err, RemoveReference(r, u, id, l, ok, err)
    PROVE  \/ /\ Goto(r, ok) /\ issues' = issues /\ AllUnique'
              /\ Entries' = Taken(Entries, u, l, id)
           \/ /\ Goto(r, err) /\ Still
              /\ Trouble(r) \/ ~\E e \in Entries : e.user = u /\ e.list = l /\ e.ref.issue = id
<1> DEFINE op == [kind |-> "remove", ref |-> [NoRef EXCEPT !.issue = id]]
           old == lists[u][l]
           new == lists'[u][l]
<1>1. op.kind = "remove" /\ op.kind # "add" /\ op.kind \in Kinds /\ op.ref.issue = id
  BY DEF Kinds, NoRef
<1>2. ChangeList(r, u, l, op, ok, err)
  BY DEF RemoveReference
<1> HIDE DEF op
<1>3. /\ issues' = issues
      /\ \/ /\ Goto(r, ok) /\ ~Refuses(old, op) /\ Only(u, l)
            /\ new = Effect(old, op) /\ IdsUnique(new)
         \/ Goto(r, err) /\ (Refuses(old, op) \/ Trouble(r)) /\ lists' = lists
  BY <1>1, <1>2, ChangeCall
<1>4. CASE /\ Goto(r, ok) /\ ~Refuses(old, op) /\ Only(u, l)
           /\ new = Effect(old, op) /\ IdsUnique(new)
  <2>1. old \in Seq(Ref) /\ IdsUnique(old)
    BY DEF Inv, StoreInv, AllUnique
  <2>2. Holds(old, id)
    BY <1>1, <1>4 DEF Refuses
  <2>3. new = RemoveAt(old, PositionOf(old, id))
    BY <1>1, <1>4 DEF Effect, RemoveRef
  <2>4. PositionOf(old, id) \in 1..Len(old) /\ old[PositionOf(old, id)].issue = id
    BY <2>1, <2>2, PositionFacts
  <2>5. \A x : (\E j \in 1..Len(new) : new[j] = x) <=> (\E j \in 1..Len(old) : old[j] = x) /\ x.issue # id
    <3> HIDE DEF old, new
    <3> DEFINE i == PositionOf(old, id)
    <3>1. i \in 1..Len(old) /\ old[i].issue = id /\ new = RemoveAt(old, i)
      BY <2>3, <2>4
    <3> HIDE DEF i
    <3>2. \A x : (\E j \in 1..Len(new) : new[j] = x) <=>
                   (\E j \in 1..Len(old) : old[j] = x) /\ x.issue # old[i].issue
      BY <2>1, <3>1, RemovedRefs
    <3> QED
      BY <3>1, <3>2
  <2>6. Entries' = Taken(Entries, u, l, id) /\ AllUnique'
    BY <1>4, <2>5, EntriesShrink
  <2> QED
    BY <1>3, <1>4, <2>6
<1>5. CASE Goto(r, err) /\ (Refuses(old, op) \/ Trouble(r)) /\ lists' = lists
  <2>1. Still
    BY <1>3, <1>5, EntriesSame DEF Still
  <2>2. Refuses(old, op) => ~\E e \in Entries : e.user = u /\ e.list = l /\ e.ref.issue = id
    <3>1. Refuses(old, op) => ~Holds(old, id)
      BY <1>1 DEF Refuses
    <3> QED
      BY <3>1, HeldEntry
  <2> QED
    BY <1>5, <2>1, <2>2
<1> QED
  BY <1>3, <1>4, <1>5

(* What a request is about stays the same while it is served.              *)
SameTask(q, p) ==
    /\ p.kind = q.kind /\ p.user = q.user /\ p.to = q.to
    /\ p.issue = q.issue /\ p.twin = q.twin /\ p.text = q.text

(* Neither the search nor what was found of it changes.                    *)
SameFind(q, p) == SameTask(q, p) /\ p.list = q.list /\ p.ref = q.ref

LEMMA ReqTyped ==
    ASSUME Inv, NEW r \in Requests
    PROVE  /\ req[r] \in ReqType /\ pc[r] \in Labels /\ req[r].look \in 1..3
           /\ pc[r] # "idle" => req[r].user \in Users
           /\ \A label : Goto(r, label) => pc'[r] = label
           /\ \A q : req' = [req EXCEPT ![r] = q] => req'[r] = q
BY DEF Inv, ReqInv, ReqOwned, ReqType, Goto

LEMMA GetCall ==
    ASSUME NEW r \in Requests, NEW id, NEW ok, NEW err, GetIssue(r, id, ok, err)
    PROVE  /\ Still
           /\ \/ Goto(r, ok) /\ issues[id] # Gone
              \/ Goto(r, err) /\ (issues[id] = Gone \/ Trouble(r))
BY ReadCall DEF GetIssue

LEMMA TakeCall ==
    ASSUME Inv, NEW r \in Requests, NEW id, NEW drop, NEW next, TakeIssue(r, id, drop, next)
    PROVE  /\ Still /\ SameFind(req[r], req'[r])
           /\ req'[r].flist = req[r].flist /\ req'[r].look = req[r].look
           /\ \/ Goto(r, drop) /\ issues[id] # Gone /\ req'[r].got = issues[id]
              \/ Goto(r, next) /\ (issues[id] = Gone \/ Trouble(r))
<1>1. Still
  BY ReadCall DEF TakeIssue
<1>2. \/ Goto(r, drop) /\ issues[id] # Gone /\ req' = [req EXCEPT ![r].got = issues[id]]
      \/ /\ Goto(r, next) /\ (issues[id] = Gone \/ Trouble(r))
         /\ req' = [req EXCEPT ![r].got = Gone]
  BY DEF TakeIssue
<1>3. ASSUME NEW x, req' = [req EXCEPT ![r].got = x]
      PROVE  /\ SameFind(req[r], req'[r]) /\ req'[r].got = x
             /\ req'[r].flist = req[r].flist /\ req'[r].look = req[r].look
  <2>1. req'[r] = [req[r] EXCEPT !.got = x] /\ req[r] \in ReqType
    BY <1>3 DEF Inv, ReqInv
  <2> QED
    BY <2>1 DEF ReqType, SameFind, SameTask
<1> QED
  BY <1>1, <1>2, <1>3

LEMMA DropCall ==
    ASSUME NEW r \in Requests, NEW id, NEW next, DropTaken(r, id, next)
    PROVE  /\ Entries' = Entries /\ (AllUnique => AllUnique')
           /\ Goto(r, next)
           /\ (issues' = Put(issues, id, Gone) /\ Kept) \/ Trouble(r)
BY EntriesSame DEF DropTaken, Put

LEMMA PopCall ==
    ASSUME Inv, AllUnique, NEW r \in Requests, NEW u \in Users, NEW l \in Lists,
           NEW ok, NEW err, PopReference(r, u, l, ok, err)
    PROVE  \/ /\ Goto(r, ok) /\ issues' = issues /\ AllUnique'
              /\ Entry(u, l, req'[r].ref) \in Entries /\ req'[r].ref.issue = req'[r].issue
              /\ Entries' = Taken(Entries, u, l, req'[r].issue)
              /\ req'[r].kind = req[r].kind /\ req'[r].user = req[r].user
              /\ req'[r].list = req[r].list /\ req'[r].look = req[r].look
           \/ Goto(r, err) /\ Still /\ Kept
<1> DEFINE old == lists[u][l]
           new == lists'[u][l]
           ref == old[1]
<1>1. old \in Seq(Ref) /\ IdsUnique(old)
  BY DEF Inv, StoreInv, AllUnique
<1>2. issues' = issues
  BY DEF PopReference
<1>3. CASE /\ old # <<>>
           /\ lists' = [lists EXCEPT ![u][l] = PopRef(@)]
           /\ req' = [req EXCEPT ![r].issue = Head(old).issue, ![r].ref = Head(old)]
           /\ Goto(r, ok)
  <2>1. Head(old) = ref /\ 1 \in 1..Len(old)
    BY <1>1, <1>3
  <2>2. new = Tail(old) /\ Only(u, l)
    BY <1>3 DEF Inv, StoreInv, Only, PopRef
  <2>3. new = RemoveAt(old, 1)
    BY <1>1, <2>1, <2>2 DEF RemoveAt
  <2> DEFINE op == [kind |-> "pop", ref |-> NoRef]
  <2>4. IdsUnique(new)
    <3>1. op.kind = "pop" /\ op.kind # "add" /\ op.kind \in Kinds
      BY DEF Kinds
    <3>2. ~Refuses(old, op) /\ Effect(old, op) = new
      BY <3>1, <1>3, <2>2 DEF Refuses, Effect, PopRef
    <3> HIDE DEF op, old, new
    <3> QED
      BY <1>1, <3>1, <3>2, EffectKeepsIdsUnique, SMTT(60)
  <2>5. \A x : (\E j \in 1..Len(new) : new[j] = x) <=>
                 (\E j \in 1..Len(old) : old[j] = x) /\ x.issue # ref.issue
    <3> HIDE DEF old, new
    <3> QED
      BY <1>1, <2>1, <2>3, RemovedRefs, SMTT(60)
  <2>6. Entries' = Taken(Entries, u, l, ref.issue) /\ AllUnique'
    <3> HIDE DEF ref
    <3> QED
      BY <2>2, <2>4, <2>5, EntriesShrink
  <2>7. Entry(u, l, ref) \in Entries
    BY <2>1, ListEntries
  <2>8. /\ req'[r].ref = ref /\ req'[r].issue = ref.issue
        /\ req'[r].kind = req[r].kind /\ req'[r].user = req[r].user
        /\ req'[r].list = req[r].list /\ req'[r].look = req[r].look
    <3>1. req'[r] = [req[r] EXCEPT !.issue = ref.issue, !.ref = ref] /\ req[r] \in ReqType
      BY <1>3, <2>1 DEF Inv, ReqInv
    <3> QED
      BY <3>1 DEF ReqType
  <2> QED
    BY <1>2, <1>3, <2>6, <2>7, <2>8
<1>4. CASE Goto(r, err) /\ UNCHANGED <<lists, req>>
  BY <1>2, <1>4, EntriesSame DEF Still, Kept
<1> QED
  BY <1>3, <1>4 DEF PopReference

LEMMA BumpCall ==
    ASSUME Inv, AllUnique, NEW r \in Requests, NEW u, NEW id, NEW l \in Lists,
           NEW ok, NEW err, BumpReference(r, u, id, l, ok, err)
    PROVE  Still /\ (Goto(r, ok) \/ Goto(r, err))
<1> DEFINE op == [kind |-> "bump", ref |-> [NoRef EXCEPT !.issue = id]]
           old == lists[u][l]
           new == lists'[u][l]
<1>1. op.kind = "bump" /\ op.kind # "add" /\ op.kind \in Kinds
  BY DEF Kinds
<1>2. ChangeList(r, u, l, op, ok, err)
  BY DEF BumpReference
<1> HIDE DEF op
<1>3. issues' = issues /\ (Goto(r, ok) \/ Goto(r, err))
  BY <1>2 DEF ChangeList
<1>4. CASE u \notin Users
  <2>1. lists' = lists
    BY <1>2, <1>4 DEF ChangeList, Inv, StoreInv
  <2> QED
    BY <1>3, <2>1, EntriesSame DEF Still
<1>5. CASE u \in Users
  <2>1. \/ /\ ~Refuses(old, op) /\ Only(u, l)
           /\ new = Effect(old, op) /\ IdsUnique(new)
        \/ lists' = lists
    BY <1>1, <1>2, <1>5, ChangeCall
  <2>2. CASE /\ ~Refuses(old, op) /\ Only(u, l)
             /\ new = Effect(old, op) /\ IdsUnique(new)
    <3>1. old \in Seq(Ref) /\ old # <<>>
      BY <1>1, <1>5, <2>2 DEF Refuses, Inv, StoreInv
    <3>2. new = BumpRef(old, op.ref.issue)
      BY <1>1, <2>2 DEF Effect
    <3>3. \A x : (\E j \in 1..Len(new) : new[j] = x) <=> (\E j \in 1..Len(old) : old[j] = x)
      <4> HIDE DEF old, new
      <4> DEFINE i == BumpFrom(old, op.ref.issue)
      <4>1. i \in 1..Len(old)
        BY <3>1, BumpFromFacts
      <4>2. /\ Len(new) = Len(old)
            /\ \A j \in 1..Len(old) :
                  new[j] = old[IF j = 1 THEN i ELSE IF j <= i THEN j - 1 ELSE j]
        BY <3>1, <3>2, BumpRefFacts
      <4> HIDE DEF i
      <4>3. \A j \in 1..Len(old) :
               (IF j = 1 THEN i ELSE IF j <= i THEN j - 1 ELSE j) \in 1..Len(old)
        BY <4>1
      <4>4. ASSUME NEW j \in 1..Len(old) PROVE \E k \in 1..Len(new) : new[k] = old[j]
        <5>1. CASE j = i
          BY <4>1, <4>2, <5>1
        <5>2. CASE j < i
          <6>1. j + 1 \in 1..Len(old) /\ j + 1 # 1 /\ j + 1 <= i /\ (j + 1) - 1 = j
            BY <4>1, <5>2
          <6>2. new[j + 1] = old[(j + 1) - 1]
            BY <4>2, <6>1
          <6> QED
            BY <4>2, <6>1, <6>2
        <5>3. CASE j > i
          BY <4>1, <4>2, <5>3
        <5> QED
          BY <4>1, <5>1, <5>2, <5>3
      <4> QED
        BY <4>2, <4>3, <4>4
    <3>4. Entries' = Entries /\ AllUnique'
      BY <1>5, <2>2, <3>3, EntriesStay
    <3> QED
      BY <1>3, <3>4 DEF Still
  <2>3. CASE lists' = lists
    BY <1>3, <2>3, EntriesSame DEF Still
  <2> QED
    BY <2>1, <2>2, <2>3
<1> QED
  BY <1>3, <1>4, <1>5

LEMMA ReferenceCall ==
    ASSUME Inv, NEW r \in Requests, NEW l \in Lists, NEW ok, NEW err, req[r].user \in Users,
           GetReference(r, l, ok, err)
    PROVE  /\ Still
           /\ SameTask(req[r], req'[r])
           /\ \/ /\ Goto(r, ok)
                 /\ Entry(req[r].user, l, req'[r].ref) \in Entries
                 /\ req'[r].ref.issue = req[r].issue
              \/ Goto(r, err) /\ Kept
<1> DEFINE q == req[r]
           ref == RefIn(q.user, l, q.issue)
<1>1. Still
  BY ReadCall DEF GetReference
<1>2. CASE /\ Holds(lists[q.user][l], q.issue)
           /\ req' = [req EXCEPT ![r].ref = ref]
           /\ Goto(r, ok)
  <2>1. Entry(q.user, l, ref) \in Entries /\ ref.issue = q.issue
    BY <1>2, RefInEntry
  <2>2. req'[r] = [q EXCEPT !.ref = ref] /\ q \in ReqType
    BY <1>2 DEF Inv, ReqInv
  <2> HIDE DEF ref
  <2>3. SameTask(q, req'[r]) /\ req'[r].ref = ref
    BY <2>2 DEF ReqType, SameTask
  <2> QED
    BY <1>1, <1>2, <2>1, <2>3
<1>3. CASE Goto(r, err) /\ UNCHANGED req
  BY <1>1, <1>3 DEF Kept, SameTask
<1> QED
  BY <1>2, <1>3 DEF GetReference

(* Another list is looked into.                                            *)
LookOn(r) == UNCHANGED pc /\ req[r].look < 3 /\ req'[r].look = req[r].look + 1

LEMMA SearchCall ==
    ASSUME Inv, NEW r \in Requests, NEW u \in Users, NEW id, NEW hit, NEW miss,
           NEW found, NEW lost, Search(r, u, id, hit, miss, found, lost),
           NEW l, l = SearchOrder[req[r].look]
    PROVE  /\ Still /\ l \in Lists
           /\ \/ /\ Goto(r, hit) /\ req'[r] = [found EXCEPT !.look = 1]
                 /\ Holds(lists[u][l], id)
              \/ /\ Trouble(r) \/ ~Holds(lists[u][l], id)
                 /\ UNCHANGED pc /\ req[r].look < 3
                 /\ req'[r] = [req[r] EXCEPT !.look = req[r].look + 1]
              \/ /\ Trouble(r) \/ ~Holds(lists[u][l], id)
                 /\ Goto(r, miss) /\ req[r].look = 3 /\ req'[r] = [lost EXCEPT !.look = 1]
<1>1. Still
  BY ReadCall DEF Search
<1>2. l \in Lists /\ Searched(r) = l
  BY ReqTyped DEF Searched, SearchOrder, Lists
<1>3. req \in [Requests -> ReqType]
  BY DEF Inv, ReqInv
<1> QED
  BY <1>1, <1>2, <1>3 DEF Search

LEMMA OwnCall ==
    ASSUME Inv, NEW r \in Requests, NEW hit, NEW miss, req[r].user \in Users,
           FindOwn(r, hit, miss)
    PROVE  /\ Still
           /\ SameTask(req[r], req'[r])
           /\ \/ /\ Goto(r, hit)
                 /\ Entry(req[r].user, req'[r].list, req'[r].ref) \in Entries
                 /\ req'[r].ref.issue = req[r].issue
                 /\ req'[r].look = 1
              \/ LookOn(r)
              \/ Goto(r, miss)
<1> DEFINE q == req[r]
           l == SearchOrder[q.look]
           ref == RefIn(q.user, l, q.issue)
           found == [q EXCEPT !.list = l, !.ref = ref]
           lost == [q EXCEPT !.list = "My", !.ref = NoRef]
<1>1. Search(r, q.user, q.issue, hit, miss, found, lost)
  BY DEF FindOwn, Searched
<1>2. q \in ReqType
  BY ReqTyped
<1> HIDE DEF found, lost
<1>3. /\ Still /\ l \in Lists
      /\ \/ /\ Goto(r, hit) /\ req'[r] = [found EXCEPT !.look = 1]
            /\ Holds(lists[q.user][l], q.issue)
         \/ /\ UNCHANGED pc /\ req[r].look < 3
            /\ req'[r] = [q EXCEPT !.look = q.look + 1]
         \/ Goto(r, miss) /\ req'[r] = [lost EXCEPT !.look = 1]
  BY <1>1, SearchCall
<1> HIDE DEF l
<1>4. CASE /\ Goto(r, hit) /\ req'[r] = [found EXCEPT !.look = 1]
           /\ Holds(lists[q.user][l], q.issue)
  <2>1. Entry(q.user, l, ref) \in Entries /\ ref.issue = q.issue
    BY <1>3, <1>4, RefInEntry
  <2> HIDE DEF ref
  <2>2. SameTask(q, req'[r]) /\ req'[r].list = l /\ req'[r].ref = ref /\ req'[r].look = 1
    BY <1>2, <1>4 DEF found, ReqType, SameTask
  <2> QED
    BY <1>3, <1>4, <2>1, <2>2
<1>5. CASE UNCHANGED pc /\ req[r].look < 3 /\ req'[r] = [q EXCEPT !.look = q.look + 1]
  <2>1. SameTask(q, req'[r]) /\ req'[r].look = q.look + 1
    BY <1>2, <1>5 DEF ReqType, SameTask
  <2> QED
    BY <1>3, <1>5, <2>1 DEF LookOn
<1>6. CASE Goto(r, miss) /\ req'[r] = [lost EXCEPT !.look = 1]
  <2>1. SameTask(q, req'[r])
    BY <1>2, <1>6 DEF lost, ReqType, SameTask
  <2> QED
    BY <1>3, <1>6, <2>1
<1> QED
  BY <1>3, <1>4, <1>5, <1>6

(* The copy is in the list looked into.                                    *)
Hit(q, E) ==
    \E f \in E : f.user = q.ref.fuser /\ f.list = SearchOrder[q.look] /\ f.ref.issue = q.ref.fissue

LEMMA ForeignCall ==
    ASSUME Inv, NEW r \in Requests, NEW hit, NEW miss, req[r].ref.fuser \in Users,
           FindForeign(r, hit, miss)
    PROVE  /\ Still
           /\ SameFind(req[r], req'[r]) /\ req'[r].got = req[r].got
           /\ \/ Goto(r, hit) /\ Hit(req[r], Entries) /\ req'[r].flist = SearchOrder[req[r].look]
              \/ (Trouble(r) \/ ~Hit(req[r], Entries)) /\ LookOn(r)
              \/ (Trouble(r) \/ ~Hit(req[r], Entries)) /\ Goto(r, miss) /\ req[r].look = 3
<1> DEFINE q == req[r]
           l == SearchOrder[q.look]
           found == [q EXCEPT !.flist = l]
           lost == [q EXCEPT !.flist = "My"]
<1>1. Search(r, q.ref.fuser, q.ref.fissue, hit, miss, found, lost)
  BY DEF FindForeign, Searched
<1>2. q \in ReqType
  BY ReqTyped
<1> HIDE DEF found, lost
<1>3. /\ Still /\ l \in Lists
      /\ \/ /\ Goto(r, hit) /\ req'[r] = [found EXCEPT !.look = 1]
            /\ Holds(lists[q.ref.fuser][l], q.ref.fissue)
         \/ /\ Trouble(r) \/ ~Holds(lists[q.ref.fuser][l], q.ref.fissue)
            /\ UNCHANGED pc /\ req[r].look < 3
            /\ req'[r] = [q EXCEPT !.look = q.look + 1]
         \/ /\ Trouble(r) \/ ~Holds(lists[q.ref.fuser][l], q.ref.fissue)
            /\ Goto(r, miss) /\ q.look = 3 /\ req'[r] = [lost EXCEPT !.look = 1]
  BY <1>1, SearchCall
<1>4. Hit(q, Entries) <=> Holds(lists[q.ref.fuser][l], q.ref.fissue)
  <2>1. Holds(lists[q.ref.fuser][l], q.ref.fissue) <=>
           \E e \in Entries : e.user = q.ref.fuser /\ e.list = l /\ e.ref.issue = q.ref.fissue
    BY <1>3, HeldEntry
  <2> QED
    BY <2>1 DEF Hit
<1> HIDE DEF l
<1>5. CASE Goto(r, hit) /\ req'[r] = [found EXCEPT !.look = 1]
           /\ Holds(lists[q.ref.fuser][l], q.ref.fissue)
  <2>1. SameFind(q, req'[r]) /\ req'[r].got = q.got /\ req'[r].flist = l
    BY <1>2, <1>5 DEF found, ReqType, SameTask, SameFind
  <2> QED
    BY <1>3, <1>4, <1>5, <2>1 DEF l
<1>6. CASE /\ Trouble(r) \/ ~Holds(lists[q.ref.fuser][l], q.ref.fissue)
           /\ UNCHANGED pc /\ req[r].look < 3
           /\ req'[r] = [q EXCEPT !.look = q.look + 1]
  <2>1. SameFind(q, req'[r]) /\ req'[r].got = q.got /\ req'[r].look = q.look + 1
    BY <1>2, <1>6 DEF ReqType, SameTask, SameFind
  <2> QED
    BY <1>3, <1>4, <1>6, <2>1 DEF LookOn
<1>7. CASE /\ Trouble(r) \/ ~Holds(lists[q.ref.fuser][l], q.ref.fissue)
           /\ Goto(r, miss) /\ q.look = 3 /\ req'[r] = [lost EXCEPT !.look = 1]
  <2>1. SameFind(q, req'[r]) /\ req'[r].got = q.got
    BY <1>2, <1>7 DEF lost, ReqType, SameTask, SameFind
  <2> QED
    BY <1>3, <1>4, <1>7, <2>1
<1> QED
  BY <1>3, <1>5, <1>6, <1>7

-----------------------------------------------------------------------------
(* The steps of the operations, each from a place on the way to the next.  *)

Serving(r, S) ==
    /\ Inv /\ AllUnique
    /\ OnCourse(pc[r], req[r], S, Entries, issues)
    /\ pc[r] \in Undoing => ~Trouble(r)
    /\ Troubled \subseteq Reversible

(* What users see changes when it is done, by what is one step for them.   *)
Goes(r, S) ==
    /\ AllUnique'
    /\ \E T : /\ Turns(S, T)
             /\ (T = S \/ pc'[r] \in {"ok", "err"})
             /\ OnCourse(pc'[r], req'[r], T, Entries', issues')
    /\ pc'[r] \in Undoing => pc[r] \in Undoing \/ Trouble(r)

LEMMA OnTheWay ==
    ASSUME NEW r \in Requests, NEW S, AllUnique',
           NEW E0, NEW I0, Whole(E0, I0), SeenIn(E0, I0) = S,
           Way(pc'[r], req'[r], E0, I0, Entries', issues'),
           pc'[r] \in Undoing => pc[r] \in Undoing \/ Trouble(r)
    PROVE  Goes(r, S)
<1>1. OnCourse(pc'[r], req'[r], S, Entries', issues') /\ Turns(S, S)
  BY DEF OnCourse, Turns
<1> QED
  BY <1>1 DEF Goes

LEMMA AtTheEnd ==
    ASSUME NEW r \in Requests, NEW S, AllUnique', pc'[r] \in {"ok", "err"},
           pc'[r] = "ok" /\ req'[r].kind \in Ending => req'[r].got # Gone,
           NEW E0, NEW I0, SeenIn(E0, I0) = S, Turns(SeenIn(E0, I0), SeenIn(Entries', issues')),
           Whole(Entries', issues')
    PROVE  Goes(r, S)
<1>1. pc'[r] \notin Undoing
  BY DEF Undoing
<1>2. OnCourse(pc'[r], req'[r], SeenIn(Entries', issues'), Entries', issues')
  BY DoneWay
<1> QED
  BY <1>1, <1>2 DEF Goes

(* A request elsewhere than at the calls of an ending is none.             *)
LEMMA NoEnding ==
    ASSUME NEW q, NEW E0, NEW I0, NEW E, NEW I, NEW label, Way(label, q, E0, I0, E, I),
           label \notin {"ok", "err", "End.find", "End.pop", "End.unlist", "End.take", "End.drop",
                         "End.ffind", "End.funlist", "End.ftake", "End.fdrop"}
    PROVE  q.kind \notin Ending
BY DEF Way, Learnt, EndKnown, Ending

LEMMA AddSteps ==
    ASSUME NEW r \in Requests, NEW S, Serving(r, S), AddIssue(r)
    PROVE  Goes(r, S)
<1> DEFINE q == req[r]
           E == Entries
           I == issues
<1>1. PICK E0, I0 : Whole(E0, I0) /\ SeenIn(E0, I0) = S /\ Way(pc[r], q, E0, I0, E, I)
  BY DEF Serving, OnCourse
<1>2. Inv /\ AllUnique /\ req'[r] = q /\ (pc[r] \in Undoing => ~Trouble(r))
  BY DEF Serving, AddIssue, Kept
<1>3. \A label : Goto(r, label) => pc'[r] = label
  BY <1>2, ReqTyped
<1>4. pc[r] # "idle" => q.user \in Users
  BY <1>2, ReqTyped
<1> HIDE DEF q, E, I
<1>5. CASE At(r, "Add.save") /\ SaveIssue(r, q.issue, q.text, "Add.list", "err")
  <2>1. /\ Entries' = E /\ AllUnique'
        /\ \/ pc'[r] = "Add.list" /\ issues' = Put(I, q.issue, q.text)
           \/ pc'[r] = "err" /\ issues' = I
    BY <1>2, <1>3, <1>5, SaveCall DEF E, I
  <2>2. /\ Way("Add.list", q, E0, I0, E, Put(I, q.issue, q.text))
        /\ Way("err", q, E0, I0, E, I)
    BY <1>1, <1>5, AddWay DEF At
  <2>3. pc'[r] \notin Undoing
    BY <2>1 DEF Undoing
  <2> QED
    BY <1>1, <1>2, <2>1, <2>2, <2>3, OnTheWay
<1>6. CASE At(r, "Add.list")
           /\ AddReference(r, q.user, q.issue, "My", NoUser, NoIssue, "ok", "Add.undo")
  <2>1. /\ Way("Add.list", q, E0, I0, E, I) /\ Way("Add.undo", q, E0, I0, E, I)
        /\ q.user \in Users
    BY <1>1, <1>4, <1>6, AddWay DEF At
  <2>2. q.issue \in IssueIds /\ E = E0 /\ I0[q.issue] = Gone
    BY <2>1 DEF Way, Learnt, NewKnown, SoFar, Unlisted, Listed
  <2>3. \A e \in E : e.ref.issue # q.issue
    BY <1>1, <2>2, NotListed
  <2>4. \/ /\ pc'[r] = "ok" /\ issues' = I /\ AllUnique'
           /\ Entries' = E \cup {Entry(q.user, "My", OwnRef(q.issue))}
        \/ pc'[r] = "Add.undo" /\ issues' = I /\ AllUnique' /\ Entries' = E /\ Trouble(r)
    BY <1>2, <1>3, <1>6, <2>1, <2>2, <2>3, AddCall DEF E, I, OwnRef, Still, Lists
  <2>5. /\ Whole(E \cup {Entry(q.user, "My", OwnRef(q.issue))}, I)
        /\ Turns(SeenIn(E0, I0), SeenIn(E \cup {Entry(q.user, "My", OwnRef(q.issue))}, I))
    BY <1>1, <2>1, AddDone, AddTurns
  <2>6. q.kind \notin Ending
    BY <2>1, NoEnding
  <2>7. CASE pc'[r] = "ok"
    BY <1>1, <1>2, <2>4, <2>5, <2>6, <2>7, AtTheEnd
  <2>8. CASE pc'[r] = "Add.undo"
    BY <1>1, <1>2, <2>1, <2>4, <2>8, OnTheWay
  <2> QED
    BY <2>4, <2>7, <2>8
<1>7. CASE At(r, "Add.undo") /\ DropIssue(r, q.issue, "err")
  <2>1. ~Trouble(r)
    BY <1>2, <1>7 DEF At, Undoing
  <2>2. /\ Entries' = E /\ AllUnique' /\ pc'[r] = "err" /\ issues' = Put(I, q.issue, Gone)
    BY <1>2, <1>3, <1>7, <2>1, SaveCall DEF E, I, DropIssue
  <2>3. Way("err", q, E0, I0, E, Put(I, q.issue, Gone))
    BY <1>1, <1>7, AddWay DEF At
  <2>4. pc'[r] \notin Undoing
    BY <2>2 DEF Undoing
  <2> QED
    BY <1>1, <1>2, <2>2, <2>3, <2>4, OnTheWay
<1> QED
  BY <1>5, <1>6, <1>7 DEF AddIssue, q

LEMMA SendSteps ==
    ASSUME NEW r \in Requests, NEW S, Serving(r, S), SendIssue(r)
    PROVE  Goes(r, S)
<1> DEFINE q == req[r]
           E == Entries
           I == issues
<1>1. PICK E0, I0 : Whole(E0, I0) /\ SeenIn(E0, I0) = S /\ Way(pc[r], q, E0, I0, E, I)
  BY DEF Serving, OnCourse
<1>2. Inv /\ AllUnique /\ req'[r] = q /\ (pc[r] \in Undoing => ~Trouble(r))
  BY DEF Serving, SendIssue, Kept
<1>3. \A label : Goto(r, label) => pc'[r] = label
  BY <1>2, ReqTyped
<1> HIDE DEF q, E, I
<1>4. CASE At(r, "Send.save") /\ SaveIssue(r, q.issue, q.text, "Send.saveTwin", "err")
  <2>1. /\ Entries' = E /\ AllUnique'
        /\ \/ pc'[r] = "Send.saveTwin" /\ issues' = Put(I, q.issue, q.text)
           \/ pc'[r] = "err" /\ issues' = I /\ Trouble(r)
    BY <1>2, <1>3, <1>4, SaveCall DEF E, I
  <2>2. /\ Way("Send.saveTwin", q, E0, I0, E, Put(I, q.issue, q.text))
        /\ Way("err", q, E0, I0, E, I)
    BY <1>1, <1>4, SendWay DEF At
  <2>3. pc'[r] \in Undoing => Trouble(r)
    BY <2>1 DEF Undoing
  <2> QED
    BY <1>1, <1>2, <2>1, <2>2, <2>3, OnTheWay
<1>5. CASE At(r, "Send.saveTwin") /\ SaveIssue(r, q.twin, q.text, "Send.out", "Send.undo")
  <2>1. /\ Entries' = E /\ AllUnique'
        /\ \/ pc'[r] = "Send.out" /\ issues' = Put(I, q.twin, q.text)
           \/ pc'[r] = "Send.undo" /\ issues' = I /\ Trouble(r)
    BY <1>2, <1>3, <1>5, SaveCall DEF E, I
  <2>2. /\ Way("Send.out", q, E0, I0, E, Put(I, q.twin, q.text))
        /\ Way("Send.undo", q, E0, I0, E, I)
    BY <1>1, <1>5, SendWay DEF At
  <2>3. pc'[r] \in Undoing => Trouble(r)
    BY <2>1 DEF Undoing
  <2> QED
    BY <1>1, <1>2, <2>1, <2>2, <2>3, OnTheWay
<1>6. CASE At(r, "Send.out")
           /\ AddReference(r, q.user, q.issue, "Out", q.to, q.twin, "Send.in", "Send.undo2")
  <2>1. /\ Way("Send.out", q, E0, I0, E, I) /\ Way("Send.undo2", q, E0, I0, E, I)
        /\ Way("Send.in", q, E0, I0, E \cup {Entry(q.user, "Out", SentRef(q))}, I)
    BY <1>1, <1>6, SendWay DEF At
  <2>2. /\ q.user \in Users /\ q.to \in Users /\ q.issue \in IssueIds /\ q.twin \in IssueIds
        /\ E = E0 /\ I0[q.issue] = Gone
    BY <2>1 DEF Way, Learnt, NewKnown, SoFar, Unlisted, Listed
  <2>3. \A e \in E : e.ref.issue # q.issue
    BY <1>1, <2>2, NotListed
  <2>4. \/ /\ pc'[r] = "Send.in" /\ issues' = I /\ AllUnique'
           /\ Entries' = E \cup {Entry(q.user, "Out", SentRef(q))}
        \/ pc'[r] = "Send.undo2" /\ issues' = I /\ AllUnique' /\ Entries' = E /\ Trouble(r)
    BY <1>2, <1>3, <1>6, <2>2, <2>3, AddCall DEF E, I, SentRef, Still, Lists
  <2>5. pc'[r] \in Undoing => Trouble(r)
    BY <2>4 DEF Undoing
  <2> QED
    BY <1>1, <1>2, <2>1, <2>4, <2>5, OnTheWay
<1>7. CASE At(r, "Send.in")
           /\ AddReference(r, q.to, q.twin, "In", q.user, q.issue, "ok", "Send.undo3")
  <2> DEFINE ref == [issue |-> q.twin, fuser |-> q.user, fissue |-> q.issue]
             out == Entry(q.user, "Out", SentRef(q))
  <2>1. Way("Send.in", q, E0, I0, E, I) /\ Way("Send.undo3", q, E0, I0, E, I)
    BY <1>1, <1>7, SendWay DEF At
  <2>2. /\ q.user \in Users /\ q.to \in Users /\ q.issue \in IssueIds /\ q.twin \in IssueIds
        /\ q.twin # q.issue
        /\ E = E0 \cup {out} /\ I0[q.twin] = Gone
    BY <2>1 DEF Way, Learnt, NewKnown, SoFar, Unlisted, Listed
  <2>3. \A e \in E : e.ref.issue # q.twin
    BY <1>1, <2>2, NotListed, EntryFields DEF SentRef
  <2> HIDE DEF ref, out
  <2>4. \/ /\ pc'[r] = "ok" /\ issues' = I /\ AllUnique'
           /\ Entries' = E \cup {Entry(q.to, "In", ref)}
        \/ pc'[r] = "Send.undo3" /\ issues' = I /\ AllUnique' /\ Entries' = E /\ Trouble(r)
    BY <1>2, <1>3, <1>7, <2>2, <2>3, AddCall DEF E, I, ref, Still, Lists
  <2>5. /\ Whole(E \cup {Entry(q.to, "In", ref)}, I)
        /\ Turns(SeenIn(E0, I0), SeenIn(E \cup {Entry(q.to, "In", ref)}, I))
    BY <1>1, <2>1, SendDone, SendTurns DEF ref
  <2>6. q.kind \notin Ending
    BY <2>1, NoEnding
  <2>7. CASE pc'[r] = "ok"
    BY <1>1, <1>2, <2>4, <2>5, <2>6, <2>7, AtTheEnd
  <2>8. CASE pc'[r] = "Send.undo3"
    BY <1>1, <1>2, <2>1, <2>4, <2>8, OnTheWay
  <2> QED
    BY <2>4, <2>7, <2>8
<1>8. CASE At(r, "Send.undo") /\ DropIssue(r, q.issue, "err")
  <2>1. ~Trouble(r)
    BY <1>2, <1>8 DEF At, Undoing
  <2>2. /\ Entries' = E /\ AllUnique' /\ pc'[r] = "err" /\ issues' = Put(I, q.issue, Gone)
    BY <1>2, <1>3, <1>8, <2>1, SaveCall DEF E, I, DropIssue
  <2>3. Way("err", q, E0, I0, E, Put(I, q.issue, Gone))
    BY <1>1, <1>8, SendWay DEF At
  <2>4. pc'[r] \in Undoing => pc[r] \in Undoing
    BY <1>8 DEF At, Undoing
  <2> QED
    BY <1>1, <1>2, <2>2, <2>3, <2>4, OnTheWay
<1>9. CASE At(r, "Send.undo2") /\ DropIssue(r, q.issue, "Send.undo2Twin")
  <2>1. ~Trouble(r)
    BY <1>2, <1>9 DEF At, Undoing
  <2>2. /\ Entries' = E /\ AllUnique' /\ pc'[r] = "Send.undo2Twin" /\ issues' = Put(I, q.issue, Gone)
    BY <1>2, <1>3, <1>9, <2>1, SaveCall DEF E, I, DropIssue
  <2>3. Way("Send.undo2Twin", q, E0, I0, E, Put(I, q.issue, Gone))
    BY <1>1, <1>9, SendWay DEF At
  <2>4. pc'[r] \in Undoing => pc[r] \in Undoing
    BY <1>9 DEF At, Undoing
  <2> QED
    BY <1>1, <1>2, <2>2, <2>3, <2>4, OnTheWay
<1>10. CASE At(r, "Send.undo2Twin") /\ DropIssue(r, q.twin, "err")
  <2>1. ~Trouble(r)
    BY <1>2, <1>10 DEF At, Undoing
  <2>2. /\ Entries' = E /\ AllUnique' /\ pc'[r] = "err" /\ issues' = Put(I, q.twin, Gone)
    BY <1>2, <1>3, <1>10, <2>1, SaveCall DEF E, I, DropIssue
  <2>3. Way("err", q, E0, I0, E, Put(I, q.twin, Gone))
    BY <1>1, <1>10, SendWay DEF At
  <2>4. pc'[r] \in Undoing => pc[r] \in Undoing
    BY <1>10 DEF At, Undoing
  <2> QED
    BY <1>1, <1>2, <2>2, <2>3, <2>4, OnTheWay
<1>11. CASE At(r, "Send.undo3") /\ DropIssue(r, q.issue, "Send.undo3Twin")
  <2>1. ~Trouble(r)
    BY <1>2, <1>11 DEF At, Undoing
  <2>2. /\ Entries' = E /\ AllUnique' /\ pc'[r] = "Send.undo3Twin" /\ issues' = Put(I, q.issue, Gone)
    BY <1>2, <1>3, <1>11, <2>1, SaveCall DEF E, I, DropIssue
  <2>3. Way("Send.undo3Twin", q, E0, I0, E, Put(I, q.issue, Gone))
    BY <1>1, <1>11, SendWay DEF At
  <2>4. pc'[r] \in Undoing => pc[r] \in Undoing
    BY <1>11 DEF At, Undoing
  <2> QED
    BY <1>1, <1>2, <2>2, <2>3, <2>4, OnTheWay
<1>12. CASE At(r, "Send.undo3Twin") /\ DropIssue(r, q.twin, "Send.undo3Out")
  <2>1. ~Trouble(r)
    BY <1>2, <1>12 DEF At, Undoing
  <2>2. /\ Entries' = E /\ AllUnique' /\ pc'[r] = "Send.undo3Out" /\ issues' = Put(I, q.twin, Gone)
    BY <1>2, <1>3, <1>12, <2>1, SaveCall DEF E, I, DropIssue
  <2>3. Way("Send.undo3Out", q, E0, I0, E, Put(I, q.twin, Gone))
    BY <1>1, <1>12, SendWay DEF At
  <2>4. pc'[r] \in Undoing => pc[r] \in Undoing
    BY <1>12 DEF At, Undoing
  <2> QED
    BY <1>1, <1>2, <2>2, <2>3, <2>4, OnTheWay
<1>13. CASE At(r, "Send.undo3Out") /\ RemoveReference(r, q.user, q.issue, "Out", "err", "err")
  <2>1. ~Trouble(r)
    BY <1>2, <1>13 DEF At, Undoing
  <2>2. Way("Send.undo3Out", q, E0, I0, E, I)
    BY <1>1, <1>13 DEF At
  <2>3. q.user \in Users /\ Entry(q.user, "Out", SentRef(q)) \in E
    BY <2>2 DEF Way, Learnt, NewKnown, SoFar, Listed
  <2>4. \E e \in E : e.user = q.user /\ e.list = "Out" /\ e.ref.issue = q.issue
    BY <2>3, EntryFields DEF SentRef
  <2>5. /\ pc'[r] = "err" /\ issues' = I /\ AllUnique'
        /\ Entries' = Taken(E, q.user, "Out", q.issue)
    BY <1>2, <1>3, <1>13, <2>1, <2>3, <2>4, RemoveCall DEF E, I, Lists
  <2>6. Way("err", q, E0, I0, Taken(E, q.user, "Out", q.issue), I)
    BY <1>1, <2>2, SendUndone
  <2>7. pc'[r] \notin Undoing
    BY <2>5 DEF Undoing
  <2> QED
    BY <1>1, <1>2, <2>5, <2>6, <2>7, OnTheWay
<1> QED
  BY <1>4, <1>5, <1>6, <1>7, <1>8, <1>9, <1>10, <1>11, <1>12, <1>13 DEF SendIssue, q

(* Nothing fails but what can be undone.                                   *)
LEMMA NoTrouble ==
    ASSUME NEW r \in Requests, NEW S, Serving(r, S), req[r].kind \notin Reversible
    PROVE  ~Trouble(r)
BY DEF Serving, Trouble

LEMMA EndTodoSteps ==
    ASSUME NEW r \in Requests, NEW S, Serving(r, S), EndTodo(r)
    PROVE  Goes(r, S)
<1> DEFINE q == req[r]
           p == req'[r]
           E == Entries
           I == issues
<1>1. PICK E0, I0 : Whole(E0, I0) /\ SeenIn(E0, I0) = S /\ Way(pc[r], q, E0, I0, E, I)
  BY DEF Serving, OnCourse
<1>2. Inv /\ AllUnique
  BY DEF Serving
<1>3. /\ \A label : Goto(r, label) => pc'[r] = label
      /\ pc[r] # "idle" => q.user \in Users
      /\ pc[r] = "End.unlist" => q.list \in Lists
  BY <1>2, ReqTyped DEF ReqType
<1>4. q.kind \in Ending => ~Trouble(r)
  BY NoTrouble DEF Ending, Reversible
<1>5. Kept => p = q
  BY DEF Kept
<1> HIDE DEF q, p, E, I
<1>6. CASE At(r, "End.find") /\ FindOwn(r, "End.unlist", "err")
  <2>1. Way("End.find", q, E0, I0, E, I) /\ q.user \in Users
    BY <1>1, <1>3, <1>6 DEF At
  <2>2. /\ Still /\ p.kind = q.kind /\ p.user = q.user /\ p.issue = q.issue
        /\ \/ /\ pc'[r] = "End.unlist" /\ Entry(q.user, p.list, p.ref) \in E
              /\ p.ref.issue = p.issue /\ p.look = 1
           \/ pc'[r] = pc[r]
           \/ pc'[r] = "err"
    BY <1>2, <1>3, <1>6, <2>1, OwnCall DEF SameTask, LookOn, q, p, E
  <2>3. pc'[r] = "End.unlist" => Way("End.unlist", p, E0, I0, E, I)
    <3>1. CASE /\ Entry(q.user, p.list, p.ref) \in E
               /\ p.ref.issue = p.issue /\ p.look = 1
      BY <1>1, <2>1, <2>2, <3>1, EndFound
    <3> QED
      BY <1>6, <2>2, <3>1 DEF At
  <2>4. Way("End.find", p, E0, I0, E, I) /\ Way("err", p, E0, I0, E, I)
    BY <2>1, <2>2, EndSearching
  <2>5. pc'[r] \notin Undoing /\ Way(pc'[r], p, E0, I0, E, I)
    BY <1>6, <2>2, <2>3, <2>4 DEF At, Undoing
  <2> QED
    BY <1>1, <1>2, <2>2, <2>5, OnTheWay DEF Still, p, E, I
<1>7. CASE /\ At(r, "End.unlist")
           /\ RemoveReference(r, q.user, q.issue, q.list, "End.take", "err") /\ Kept
  <2>1. Way("End.unlist", q, E0, I0, E, I) /\ q.user \in Users /\ q.list \in Lists
    BY <1>1, <1>3, <1>7 DEF At
  <2>2. \/ /\ pc'[r] = "End.take" /\ issues' = I /\ AllUnique'
           /\ Entries' = Taken(E, q.user, q.list, q.issue)
        \/ pc'[r] = "err" /\ Still
    BY <1>2, <1>3, <1>7, <2>1, RemoveCall DEF E, I
  <2>3. Way("End.take", q, E0, I0, Taken(E, q.user, q.list, q.issue), I)
    BY <1>1, <2>1, EndUnlisted
  <2>4. Way("err", q, E0, I0, E, I)
    BY <2>1, EndSearching
  <2>5. pc'[r] \notin Undoing /\ AllUnique' /\ Way(pc'[r], p, E0, I0, Entries', issues')
    BY <1>2, <1>5, <1>7, <2>2, <2>3, <2>4 DEF Undoing, Still, E, I
  <2> QED
    BY <1>1, <2>5, OnTheWay DEF p
<1>8. CASE At(r, "End.pop") /\ PopReference(r, q.user, "My", "End.take", "err")
  <2>1. Way("End.pop", q, E0, I0, E, I) /\ q.user \in Users /\ q.list = "My" /\ q.look = 1
    BY <1>1, <1>3, <1>8 DEF At, Way, Learnt, EndKnown
  <2>2. \/ /\ pc'[r] = "End.take" /\ issues' = I /\ AllUnique'
           /\ Entry(q.user, "My", p.ref) \in E /\ p.ref.issue = p.issue
           /\ Entries' = Taken(E, q.user, "My", p.issue)
           /\ p.kind = q.kind /\ p.user = q.user /\ p.list = "My" /\ p.look = 1
        \/ pc'[r] = "err" /\ Still /\ p = q
    BY <1>2, <1>3, <1>5, <1>8, <2>1, PopCall DEF E, I, q, p, Lists
  <2>3. CASE pc'[r] = "End.take"
    <3>1. Way("End.take", p, E0, I0, Entries', issues')
      BY <1>1, <2>1, <2>2, <2>3, EndFound
    <3>2. pc'[r] \notin Undoing
      BY <2>3 DEF Undoing
    <3> QED
      BY <1>1, <2>2, <2>3, <3>1, <3>2, OnTheWay DEF p
  <2>4. CASE pc'[r] = "err"
    <3>1. Way("err", p, E0, I0, E, I)
      BY <2>1, <2>2, <2>4, EndSearching
    <3>2. pc'[r] \notin Undoing
      BY <2>4 DEF Undoing
    <3> QED
      BY <1>1, <1>2, <2>2, <2>4, <3>1, <3>2, OnTheWay DEF p, E, I, Still
  <2> QED
    BY <2>2, <2>3, <2>4
<1>9. CASE At(r, "End.take") /\ TakeIssue(r, q.issue, "End.drop", OtherEnd(q))
  <2>1. Way("End.take", q, E0, I0, E, I) /\ q.kind \in Ending
    BY <1>1, <1>9 DEF At, Way, Learnt, EndKnown, Ending
  <2>2. /\ Still /\ p.kind = q.kind /\ p.user = q.user /\ p.issue = q.issue /\ p.list = q.list
        /\ p.ref = q.ref /\ p.look = q.look
        /\ \/ pc'[r] = "End.drop" /\ I[q.issue] # Gone /\ p.got = I[q.issue]
           \/ I[q.issue] = Gone
    BY <1>2, <1>3, <1>4, <1>9, <2>1, TakeCall DEF SameFind, SameTask, q, p, I
  <2>3. I[q.issue] # Gone
    BY <1>1, <2>1, EndTaken DEF Way, Learnt, RefKnown, SoFar, Saved, Dropped, Whole, EntryType, Entry, Ref
  <2>4. Way("End.drop", p, E0, I0, E, I)
    BY <1>1, <2>1, <2>2, <2>3, EndTaken
  <2>5. pc'[r] = "End.drop" /\ pc'[r] \notin Undoing
    BY <2>2, <2>3 DEF Undoing
  <2> QED
    BY <1>1, <1>2, <2>2, <2>4, <2>5, OnTheWay DEF Still, p, E, I
<1>10. CASE At(r, "End.drop") /\ DropTaken(r, q.issue, OtherEnd(q))
  <2> DEFINE J == Put(I, q.issue, Gone)
  <2>1. Way("End.drop", q, E0, I0, E, I) /\ q.kind \in Ending
    BY <1>1, <1>10 DEF At, Way, Learnt, EndKnown, Ending
  <2>2. /\ Entries' = E /\ AllUnique' /\ pc'[r] = OtherEnd(q) /\ issues' = J /\ p = q
    BY <1>2, <1>3, <1>4, <1>5, <1>10, <2>1, DropCall DEF E, I
  <2>3. /\ q.got # Gone
        /\ q.ref.fuser = NoUser => Whole(E, J) /\ Turns(SeenIn(E0, I0), SeenIn(E, J))
        /\ q.ref.fuser # NoUser /\ q.kind = "Remove" => Way("End.ffind", q, E0, I0, E, J)
        /\ q.ref.fuser # NoUser /\ q.kind # "Remove" => Way("End.funlist", q, E0, I0, E, J)
    BY <1>1, <2>1, EndDropped, EndTurns
  <2> HIDE DEF J
  <2>4. CASE q.ref.fuser = NoUser
    <3>1. pc'[r] = "ok"
      BY <2>2, <2>4 DEF OtherEnd
    <3> QED
      BY <1>1, <2>2, <2>3, <2>4, <3>1, AtTheEnd DEF p
  <2>5. CASE q.ref.fuser # NoUser
    <3>1. pc'[r] = IF q.kind = "Remove" THEN "End.ffind" ELSE "End.funlist"
      BY <2>2, <2>5 DEF OtherEnd
    <3>2. pc'[r] \notin Undoing /\ Way(pc'[r], q, E0, I0, E, J)
      BY <2>3, <2>5, <3>1 DEF Undoing
    <3> QED
      BY <1>1, <2>2, <3>2, OnTheWay DEF p
  <2> QED
    BY <2>4, <2>5
<1> QED
  BY <1>6, <1>7, <1>8, <1>9, <1>10 DEF EndTodo, q

LEMMA EndCopySteps ==
    ASSUME NEW r \in Requests, NEW S, Serving(r, S), EndCopy(r)
    PROVE  Goes(r, S)
<1> DEFINE q == req[r]
           p == req'[r]
           E == Entries
           I == issues
<1>1. PICK E0, I0 : Whole(E0, I0) /\ SeenIn(E0, I0) = S /\ Way(pc[r], q, E0, I0, E, I)
  BY DEF Serving, OnCourse
<1>2. Inv /\ AllUnique
  BY DEF Serving
<1>3. /\ \A label : Goto(r, label) => pc'[r] = label
      /\ q.look \in 1..3
  BY <1>2, ReqTyped
<1>4. q.kind \in Ending => ~Trouble(r)
  BY NoTrouble DEF Ending, Reversible
<1>5. Kept => p = q
  BY DEF Kept
<1> HIDE DEF q, p, E, I
<1>6. CASE At(r, "End.ffind") /\ FindForeign(r, "End.funlist", "End.funlist")
  <2>1. Way("End.ffind", q, E0, I0, E, I) /\ q.kind \in Ending
    BY <1>1, <1>6 DEF At, Way, Learnt, EndKnown, Ending
  <2>2. q.ref.fuser \in Users
    BY <1>1, <2>1, FarEndThere
  <2>3. ~Trouble(r)
    BY <1>4, <2>1
  <2>4. /\ Still /\ p.kind = q.kind /\ p.user = q.user /\ p.issue = q.issue /\ p.list = q.list
        /\ p.ref = q.ref /\ p.got = q.got
        /\ \/ pc'[r] = "End.funlist" /\ Hit(q, E) /\ p.flist = SearchOrder[q.look]
           \/ ~Hit(q, E) /\ pc'[r] = "End.ffind" /\ p.look = q.look + 1
           \/ ~Hit(q, E) /\ q.look = 3
    BY <1>2, <1>3, <1>6, <2>2, <2>3, ForeignCall DEF At, SameFind, SameTask, LookOn, q, p, E
  <2> DEFINE l == SearchOrder[q.look]
             hit == Hit(q, E)
  <2>5. /\ hit \in BOOLEAN
        /\ hit <=> \E f \in E : f.user = q.ref.fuser /\ f.list = l /\ f.ref.issue = q.ref.fissue
    BY DEF Hit
  <2> HIDE DEF l, hit
  <2>6. /\ hit /\ p.flist = l => Way("End.funlist", p, E0, I0, E, I)
        /\ ~hit => q.look < 3 /\ (p.look = q.look + 1 => Way("End.ffind", p, E0, I0, E, I))
    <3>1. l = SearchOrder[q.look]
      BY DEF l
    <3>2. /\ p.kind = q.kind /\ p.user = q.user /\ p.issue = q.issue /\ p.list = q.list
          /\ p.ref = q.ref /\ p.got = q.got
      BY <2>4
    <3>3. q.look \in 1..3
      BY <1>3
    <3> QED
      BY <1>1, <2>1, <2>5, <3>1, <3>2, <3>3, EndFarSearching, SMTT(60)
  <2>7. pc'[r] \notin Undoing /\ Way(pc'[r], p, E0, I0, E, I)
    BY <2>4, <2>6 DEF Undoing, hit, l
  <2> QED
    BY <1>1, <1>2, <2>4, <2>7, OnTheWay DEF Still, p, E, I
<1>7. CASE /\ At(r, "End.funlist")
           /\ RemoveReference(r, q.ref.fuser, Copy(q), FarList(q), "End.ftake", "End.ftake")
           /\ Kept
  <2>1. Way("End.funlist", q, E0, I0, E, I) /\ q.kind \in Ending
    BY <1>1, <1>7 DEF At, Way, Learnt, EndKnown, Ending
  <2> DEFINE F == Taken(E, q.ref.fuser, FarList(q), q.ref.fissue)
  <2>2. /\ Way("End.ftake", q, E0, I0, F, I)
        /\ q.ref.fuser \in Users /\ FarList(q) \in Lists
        /\ \E f \in E : f.user = q.ref.fuser /\ f.list = FarList(q) /\ f.ref.issue = q.ref.fissue
    BY <1>1, <2>1, EndFarUnlisted
  <2>3. ~Trouble(r) /\ RemoveReference(r, q.ref.fuser, q.ref.fissue, FarList(q), "End.ftake", "End.ftake")
    BY <1>4, <1>7, <2>1 DEF Copy
  <2>4. pc'[r] = "End.ftake" /\ issues' = I /\ AllUnique' /\ Entries' = F
    <3> HIDE DEF F
    <3> QED
      BY <1>2, <1>3, <2>2, <2>3, RemoveCall DEF E, I, F
  <2> HIDE DEF F
  <2>5. pc'[r] \notin Undoing
    BY <2>4 DEF Undoing
  <2> QED
    BY <1>1, <1>5, <1>7, <2>2, <2>4, <2>5, OnTheWay DEF p
<1>8. CASE At(r, "End.ftake") /\ TakeIssue(r, Copy(q), "End.fdrop", "ok")
  <2>1. Way("End.ftake", q, E0, I0, E, I) /\ q.kind \in Ending /\ q.got # Gone
    BY <1>1, <1>8 DEF At, Way, Learnt, EndKnown, Ending
  <2>2. /\ Still /\ p.kind = q.kind /\ p.user = q.user /\ p.issue = q.issue /\ p.list = q.list
        /\ p.ref = q.ref /\ p.flist = q.flist
        /\ \/ pc'[r] = "End.fdrop" /\ I[q.ref.fissue] # Gone /\ p.got = I[q.ref.fissue]
           \/ I[q.ref.fissue] = Gone
    BY <1>2, <1>3, <1>4, <1>8, <2>1, TakeCall DEF SameFind, SameTask, Copy, q, p, I
  <2>3. I[q.ref.fissue] # Gone
    <3> DEFINE w == q
    <3>1. /\ w.kind = q.kind /\ w.user = q.user /\ w.issue = q.issue /\ w.list = q.list
          /\ w.ref = q.ref /\ w.flist = q.flist /\ w.got # Gone
      BY <2>1
    <3> HIDE DEF w
    <3> QED
      BY <1>1, <2>1, <3>1, EndFarTaken
  <2>4. pc'[r] = "End.fdrop" /\ p.got # Gone
    BY <2>2, <2>3
  <2>5. Way("End.fdrop", p, E0, I0, E, I)
    BY <1>1, <2>1, <2>2, <2>4, EndFarTaken
  <2>6. pc'[r] \notin Undoing
    BY <2>4 DEF Undoing
  <2> QED
    BY <1>1, <1>2, <2>2, <2>4, <2>5, <2>6, OnTheWay DEF Still, p, E, I
<1>9. CASE At(r, "End.fdrop") /\ DropTaken(r, Copy(q), "ok")
  <2>1. Way("End.fdrop", q, E0, I0, E, I) /\ q.kind \in Ending /\ q.got # Gone
    BY <1>1, <1>9 DEF At, Way, Learnt, EndKnown, Ending
  <2> DEFINE J == Put(I, q.ref.fissue, Gone)
  <2>2. /\ Entries' = E /\ AllUnique' /\ pc'[r] = "ok" /\ issues' = J /\ p = q
    BY <1>2, <1>3, <1>4, <1>5, <1>9, <2>1, DropCall DEF E, I, Copy
  <2>3. Whole(E, J) /\ Turns(SeenIn(E0, I0), SeenIn(E, J))
    BY <1>1, <2>1, EndFarTaken, EndTurns
  <2> HIDE DEF J
  <2> QED
    BY <1>1, <2>1, <2>2, <2>3, AtTheEnd DEF p
<1> QED
  BY <1>6, <1>7, <1>8, <1>9 DEF EndCopy, FarList, q

LEMMA EditSteps ==
    ASSUME NEW r \in Requests, NEW S, Serving(r, S), EditIssue(r)
    PROVE  Goes(r, S)
<1> DEFINE q == req[r]
           p == req'[r]
           E == Entries
           I == issues
<1>1. PICK E0, I0 : Whole(E0, I0) /\ SeenIn(E0, I0) = S /\ Way(pc[r], q, E0, I0, E, I)
  BY DEF Serving, OnCourse
<1>2. Inv /\ AllUnique
  BY DEF Serving
<1>3. /\ \A label : Goto(r, label) => pc'[r] = label
      /\ pc[r] # "idle" => q.user \in Users
  BY <1>2, ReqTyped
<1>4. q.kind = "Edit" => ~Trouble(r)
  BY NoTrouble DEF Reversible
<1>5. Kept => p = q
  BY DEF Kept
<1> HIDE DEF q, p, E, I
<1>6. CASE At(r, "Edit.find") /\ FindOwn(r, "Edit.found", "err")
  <2>1. Way("Edit.find", q, E0, I0, E, I) /\ q.user \in Users
    BY <1>1, <1>3, <1>6 DEF At
  <2>2. /\ Still /\ p.kind = q.kind /\ p.user = q.user /\ p.issue = q.issue /\ p.text = q.text
        /\ \/ /\ pc'[r] = "Edit.found" /\ Entry(q.user, p.list, p.ref) \in E
              /\ p.ref.issue = q.issue
           \/ pc'[r] = "Edit.find"
           \/ pc'[r] = "err"
    BY <1>2, <1>3, <1>6, <2>1, OwnCall DEF At, SameTask, LookOn, q, p, E
  <2>3. pc'[r] \notin Undoing /\ Way(pc'[r], p, E0, I0, E, I)
    BY <1>1, <2>1, <2>2, EditWay DEF Undoing
  <2> QED
    BY <1>1, <1>2, <2>2, <2>3, OnTheWay DEF Still, p, E, I
<1>7. CASE Kept /\ At(r, "Edit.get") /\ GetIssue(r, q.issue, "Edit.find", "err")
  <2>1. /\ Way("Edit.get", q, E0, I0, E, I)
        /\ Still /\ pc'[r] \in {"Edit.find", "err"} /\ p = q
    BY <1>1, <1>3, <1>5, <1>7, GetCall DEF At
  <2>2. pc'[r] \notin Undoing /\ Way(pc'[r], p, E0, I0, E, I)
    BY <2>1, EditWay DEF Undoing
  <2> QED
    BY <1>1, <1>2, <2>1, <2>2, OnTheWay DEF Still, p, E, I
<1>8. CASE Kept /\ At(r, "Edit.found") /\ q.ref.fissue = NoIssue /\ Proceed(r, "Edit.save")
  <2>1. /\ Way("Edit.found", q, E0, I0, E, I)
        /\ Still /\ pc'[r] = "Edit.save" /\ p = q
    BY <1>1, <1>3, <1>5, <1>8, ReadCall DEF At, Proceed
  <2>2. pc'[r] \notin Undoing /\ Way(pc'[r], p, E0, I0, E, I)
    BY <1>8, <2>1, EditAlone DEF Undoing
  <2> QED
    BY <1>1, <1>2, <2>1, <2>2, OnTheWay DEF Still, p, E, I
<1>9. CASE Kept /\ At(r, "Edit.found") /\ q.ref.fissue # NoIssue /\ Proceed(r, "Edit.fget")
  <2>1. /\ Way("Edit.found", q, E0, I0, E, I)
        /\ Still /\ pc'[r] = "Edit.fget" /\ p = q
    BY <1>1, <1>3, <1>5, <1>9, ReadCall DEF At, Proceed
  <2>2. pc'[r] \notin Undoing /\ Way(pc'[r], p, E0, I0, E, I)
    BY <1>9, <2>1, EditWay DEF Undoing
  <2> QED
    BY <1>1, <1>2, <2>1, <2>2, OnTheWay DEF Still, p, E, I
<1>10. CASE Kept /\ At(r, "Edit.fget") /\ GetIssue(r, Copy(q), "Edit.fsave", "Edit.save")
  <2>1. Way("Edit.fget", q, E0, I0, E, I)
    BY <1>1, <1>10 DEF At
  <2>2. I[Copy(q)] # Gone /\ ~Trouble(r)
    BY <1>1, <1>4, <2>1, EditFar DEF Copy, Way, Learnt, EditKnown
  <2>3. Still /\ pc'[r] = "Edit.fsave" /\ p = q
    BY <1>3, <1>5, <1>10, <2>2, GetCall DEF I
  <2>4. pc'[r] \notin Undoing /\ Way(pc'[r], p, E0, I0, E, I)
    BY <2>1, <2>3, EditWay DEF Undoing
  <2> QED
    BY <1>1, <1>2, <2>3, <2>4, OnTheWay DEF Still, p, E, I
<1>11. CASE Kept /\ At(r, "Edit.fsave") /\ SaveIssue(r, Copy(q), q.text, "Edit.save", "Edit.save")
  <2>1. Way("Edit.fsave", q, E0, I0, E, I) /\ ~Trouble(r)
    BY <1>1, <1>4, <1>11 DEF At, Way, Learnt, EditKnown
  <2>2. /\ Entries' = E /\ AllUnique' /\ pc'[r] = "Edit.save" /\ p = q
        /\ issues' = Put(I, q.ref.fissue, q.text)
    BY <1>2, <1>3, <1>5, <1>11, <2>1, SaveCall DEF E, I, Copy
  <2>3. Way("Edit.save", q, E0, I0, E, Put(I, q.ref.fissue, q.text))
    BY <2>1, EditWay
  <2>4. pc'[r] \notin Undoing
    BY <2>2 DEF Undoing
  <2> QED
    BY <1>1, <2>2, <2>3, <2>4, OnTheWay DEF p
<1>12. CASE Kept /\ At(r, "Edit.save") /\ SaveIssue(r, q.issue, q.text, "ok", "err")
  <2>1. Way("Edit.save", q, E0, I0, E, I) /\ ~Trouble(r)
    BY <1>1, <1>4, <1>12 DEF At, Way, Learnt, EditKnown
  <2>2. /\ Entries' = E /\ AllUnique' /\ pc'[r] = "ok" /\ p = q
        /\ issues' = Put(I, q.issue, q.text)
    BY <1>2, <1>3, <1>5, <1>12, <2>1, SaveCall DEF E, I
  <2>3. /\ Whole(E, Put(I, q.issue, q.text)) /\ q.kind \notin Ending
        /\ Turns(SeenIn(E0, I0), SeenIn(E, Put(I, q.issue, q.text)))
    BY <1>1, <2>1, EditDone, EditTurns, NoEnding
  <2> QED
    BY <1>1, <2>2, <2>3, AtTheEnd DEF p
<1> QED
  BY <1>6, <1>7, <1>8, <1>9, <1>10, <1>11, <1>12 DEF EditIssue, q

LEMMA AcceptSteps ==
    ASSUME NEW r \in Requests, NEW S, Serving(r, S), AcceptIssue(r)
    PROVE  Goes(r, S)
<1> DEFINE q == req[r]
           p == req'[r]
           E == Entries
           I == issues
<1>1. PICK E0, I0 : Whole(E0, I0) /\ SeenIn(E0, I0) = S /\ Way(pc[r], q, E0, I0, E, I)
  BY DEF Serving, OnCourse
<1>2. Inv /\ AllUnique
  BY DEF Serving
<1>3. /\ \A label : Goto(r, label) => pc'[r] = label
      /\ pc[r] # "idle" => q.user \in Users
  BY <1>2, ReqTyped
<1>4. Kept => p = q
  BY DEF Kept
<1>5. pc[r] \in Undoing => ~Trouble(r)
  BY DEF Serving
<1> HIDE DEF q, p, E, I
<1>6. CASE At(r, "Accept.ref") /\ GetReference(r, "In", "Accept.my", "err")
  <2>1. Way("Accept.ref", q, E0, I0, E, I) /\ q.user \in Users
    BY <1>1, <1>3, <1>6 DEF At
  <2>2. /\ Still /\ p.kind = q.kind /\ p.user = q.user /\ p.issue = q.issue
        /\ \/ /\ pc'[r] = "Accept.my"
              /\ Entry(q.user, "In", p.ref) \in E /\ p.ref.issue = q.issue
           \/ pc'[r] = "err" /\ p = q
    BY <1>2, <1>3, <1>4, <1>6, <2>1, ReferenceCall DEF SameTask, q, p, E, Lists
  <2>3. pc'[r] \notin Undoing /\ Way(pc'[r], p, E0, I0, E, I)
    BY <2>1, <2>2, AcceptWay DEF Undoing
  <2> QED
    BY <1>1, <1>2, <2>2, <2>3, OnTheWay DEF Still, p, E, I
<1>7. CASE Kept /\ At(r, "Accept.get") /\ GetIssue(r, q.issue, "Accept.ref", "err")
  <2>1. /\ Way("Accept.get", q, E0, I0, E, I)
        /\ Still /\ pc'[r] \in {"Accept.ref", "err"} /\ p = q
    BY <1>1, <1>3, <1>4, <1>7, GetCall DEF At
  <2>2. pc'[r] \notin Undoing /\ Way(pc'[r], p, E0, I0, E, I)
    BY <2>1, AcceptWay DEF Undoing
  <2> QED
    BY <1>1, <1>2, <2>1, <2>2, OnTheWay DEF Still, p, E, I
<1>8. CASE /\ Kept /\ At(r, "Accept.my")
           /\ AddReference(r, q.user, q.issue, "My", q.ref.fuser, Copy(q), "Accept.in", "err")
  <2>1. Way("Accept.my", q, E0, I0, E, I) /\ q.user \in Users
    BY <1>1, <1>3, <1>8 DEF At
  <2>2. q.ref \in Ref /\ q.ref.issue = q.issue
    <3>1. Entry(q.user, "In", q.ref) \in E0 /\ q.ref.issue = q.issue
      BY <2>1 DEF Way, Learnt, RefKnown
    <3> QED
      BY <1>1, <3>1, EntryFields DEF Whole, EntryType
  <2> DEFINE ref == [issue |-> q.issue, fuser |-> q.ref.fuser, fissue |-> q.ref.fissue]
  <2>3. /\ ref = q.ref /\ q.issue \in IssueIds /\ q.ref.fuser \in Users \cup {NoUser}
        /\ q.ref.fissue \in IssueIds \cup {NoIssue}
    BY <2>2 DEF Ref
  <2>4. \/ /\ pc'[r] = "Accept.in" /\ issues' = I /\ AllUnique'
           /\ Entries' = E \cup {Entry(q.user, "My", ref)}
        \/ pc'[r] = "err" /\ Still
    BY <1>2, <1>3, <1>8, <2>1, <2>3, AddCall DEF E, I, Copy, Lists
  <2> HIDE DEF ref
  <2>5. /\ Way("Accept.in", q, E0, I0, E \cup {Entry(q.user, "My", ref)}, I)
        /\ Way("err", q, E0, I0, E, I)
    BY <2>1, <2>3, AcceptWay
  <2>6. pc'[r] \notin Undoing /\ AllUnique' /\ Way(pc'[r], p, E0, I0, Entries', issues')
    BY <1>2, <1>4, <1>8, <2>4, <2>5 DEF Undoing, Still, E, I
  <2> QED
    BY <1>1, <2>6, OnTheWay DEF p
<1>9. CASE /\ Kept /\ At(r, "Accept.in")
           /\ RemoveReference(r, q.user, q.issue, "In", "ok", "Accept.undo")
  <2>1. /\ Way("Accept.in", q, E0, I0, E, I) /\ Way("Accept.undo", q, E0, I0, E, I)
        /\ q.user \in Users
    BY <1>1, <1>3, <1>9, AcceptWay DEF At
  <2>2. \E e \in E : e.user = q.user /\ e.list = "In" /\ e.ref.issue = q.issue
    <3>1. Entry(q.user, "In", q.ref) \in E /\ q.ref.issue = q.issue
      BY <2>1 DEF Way, Learnt, RefKnown, SoFar, Unlisted, Listed
    <3> QED
      BY <3>1, EntryFields
  <2>3. \/ /\ pc'[r] = "ok" /\ issues' = I /\ AllUnique'
           /\ Entries' = Taken(E, q.user, "In", q.issue)
        \/ pc'[r] = "Accept.undo" /\ Still /\ Trouble(r)
    BY <1>2, <1>3, <1>9, <2>1, <2>2, RemoveCall DEF E, I, Lists
  <2>4. /\ Whole(Taken(E, q.user, "In", q.issue), I) /\ q.kind \notin Ending
        /\ Turns(SeenIn(E0, I0), SeenIn(Taken(E, q.user, "In", q.issue), I))
    BY <1>1, <2>1, AcceptDone, AcceptTurns, NoEnding
  <2>5. CASE pc'[r] = "ok"
    BY <1>1, <1>4, <1>9, <2>3, <2>4, <2>5, AtTheEnd DEF p
  <2>6. CASE pc'[r] = "Accept.undo"
    BY <1>1, <1>2, <1>4, <1>9, <2>1, <2>3, <2>6, OnTheWay DEF Still, p, E, I
  <2> QED
    BY <2>3, <2>5, <2>6
<1>10. CASE /\ Kept /\ At(r, "Accept.undo")
            /\ RemoveReference(r, q.user, q.issue, "My", "err", "err")
  <2>1. /\ Way("Accept.undo", q, E0, I0, E, I) /\ q.user \in Users /\ ~Trouble(r)
    BY <1>1, <1>3, <1>5, <1>10 DEF At, Undoing
  <2>2. \E e \in E : e.user = q.user /\ e.list = "My" /\ e.ref.issue = q.issue
    <3>1. Entry(q.user, "My", q.ref) \in E /\ q.ref.issue = q.issue
      BY <2>1 DEF Way, Learnt, RefKnown, SoFar, Unlisted, Listed
    <3> QED
      BY <3>1, EntryFields
  <2>3. /\ pc'[r] = "err" /\ issues' = I /\ AllUnique'
        /\ Entries' = Taken(E, q.user, "My", q.issue)
    BY <1>2, <1>3, <1>10, <2>1, <2>2, RemoveCall DEF E, I, Lists
  <2>4. Way("err", q, E0, I0, Taken(E, q.user, "My", q.issue), I)
    BY <1>1, <2>1, AcceptDone
  <2>5. pc'[r] \notin Undoing
    BY <2>3 DEF Undoing
  <2> QED
    BY <1>1, <1>4, <1>10, <2>3, <2>4, <2>5, OnTheWay DEF p
<1> QED
  BY <1>6, <1>7, <1>8, <1>9, <1>10 DEF AcceptIssue, q

(* The user at the other end of a reference that has been found.           *)
LEMMA FarUser ==
    ASSUME NEW q, NEW E0, NEW I0, NEW E, NEW I, Whole(E0, I0),
           NEW label \in {"Assign.ffind", "Assign.funlist"}, Way(label, q, E0, I0, E, I)
    PROVE  q.ref.fuser \in Users
<1>1. Entry(q.user, q.list, q.ref) \in E0 /\ q.ref.fuser # NoUser
  BY DEF Way, Learnt, RefKnown
<1>2. q.ref \in Ref
  BY <1>1, EntryFields DEF Whole, EntryType
<1> QED
  BY <1>1, <1>2 DEF Ref

LEMMA TakeBackSteps ==
    ASSUME NEW r \in Requests, NEW S, Serving(r, S), TakeBack(r)
    PROVE  Goes(r, S)
<1> DEFINE q == req[r]
           p == req'[r]
           E == Entries
           I == issues
<1>1. PICK E0, I0 : Whole(E0, I0) /\ SeenIn(E0, I0) = S /\ Way(pc[r], q, E0, I0, E, I)
  BY DEF Serving, OnCourse
<1>2. Inv /\ AllUnique
  BY DEF Serving
<1>3. /\ \A label : Goto(r, label) => pc'[r] = label
      /\ pc[r] # "idle" => q.user \in Users
      /\ q \in ReqType
  BY <1>2, ReqTyped
<1>4. q.kind = "Assign" => ~Trouble(r)
  BY NoTrouble DEF Reversible
<1>5. Kept => p = q
  BY DEF Kept
<1> HIDE DEF q, p, E, I
<1>6. CASE /\ At(r, "Assign.get")
           /\ GetIssue(r, q.issue, "Assign.find", "err")
           /\ req' = [req EXCEPT ![r].text = issues[q.issue]]
  <2>1. Way("Assign.get", q, E0, I0, E, I)
    BY <1>1, <1>6 DEF At
  <2>2. Still /\ pc'[r] \in {"Assign.find", "err"}
    BY <1>3, <1>6, GetCall
  <2>3. SameTask([q EXCEPT !.text = I[q.issue]], p) /\ p.text = I[q.issue]
    <3>1. p = [q EXCEPT !.text = I[q.issue]]
      BY <1>2, <1>6 DEF q, p, I, Inv, ReqInv
    <3> QED
      BY <1>3, <3>1 DEF ReqType, SameTask
  <2>4. /\ p.kind = q.kind /\ p.user = q.user /\ p.to = q.to /\ p.issue = q.issue
        /\ p.twin = q.twin
    BY <1>3, <2>3 DEF ReqType, SameTask
  <2>5. pc'[r] \notin Undoing /\ Way(pc'[r], p, E0, I0, E, I)
    BY <1>1, <2>1, <2>2, <2>3, <2>4, AssignWay DEF Undoing
  <2> QED
    BY <1>1, <1>2, <2>2, <2>5, OnTheWay DEF Still, p, E, I
<1>7. CASE At(r, "Assign.find") /\ FindOwn(r, "Assign.found", "err")
  <2>1. Way("Assign.find", q, E0, I0, E, I) /\ q.user \in Users
    BY <1>1, <1>3, <1>7 DEF At
  <2>2. /\ Still /\ p.kind = q.kind /\ p.user = q.user /\ p.to = q.to /\ p.issue = q.issue
        /\ p.twin = q.twin /\ p.text = q.text
        /\ \/ /\ pc'[r] = "Assign.found" /\ Entry(q.user, p.list, p.ref) \in E
              /\ p.ref.issue = q.issue
           \/ pc'[r] = "Assign.find"
           \/ pc'[r] = "err"
    BY <1>2, <1>3, <1>7, <2>1, OwnCall DEF At, SameTask, LookOn, q, p, E
  <2>3. pc'[r] \notin Undoing /\ Way(pc'[r], p, E0, I0, E, I)
    BY <1>1, <2>1, <2>2, AssignWay DEF Undoing
  <2> QED
    BY <1>1, <1>2, <2>2, <2>3, OnTheWay DEF Still, p, E, I
<1>8. CASE /\ At(r, "Assign.found") /\ Kept
           /\ Proceed(r, CASE Received(q) -> "err"
                           [] ~Received(q) /\ q.ref.fuser # NoUser -> "Assign.ffind"
                           [] OTHER -> Route(q))
  <2>1. Way("Assign.found", q, E0, I0, E, I)
    BY <1>1, <1>8 DEF At
  <2>2. /\ Way("err", q, E0, I0, E, I)
        /\ Route(q) = "Assign.unlist"
        /\ ~Received(q) /\ q.ref.fuser # NoUser => Way("Assign.ffind", q, E0, I0, E, I)
        /\ ~Received(q) /\ q.ref.fuser = NoUser => Way("Assign.unlist", q, E0, I0, E, I)
    BY <1>1, <2>1, AssignFound
  <2>3. Still /\ p = q
    BY <1>5, <1>8, ReadCall DEF Proceed
  <2>4. \/ Received(q) /\ pc'[r] = "err"
        \/ ~Received(q) /\ q.ref.fuser # NoUser /\ pc'[r] = "Assign.ffind"
        \/ ~Received(q) /\ q.ref.fuser = NoUser /\ pc'[r] = "Assign.unlist"
    BY <1>3, <1>8, <2>2 DEF Proceed
  <2>5. pc'[r] \notin Undoing /\ Way(pc'[r], p, E0, I0, E, I)
    BY <2>2, <2>3, <2>4 DEF Undoing
  <2> QED
    BY <1>1, <1>2, <2>3, <2>5, OnTheWay DEF Still, p, E, I
<1>9. CASE At(r, "Assign.ffind") /\ FindForeign(r, "Assign.funlist", "err")
  <2>1. Way("Assign.ffind", q, E0, I0, E, I) /\ q.ref.fuser \in Users
    BY <1>1, <1>9, FarUser DEF At
  <2>2. /\ Still /\ p.kind = q.kind /\ p.user = q.user /\ p.to = q.to /\ p.issue = q.issue
        /\ p.twin = q.twin /\ p.text = q.text /\ p.list = q.list /\ p.ref = q.ref
        /\ \/ pc'[r] = "Assign.funlist" /\ Hit(q, E) /\ p.flist = SearchOrder[q.look]
           \/ pc'[r] = "Assign.ffind"
           \/ pc'[r] = "err"
    BY <1>2, <1>3, <1>9, <2>1, ForeignCall DEF At, SameFind, SameTask, LookOn, q, p, E
  <2>3. pc'[r] = "Assign.funlist" =>
          \E f \in E : f.user = q.ref.fuser /\ f.list = p.flist /\ f.ref.issue = q.ref.fissue
    BY <2>2 DEF Hit
  <2>4. /\ Way("Assign.ffind", p, E0, I0, E, I)
        /\ pc'[r] = "Assign.funlist" => Way("Assign.funlist", p, E0, I0, E, I)
    BY <1>1, <2>1, <2>2, <2>3, AssignFarFound
  <2>5. Way("err", p, E0, I0, E, I)
    BY <2>1, <2>2, AssignGivenUp
  <2>6. pc'[r] \notin Undoing /\ Way(pc'[r], p, E0, I0, E, I)
    BY <2>2, <2>4, <2>5 DEF Undoing
  <2> QED
    BY <1>1, <1>2, <2>2, <2>6, OnTheWay DEF Still, p, E, I
<1>10. CASE /\ At(r, "Assign.funlist")
            /\ RemoveReference(r, q.ref.fuser, Copy(q), q.flist, "Assign.ftake", "err") /\ Kept
  <2>1. Way("Assign.funlist", q, E0, I0, E, I) /\ q.ref.fuser \in Users /\ q.flist \in Lists
    BY <1>1, <1>3, <1>10, FarUser DEF At, ReqType
  <2> DEFINE F == Taken(E, q.ref.fuser, q.flist, q.ref.fissue)
  <2>2. \/ pc'[r] = "Assign.ftake" /\ issues' = I /\ AllUnique' /\ Entries' = F
        \/ pc'[r] = "err" /\ Still
    BY <1>2, <1>3, <1>10, <2>1, RemoveCall DEF E, I, Copy
  <2>3. Way("Assign.ftake", q, E0, I0, F, I)
    BY <1>1, <2>1, AssignFarUnlisted
  <2> HIDE DEF F
  <2>4. Way("err", q, E0, I0, E, I)
    BY <2>1, AssignGivenUp
  <2>5. pc'[r] \notin Undoing /\ AllUnique' /\ Way(pc'[r], p, E0, I0, Entries', issues')
    BY <1>2, <1>5, <1>10, <2>2, <2>3, <2>4 DEF Undoing, Still, E, I
  <2> QED
    BY <1>1, <2>5, OnTheWay DEF p
<1>11. CASE At(r, "Assign.ftake") /\ TakeIssue(r, Copy(q), "Assign.fdrop", Route(q))
  <2>1. Way("Assign.ftake", q, E0, I0, E, I) /\ q.kind = "Assign"
    BY <1>1, <1>11 DEF At, Way, Learnt, NewKnown
  <2>2. I[q.ref.fissue] # Gone /\ ~Trouble(r)
    BY <1>1, <1>4, <2>1, AssignFarTaken
  <2>3. /\ Still /\ p.kind = q.kind /\ p.user = q.user /\ p.to = q.to /\ p.issue = q.issue
        /\ p.twin = q.twin /\ p.text = q.text /\ p.list = q.list /\ p.ref = q.ref
        /\ pc'[r] = "Assign.fdrop"
    BY <1>2, <1>3, <1>11, <2>2, TakeCall DEF SameFind, SameTask, Copy, q, p, I
  <2>4. pc'[r] \notin Undoing /\ Way(pc'[r], p, E0, I0, E, I)
    BY <1>1, <2>1, <2>3, AssignFarTaken DEF Undoing
  <2> QED
    BY <1>1, <1>2, <2>3, <2>4, OnTheWay DEF Still, p, E, I
<1>12. CASE At(r, "Assign.fdrop") /\ DropTaken(r, Copy(q), Route(q))
  <2>1. Way("Assign.fdrop", q, E0, I0, E, I) /\ ~Trouble(r)
    BY <1>1, <1>4, <1>12 DEF At, Way, Learnt, NewKnown
  <2> DEFINE J == Put(I, q.ref.fissue, Gone)
  <2>2. Route(q) = "Assign.unlist" /\ Way("Assign.unlist", q, E0, I0, E, J)
    BY <1>1, <2>1, AssignFarTaken
  <2>3. /\ Entries' = E /\ AllUnique' /\ pc'[r] = "Assign.unlist" /\ issues' = J /\ p = q
    BY <1>2, <1>3, <1>5, <1>12, <2>1, <2>2, DropCall DEF E, I, Copy
  <2> HIDE DEF J
  <2>4. pc'[r] \notin Undoing
    BY <2>3 DEF Undoing
  <2> QED
    BY <1>1, <2>2, <2>3, <2>4, OnTheWay DEF p
<1> QED
  BY <1>6, <1>7, <1>8, <1>9, <1>10, <1>11, <1>12 DEF TakeBack, q

LEMMA AssignAnewSteps ==
    ASSUME NEW r \in Requests, NEW S, Serving(r, S), AssignAnew(r)
    PROVE  Goes(r, S)
<1> DEFINE q == req[r]
           p == req'[r]
           E == Entries
           I == issues
<1>1. PICK E0, I0 : Whole(E0, I0) /\ SeenIn(E0, I0) = S /\ Way(pc[r], q, E0, I0, E, I)
  BY DEF Serving, OnCourse
<1>2. Inv /\ AllUnique
  BY DEF Serving
<1>3. /\ \A label : Goto(r, label) => pc'[r] = label
      /\ pc[r] # "idle" => q.user \in Users
      /\ q \in ReqType
  BY <1>2, ReqTyped
<1>4. q.kind = "Assign" => ~Trouble(r)
  BY NoTrouble DEF Reversible
<1>5. Kept => p = q
  BY DEF Kept
<1>6. p = q
  BY <1>5 DEF AssignAnew
<1>7. ASSUME NEW label \in {"Assign.unlist", "Assign.my", "Assign.save", "Assign.out", "Assign.in"},
             At(r, label)
      PROVE  /\ Way(label, q, E0, I0, E, I) /\ q.kind = "Assign" /\ ~Trouble(r)
             /\ q.user \in Users /\ q.to \in Users /\ q.twin \in IssueIds
             /\ q.issue \in IssueIds /\ q.list \in Lists
  <2>1. Way(label, q, E0, I0, E, I) /\ q.user \in Users
    BY <1>1, <1>3, <1>7 DEF At
  <2>2. /\ q.kind = "Assign" /\ q.to \in Users /\ q.twin \in IssueIds
        /\ Entry(q.user, q.list, q.ref) \in E0 /\ q.ref.issue = q.issue
    BY <2>1 DEF Way, Learnt, NewKnown, RefKnown
  <2>3. q.issue \in IssueIds /\ q.list \in Lists
    BY <1>1, <2>2, EntryFields DEF Whole, EntryType, Ref
  <2> QED
    BY <1>4, <2>1, <2>2, <2>3
<1> HIDE DEF q, p, E, I
<1>8. CASE /\ At(r, "Assign.unlist")
           /\ RemoveReference(r, q.user, q.issue, q.list,
                              IF q.user = q.to THEN "Assign.my" ELSE "Assign.save", "err")
  <2> DEFINE F == Taken(E, q.user, q.list, q.issue)
             next == IF q.user = q.to THEN "Assign.my" ELSE "Assign.save"
  <2>1. /\ Way("Assign.unlist", q, E0, I0, E, I) /\ ~Trouble(r)
        /\ q.user \in Users /\ q.list \in Lists
    BY <1>7, <1>8
  <2>2. /\ \E e \in E : e.user = q.user /\ e.list = q.list /\ e.ref.issue = q.issue
        /\ Way(next, q, E0, I0, F, I)
    BY <1>1, <2>1, AssignUnlisted
  <2>3. next \notin Undoing
    BY DEF Undoing
  <2>4. RemoveReference(r, q.user, q.issue, q.list, next, "err")
    BY <1>8
  <2> HIDE DEF next
  <2>5. pc'[r] = next /\ issues' = I /\ AllUnique' /\ Entries' = F
    BY <1>2, <1>3, <2>1, <2>2, <2>4, RemoveCall DEF E, I
  <2> HIDE DEF F
  <2> QED
    BY <1>1, <1>6, <2>2, <2>3, <2>5, OnTheWay DEF p
<1>9. CASE /\ At(r, "Assign.my")
           /\ AddReference(r, q.user, q.issue, "My", NoUser, NoIssue, "ok", "err")
  <2>1. /\ Way("Assign.my", q, E0, I0, E, I) /\ ~Trouble(r)
        /\ q.user \in Users /\ q.issue \in IssueIds /\ q.kind \notin Ending
    BY <1>7, <1>9 DEF Ending
  <2>2. /\ \A f \in E : f.ref.issue # q.issue
        /\ Whole(E \cup {Entry(q.user, "My", OwnRef(q.issue))}, I)
        /\ Turns(SeenIn(E0, I0), SeenIn(E \cup {Entry(q.user, "My", OwnRef(q.issue))}, I))
    BY <1>1, <2>1, AssignToSelfDone, AssignToSelfTurns
  <2>3. /\ pc'[r] = "ok" /\ issues' = I /\ AllUnique'
        /\ Entries' = E \cup {Entry(q.user, "My", OwnRef(q.issue))}
    BY <1>2, <1>3, <1>9, <2>1, <2>2, AddCall DEF E, I, OwnRef, Lists
  <2> QED
    BY <1>1, <1>6, <2>1, <2>2, <2>3, AtTheEnd DEF p
<1>10. CASE At(r, "Assign.save") /\ SaveIssue(r, q.twin, q.text, "Assign.out", "err")
  <2> DEFINE J == Put(I, q.twin, q.text)
  <2>1. Way("Assign.save", q, E0, I0, E, I) /\ ~Trouble(r)
    BY <1>7, <1>10
  <2>2. Way("Assign.out", q, E0, I0, E, J)
    BY <1>1, <2>1, AssignAnewWay
  <2>3. Entries' = E /\ AllUnique' /\ pc'[r] = "Assign.out" /\ issues' = J
    BY <1>2, <1>3, <1>10, <2>1, SaveCall DEF E, I
  <2> HIDE DEF J
  <2>4. pc'[r] \notin Undoing
    BY <2>3 DEF Undoing
  <2> QED
    BY <1>1, <1>6, <2>2, <2>3, <2>4, OnTheWay DEF p
<1>11. CASE /\ At(r, "Assign.out")
            /\ AddReference(r, q.user, q.issue, "Out", q.to, q.twin, "Assign.in", "err")
  <2> DEFINE out == Entry(q.user, "Out", SentRef(q))
  <2>1. /\ Way("Assign.out", q, E0, I0, E, I) /\ ~Trouble(r) /\ q.user \in Users
        /\ q.to \in Users /\ q.issue \in IssueIds /\ q.twin \in IssueIds
    BY <1>7, <1>11
  <2>2. /\ \A f \in E : f.ref.issue # q.issue
        /\ Way("Assign.in", q, E0, I0, E \cup {out}, I)
    BY <1>1, <2>1, AssignAnewWay
  <2>3. pc'[r] = "Assign.in" /\ issues' = I /\ AllUnique' /\ Entries' = E \cup {out}
    BY <1>2, <1>3, <1>11, <2>1, <2>2, AddCall DEF E, I, SentRef, Lists
  <2> HIDE DEF out
  <2>4. pc'[r] \notin Undoing
    BY <2>3 DEF Undoing
  <2> QED
    BY <1>1, <1>6, <2>2, <2>3, <2>4, OnTheWay DEF p
<1>12. CASE /\ At(r, "Assign.in")
            /\ AddReference(r, q.to, q.twin, "In", q.user, q.issue, "ok", "err")
  <2> DEFINE ref == [issue |-> q.twin, fuser |-> q.user, fissue |-> q.issue]
  <2>1. /\ Way("Assign.in", q, E0, I0, E, I) /\ ~Trouble(r) /\ q.user \in Users
        /\ q.to \in Users /\ q.issue \in IssueIds /\ q.twin \in IssueIds /\ q.kind \notin Ending
    BY <1>7, <1>12 DEF Ending
  <2>2. ref = [issue |-> q.twin, fuser |-> q.user, fissue |-> q.issue]
    OBVIOUS
  <2> HIDE DEF ref
  <2>3. /\ \A f \in E : f.ref.issue # q.twin
        /\ Whole(E \cup {Entry(q.to, "In", ref)}, I)
        /\ Turns(SeenIn(E0, I0), SeenIn(E \cup {Entry(q.to, "In", ref)}, I))
    BY <1>1, <2>1, <2>2, AssignDone, AssignTurns
  <2>4. /\ pc'[r] = "ok" /\ issues' = I /\ AllUnique'
        /\ Entries' = E \cup {Entry(q.to, "In", ref)}
    BY <1>2, <1>3, <1>12, <2>1, <2>2, <2>3, AddCall DEF E, I, Lists
  <2> QED
    BY <1>1, <1>6, <2>1, <2>3, <2>4, AtTheEnd DEF p
<1> QED
  BY <1>8, <1>9, <1>10, <1>11, <1>12 DEF AssignAnew, q

(* Neither bumps nor listings change what is listed or recorded.           *)
LEMMA AsideCalls ==
    ASSUME Inv, AllUnique, NEW r \in Requests, BumpIssue(r) \/ GetAllList(r)
    PROVE  /\ Still /\ pc[r] \in Aside /\ pc'[r] \in Aside \cup {"ok", "err"}
           /\ req'[r].kind = req[r].kind
<1>1. /\ \A label : Goto(r, label) => pc'[r] = label
      /\ pc[r] # "idle" => req[r].user \in Users
      /\ req[r] \in ReqType
  BY ReqTyped
<1>2. CASE At(r, "Bump.ref") /\ GetReference(r, "Out", "Bump.bump", "err")
  BY <1>1, <1>2, ReferenceCall DEF At, SameTask, Aside, Lists
<1>3. CASE /\ At(r, "Bump.bump") /\ Kept
           /\ BumpReference(r, req[r].ref.fuser, Copy(req[r]), "In", "Bump.get", "err")
  BY <1>1, <1>3, BumpCall DEF At, Kept, Aside, Lists
<1>4. CASE At(r, "Bump.get") /\ Kept /\ GetIssue(r, Copy(req[r]), "ok", "ok")
  BY <1>1, <1>4, GetCall DEF At, Kept, Aside
<1>5. CASE GetAllList(r)
  <2>1. Still /\ pc[r] \in Aside
    BY <1>5, ReadCall DEF GetAllList, At, Aside
  <2>2. pc'[r] \in Aside \cup {"ok", "err"}
    BY <1>1, <1>5 DEF GetAllList, Aside
  <2>3. req'[r].kind = req[r].kind
    <3>1. req \in [Requests -> ReqType]
      BY DEF Inv, ReqInv
    <3> QED
      BY <1>5, <3>1 DEF GetAllList, Kept, ReqType
  <2> QED
    BY <2>1, <2>2, <2>3
<1> QED
  BY <1>2, <1>3, <1>4, <1>5 DEF BumpIssue

LEMMA AsideSteps ==
    ASSUME NEW r \in Requests, NEW S, Serving(r, S), BumpIssue(r) \/ GetAllList(r)
    PROVE  Goes(r, S)
<1>1. Inv /\ AllUnique /\ OnCourse(pc[r], req[r], S, Entries, issues)
  BY DEF Serving
<1>2. /\ Still /\ pc[r] \in Aside /\ pc'[r] \in Aside \cup {"ok", "err"}
      /\ req'[r].kind = req[r].kind
  BY <1>1, AsideCalls
<1>3. req[r].kind \notin Ending
  BY <1>1, <1>2, NoEnding DEF OnCourse, Aside
<1>4. OnCourse(pc'[r], req'[r], S, Entries, issues) /\ Turns(S, S)
  BY <1>1, <1>2, <1>3, AsideWay DEF Turns
<1>5. pc'[r] \notin Undoing
  BY <1>2 DEF Aside, Undoing
<1> QED
  BY <1>1, <1>2, <1>4, <1>5 DEF Goes, Still

(* Whatever step a request makes, it stays on its course.                  *)
LEMMA StepGoes ==
    ASSUME NEW r \in Requests, NEW S, Serving(r, S), Step(r)
    PROVE  Goes(r, S)
BY AddSteps, SendSteps, EndTodoSteps, EndCopySteps, EditSteps, TakeBackSteps, AssignAnewSteps,
   AcceptSteps, AsideSteps DEF Step

-----------------------------------------------------------------------------
(* One request after the other.                                            *)

(* Between two requests all fits together, and the one that is served is   *)
(* on its way.                                                             *)
Courses ==
    /\ AllUnique
    /\ Quiet => Whole(Entries, issues)
    /\ \A r \in Requests : Busy(r) => \E S : OnCourse(pc[r], req[r], S, Entries, issues)
    /\ \A r \in Requests : pc[r] = "ok" /\ req[r].kind \in Ending => req[r].got # Gone

LEMMA StepIsBusy ==
    ASSUME NEW r \in Requests, Step(r)
    PROVE  Busy(r)
<1>1. CASE AddIssue(r) \/ SendIssue(r)
  BY <1>1 DEF AddIssue, SendIssue, At, Busy
<1>2. CASE EndTodo(r) \/ EndCopy(r)
  BY <1>2 DEF EndTodo, EndCopy, At, Busy
<1>3. CASE EditIssue(r) \/ AcceptIssue(r)
  BY <1>3 DEF EditIssue, AcceptIssue, At, Busy
<1>4. CASE TakeBack(r) \/ AssignAnew(r)
  BY <1>4 DEF TakeBack, AssignAnew, At, Busy
<1>5. CASE BumpIssue(r) \/ GetAllList(r)
  BY <1>5 DEF BumpIssue, GetAllList, At, Busy
<1> QED
  BY <1>1, <1>2, <1>3, <1>4, <1>5 DEF Step

(* The other requests stay where they are.                                 *)
LEMMA StepAlone ==
    ASSUME Inv, NEW r \in Requests, Step(r)
    PROVE  Others(r)
<1>1. pc \in [Requests -> Labels] /\ req \in [Requests -> ReqType]
  BY DEF Inv, ReqInv
<1>2. ASSUME NEW s \in Requests \ {r}
      PROVE  pc'[s] = pc[s] /\ req'[s] = req[s]
  <2>1. CASE AddIssue(r) \/ SendIssue(r)
    BY <1>1, <2>1 DEF AddIssue, SendIssue, Kept, SaveIssue, DropIssue, AddReference,
         RemoveReference, ChangeList, Goto
  <2>2. CASE EndTodo(r)
    BY <1>1, <2>2 DEF EndTodo, FindOwn, Search, RemoveReference, PopReference, ChangeList,
         TakeIssue, DropTaken, Kept, Goto
  <2>3. CASE EndCopy(r)
    BY <1>1, <2>3 DEF EndCopy, FindForeign, Search, RemoveReference, ChangeList,
         TakeIssue, DropTaken, Kept, Goto
  <2>4. CASE EditIssue(r)
    BY <1>1, <2>4 DEF EditIssue, FindOwn, Search, GetIssue, SaveIssue, Proceed, Kept, Goto
  <2>5. CASE AcceptIssue(r)
    BY <1>1, <2>5 DEF AcceptIssue, GetIssue, GetReference, AddReference, RemoveReference,
         ChangeList, Kept, Goto
  <2>6. CASE TakeBack(r)
    BY <1>1, <2>6 DEF TakeBack, GetIssue, FindOwn, FindForeign, Search, Proceed,
         RemoveReference, ChangeList, TakeIssue, DropTaken, Kept, Goto
  <2>7. CASE AssignAnew(r)
    BY <1>1, <2>7 DEF AssignAnew, RemoveReference, AddReference, ChangeList, SaveIssue, Kept, Goto
  <2>8. CASE BumpIssue(r)
    BY <1>1, <2>8 DEF BumpIssue, GetReference, BumpReference, ChangeList, GetIssue, Kept, Goto
  <2>9. CASE GetAllList(r)
    BY <1>1, <2>9 DEF GetAllList, Kept, Goto
  <2> QED
    BY <2>1, <2>2, <2>3, <2>4, <2>5, <2>6, <2>7, <2>8, <2>9 DEF Step
<1> QED
  BY <1>2 DEF Others

(* What a step changes of the count of failed calls.                       *)
LEMMA StepSpends ==
    ASSUME Inv, NEW r \in Requests, Step(r)
    PROVE  faults' = faults \/ Trouble(r)
<1>1. CASE AddIssue(r) \/ SendIssue(r) \/ AcceptIssue(r)
  BY <1>1 DEF AddIssue, SendIssue, AcceptIssue, GetIssue, GetReference, SaveIssue, DropIssue,
       AddReference, RemoveReference, ChangeList
<1>2. CASE EndTodo(r) \/ EndCopy(r)
  BY <1>2 DEF EndTodo, EndCopy, FindOwn, FindForeign, Search, RemoveReference, PopReference,
       ChangeList, TakeIssue, DropTaken
<1>3. CASE EditIssue(r) \/ TakeBack(r)
  BY <1>3 DEF EditIssue, TakeBack, FindOwn, FindForeign, Search, GetIssue, SaveIssue, Proceed,
       RemoveReference, ChangeList, TakeIssue, DropTaken
<1>4. CASE AssignAnew(r) \/ BumpIssue(r) \/ GetAllList(r)
  BY <1>4 DEF AssignAnew, BumpIssue, GetAllList, AddReference, RemoveReference, BumpReference,
       GetReference, ChangeList, SaveIssue, GetIssue
<1> QED
  BY <1>1, <1>2, <1>3, <1>4 DEF Step

(* No call that undoes something fails.                                    *)
LEMMA UndoneForSure ==
    ASSUME Inv, RollbacksWork, NEW r \in Requests, Step(r), pc[r] \in Undoing
    PROVE  ~Trouble(r)
<1>1. \A label : Goto(r, label) => pc'[r] = label
  BY ReqTyped
<1>2. faults \in Nat
  BY DEF Inv, StoreInv
<1>3. pc'[r] # pc[r]
  <2>1. AddIssue(r) \/ SendIssue(r) \/ AcceptIssue(r)
    BY DEF Step, Undoing, At, EndTodo, EndCopy, EditIssue, TakeBack, AssignAnew, BumpIssue,
         GetAllList
  <2>2. CASE AddIssue(r)
    BY <1>1, <2>2 DEF AddIssue, Undoing, At, DropIssue, SaveIssue
  <2>3. CASE SendIssue(r)
    BY <1>1, <2>3 DEF SendIssue, Undoing, At, DropIssue, SaveIssue, RemoveReference, ChangeList
  <2>4. CASE AcceptIssue(r)
    BY <1>1, <2>4 DEF AcceptIssue, Undoing, At, RemoveReference, ChangeList
  <2> QED
    BY <2>1, <2>2, <2>3, <2>4
<1> QED
  BY <1>2, <1>3 DEF RollbacksWork, Trouble

LEMMA StepOnCourse ==
    ASSUME Inv, Courses, OneAtATime, RollbacksWork, Troubled \subseteq Reversible,
           NEW r \in Requests, Step(r)
    PROVE  Courses'
<1>1. Busy(r) /\ Others(r)
  BY StepIsBusy, StepAlone
<1>2. PICK seen : Goes(r, seen)
  <2>1. PICK seen : OnCourse(pc[r], req[r], seen, Entries, issues)
    BY <1>1 DEF Courses
  <2>2. Goes(r, seen)
    BY <2>1, UndoneForSure, StepGoes DEF Courses, Serving
  <2> QED
    BY <2>2
<1>3. \A s \in Requests \ {r} : ~Busy(s) /\ ~Busy(s)'
  BY <1>1 DEF OneAtATime, Others, Busy
<1>4. pc'[r] \in {"idle", "ok", "err"} =>
        /\ Whole(Entries', issues')
        /\ pc'[r] = "ok" /\ req'[r].kind \in Ending => req'[r].got # Gone
  BY <1>2, WayDone DEF Goes
<1>5. AllUnique'
  BY <1>2 DEF Goes
<1>6. (Quiet => Whole(Entries, issues))'
  BY <1>4 DEF Quiet
<1>7. (\A s \in Requests : Busy(s) => \E S : OnCourse(pc[s], req[s], S, Entries, issues))'
  BY <1>2, <1>3 DEF Goes
<1>8. (\A s \in Requests : pc[s] = "ok" /\ req[s].kind \in Ending => req[s].got # Gone)'
  BY <1>1, <1>4 DEF Others, Courses
<1> QED
  BY <1>5, <1>6, <1>7, <1>8 DEF Courses

LEMMA ReturnOnCourse ==
    ASSUME Inv, Courses, NEW r \in Requests, Return(r)
    PROVE  Courses'
<1>1. /\ pc[r] \in {"ok", "err"} /\ pc'[r] = "idle"
      /\ \A s \in Requests \ {r} : pc'[s] = pc[s] /\ req'[s] = req[s]
  BY DEF Inv, ReqInv, Return, Goto
<1>2. UNCHANGED <<lists, issues>>
  BY DEF Return
<1>3. AllUnique' /\ Entries' = Entries
  BY <1>2, EntriesSame DEF Courses
<1>4. Quiet' => Quiet
  BY <1>1 DEF Quiet
<1>5. (Quiet => Whole(Entries, issues))'
  BY <1>2, <1>3, <1>4 DEF Courses
<1>6. ASSUME NEW s \in Requests, pc'[s] \notin {"idle", "ok", "err"}
      PROVE  \E S : OnCourse(pc'[s], req'[s], S, Entries', issues')
  <2>1. s # r
    BY <1>1, <1>6
  <2>2. pc'[s] = pc[s] /\ req'[s] = req[s]
    BY <1>1, <2>1
  <2> QED
    BY <1>2, <1>3, <1>6, <2>2 DEF Courses, Busy
<1>7. (\A s \in Requests : Busy(s) => \E S : OnCourse(pc[s], req[s], S, Entries, issues))'
  BY <1>6 DEF Busy
<1>8. (\A s \in Requests : pc[s] = "ok" /\ req[s].kind \in Ending => req[s].got # Gone)'
  BY <1>1 DEF Courses
<1> QED
  BY <1>3, <1>5, <1>7, <1>8 DEF Courses

-----------------------------------------------------------------------------
(* A request that arrives sets out from where all fits together.           *)

(* An id that has not been handed out has no record.                       *)
LEMMA FreshIsGone ==
    ASSUME Inv, Whole(Entries, issues), NEW id \in IssueIds, id > born
    PROVE  issues[id] = Gone
<1>1. SUFFICES ASSUME issues[id] # Gone
               PROVE  FALSE
  OBVIOUS
<1>2. PICK e \in Entries : e.ref.issue = id
  BY <1>1 DEF Whole
<1>3. e.user \in Users /\ e.list \in Lists
      /\ \E i \in 1..Len(lists[e.user][e.list]) : lists[e.user][e.list][i] = e.ref
  BY EntryIs DEF Entries
<1>4. owner[id] = e.user
  BY <1>2, <1>3 DEF Inv, StoreInv, ListsOwned, RefOwned
<1>5. owner[id] = NoUser
  BY DEF Inv, StoreInv, Fresh
<1> QED
  BY <1>3, <1>4, <1>5, SentinelAssumption

(* What a request knows when it arrives.                                   *)
Sets(r) ==
    /\ OnCourse(pc'[r], req'[r], SeenIn(Entries, issues), Entries, issues)
    /\ pc'[r] # "ok"

LEMMA Ready ==
    ASSUME NEW q, NEW E, NEW I, Whole(E, I),
           NEW label \in {"Add.save", "Send.save", "End.find", "End.pop", "Edit.get", "Assign.get",
                          "Accept.get", "Bump.ref", "List.read"},
           Learnt(label, q, E, I)
    PROVE  OnCourse(label, q, SeenIn(E, I), E, I)
<1>1. SoFar(label, q, E, I, E, I)
  BY DEF Whole, SoFar, Unlisted, Listed, Dropped, Saved
<1> QED
  BY <1>1 DEF OnCourse, Way

LEMMA NewReady ==
    ASSUME Inv, Whole(Entries, issues), NEW r \in Requests, BeginNew(r)
    PROVE  Sets(r)
<1>1. /\ \A label : Goto(r, label) => pc'[r] = label
      /\ \A q : req' = [req EXCEPT ![r] = q] => req'[r] = q
  BY ReqTyped
<1>2. born \in Nat
  BY DEF Inv, StoreInv
<1>3. ASSUME NEW u \in Users, NEW text \in Texts, NEW q,
             q = [[NoReq EXCEPT !.user = u, !.issue = born + 1, !.text = text] EXCEPT !.kind = "Add"],
             Arrive(r, "Add.save", q, <<u>>)
      PROVE  Sets(r)
  <2>1. pc'[r] = "Add.save" /\ req'[r] = q /\ born + 1 <= MaxIssues
    BY <1>1, <1>3 DEF Arrive
  <2>2. born + 1 \in IssueIds /\ issues[born + 1] = Gone
    <3>1. born + 1 \in IssueIds /\ born + 1 > born
      BY <1>2, <2>1, BoundsAssumption DEF IssueIds
    <3> QED
      BY <3>1, FreshIsGone
  <2>3. q.kind = "Add" /\ q.user = u /\ q.issue = born + 1 /\ q.text = text
    BY <1>3 DEF NoReq
  <2>4. Learnt("Add.save", q, Entries, issues)
    BY <2>2, <2>3 DEF Learnt, NewKnown, RefKnown, EndKnown, AssignKnown, EditKnown
  <2> QED
    BY <2>1, <2>4, Ready DEF Sets
<1>4. ASSUME NEW u \in Users, NEW text \in Texts, NEW v \in Users \ {u}, NEW q,
             q = [[NoReq EXCEPT !.user = u, !.issue = born + 1, !.text = text]
                     EXCEPT !.kind = "Send", !.to = v, !.twin = born + 2],
             Arrive(r, "Send.save", q, <<u, v>>)
      PROVE  Sets(r)
  <2>1. pc'[r] = "Send.save" /\ req'[r] = q /\ born + 2 <= MaxIssues
    BY <1>1, <1>4 DEF Arrive
  <2>2. \A id \in {born + 1, born + 2} : id \in IssueIds /\ issues[id] = Gone
    <3>1. \A id \in {born + 1, born + 2} : id \in IssueIds /\ id > born
      BY <1>2, <2>1, BoundsAssumption DEF IssueIds
    <3> QED
      BY <3>1, FreshIsGone
  <2>3. /\ q.kind = "Send" /\ q.user = u /\ q.issue = born + 1 /\ q.text = text
        /\ q.to = v /\ v # u /\ q.twin = born + 2 /\ born + 1 # born + 2
    BY <1>2, <1>4 DEF NoReq
  <2>4. Learnt("Send.save", q, Entries, issues)
    BY <2>2, <2>3 DEF Learnt, NewKnown, RefKnown, EndKnown, AssignKnown, EditKnown
  <2> QED
    BY <2>1, <2>4, Ready DEF Sets
<1> QED
  BY <1>3, <1>4 DEF BeginNew

(* The web app completes no todo that is in a sent list.                   *)
LEMMA EndReady ==
    ASSUME Inv, Whole(Entries, issues), OnlyShown, NEW r \in Requests, BeginEnd(r)
    PROVE  Sets(r)
<1>1. /\ \A label : Goto(r, label) => pc'[r] = label
      /\ \A q : req' = [req EXCEPT ![r] = q] => req'[r] = q
  BY ReqTyped
<1>2. ASSUME NEW u \in Users, NEW id, NEW kind \in {"Complete", "Remove"}, NEW q,
             q = [NoReq EXCEPT !.kind = kind, !.user = u, !.issue = id],
             Arrive(r, "End.find", q, << >>)
      PROVE  Sets(r)
  <2>1. pc'[r] = "End.find" /\ req'[r] = q /\ pc[r] = "idle"
    BY <1>1, <1>2 DEF Arrive
  <2>2. q.kind = kind /\ q.user = u /\ q.issue = id
    BY <1>2 DEF NoReq
  <2>3. ASSUME kind = "Complete", NEW e \in Entries, e.user = u, e.ref.issue = id
        PROVE  e.list # "Out"
    <3>1. CanComplete(u, id)
      BY <2>1, <2>2, <2>3 DEF OnlyShown, Begins
    <3>2. \A l \in Lists : Holds(lists[u][l], id) <=>
            \E f \in Entries : f.user = u /\ f.list = l /\ f.ref.issue = id
      BY HeldEntry
    <3>3. \E l \in Lists : l # "Out" /\ Holds(lists[u][l], id)
      BY <3>1 DEF CanComplete, Lists
    <3>4. PICK f \in Entries : f.user = u /\ f.list # "Out" /\ f.ref.issue = id
      BY <3>2, <3>3
    <3> QED
      BY <2>3, <3>4 DEF Whole
  <2>4. Learnt("End.find", q, Entries, issues)
    BY <2>2, <2>3 DEF Learnt, NewKnown, RefKnown, EndKnown, AssignKnown, EditKnown
  <2> QED
    BY <2>1, <2>4, Ready DEF Sets
<1>3. ASSUME NEW u \in Users, NEW q, q = [NoReq EXCEPT !.kind = "Pop", !.user = u],
             Arrive(r, "End.pop", q, << >>)
      PROVE  Sets(r)
  <2>1. pc'[r] = "End.pop" /\ req'[r] = q
    BY <1>1, <1>3 DEF Arrive
  <2>2. q.kind = "Pop" /\ q.list = "My" /\ q.look = 1
    BY <1>3 DEF NoReq
  <2>3. Learnt("End.pop", q, Entries, issues)
    BY <2>2 DEF Learnt, NewKnown, RefKnown, EndKnown, AssignKnown, EditKnown
  <2> QED
    BY <2>1, <2>3, Ready DEF Sets
<1> QED
  BY <1>2, <1>3 DEF BeginEnd

(* It takes back, of all todos, only one that is in a sent list.           *)
LEMMA ChangeReady ==
    ASSUME Inv, Whole(Entries, issues), SelfFromSent, NEW r \in Requests, BeginChange(r)
    PROVE  Sets(r)
<1>1. /\ \A label : Goto(r, label) => pc'[r] = label
      /\ \A q : req' = [req EXCEPT ![r] = q] => req'[r] = q
  BY ReqTyped
<1>2. born \in Nat
  BY DEF Inv, StoreInv
<1>3. ASSUME NEW u \in Users, NEW id \in Known, NEW text \in Texts, NEW q,
             q = [[NoReq EXCEPT !.user = u, !.issue = id] EXCEPT !.kind = "Edit", !.text = text],
             Arrive(r, "Edit.get", q, << >>)
      PROVE  Sets(r)
  <2>1. pc'[r] = "Edit.get" /\ req'[r] = q
    BY <1>1, <1>3 DEF Arrive
  <2>2. q.kind = "Edit" /\ q.text = text
    BY <1>3 DEF NoReq
  <2>3. Learnt("Edit.get", q, Entries, issues)
    BY <2>2 DEF Learnt, NewKnown, RefKnown, EndKnown, AssignKnown, EditKnown
  <2> QED
    BY <2>1, <2>3, Ready DEF Sets
<1>4. ASSUME NEW u \in Users, NEW id \in Known, NEW v \in Users, NEW q,
             q = [[NoReq EXCEPT !.user = u, !.issue = id]
                     EXCEPT !.kind = "Assign", !.to = v, !.twin = born + 1],
             Arrive(r, "Assign.get", q, <<v>>)
      PROVE  Sets(r)
  <2>1. pc'[r] = "Assign.get" /\ req'[r] = q /\ pc[r] = "idle" /\ born + 1 <= MaxIssues
    BY <1>1, <1>4 DEF Arrive
  <2>2. born + 1 \in IssueIds /\ issues[born + 1] = Gone
    <3>1. born + 1 \in IssueIds /\ born + 1 > born
      BY <1>2, <2>1, BoundsAssumption DEF IssueIds
    <3> QED
      BY <3>1, FreshIsGone
  <2>3. /\ q.kind = "Assign" /\ q.user = u /\ q.issue = id /\ q.to = v /\ q.twin = born + 1
        /\ born + 1 # id
    BY <1>2, <1>4 DEF NoReq, Known
  <2>4. ASSUME v = u
        PROVE  \E e \in Entries : e.user = u /\ e.list = "Out" /\ e.ref.issue = id
    <3>1. Holds(lists[u]["Out"], id)
      BY <2>1, <2>3, <2>4 DEF SelfFromSent, Begins
    <3>2. "Out" \in Lists
      BY DEF Lists
    <3> QED
      BY <3>1, <3>2, HeldEntry
  <2>5. NewKnown("Assign.get", q, issues) /\ AssignKnown("Assign.get", q, Entries, issues)
    BY <2>2, <2>3, <2>4 DEF NewKnown, AssignKnown
  <2>6. /\ RefKnown("Assign.get", q, Entries) /\ EndKnown("Assign.get", q, Entries)
        /\ EditKnown("Assign.get", q)
    BY <2>3 DEF RefKnown, EndKnown, EditKnown
  <2> QED
    BY <2>1, <2>5, <2>6, Ready DEF Learnt, Sets
<1>5. ASSUME NEW u \in Users, NEW id \in Known, NEW kind \in {"Accept", "Bump"},
             NEW label \in {"Accept.get", "Bump.ref"}, NEW q,
             q = [[NoReq EXCEPT !.user = u, !.issue = id] EXCEPT !.kind = kind],
             Arrive(r, label, q, << >>)
      PROVE  Sets(r)
  <2>1. pc'[r] = label /\ req'[r] = q
    BY <1>1, <1>5 DEF Arrive
  <2>2. q.kind = kind
    BY <1>5 DEF NoReq
  <2>3. Learnt(label, q, Entries, issues)
    BY <2>2 DEF Learnt, NewKnown, RefKnown, EndKnown, AssignKnown, EditKnown
  <2> QED
    BY <2>1, <2>3, Ready DEF Sets
<1> QED
  BY <1>3, <1>4, <1>5 DEF BeginChange

LEMMA ListReady ==
    ASSUME Inv, Whole(Entries, issues), NEW r \in Requests, BeginList(r)
    PROVE  Sets(r)
<1>1. /\ \A label : Goto(r, label) => pc'[r] = label
      /\ \A q : req' = [req EXCEPT ![r] = q] => req'[r] = q
  BY ReqTyped
<1>2. PICK u \in Users :
        Arrive(r, "List.read", [NoReq EXCEPT !.kind = "List", !.user = u], << >>)
  BY DEF BeginList
<1>3. pc'[r] = "List.read" /\ req'[r] = [NoReq EXCEPT !.kind = "List", !.user = u]
  BY <1>1, <1>2 DEF Arrive
<1>4. req'[r].kind = "List"
  BY <1>3 DEF NoReq
<1>5. Learnt("List.read", req'[r], Entries, issues)
  BY <1>4 DEF Learnt, NewKnown, RefKnown, EndKnown, AssignKnown, EditKnown
<1> QED
  BY <1>3, <1>5, Ready DEF Sets

LEMMA BeginOnCourse ==
    ASSUME Inv, Courses, OneAtATime', OnlyShown, SelfFromSent, NEW r \in Requests, Begin(r)
    PROVE  Courses'
<1>1. /\ pc[r] = "idle" /\ \E label : pc' = [pc EXCEPT ![r] = label]
      /\ \E q : req' = [req EXCEPT ![r] = q]
  BY DEF Begin, BeginNew, BeginEnd, BeginChange, BeginList, Arrive, Goto
<1>2. Others(r)
  BY <1>1 DEF Inv, ReqInv, Others
<1>3. UNCHANGED <<lists, issues>> /\ AllUnique' /\ Entries' = Entries
  BY EntriesSame DEF Begin, Courses
<1>4. Whole(Entries, issues) => Sets(r)
  BY NewReady, EndReady, ChangeReady, ListReady DEF Begin
<1>5. Busy(r)'
  BY <1>1 DEF Inv, ReqInv, Begin, BeginNew, BeginEnd, BeginChange, BeginList, Arrive, Goto, Busy
<1>6. \A s \in Requests \ {r} : ~Busy(s)'
  BY <1>5 DEF OneAtATime
<1>7. \A s \in Requests \ {r} : ~Busy(s)
  BY <1>2, <1>6 DEF Busy, Others
<1>8. Quiet
  BY <1>1, <1>7 DEF Quiet, Busy
<1>9. (\E S : OnCourse(pc'[r], req'[r], S, Entries', issues')) /\ pc'[r] # "ok"
  BY <1>3, <1>4, <1>8 DEF Courses, Sets
<1>10. ~Quiet'
  BY <1>5 DEF Quiet, Busy
<1>11. (\A s \in Requests : Busy(s) => \E S : OnCourse(pc[s], req[s], S, Entries, issues))'
  BY <1>6, <1>9
<1>12. (\A s \in Requests : pc[s] = "ok" /\ req[s].kind \in Ending => req[s].got # Gone)'
  BY <1>2, <1>9 DEF Others, Courses
<1> QED
  BY <1>3, <1>10, <1>11, <1>12 DEF Courses

LEMMA InitOnCourse ==
    ASSUME Init
    PROVE  Courses
<1>1. \A u \in Users, l \in Lists : lists[u][l] = << >>
  BY DEF Init
<1>2. AllUnique
  BY <1>1 DEF AllUnique, IdsUnique
<1>3. Entries = {}
  BY <1>1 DEF Entries, EntryType
<1>4. Whole(Entries, issues)
  BY <1>3 DEF Whole, Init
<1> QED
  BY <1>2, <1>4 DEF Courses, Busy, Init

LEMMA NextOnCourse ==
    ASSUME Troubled \subseteq Reversible, MaxCrashes = 0,
           Inv, Courses, OneAtATime, OneAtATime', [RollbacksWork]_vars, [WebNext]_vars
    PROVE  Courses'
<1>1. CASE UNCHANGED vars
  <2>1. UNCHANGED <<lists, issues, pc, req>>
    BY <1>1 DEF vars
  <2>2. AllUnique' /\ Entries' = Entries
    BY <2>1, EntriesSame DEF Courses
  <2> QED
    BY <2>1, <2>2 DEF Courses, Quiet, Busy
<1>2. CASE WebNext /\ RollbacksWork
  <2>1. PICK r \in Requests : Begin(r) \/ Step(r) \/ Return(r) \/ Crash(r)
    BY <1>2 DEF WebNext, Next
  <2>2. OnlyShown /\ SelfFromSent
    BY <1>2 DEF WebNext
  <2>3. ~Crash(r)
    BY DEF Inv, StoreInv, Crash
  <2> QED
    BY <1>2, <2>1, <2>2, <2>3, BeginOnCourse, StepOnCourse, ReturnOnCourse
<1> QED
  BY <1>1, <1>2

-----------------------------------------------------------------------------
(* What entries and records that fit together mean for the lists.          *)

LEMMA WholeRecords ==
    ASSUME Inv, Whole(Entries, issues), NEW id \in IssueIds
    PROVE  Cardinality(Listings(id)) = (IF issues[id] = Gone THEN 0 ELSE 1)
<1>1. \A u \in Users, l \in Lists : Holds(lists[u][l], id) <=>
        \E e \in Entries : e.user = u /\ e.list = l /\ e.ref.issue = id
  BY HeldEntry
<1>2. CASE issues[id] = Gone
  <2>1. Listings(id) = {}
    BY <1>1, <1>2 DEF Listings, Whole
  <2> QED
    BY <1>2, <2>1, FS_EmptySet
<1>3. CASE issues[id] # Gone
  <2>1. PICK e \in Entries : e.ref.issue = id
    BY <1>3 DEF Whole
  <2>2. e.user \in Users /\ e.list \in Lists
    BY EntryIs
  <2>3. \A u \in Users, l \in Lists : Holds(lists[u][l], id) <=> u = e.user /\ l = e.list
    BY <1>1, <2>1 DEF Whole
  <2>4. Listings(id) = {<<e.user, e.list>>}
    BY <2>2, <2>3 DEF Listings
  <2> QED
    BY <1>3, <2>4, FS_Singleton
<1> QED
  BY <1>2, <1>3

(* A reference in a list is an entry.                                      *)
LEMMA ListedEntry ==
    ASSUME Inv, NEW u \in Users, NEW l \in Lists, NEW i \in 1..Len(lists[u][l])
    PROVE  /\ Entry(u, l, lists[u][l][i]) \in Entries
           /\ lists[u][l][i] \in Ref
BY ListEntries

LEMMA WholeLinks ==
    ASSUME Inv, Whole(Entries, issues),
           NEW u \in Users, NEW l \in Lists, NEW i \in 1..Len(lists[u][l]),
           NEW ref, ref = lists[u][l][i],
           NEW back, back = [issue |-> ref.fissue, fuser |-> u, fissue |-> ref.issue]
    PROVE  /\ issues[ref.issue] # Gone
           /\ ref.fuser = NoUser => l = "My"
           /\ ref.fuser # NoUser =>
                /\ \E m \in IF l = "Out" THEN {"My", "In"} ELSE {"Out"} :
                      \E j \in 1..Len(lists[ref.fuser][m]) : lists[ref.fuser][m][j] = back
                /\ issues[ref.fissue] = issues[ref.issue]
<1> DEFINE e == Entry(u, l, ref)
<1>1. e \in Entries /\ ref \in Ref
  BY ListedEntry
<1>2. e.user = u /\ e.list = l /\ e.ref = ref
  BY EntryFields
<1> HIDE DEF e
<1>3. issues[ref.issue] # Gone /\ Matched(e, Entries, issues)
  BY <1>1, <1>2 DEF Whole
<1>4. ref.fuser = NoUser => l = "My"
  BY <1>2, <1>3 DEF Matched
<1>5. ASSUME ref.fuser # NoUser
      PROVE  /\ \E m \in IF l = "Out" THEN {"My", "In"} ELSE {"Out"} :
                   \E j \in 1..Len(lists[ref.fuser][m]) : lists[ref.fuser][m][j] = back
             /\ issues[ref.fissue] = issues[ref.issue]
  <2>1. PICK f \in Entries : Ends(e, f) /\ issues[f.ref.issue] = issues[e.ref.issue]
    BY <1>2, <1>3, <1>5 DEF Matched
  <2>2. /\ f.user = ref.fuser /\ f.ref.issue = ref.fissue /\ f.ref.fuser = u
        /\ f.ref.fissue = ref.issue /\ (l = "Out" <=> f.list # "Out")
    BY <1>2, <2>1 DEF Ends
  <2>3. /\ f.list \in Lists /\ f.ref \in Ref
        /\ \E j \in 1..Len(lists[f.user][f.list]) : lists[f.user][f.list][j] = f.ref
    BY EntryIs DEF Entries
  <2>4. f.ref = back
    BY <2>2, <2>3 DEF Ref
  <2>5. f.list \in IF l = "Out" THEN {"My", "In"} ELSE {"Out"}
    BY <2>2, <2>3 DEF Lists
  <2> QED
    BY <1>2, <2>1, <2>2, <2>3, <2>4, <2>5
<1> QED
  BY <1>3, <1>4, <1>5

LEMMA WholeReceivers ==
    ASSUME Inv, Whole(Entries, issues), NEW u \in Users, NEW id \in IssueIds
    PROVE  Cardinality(Receivers(u, id)) <= 1
<1>1. ASSUME NEW v \in Receivers(u, id)
      PROVE  \E f \in Entries : f.user = u /\ f.ref.issue = id /\ f.ref.fuser = v
  <2>1. v \in Users
    BY <1>1 DEF Receivers
  <2>2. PICK m \in Lists : \E i \in 1..Len(lists[v][m]) :
          lists[v][m][i].fuser = u /\ lists[v][m][i].fissue = id
    BY <1>1 DEF Receivers, Lists
  <2> PICK i \in 1..Len(lists[v][m]) :
          lists[v][m][i].fuser = u /\ lists[v][m][i].fissue = id
    BY <2>2
  <2> DEFINE e == Entry(v, m, lists[v][m][i])
  <2>3. e \in Entries
    BY <2>1, <2>2, ListedEntry
  <2>4. e.user = v /\ e.ref.fuser = u /\ e.ref.fissue = id /\ u # NoUser
    BY EntryFields, SentinelAssumption
  <2> HIDE DEF e
  <2>5. PICK f \in Entries : Ends(e, f)
    BY <2>3, <2>4 DEF Whole, Matched
  <2> QED
    BY <2>4, <2>5 DEF Ends
<1>2. \A v, w \in Receivers(u, id) : v = w
  <2> TAKE v, w \in Receivers(u, id)
  <2>1. PICK f \in Entries : f.user = u /\ f.ref.issue = id /\ f.ref.fuser = v
    BY <1>1
  <2>2. PICK g \in Entries : g.user = u /\ g.ref.issue = id /\ g.ref.fuser = w
    BY <1>1
  <2> QED
    BY <2>1, <2>2 DEF Whole
<1>3. CASE Receivers(u, id) = {}
  BY <1>3, FS_EmptySet
<1>4. CASE Receivers(u, id) # {}
  <2>1. PICK v : v \in Receivers(u, id)
    BY <1>4
  <2>2. Receivers(u, id) = {v}
    BY <1>2, <2>1
  <2> QED
    BY <2>2, FS_Singleton
<1> QED
  BY <1>3, <1>4

LEMMA CoursesSuffice ==
    ASSUME Inv, Courses
    PROVE  /\ RecordsMatchLists /\ Linked /\ CopiesAgree
           /\ NothingDangles /\ OneReceiver /\ EndedTodoIsReturned
<1>1. RecordsMatchLists
  BY WholeRecords DEF Courses, RecordsMatchLists
<1>2. Linked
  BY WholeLinks DEF Courses, Linked
<1>3. ASSUME Quiet, NEW u \in Users, NEW l \in Lists, NEW i \in 1..Len(lists[u][l])
      PROVE  /\ issues[lists[u][l][i].issue] # Gone
             /\ lists[u][l][i].fuser # NoUser =>
                  issues[lists[u][l][i].fissue] = issues[lists[u][l][i].issue]
  <2>1. PICK ref, back : /\ ref = lists[u][l][i]
                         /\ back = [issue |-> ref.fissue, fuser |-> u, fissue |-> ref.issue]
    OBVIOUS
  <2>2. /\ issues[ref.issue] # Gone
        /\ ref.fuser # NoUser => issues[ref.fissue] = issues[ref.issue]
    BY <1>3, <2>1, WholeLinks DEF Courses
  <2> QED
    BY <2>1, <2>2
<1>4. CopiesAgree /\ NothingDangles
  BY <1>3 DEF CopiesAgree, NothingDangles
<1>5. OneReceiver
  BY WholeReceivers DEF Courses, OneReceiver
<1>6. EndedTodoIsReturned
  BY DEF Courses, EndedTodoIsReturned, Ending
<1> QED
  BY <1>1, <1>2, <1>4, <1>5, <1>6

-----------------------------------------------------------------------------
(* A call that undoes something follows one that has failed.               *)

Spent == \A r \in Requests : pc[r] \in Undoing => faults >= 1

LEMMA OneFaultUndone ==
    ASSUME Troubled \subseteq Reversible, MaxCrashes = 0, MaxFaults <= 1,
           Inv, Courses, Spent, OneAtATime, [WebNext]_vars
    PROVE  [RollbacksWork]_vars /\ Spent'
<1>1. faults \in Nat /\ faults' \in Nat /\ faults <= MaxFaults /\ Inv'
  <2>1. [Next]_vars
    BY DEF WebNext
  <2>2. Inv'
    BY <2>1, NextKeeps
  <2> QED
    BY <2>2, BoundsAssumption DEF Inv, StoreInv
<1>2. CASE UNCHANGED vars
  BY <1>2 DEF vars, Spent
<1>3. ASSUME NEW r \in Requests, Begin(r) \/ Return(r)
      PROVE  RollbacksWork /\ Spent'
  <2>1. pc[r] \in {"idle", "ok", "err"} /\ faults' = faults
    BY <1>3 DEF Begin, BeginNew, BeginEnd, BeginChange, BeginList, Arrive, Return
  <2>2. \E label \in {"idle", "Add.save", "Send.save", "End.find", "End.pop", "Edit.get",
                       "Assign.get", "Accept.get", "Bump.ref", "List.read"} : Goto(r, label)
    BY <1>3 DEF Begin, BeginNew, BeginEnd, BeginChange, BeginList, Arrive, Return
  <2>3. pc[r] \notin Undoing /\ pc'[r] \notin Undoing
        /\ \A s \in Requests \ {r} : pc'[s] = pc[s]
    BY <2>1, <2>2 DEF Inv, ReqInv, Goto, Undoing
  <2> QED
    BY <2>1, <2>3 DEF RollbacksWork, Spent
<1>4. ASSUME NEW r \in Requests, Step(r)
      PROVE  RollbacksWork /\ Spent'
  <2>1. Busy(r) /\ Others(r)
    BY <1>4, StepIsBusy, StepAlone
  <2>2. faults' = faults \/ Trouble(r)
    BY <1>4, StepSpends
  <2>3. pc[r] \in Undoing => ~Trouble(r)
    BY <1>1, BoundsAssumption DEF Spent, Trouble
  <2>4. pc'[r] \in Undoing => pc[r] \in Undoing \/ Trouble(r)
    <3>1. PICK S : OnCourse(pc[r], req[r], S, Entries, issues)
      BY <2>1 DEF Courses
    <3>2. Goes(r, S)
      BY <1>4, <2>3, <3>1, StepGoes DEF Courses, Serving
    <3> QED
      BY <3>2 DEF Goes
  <2>5. faults' >= faults /\ (Trouble(r) => faults' >= 1)
    BY <1>1, <2>2 DEF Trouble
  <2>6. RollbacksWork
    BY <2>1, <2>2, <2>3 DEF RollbacksWork, Others
  <2>7. ASSUME NEW s \in Requests, pc'[s] \in Undoing
        PROVE  faults' >= 1
    <3>1. CASE s = r
      BY <1>1, <2>4, <2>5, <2>7, <3>1 DEF Spent
    <3>2. CASE s # r
      BY <1>1, <2>1, <2>5, <2>7, <3>2 DEF Spent, Others
    <3> QED
      BY <3>1, <3>2
  <2> QED
    BY <2>6, <2>7 DEF Spent
<1>5. \A r \in Requests : ~Crash(r)
  BY DEF Inv, StoreInv, Crash
<1> QED
  BY <1>2, <1>3, <1>4, <1>5 DEF WebNext, Next

-----------------------------------------------------------------------------
(* What users see, between requests and when one is done.                  *)

(* The todos that are visible are those of entries and records.            *)
LEMMA VisibleIsSeen ==
    ASSUME Inv, Whole(Entries, issues)
    PROVE  Visible = SeenIn(Entries, issues)
<1>1. ASSUME NEW u \in Users, NEW l \in {"My", "Out"}, NEW ref, Entry(u, l, ref) \in Entries
      PROVE  TodoOf(u, l, ref) = AsTodo(Entry(u, l, ref), Entries, issues)
  <2> DEFINE e == Entry(u, l, ref)
  <2>1. e.user = u /\ e.list = l /\ e.ref = ref
    BY EntryFields
  <2> HIDE DEF e
  <2>2. e \in Entries
    BY <1>1 DEF e
  <2>3. e.ref \in Ref
    BY <2>2, EntryIs
  <2>4. l = "Out" => (Holds(lists[ref.fuser].In, ref.fissue) <=> Waits(e, Entries))
    <3>1. SUFFICES ASSUME l = "Out"
                   PROVE  Holds(lists[ref.fuser].In, ref.fissue) <=> Waits(e, Entries)
      OBVIOUS
    <3>2. ref.fuser \in Users
      BY <2>1, <2>2, <2>3, <3>1 DEF Whole, Matched, Ref
    <3>3. "In" \in Lists
      BY DEF Lists
    <3>4. Holds(lists[ref.fuser].In, ref.fissue) <=>
            \E f \in Entries : f.user = ref.fuser /\ f.list = "In" /\ f.ref.issue = ref.fissue
      BY <3>2, <3>3, HeldEntry
    <3> QED
      BY <2>1, <3>4 DEF Waits
  <2>5. CASE l = "My"
    BY <2>1, <2>5 DEF TodoOf, AsTodo, e
  <2>6. CASE l = "Out"
    BY <2>1, <2>4, <2>6 DEF TodoOf, AsTodo, e
  <2> QED
    BY <2>5, <2>6
<1>2. ASSUME NEW t \in Visible PROVE t \in SeenIn(Entries, issues)
  <2>1. PICK u \in Users, l \in {"My", "Out"} :
          t \in {TodoOf(u, l, lists[u][l][i]) : i \in Authored(u, l)}
    BY <1>2 DEF Visible
  <2>2. PICK i \in Authored(u, l) : t = TodoOf(u, l, lists[u][l][i])
    BY <2>1
  <2> DEFINE e == Entry(u, l, lists[u][l][i])
  <2>3. i \in 1..Len(lists[u][l]) /\ (l = "Out" \/ lists[u][l][i].fuser = NoUser) /\ l \in Lists
    BY DEF Authored, Lists
  <2>4. e \in Entries
    BY <2>3, ListedEntry
  <2>5. ByAuthor(e)
    BY <2>3, EntryFields DEF ByAuthor
  <2>6. t = AsTodo(e, Entries, issues)
    BY <1>1, <2>2, <2>4
  <2> QED
    BY <2>4, <2>5, <2>6 DEF SeenIn
<1>3. ASSUME NEW t \in SeenIn(Entries, issues) PROVE t \in Visible
  <2>1. PICK e \in Entries : ByAuthor(e) /\ t = AsTodo(e, Entries, issues)
    BY <1>3 DEF SeenIn
  <2>2. /\ e.user \in Users /\ e.list \in Lists /\ e = Entry(e.user, e.list, e.ref)
        /\ \E i \in 1..Len(lists[e.user][e.list]) : lists[e.user][e.list][i] = e.ref
    BY EntryIs DEF Entries
  <2>3. PICK i \in 1..Len(lists[e.user][e.list]) : lists[e.user][e.list][i] = e.ref
    BY <2>2
  <2>4. e.list \in {"My", "Out"}
    BY <2>1, <2>2 DEF ByAuthor, Whole, Matched
  <2>5. i \in Authored(e.user, e.list)
    BY <2>1, <2>3 DEF Authored, ByAuthor
  <2>6. t = TodoOf(e.user, e.list, lists[e.user][e.list][i])
    BY <1>1, <2>1, <2>2, <2>3, <2>4
  <2> DEFINE Y == {TodoOf(e.user, e.list, lists[e.user][e.list][j]) : j \in Authored(e.user, e.list)}
             X == {{TodoOf(u, l, lists[u][l][j]) : j \in Authored(u, l)} : u \in Users, l \in {"My", "Out"}}
  <2>7. t \in Y
    BY <2>5, <2>6
  <2>8. Y \in X
    BY <2>2, <2>4
  <2>9. Visible = UNION X
    BY DEF Visible
  <2> HIDE DEF X, Y
  <2> QED
    BY <2>7, <2>8, <2>9
<1> QED
  BY <1>2, <1>3

Sight == Quiet => Visible = SeenIn(Entries, issues)

(* What was seen last is what is seen, or where the request that is served *)
(* set out from.                                                           *)
Following ==
    /\ Quiet => shown = Visible
    /\ \A r \in Requests : Busy(r) => OnCourse(pc[r], req[r], shown, Entries, issues)

LEMMA VisibleSame ==
    ASSUME UNCHANGED <<lists, issues>>
    PROVE  Visible' = Visible
BY DEF Visible, TodoOf, Authored

LEMMA SeenInitially ==
    ASSUME SeenInit
    PROVE  Inv /\ Courses /\ Following
<1>1. Inv /\ Courses
  BY InitEstablishes, InitOnCourse DEF SeenInit
<1>2. Entries = {} /\ Quiet
  BY DEF SeenInit, Init, Entries, EntryType, Quiet
<1>3. Visible = SeenIn(Entries, issues)
  BY <1>1, <1>2, VisibleIsSeen DEF Courses
<1>4. SeenIn(Entries, issues) = {}
  BY <1>2 DEF SeenIn
<1>5. shown = Visible
  BY <1>3, <1>4 DEF SeenInit
<1>6. \A r \in Requests : ~Busy(r)
  BY <1>2 DEF Quiet, Busy
<1> QED
  BY <1>1, <1>5, <1>6 DEF Following

LEMMA BeginSeen ==
    ASSUME Inv, Courses, Sight, Following, OneAtATime', OnlyShown, SelfFromSent,
           shown' = IF Quiet' THEN Visible' ELSE shown, NEW r \in Requests, Begin(r)
    PROVE  Following' /\ shown' = shown
<1>1. /\ pc[r] = "idle" /\ \E label : pc' = [pc EXCEPT ![r] = label]
      /\ \E q : req' = [req EXCEPT ![r] = q]
  BY DEF Begin, BeginNew, BeginEnd, BeginChange, BeginList, Arrive, Goto
<1>2. Others(r)
  BY <1>1 DEF Inv, ReqInv, Others
<1>3. UNCHANGED <<lists, issues>> /\ Entries' = Entries
  BY EntriesSame DEF Begin, Courses
<1>4. Busy(r)'
  BY <1>1 DEF Inv, ReqInv, Begin, BeginNew, BeginEnd, BeginChange, BeginList, Arrive, Goto, Busy
<1>5. \A s \in Requests \ {r} : ~Busy(s)' /\ ~Busy(s)
  BY <1>2, <1>4 DEF OneAtATime, Busy, Others
<1>6. Quiet /\ ~Quiet'
  BY <1>1, <1>4, <1>5 DEF Quiet, Busy
<1>7. Sets(r)
  BY <1>6, NewReady, EndReady, ChangeReady, ListReady DEF Begin, Courses
<1>8. OnCourse(pc'[r], req'[r], shown', Entries', issues') /\ shown' = shown
  BY <1>3, <1>6, <1>7 DEF Sets, Sight, Following
<1>9. (\A s \in Requests : Busy(s) => OnCourse(pc[s], req[s], shown, Entries, issues))'
  BY <1>5, <1>8
<1> QED
  BY <1>6, <1>8, <1>9 DEF Following

LEMMA StepSeen ==
    ASSUME Inv, Courses, Sight', Following, OneAtATime, RollbacksWork, Troubled \subseteq Reversible,
           shown' = IF Quiet' THEN Visible' ELSE shown, NEW r \in Requests, Step(r)
    PROVE  Following' /\ Turns(shown, shown')
<1>1. Busy(r) /\ Others(r)
  BY StepIsBusy, StepAlone
<1>2. \A s \in Requests \ {r} : ~Busy(s) /\ ~Busy(s)'
  BY <1>1 DEF OneAtATime, Others, Busy
<1>3. Goes(r, shown)
  <2>1. OnCourse(pc[r], req[r], shown, Entries, issues)
    BY <1>1 DEF Following
  <2> QED
    BY <2>1, UndoneForSure, StepGoes DEF Courses, Serving
<1>4. PICK T : /\ Turns(shown, T)
               /\ T = shown \/ pc'[r] \in {"ok", "err"}
               /\ OnCourse(pc'[r], req'[r], T, Entries', issues')
  BY <1>3 DEF Goes
<1>5. CASE Quiet'
  <2>1. pc'[r] \in {"idle", "ok", "err"}
    BY <1>5 DEF Quiet
  <2>2. T = SeenIn(Entries', issues')
    BY <1>4, <2>1, WayDone
  <2>3. shown' = T /\ shown' = Visible'
    BY <1>5, <2>2 DEF Sight
  <2>4. \A s \in Requests : ~Busy(s)'
    BY <1>5 DEF Quiet, Busy
  <2> QED
    BY <1>4, <2>3, <2>4 DEF Following
<1>6. CASE ~Quiet'
  <2>1. pc'[r] \notin {"ok", "err"}
    BY <1>2, <1>6 DEF Quiet, Busy
  <2>2. T = shown /\ shown' = shown
    BY <1>4, <1>6, <2>1
  <2>3. (\A s \in Requests : Busy(s) => OnCourse(pc[s], req[s], shown, Entries, issues))'
    BY <1>2, <1>4, <2>2
  <2> QED
    BY <1>4, <1>6, <2>2, <2>3 DEF Following
<1> QED
  BY <1>5, <1>6

LEMMA ReturnSeen ==
    ASSUME Inv, Courses, Following, shown' = IF Quiet' THEN Visible' ELSE shown,
           NEW r \in Requests, Return(r)
    PROVE  Following' /\ shown' = shown
<1>1. /\ pc[r] \in {"ok", "err"} /\ pc'[r] = "idle"
      /\ \A s \in Requests \ {r} : pc'[s] = pc[s] /\ req'[s] = req[s]
  BY DEF Inv, ReqInv, Return, Goto
<1>2. UNCHANGED <<lists, issues>>
  BY DEF Return
<1>3. Entries' = Entries /\ Visible' = Visible
  BY <1>2, EntriesSame, VisibleSame DEF Courses
<1>4. Quiet' => Quiet
  BY <1>1 DEF Quiet
<1>5. shown' = shown /\ (Quiet => shown = Visible)'
  BY <1>3, <1>4 DEF Following
<1>6. ASSUME NEW s \in Requests, Busy(s)'
      PROVE  OnCourse(pc'[s], req'[s], shown', Entries', issues')
  <2>1. s # r
    BY <1>1, <1>6 DEF Busy
  <2>2. pc'[s] = pc[s] /\ req'[s] = req[s]
    BY <1>1, <2>1
  <2> QED
    BY <1>2, <1>3, <1>5, <1>6, <2>2 DEF Following, Busy
<1> QED
  BY <1>5, <1>6 DEF Following

LEMMA NextSeen ==
    ASSUME Troubled \subseteq Reversible, MaxCrashes = 0, Inv, Courses, Sight, Sight', Following,
           OneAtATime, OneAtATime', [RollbacksWork]_vars, [SeenNext]_<<vars, shown>>
    PROVE  Following' /\ Turns(shown, shown')
<1>1. Turns(shown, shown)
  BY DEF Turns
<1>2. CASE UNCHANGED <<vars, shown>>
  <2>1. UNCHANGED <<lists, issues, pc, req, shown>>
    BY <1>2 DEF vars
  <2>2. Entries' = Entries /\ Visible' = Visible
    BY <2>1, EntriesSame, VisibleSame DEF Courses
  <2> QED
    BY <1>1, <2>1, <2>2 DEF Following, Quiet, Busy
<1>3. CASE SeenNext /\ UNCHANGED vars
  <2>1. UNCHANGED <<lists, issues, pc, req>>
    BY <1>3 DEF vars
  <2>2. Entries' = Entries /\ Visible' = Visible
    BY <2>1, EntriesSame, VisibleSame DEF Courses
  <2>3. (Quiet' <=> Quiet) /\ \A r \in Requests : Busy(r)' <=> Busy(r)
    BY <2>1 DEF Quiet, Busy
  <2>4. shown' = shown
    BY <1>3, <2>2, <2>3 DEF SeenNext, Following
  <2> QED
    BY <1>1, <2>1, <2>2, <2>3, <2>4 DEF Following
<1>4. CASE SeenNext /\ RollbacksWork
  <2>1. PICK r \in Requests : Begin(r) \/ Step(r) \/ Return(r) \/ Crash(r)
    BY <1>4 DEF SeenNext, WebNext, Next
  <2>2. OnlyShown /\ SelfFromSent /\ shown' = IF Quiet' THEN Visible' ELSE shown
    BY <1>4 DEF SeenNext, WebNext
  <2>3. ~Crash(r)
    BY DEF Inv, StoreInv, Crash
  <2>4. CASE Begin(r)
    BY <1>1, <2>2, <2>4, BeginSeen
  <2>5. CASE Step(r)
    BY <1>4, <2>2, <2>5, StepSeen
  <2>6. CASE Return(r)
    BY <1>1, <2>2, <2>6, ReturnSeen
  <2> QED
    BY <2>1, <2>3, <2>4, <2>5, <2>6
<1> QED
  BY <1>2, <1>3, <1>4

(* Whatever Turns allows is a step of SharedTodos, or none.                *)
LEMMA TurnsAreSteps ==
    ASSUME Turns(shown, shown')
    PROVE  [Shared!Next]_shown
<1>1. CASE \E id \in IssueIds, u \in Users, text \in Texts, v \in Users \cup {NoUser} :
             /\ v # u
             /\ \A t \in shown : t.id # id
             /\ shown' = shown \cup {[id |-> id, author |-> u, holder |-> v,
                            state |-> IF v = NoUser THEN "own" ELSE "pending", text |-> text]}
  BY <1>1, Zenon DEF Shared!Next, Shared!Create
<1>2. CASE \E t \in shown : shown' = shown \ {t}
  BY <1>2 DEF Shared!Next, Shared!End
<1>3. ASSUME NEW t \in shown, NEW new, shown' = (shown \ {t}) \cup {new},
             \/ \E text \in Texts : new = Edited(t, text)
             \/ t.state = "pending" /\ new = Accepted(t)
             \/ \E v \in Users : v # t.author /\ new = Passed(t, v)
             \/ t.state # "own" /\ new = TakenBack(t)
      PROVE  Shared!Next
  <2>1. CASE \E text \in Texts : new = Edited(t, text)
    BY <1>3, <2>1, Zenon DEF Edited, Shared!Next, Shared!Edit, Shared!Becomes
  <2>2. CASE t.state = "pending" /\ new = Accepted(t)
    BY <1>3, <2>2, Zenon DEF Accepted, Shared!Next, Shared!Accept, Shared!Becomes
  <2>3. CASE \E v \in Users : v # t.author /\ new = Passed(t, v)
    BY <1>3, <2>3, Zenon DEF Passed, Shared!Next, Shared!Reassign, Shared!Becomes
  <2>4. CASE t.state # "own" /\ new = TakenBack(t)
    BY <1>3, <2>4, Zenon DEF TakenBack, Shared!Next, Shared!TakeBack, Shared!Becomes
  <2> QED
    BY <1>3, <2>1, <2>2, <2>3, <2>4
<1> QED
  BY <1>1, <1>2, <1>3 DEF Turns

-----------------------------------------------------------------------------
(***************************************************************************)
(* What is left when an edit or an assignment fails half way, or its       *)
(* handler dies.                                                           *)
(***************************************************************************)

(* What an entry is tied to: a received todo to its author's entry, a sent *)
(* todo to its copy, if that is not lost.                                  *)
Tied(e, E) ==
    IF e.list = "Out"
    THEN e.ref.fuser # NoUser /\ \A f \in E : f.ref.issue = e.ref.fissue => Ends(e, f)
    ELSE IF e.ref.fuser = NoUser THEN e.list = "My" /\ e.ref.fissue = NoIssue
    ELSE \E f \in E : Ends(e, f)

(* Entries and records that may have lost something, but where what there  *)
(* is fits together.                                                       *)
Sound(E, I) ==
    /\ E \subseteq EntryType
    /\ I \in [IssueIds -> Texts \cup {Gone}]
    /\ \A e, f \in E : e.ref.issue = f.ref.issue => e = f
    /\ \A e \in E : I[e.ref.issue] # Gone
    /\ \A e \in E : Tied(e, E)

(* What does not fit for the time being: the copy of a todo that is being  *)
(* ended, and the own entry of one that is being accepted.                 *)
Loose(label, q, E) ==
    {e \in E : \/ /\ label \in {"End.take", "End.drop", "End.ffind", "End.funlist"}
                  /\ e.ref.issue = q.ref.fissue
               \/ /\ label = "Accept.in"
                  /\ e.user = q.user /\ e.list = "My" /\ e.ref.issue = q.issue}

Unused(id, E) == \A e \in E : e.ref.issue # id /\ e.ref.fissue # id

(* A reference to the new copy is in the sent list, and that is all there  *)
(* is of the copy but its record.                                          *)
Posted(q, E, I) ==
    /\ Entry(q.user, "Out", SentRef(q)) \in E
    /\ \A e \in E : e.ref.issue # q.twin
    /\ \A e \in E : e.ref.fissue = q.twin => e = Entry(q.user, "Out", SentRef(q))
    /\ I[q.twin] # Gone

(* At each label a request knows what its next calls rely on.              *)
AddAware(label, q, E, I) ==
    /\ label \in {"Add.save", "Add.list", "Add.undo"} =>
          /\ q.user \in Users /\ q.issue \in IssueIds /\ q.text \in Texts
          /\ Unused(q.issue, E)
    /\ label = "Add.list" => I[q.issue] # Gone

SendAware(label, q, E, I) ==
    /\ label \notin Undoing \ {"Add.undo"}
    /\ label \in {"Send.save", "Send.saveTwin", "Send.out", "Send.in"} =>
          /\ q.kind = "Send" /\ q.user \in Users /\ q.to \in Users \ {q.user}
          /\ q.issue \in IssueIds /\ q.twin \in IssueIds \ {q.issue} /\ q.text \in Texts
    /\ label \in {"Send.save", "Send.saveTwin", "Send.out"} =>
          Unused(q.issue, E) /\ Unused(q.twin, E)
    /\ label \in {"Send.saveTwin", "Send.out"} => I[q.issue] # Gone
    /\ label = "Send.out" => I[q.twin] # Gone
    /\ label = "Send.in" => Posted(q, E, I)

(* Where the copy of a todo that ends may still be.                        *)
FarAware(label, q, f) ==
    /\ f.user = q.ref.fuser
    /\ q.kind # "Remove" => f.list = "Out"
    /\ label = "End.ffind" => \A n \in 1..3 : n < q.look => SearchOrder[n] # f.list
    /\ label = "End.funlist" => f.list = FarList(q)

EndAware(label, q, E) ==
    LET Ended == {"End.take", "End.drop", "End.ffind", "End.funlist", "End.ftake", "End.fdrop"}
    IN  /\ label \in {"End.find", "End.pop", "End.unlist"} \cup Ended => q.kind \in Ending
        /\ label = "End.find" =>
              /\ q.kind \in {"Complete", "Remove"}
              /\ q.kind = "Complete" =>
                    \A e \in E : e.user = q.user /\ e.ref.issue = q.issue => e.list # "Out"
        /\ label = "End.pop" => q.kind = "Pop" /\ q.list = "My" /\ q.look = 1
        /\ label = "End.unlist" =>
              /\ Entry(q.user, q.list, q.ref) \in E /\ q.ref.issue = q.issue
              /\ q.kind # "Remove" => q.list # "Out"
        /\ label \in {"End.unlist", "End.take", "End.drop"} => q.look = 1
        /\ label \in {"End.take", "End.drop"} => \A e \in E : e.ref.issue # q.issue
        /\ label = "End.ffind" => q.kind = "Remove" /\ q.ref.fuser \in Users
        /\ label = "End.funlist" => q.ref.fuser \in Users
        /\ label \in {"End.take", "End.drop", "End.ffind", "End.funlist"} =>
              /\ \A f \in E : f.ref.issue = q.ref.fissue => FarAware(label, q, f)
              /\ \A f, g \in E : f.ref.issue = g.ref.issue => f = g
        /\ label \in {"End.ftake", "End.fdrop"} => \A e \in E : e.ref.issue # q.ref.fissue

AcceptAware(label, q, E) ==
    /\ label \in {"Accept.get", "Accept.ref", "Accept.my", "Accept.in"} =>
          q.kind = "Accept" /\ q.user \in Users
    /\ label \in {"Accept.my", "Accept.in"} => Entry(q.user, "In", q.ref) \in E /\ q.ref.issue = q.issue
    /\ label = "Accept.in" =>
          /\ Entry(q.user, "My", q.ref) \in E
          /\ \A e \in E : e.ref.issue = q.issue =>
                e \in {Entry(q.user, "In", q.ref), Entry(q.user, "My", q.ref)}

EditAware(label, q) ==
    label \in {"Edit.get", "Edit.find", "Edit.found", "Edit.fget", "Edit.fsave", "Edit.save"} =>
        q.text \in Texts

AssignAware(label, q, E, I) ==
    LET Finding == {"Assign.get", "Assign.find"}
        Taking == {"Assign.found", "Assign.ffind", "Assign.funlist", "Assign.ftake",
                   "Assign.fdrop", "Assign.unlist"}
        Giving == {"Assign.my", "Assign.save", "Assign.out"}
    IN  /\ label \in Finding \cup Taking \cup Giving \cup {"Assign.in"} =>
              /\ q.user \in Users /\ q.to \in Users
              /\ q.issue \in IssueIds /\ q.twin \in IssueIds \ {q.issue}
        /\ label \in Finding \cup Taking \cup Giving => Unused(q.twin, E)
        /\ label \in {"Assign.find"} \cup Taking \cup Giving \cup {"Assign.in"} => q.text \in Texts
        /\ label \in Finding /\ q.to = q.user =>
              \E e \in E : e.user = q.user /\ e.list = "Out" /\ e.ref.issue = q.issue
        /\ label \in Taking =>
              /\ Entry(q.user, q.list, q.ref) \in E /\ q.ref.issue = q.issue
              /\ q.to = q.user => q.list = "Out"
        /\ label \in {"Assign.ffind", "Assign.funlist", "Assign.ftake", "Assign.fdrop"} =>
              q.list = "Out" /\ q.ref.fuser \in Users
        /\ label \in {"Assign.ftake", "Assign.fdrop"} => \A e \in E : e.ref.issue # q.ref.fissue
        /\ label \in {"Assign.ftake", "Assign.fdrop", "Assign.unlist"} =>
              \A e \in E : e.ref.fissue # q.issue
        /\ label \in Giving => Unused(q.issue, E) /\ I[q.issue] # Gone
        /\ label = "Assign.my" => q.to = q.user
        /\ label \in {"Assign.save", "Assign.out", "Assign.in"} => q.to # q.user
        /\ label = "Assign.out" => I[q.twin] # Gone
        /\ label = "Assign.in" => Posted(q, E, I)

Aware(label, q, E, I) ==
    /\ Sound(E \ Loose(label, q, E), I)
    /\ AddAware(label, q, E, I) /\ SendAware(label, q, E, I) /\ EndAware(label, q, E)
    /\ AcceptAware(label, q, E) /\ EditAware(label, q) /\ AssignAware(label, q, E, I)

(* What there is between requests fits together, and the request that is   *)
(* served knows what it relies on.                                         *)
Tracks ==
    /\ AllUnique
    /\ Quiet => Sound(Entries, issues)
    /\ \A r \in Requests : Busy(r) => Aware(pc[r], req[r], Entries, issues)

-----------------------------------------------------------------------------
(* What keeps the rest sound.                                              *)

LEMMA NothingLoose ==
    ASSUME NEW label, NEW q, NEW E,
           label \notin {"End.take", "End.drop", "End.ffind", "End.funlist", "Accept.in"}
    PROVE  E \ Loose(label, q, E) = E
BY DEF Loose

LEMMA SoundRecords ==
    ASSUME NEW E, NEW I, Sound(E, I), NEW J \in [IssueIds -> Texts \cup {Gone}],
           \A e \in E : J[e.ref.issue] # Gone
    PROVE  Sound(E, J)
BY DEF Sound

LEMMA SoundPut ==
    ASSUME NEW E, NEW I, Sound(E, I), NEW id, NEW text \in Texts
    PROVE  Sound(E, Put(I, id, text))
<1>1. /\ I \in [IssueIds -> Texts \cup {Gone}]
      /\ \A e \in E : e.ref.issue \in IssueIds /\ I[e.ref.issue] # Gone
  BY DEF Sound, EntryType, Ref
<1>2. /\ Put(I, id, text) \in [IssueIds -> Texts \cup {Gone}]
      /\ \A e \in E : Put(I, id, text)[e.ref.issue] # Gone
  BY <1>1, SentinelAssumption DEF Put
<1> QED
  BY <1>2, SoundRecords

(* The record of a todo that is in no list may go.                         *)
LEMMA SoundDrop ==
    ASSUME NEW E, NEW I, Sound(E, I), NEW id, \A e \in E : e.ref.issue # id
    PROVE  Sound(E, Put(I, id, Gone))
<1>1. /\ I \in [IssueIds -> Texts \cup {Gone}]
      /\ \A e \in E : e.ref.issue \in IssueIds /\ I[e.ref.issue] # Gone
  BY DEF Sound, EntryType, Ref
<1>2. /\ Put(I, id, Gone) \in [IssueIds -> Texts \cup {Gone}]
      /\ \A e \in E : Put(I, id, Gone)[e.ref.issue] # Gone
  BY <1>1 DEF Put
<1> QED
  BY <1>2, SoundRecords

(* Todos may leave the lists to whose entries no received todo is tied.    *)
LEMMA SoundWithout ==
    ASSUME NEW E, NEW I, Sound(E, I), NEW D,
           NEW F, F = {e \in E : e.ref.issue \notin D},
           \A e \in F : e.list # "Out" /\ e.ref.fuser # NoUser => e.ref.fissue \notin D
    PROVE  Sound(F, I)
<1>1. ASSUME NEW e \in F PROVE Tied(e, F)
  <2>1. e \in E /\ Tied(e, E)
    BY DEF Sound
  <2>2. CASE e.list = "Out" \/ e.ref.fuser = NoUser
    BY <2>1, <2>2 DEF Tied
  <2>3. CASE e.list # "Out" /\ e.ref.fuser # NoUser
    <3>1. PICK f \in E : Ends(e, f)
      BY <2>1, <2>3 DEF Tied
    <3>2. f.ref.issue = e.ref.fissue
      BY <3>1 DEF Ends
    <3>3. f \in F
      BY <2>3, <3>2
    <3> QED
      BY <2>3, <3>1, <3>3 DEF Tied
  <2> QED
    BY <2>2, <2>3
<1> QED
  BY <1>1 DEF Sound

(* A received todo is tied to the only entry with the id of its other end. *)
LEMMA TiedTo ==
    ASSUME NEW E, NEW I, Sound(E, I), NEW e \in E, NEW f \in E, f.ref.issue = e.ref.fissue
    PROVE  Ends(e, f) /\ e.ref.fuser \in Users
<1>1. Tied(e, E) /\ f.ref.issue \in IssueIds /\ f.user \in Users
  BY DEF Sound, EntryType, Ref
<1>2. Ends(e, f)
  <2>1. CASE e.list = "Out"
    BY <1>1, <2>1 DEF Tied
  <2>2. CASE e.list # "Out"
    <3>1. e.ref.fuser # NoUser
      BY <1>1, <2>2 DEF Tied, IssueIds, NoIssue
    <3>2. PICK g \in E : Ends(e, g)
      BY <1>1, <2>2, <3>1 DEF Tied
    <3>3. g = f
      BY <3>2 DEF Ends, Sound
    <3> QED
      BY <3>2, <3>3
  <2> QED
    BY <2>1, <2>2
<1> QED
  BY <1>1, <1>2 DEF Ends

(* Without a todo and its copy.                                            *)
LEMMA SoundEnding ==
    ASSUME NEW E, NEW I, Sound(E, I), NEW e \in E,
           NEW F, F = {f \in E : f.ref.issue \notin {e.ref.issue, e.ref.fissue}}
    PROVE  Sound(F, I)
<1>1. ASSUME NEW f \in F, f.list # "Out", f.ref.fuser # NoUser,
             f.ref.fissue \in {e.ref.issue, e.ref.fissue}
      PROVE  FALSE
  <2>1. f \in E /\ Tied(f, E)
    BY DEF Sound
  <2>2. PICK g \in E : Ends(f, g)
    BY <1>1, <2>1 DEF Tied
  <2>3. g.ref.issue = f.ref.fissue /\ g.ref.fissue = f.ref.issue /\ g.list = "Out"
    BY <1>1, <2>2 DEF Ends
  <2>4. CASE f.ref.fissue = e.ref.issue
    <3>1. g = e
      BY <2>3, <2>4 DEF Sound
    <3> QED
      BY <2>3, <3>1
  <2>5. CASE f.ref.fissue = e.ref.fissue
    <3>1. Ends(e, g)
      BY <2>3, <2>5, TiedTo
    <3>2. f.ref.issue = e.ref.issue
      BY <2>3, <3>1 DEF Ends
    <3> QED
      BY <3>2
  <2> QED
    BY <1>1, <2>4, <2>5
<1> QED
  BY <1>1, SoundWithout

(* A sent todo without its copy.                                           *)
LEMMA SoundTakenBack ==
    ASSUME NEW E, NEW I, Sound(E, I), NEW e \in E, e.list = "Out",
           NEW F, F = {f \in E : f.ref.issue # e.ref.fissue}
    PROVE  /\ Sound(F, I) /\ e \in F
           /\ \A f \in F : f.ref.fissue # e.ref.issue
<1>1. ASSUME NEW f \in E, f.ref.fissue = e.ref.fissue, f.list # "Out", f.ref.fuser # NoUser
      PROVE  FALSE
  <2>1. PICK g \in E : Ends(f, g)
    BY <1>1 DEF Sound, Tied
  <2>2. g.ref.issue = e.ref.fissue /\ g.list = "Out"
    BY <1>1, <2>1 DEF Ends
  <2>3. Ends(e, g)
    BY <2>2, TiedTo
  <2> QED
    BY <2>2, <2>3 DEF Ends
<1>2. Sound(F, I)
  <2> DEFINE D == {e.ref.fissue}
  <2>1. F = {f \in E : f.ref.issue \notin D}
    OBVIOUS
  <2>2. \A f \in F : f.list # "Out" /\ f.ref.fuser # NoUser => f.ref.fissue \notin D
    BY <1>1
  <2> HIDE DEF D
  <2> QED
    BY <2>1, <2>2, SoundWithout
<1>3. e \in F
  <2>1. SUFFICES ASSUME e.ref.issue = e.ref.fissue PROVE FALSE
    OBVIOUS
  <2>2. Ends(e, e)
    BY <2>1, TiedTo
  <2> QED
    BY <2>2 DEF Ends
<1>4. ASSUME NEW f \in F, f.ref.fissue = e.ref.issue PROVE FALSE
  <2>1. Ends(f, e)
    BY <1>4, TiedTo
  <2> QED
    BY <1>4, <2>1 DEF Ends
<1> QED
  BY <1>2, <1>3, <1>4

(* One's own todo is nobody's copy.                                        *)
LEMMA OwnIsFree ==
    ASSUME NEW E, NEW I, Sound(E, I), NEW e \in E, e.ref.fuser = NoUser
    PROVE  e.list = "My" /\ \A f \in E : f.ref.fissue # e.ref.issue
<1>1. e.list = "My"
  BY DEF Sound, Tied
<1>2. ASSUME NEW f \in E, f.ref.fissue = e.ref.issue PROVE FALSE
  <2>1. Ends(f, e)
    BY <1>2, TiedTo
  <2>2. f.user = NoUser
    BY <2>1 DEF Ends
  <2> QED
    BY <2>2, SentinelAssumption DEF Sound, EntryType
<1> QED
  BY <1>1, <1>2

(* A todo that no entry is tied to leaves the lists.                       *)
LEMMA SoundUnlisted ==
    ASSUME NEW E, NEW I, Sound(E, I), NEW u, NEW l, NEW ref, Entry(u, l, ref) \in E,
           \A e \in E : e.ref.fissue # ref.issue
    PROVE  /\ Sound(Taken(E, u, l, ref.issue), I)
           /\ Unused(ref.issue, Taken(E, u, l, ref.issue))
<1> DEFINE F == Taken(E, u, l, ref.issue)
           D == {ref.issue}
<1>1. \A e \in E : e.ref.issue = ref.issue => e = Entry(u, l, ref)
  BY EntryFields DEF Sound
<1>2. F = {e \in E : e.ref.issue \notin D}
  BY <1>1, EntryFields DEF Taken
<1>3. \A e \in F : e.ref.fissue \notin D /\ e.ref.issue # ref.issue
  BY <1>2
<1> HIDE DEF F
<1>4. Unused(ref.issue, F)
  BY <1>3 DEF Unused
<1> HIDE DEF D
<1>5. Sound(F, I)
  BY <1>2, <1>3, SoundWithout
<1> QED
  BY <1>4, <1>5 DEF F

(* A new todo in the own list.                                             *)
LEMMA SoundNewOwn ==
    ASSUME NEW E, NEW I, Sound(E, I), NEW u \in Users, NEW id \in IssueIds, Unused(id, E),
           I[id] # Gone
    PROVE  Sound(E \cup {Entry(u, "My", OwnRef(id))}, I)
<1> DEFINE e == Entry(u, "My", OwnRef(id))
           F == E \cup {e}
<1>1. /\ e \in EntryType /\ e.list = "My"
      /\ e.ref.issue = id /\ e.ref.fuser = NoUser /\ e.ref.fissue = NoIssue
  BY DEF Entry, OwnRef, EntryType, Ref, Lists
<1> HIDE DEF e
<1>2. \A f \in E : f.ref.issue # id /\ f.ref.fissue # id
  BY DEF Unused
<1>3. ASSUME NEW f \in F PROVE Tied(f, F)
  <2>1. CASE f = e
    BY <1>1, <2>1 DEF Tied
  <2>2. CASE f \in E
    BY <1>1, <1>2, <2>2 DEF Tied, Sound
  <2> QED
    BY <2>1, <2>2
<1>4. \A f, g \in F : f.ref.issue = g.ref.issue => f = g
  BY <1>1, <1>2 DEF Sound
<1>5. F \subseteq EntryType /\ \A f \in F : I[f.ref.issue] # Gone
  BY <1>1 DEF Sound
<1> HIDE DEF F
<1>6. Sound(F, I)
  BY <1>3, <1>4, <1>5 DEF Sound
<1> QED
  BY <1>6 DEF F, e

(* A new todo in the sent list, its copy on the way.                       *)
LEMMA SoundPosted ==
    ASSUME NEW E, NEW I, Sound(E, I), NEW q, q.user \in Users, q.to \in Users,
           q.issue \in IssueIds, q.twin \in IssueIds \ {q.issue},
           Unused(q.issue, E), Unused(q.twin, E), I[q.issue] # Gone, I[q.twin] # Gone,
           NEW F, F = E \cup {Entry(q.user, "Out", SentRef(q))}
    PROVE  Sound(F, I) /\ Posted(q, F, I)
<1> DEFINE e == Entry(q.user, "Out", SentRef(q))
<1>1. /\ e \in EntryType /\ e.list = "Out"
      /\ e.ref.issue = q.issue /\ e.ref.fuser = q.to /\ e.ref.fissue = q.twin
  BY DEF Entry, SentRef, EntryType, Ref, Lists
<1>2. F = E \cup {e}
  OBVIOUS
<1> HIDE DEF e
<1>3. \A f \in E : /\ f.ref.issue # q.issue /\ f.ref.fissue # q.issue
                   /\ f.ref.issue # q.twin /\ f.ref.fissue # q.twin
  BY DEF Unused
<1>4. ASSUME NEW f \in F PROVE Tied(f, F)
  <2>1. CASE f = e
    BY <1>1, <1>2, <1>3, <2>1, SentinelAssumption DEF Tied
  <2>2. CASE f \in E
    BY <1>1, <1>2, <1>3, <2>2 DEF Tied, Sound
  <2> QED
    BY <1>2, <2>1, <2>2
<1>5. \A f, g \in F : f.ref.issue = g.ref.issue => f = g
  BY <1>1, <1>2, <1>3 DEF Sound
<1>6. F \subseteq EntryType /\ \A f \in F : I[f.ref.issue] # Gone
  BY <1>1, <1>2 DEF Sound
<1>7. Sound(F, I)
  BY <1>4, <1>5, <1>6 DEF Sound
<1>8. Posted(q, F, I)
  BY <1>1, <1>2, <1>3 DEF Posted, e
<1> QED
  BY <1>7, <1>8

(* The copy is there.                                                      *)
LEMMA SoundDelivered ==
    ASSUME NEW E, NEW I, Sound(E, I), NEW q, q.user \in Users, q.to \in Users,
           q.issue \in IssueIds, q.twin \in IssueIds, Posted(q, E, I),
           NEW ref, ref = [issue |-> q.twin, fuser |-> q.user, fissue |-> q.issue]
    PROVE  Sound(E \cup {Entry(q.to, "In", ref)}, I)
<1> DEFINE e == Entry(q.user, "Out", SentRef(q))
           g == Entry(q.to, "In", ref)
           F == E \cup {g}
<1>1. /\ e \in E /\ e.user = q.user /\ e.list = "Out"
      /\ e.ref.issue = q.issue /\ e.ref.fuser = q.to /\ e.ref.fissue = q.twin
  BY DEF Entry, SentRef, Posted
<1>2. /\ g \in EntryType /\ g.user = q.to /\ g.list = "In"
      /\ g.ref.issue = q.twin /\ g.ref.fuser = q.user /\ g.ref.fissue = q.issue
  BY DEF Entry, EntryType, Ref, Lists
<1>3. /\ \A f \in E : f.ref.issue # q.twin
      /\ \A f \in E : f.ref.fissue = q.twin => f = e
      /\ I[q.twin] # Gone
  BY DEF Posted
<1> HIDE DEF e, g
<1>4. Ends(e, g) /\ Ends(g, e)
  BY <1>1, <1>2 DEF Ends
<1>5. ASSUME NEW f \in F PROVE Tied(f, F)
  <2>1. CASE f = g
    BY <1>1, <1>2, <1>4, <2>1, SentinelAssumption DEF Tied
  <2>2. CASE f \in E
    BY <1>2, <1>3, <1>4, <2>2 DEF Tied, Sound
  <2> QED
    BY <2>1, <2>2
<1>6. \A f, h \in F : f.ref.issue = h.ref.issue => f = h
  BY <1>2, <1>3 DEF Sound
<1>7. F \subseteq EntryType /\ \A f \in F : I[f.ref.issue] # Gone
  BY <1>2, <1>3 DEF Sound
<1> HIDE DEF F
<1>8. Sound(F, I)
  BY <1>5, <1>6, <1>7 DEF Sound
<1> QED
  BY <1>8 DEF F, g

(* A received todo in the own list instead of the inbox.                   *)
LEMMA SoundAccepted ==
    ASSUME NEW E, NEW I, Sound(E, I), NEW u, NEW ref, Entry(u, "In", ref) \in E,
           NEW F, F = (E \ {Entry(u, "In", ref)}) \cup {Entry(u, "My", ref)}
    PROVE  Sound(F, I)
<1> DEFINE e == Entry(u, "In", ref)
           g == Entry(u, "My", ref)
<1>1. e.user = u /\ e.list = "In" /\ e.ref = ref /\ g.user = u /\ g.list = "My" /\ g.ref = ref
  BY EntryFields
<1>2. g \in EntryType /\ ref.fuser # NoUser
  BY <1>1 DEF Sound, Tied, EntryType, Entry, Lists
<1>3. e \in E /\ F = (E \ {e}) \cup {g}
  OBVIOUS
<1> HIDE DEF e, g
<1>4. \A f : Ends(e, f) <=> Ends(g, f)
  BY <1>1 DEF Ends
<1>5. \A f : Ends(f, e) <=> Ends(f, g)
  BY <1>1 DEF Ends
<1>6. ASSUME NEW f \in F PROVE Tied(f, F)
  <2>1. CASE f = g
    <3>1. PICK h \in E : Ends(e, h)
      BY <1>1, <1>2, <1>3 DEF Sound, Tied
    <3>2. h # e
      BY <1>1, <3>1 DEF Ends
    <3> QED
      BY <1>1, <1>2, <1>3, <1>4, <2>1, <3>1, <3>2 DEF Tied
  <2>2. CASE f \in E \ {e}
    <3>1. Tied(f, E)
      BY <2>2 DEF Sound
    <3>2. \A h \in F : h = g \/ h \in E
      BY <1>3
    <3>3. g.ref.issue = e.ref.issue
      BY <1>1
    <3>4. \A h \in E : h \in F \/ h = e
      BY <1>3
    <3>5. g \in F
      BY <1>3
    <3> QED
      BY <1>3, <1>5, <3>1, <3>2, <3>3, <3>4, <3>5 DEF Tied
  <2> QED
    BY <1>3, <2>1, <2>2
<1>7. \A f, h \in F : f.ref.issue = h.ref.issue => f = h
  BY <1>1, <1>3 DEF Sound
<1>8. F \subseteq EntryType /\ \A f \in F : I[f.ref.issue] # Gone
  BY <1>1, <1>2, <1>3 DEF Sound
<1> QED
  BY <1>6, <1>7, <1>8 DEF Sound

-----------------------------------------------------------------------------
(* From label to label with what a request is aware of.                    *)

LEMMA FitsSoFar ==
    ASSUME NEW label, NEW q, NEW E, NEW I, Aware(label, q, E, I),
           label \notin {"End.take", "End.drop", "End.ffind", "End.funlist", "Accept.in"}
    PROVE  Sound(E, I)
BY NothingLoose DEF Aware

(* An answer takes no more than that what there is fits together.          *)
LEMMA AwareDone ==
    ASSUME NEW label \in {"idle", "ok", "err"}, NEW q, NEW E, NEW I, Sound(E, I)
    PROVE  Aware(label, q, E, I)
BY NothingLoose DEF Aware, AddAware, SendAware, EndAware, AcceptAware, EditAware, AssignAware, Undoing

LEMMA AddAwareness ==
    ASSUME NEW q, NEW E, NEW I
    PROVE  /\ Aware("Add.save", q, E, I) => Aware("Add.list", q, E, Put(I, q.issue, q.text))
           /\ Aware("Add.list", q, E, I) => Aware("Add.undo", q, E, I)
           /\ Aware("Add.undo", q, E, I) => Aware("err", q, E, Put(I, q.issue, Gone))
           /\ Aware("Add.list", q, E, I) =>
                 Aware("ok", q, E \cup {Entry(q.user, "My", OwnRef(q.issue))}, I)
<1> USE NothingLoose DEF Aware, AddAware, SendAware, EndAware, AcceptAware, EditAware, AssignAware, Undoing
<1>1. ASSUME Aware("Add.save", q, E, I)
      PROVE  Aware("Add.list", q, E, Put(I, q.issue, q.text))
  <2>1. Sound(E, I) /\ q.text \in Texts /\ q.issue \in IssueIds
    BY <1>1
  <2>2. Sound(E, Put(I, q.issue, q.text))
    BY <2>1, SoundPut
  <2>3. Put(I, q.issue, q.text)[q.issue] # Gone
    BY <2>1, SentinelAssumption DEF Put, Sound
  <2> QED
    BY <1>1, <2>2, <2>3
<1>2. Aware("Add.list", q, E, I) => Aware("Add.undo", q, E, I)
  OBVIOUS
<1>3. ASSUME Aware("Add.undo", q, E, I)
      PROVE  Aware("err", q, E, Put(I, q.issue, Gone))
  <2>1. Sound(E, I) /\ Unused(q.issue, E)
    BY <1>3
  <2>2. \A e \in E : e.ref.issue # q.issue
    BY <2>1 DEF Unused
  <2> QED
    BY <2>1, <2>2, SoundDrop, AwareDone
<1>4. ASSUME Aware("Add.list", q, E, I)
      PROVE  Aware("ok", q, E \cup {Entry(q.user, "My", OwnRef(q.issue))}, I)
  <2>1. Sound(E, I) /\ q.user \in Users /\ q.issue \in IssueIds /\ Unused(q.issue, E) /\ I[q.issue] # Gone
    BY <1>4
  <2> QED
    BY <2>1, SoundNewOwn, AwareDone
<1> QED
  BY <1>1, <1>2, <1>3, <1>4

LEMMA SendAwareness ==
    ASSUME NEW q, NEW E, NEW I
    PROVE  /\ Aware("Send.save", q, E, I) => Aware("Send.saveTwin", q, E, Put(I, q.issue, q.text))
           /\ Aware("Send.saveTwin", q, E, I) => Aware("Send.out", q, E, Put(I, q.twin, q.text))
           /\ Aware("Send.out", q, E, I) =>
                 Aware("Send.in", q, E \cup {Entry(q.user, "Out", SentRef(q))}, I)
           /\ \A ref : /\ ref = [issue |-> q.twin, fuser |-> q.user, fissue |-> q.issue]
                       /\ Aware("Send.in", q, E, I)
                       => Aware("ok", q, E \cup {Entry(q.to, "In", ref)}, I)
<1> USE NothingLoose DEF Aware, AddAware, SendAware, EndAware, AcceptAware, EditAware, AssignAware, Undoing
<1>1. ASSUME Aware("Send.save", q, E, I)
      PROVE  Aware("Send.saveTwin", q, E, Put(I, q.issue, q.text))
  <2>1. Sound(E, I) /\ q.text \in Texts /\ q.issue \in IssueIds
    BY <1>1
  <2>2. Sound(E, Put(I, q.issue, q.text))
    BY <2>1, SoundPut
  <2>3. Put(I, q.issue, q.text)[q.issue] # Gone
    BY <2>1, SentinelAssumption DEF Put, Sound
  <2> QED
    BY <1>1, <2>2, <2>3
<1>2. ASSUME Aware("Send.saveTwin", q, E, I)
      PROVE  Aware("Send.out", q, E, Put(I, q.twin, q.text))
  <2>1. Sound(E, I) /\ q.text \in Texts /\ q.twin \in IssueIds /\ q.issue \in IssueIds /\ I[q.issue] # Gone
    BY <1>2
  <2>2. Sound(E, Put(I, q.twin, q.text))
    BY <2>1, SoundPut
  <2>3. Put(I, q.twin, q.text)[q.issue] # Gone /\ Put(I, q.twin, q.text)[q.twin] # Gone
    BY <2>1, SentinelAssumption DEF Put, Sound
  <2> QED
    BY <1>2, <2>2, <2>3
<1>3. ASSUME Aware("Send.out", q, E, I)
      PROVE  Aware("Send.in", q, E \cup {Entry(q.user, "Out", SentRef(q))}, I)
  <2> DEFINE F == E \cup {Entry(q.user, "Out", SentRef(q))}
  <2>1. /\ Sound(E, I) /\ q.user \in Users /\ q.to \in Users /\ q.issue \in IssueIds
        /\ q.twin \in IssueIds \ {q.issue} /\ Unused(q.issue, E) /\ Unused(q.twin, E)
        /\ I[q.issue] # Gone /\ I[q.twin] # Gone
    BY <1>3
  <2>2. Sound(F, I) /\ Posted(q, F, I)
    BY <2>1, SoundPosted
  <2> HIDE DEF F
  <2>3. Aware("Send.in", q, F, I)
    BY <1>3, <2>2
  <2> QED
    BY <2>3 DEF F
<1>4. ASSUME NEW ref, ref = [issue |-> q.twin, fuser |-> q.user, fissue |-> q.issue],
             Aware("Send.in", q, E, I)
      PROVE  Aware("ok", q, E \cup {Entry(q.to, "In", ref)}, I)
  <2>1. /\ Sound(E, I) /\ q.user \in Users /\ q.to \in Users /\ q.issue \in IssueIds
        /\ q.twin \in IssueIds /\ Posted(q, E, I)
    BY <1>4
  <2> QED
    BY <1>4, <2>1, SoundDelivered, AwareDone
<1> QED
  BY <1>1, <1>2, <1>3, <1>4

(* A todo found in one of its user's lists leaves it, its copy is loose.   *)
LEMMA EndUnlistedAware ==
    ASSUME NEW q, NEW E, NEW I, Sound(E, I), Entry(q.user, q.list, q.ref) \in E,
           q.ref.issue = q.issue, q.kind \in Ending, q.look = 1,
           q.kind # "Remove" => q.list # "Out",
           NEW F, F = Taken(E, q.user, q.list, q.issue)
    PROVE  Aware("End.take", q, F, I)
<1> DEFINE e == Entry(q.user, q.list, q.ref)
           G == F \ Loose("End.take", q, F)
<1>1. e \in E /\ e.user = q.user /\ e.list = q.list /\ e.ref = q.ref
  BY EntryFields
<1> HIDE DEF e
<1>2. \A f \in E : f.ref.issue = q.issue => f = e
  BY <1>1 DEF Sound
<1>3. \A f : f \in F <=> f \in E /\ f.ref.issue # q.issue
  BY <1>1, <1>2 DEF Taken
<1>4. G = {f \in E : f.ref.issue \notin {e.ref.issue, e.ref.fissue}}
  BY <1>1, <1>3 DEF Loose
<1> HIDE DEF G
<1>5. Sound(G, I)
  BY <1>1, <1>4, SoundEnding
<1>6. ASSUME NEW f \in F, f.ref.issue = q.ref.fissue
      PROVE  FarAware("End.take", q, f)
  <2>1. Ends(e, f)
    BY <1>1, <1>3, <1>6, TiedTo
  <2>2. f.user = q.ref.fuser /\ (q.list = "Out" <=> f.list # "Out")
    BY <1>1, <2>1 DEF Ends
  <2> QED
    BY <2>2 DEF FarAware
<1>7. \A f, g \in F : f.ref.issue = g.ref.issue => f = g
  BY <1>3 DEF Sound
<1>8. Sound(F \ Loose("End.take", q, F), I)
  BY <1>5 DEF G
<1>9. \A f \in F : f.ref.issue # q.issue
  BY <1>3
<1> QED
  BY <1>6, <1>7, <1>8, <1>9 DEF Aware, AddAware, SendAware, EndAware, AcceptAware, EditAware, AssignAware,
     Undoing

LEMMA EndSearchAware ==
    ASSUME NEW q, NEW p, NEW E, NEW I, Aware("End.find", q, E, I),
           p.kind = q.kind, p.user = q.user, p.issue = q.issue
    PROVE  /\ Aware("End.find", p, E, I)
           /\ Aware("err", p, E, I)
           /\ /\ Entry(q.user, p.list, p.ref) \in E /\ p.ref.issue = p.issue /\ p.look = 1
              => Aware("End.unlist", p, E, I)
<1>1. Sound(E, I)
  BY FitsSoFar
<1>2. Aware("End.find", p, E, I)
  BY <1>1, NothingLoose DEF Aware, AddAware, SendAware, EndAware, AcceptAware, EditAware, AssignAware, Undoing
<1>3. ASSUME Entry(q.user, p.list, p.ref) \in E /\ p.ref.issue = p.issue /\ p.look = 1
      PROVE  Aware("End.unlist", p, E, I)
  <2>1. p.kind # "Remove" => p.list # "Out"
    <3>1. p.kind = "Complete" => \A e \in E : e.user = p.user /\ e.ref.issue = p.issue => e.list # "Out"
      BY DEF Aware, EndAware
    <3>2. p.kind \in {"Complete", "Remove"}
      BY DEF Aware, EndAware
    <3> QED
      BY <1>3, <3>1, <3>2, EntryFields
  <2> QED
    BY <1>1, <1>3, <2>1, NothingLoose DEF Aware, AddAware, SendAware, EndAware, AcceptAware, EditAware,
       AssignAware, Undoing
<1> QED
  BY <1>1, <1>2, <1>3, AwareDone

(* The todo has been read, or there was no record of it.                   *)
LEMMA EndTakenAware ==
    ASSUME NEW q, NEW p, NEW E, NEW I, Aware("End.take", q, E, I),
           p.kind = q.kind, p.user = q.user, p.issue = q.issue, p.list = q.list,
           p.ref = q.ref, p.look = q.look
    PROVE  Aware("End.drop", p, E, I)
<1>1. Loose("End.drop", p, E) = Loose("End.take", q, E)
  BY DEF Loose
<1> QED
  BY <1>1 DEF Aware, AddAware, SendAware, EndAware, AcceptAware, EditAware, AssignAware, FarAware, Undoing

(* Its record is gone, or not.                                             *)
LEMMA EndDroppedAware ==
    ASSUME NEW q, NEW p, NEW E, NEW I, NEW label \in {"End.take", "End.drop"}, Aware(label, q, E, I),
           E \subseteq EntryType, q.ref.fuser \in Users \cup {NoUser},
           p.kind = q.kind, p.user = q.user, p.issue = q.issue, p.list = q.list,
           p.ref = q.ref, p.look = q.look,
           NEW J \in {I, Put(I, q.issue, Gone)}
    PROVE  Aware(OtherEnd(p), p, E, J)
<1> DEFINE G == E \ Loose(label, q, E)
<1>1. /\ q.kind \in Ending /\ q.look = 1
      /\ \A e \in E : e.ref.issue # q.issue
      /\ \A f \in E : f.ref.issue = q.ref.fissue => FarAware(label, q, f)
  BY DEF Aware, EndAware
<1>2. Sound(G, J)
  <2>1. Sound(G, I)
    BY DEF Aware
  <2>2. \A e \in G : e.ref.issue # q.issue
    BY <1>1
  <2> HIDE DEF G
  <2> QED
    BY <2>1, <2>2, SoundDrop
<1>3. \A f \in E : f.ref.issue = q.ref.fissue =>
         f.user = q.ref.fuser /\ (q.kind # "Remove" => f.list = "Out")
  BY <1>1 DEF FarAware
<1>4. CASE q.ref.fuser = NoUser
  <2>1. \A e \in E : e.user \in Users
    BY DEF EntryType
  <2>2. G = E
    BY <1>3, <1>4, <2>1, SentinelAssumption DEF Loose
  <2>3. OtherEnd(p) = "ok"
    BY <1>4 DEF OtherEnd
  <2> HIDE DEF G
  <2> QED
    BY <1>2, <2>2, <2>3, AwareDone
<1>5. CASE q.ref.fuser # NoUser /\ q.kind = "Remove"
  <2>1. Loose("End.ffind", p, E) = Loose(label, q, E)
    BY DEF Loose
  <2>2. \A f \in E : f.ref.issue = p.ref.fissue => FarAware("End.ffind", p, f)
    BY <1>1, <1>3 DEF FarAware
  <2>3. OtherEnd(p) = "End.ffind"
    BY <1>5 DEF OtherEnd
  <2>4. Sound(E \ Loose("End.ffind", p, E), J)
    BY <1>2, <2>1
  <2> QED
    BY <1>1, <1>5, <2>2, <2>3, <2>4 DEF Aware, AddAware, SendAware, EndAware, AcceptAware, EditAware,
       AssignAware, Undoing
<1>6. CASE q.ref.fuser # NoUser /\ q.kind # "Remove"
  <2>1. Loose("End.funlist", p, E) = Loose(label, q, E)
    BY DEF Loose
  <2>2. \A f \in E : f.ref.issue = p.ref.fissue => FarAware("End.funlist", p, f)
    BY <1>3, <1>6 DEF FarAware, FarList
  <2>3. OtherEnd(p) = "End.funlist"
    BY <1>6 DEF OtherEnd
  <2>4. Sound(E \ Loose("End.funlist", p, E), J)
    BY <1>2, <2>1
  <2> QED
    BY <1>1, <1>6, <2>2, <2>3, <2>4 DEF Aware, AddAware, SendAware, EndAware, AcceptAware, EditAware,
       AssignAware, Undoing
<1> QED
  BY <1>4, <1>5, <1>6

(* The copy is found, or it is in none of the three lists.                 *)
LEMMA EndFarFoundAware ==
    ASSUME NEW q, NEW p, NEW E, NEW I, Aware("End.ffind", q, E, I), q.look \in 1..3,
           E \subseteq EntryType,
           p.kind = q.kind, p.user = q.user, p.issue = q.issue, p.list = q.list, p.ref = q.ref
    PROVE  /\ Hit(q, E) /\ p.flist = SearchOrder[q.look] => Aware("End.funlist", p, E, I)
           /\ ~Hit(q, E) /\ p.look = q.look + 1 => Aware("End.ffind", p, E, I)
           /\ ~Hit(q, E) /\ q.look = 3 => Aware("End.funlist", p, E, I)
<1>1. /\ q.kind = "Remove" /\ q.ref.fuser \in Users
      /\ \A f \in E : f.ref.issue = q.ref.fissue =>
            f.user = q.ref.fuser /\ \A n \in 1..3 : n < q.look => SearchOrder[n] # f.list
  BY DEF Aware, EndAware, FarAware
<1>2. /\ Loose("End.funlist", p, E) = Loose("End.ffind", q, E)
      /\ Loose("End.ffind", p, E) = Loose("End.ffind", q, E)
  BY DEF Loose
<1>3. Sound(E \ Loose("End.ffind", q, E), I)
  BY DEF Aware
<1>4. ASSUME Hit(q, E), p.flist = SearchOrder[q.look]
      PROVE  Aware("End.funlist", p, E, I)
  <2>1. PICK f \in E : f.user = q.ref.fuser /\ f.list = SearchOrder[q.look] /\ f.ref.issue = q.ref.fissue
    BY <1>4 DEF Hit
  <2>2. \A g \in E : g.ref.issue = q.ref.fissue => FarAware("End.funlist", p, g)
    <3> SUFFICES ASSUME NEW g \in E, g.ref.issue = q.ref.fissue
                 PROVE  g.list = SearchOrder[q.look]
      BY <1>1, <1>4 DEF FarAware, FarList
    <3> QED
      BY <2>1 DEF Aware, EndAware
  <2> QED
    BY <1>1, <1>2, <1>3, <2>2 DEF Aware, AddAware, SendAware, EndAware, AcceptAware, EditAware,
       AssignAware, Undoing, Ending
<1>5. ASSUME ~Hit(q, E), p.look = q.look + 1
      PROVE  Aware("End.ffind", p, E, I)
  <2>1. \A g \in E : g.ref.issue = q.ref.fissue => FarAware("End.ffind", p, g)
    BY <1>1, <1>5 DEF Hit, FarAware
  <2> QED
    BY <1>1, <1>2, <1>3, <2>1 DEF Aware, AddAware, SendAware, EndAware, AcceptAware, EditAware,
       AssignAware, Undoing, Ending
<1>6. ASSUME ~Hit(q, E), q.look = 3
      PROVE  Aware("End.funlist", p, E, I)
  <2>1. ASSUME NEW g \in E, g.ref.issue = q.ref.fissue PROVE FALSE
    <3>1. /\ g.list # SearchOrder[1] /\ g.list # SearchOrder[2] /\ g.list # SearchOrder[3]
      BY <1>1, <1>6, <2>1 DEF Hit
    <3> QED
      BY <3>1 DEF SearchOrder, EntryType, Lists
  <2> QED
    BY <1>1, <1>2, <1>3, <2>1 DEF Aware, AddAware, SendAware, EndAware, AcceptAware, EditAware,
       AssignAware, Undoing, Ending
<1> QED
  BY <1>4, <1>5, <1>6

(* The copy has left the list it was in, or was in none.                   *)
LEMMA EndFarUnlistedAware ==
    ASSUME NEW q, NEW E, NEW I, Aware("End.funlist", q, E, I), NEW F,
           \/ F = Taken(E, q.ref.fuser, FarList(q), q.ref.fissue)
           \/ /\ F = E
              /\ ~\E e \in E : e.user = q.ref.fuser /\ e.list = FarList(q) /\ e.ref.issue = q.ref.fissue
    PROVE  Aware("End.ftake", q, F, I)
<1>1. /\ q.kind \in Ending
      /\ \A f \in E : f.ref.issue = q.ref.fissue => f.user = q.ref.fuser /\ f.list = FarList(q)
  BY DEF Aware, EndAware, FarAware
<1>2. F = E \ Loose("End.funlist", q, E)
  BY <1>1 DEF Loose, Taken
<1>3. \A e \in F : e.ref.issue # q.ref.fissue
  BY <1>2 DEF Loose
<1>4. Sound(F, I)
  BY <1>2 DEF Aware
<1>5. F \ Loose("End.ftake", q, F) = F
  BY NothingLoose
<1> QED
  BY <1>1, <1>3, <1>4, <1>5 DEF Aware, AddAware, SendAware, EndAware, AcceptAware, EditAware,
     AssignAware, Undoing

LEMMA EndFarTakenAware ==
    ASSUME NEW q, NEW p, NEW E, NEW I, NEW label \in {"End.ftake", "End.fdrop"}, Aware(label, q, E, I),
           p.kind = q.kind, p.ref = q.ref, NEW J \in {I, Put(I, q.ref.fissue, Gone)}
    PROVE  /\ Aware("End.fdrop", p, E, J)
           /\ Aware("ok", p, E, J)
<1>1. Sound(E, I) /\ q.kind \in Ending /\ \A e \in E : e.ref.issue # q.ref.fissue
  BY FitsSoFar DEF Aware, EndAware
<1>2. Sound(E, J)
  BY <1>1, SoundDrop
<1>3. E \ Loose("End.fdrop", p, E) = E
  BY NothingLoose
<1>4. Aware("End.fdrop", p, E, J)
  BY <1>1, <1>2, <1>3 DEF Aware, AddAware, SendAware, EndAware, AcceptAware, EditAware,
     AssignAware, Undoing
<1> QED
  BY <1>2, <1>4, AwareDone

LEMMA AcceptAwareness ==
    ASSUME NEW q, NEW p, NEW E, NEW I, p.kind = q.kind, p.user = q.user, p.issue = q.issue
    PROVE  /\ Aware("Accept.get", q, E, I) => Aware("Accept.ref", p, E, I)
           /\ /\ Aware("Accept.ref", q, E, I)
              /\ Entry(q.user, "In", p.ref) \in E /\ p.ref.issue = q.issue
              => Aware("Accept.my", p, E, I)
           /\ Aware("Accept.my", q, E, I) =>
                 Aware("Accept.in", q, E \cup {Entry(q.user, "My", q.ref)}, I)
           /\ Aware("Accept.in", q, E, I) => Aware("ok", q, Taken(E, q.user, "In", q.issue), I)
<1>1. Aware("Accept.get", q, E, I) => Aware("Accept.ref", p, E, I)
  BY NothingLoose DEF Aware, AddAware, SendAware, EndAware, AcceptAware, EditAware, AssignAware, Undoing
<1>2. ASSUME Aware("Accept.ref", q, E, I), Entry(q.user, "In", p.ref) \in E /\ p.ref.issue = q.issue
      PROVE  Aware("Accept.my", p, E, I)
  BY <1>2, NothingLoose DEF Aware, AddAware, SendAware, EndAware, AcceptAware, EditAware, AssignAware,
     Undoing
<1>3. ASSUME Aware("Accept.my", q, E, I)
      PROVE  Aware("Accept.in", q, E \cup {Entry(q.user, "My", q.ref)}, I)
  <2> DEFINE e == Entry(q.user, "In", q.ref)
             g == Entry(q.user, "My", q.ref)
             F == E \cup {g}
  <2>1. e.user = q.user /\ e.list = "In" /\ e.ref = q.ref /\ g.user = q.user /\ g.list = "My" /\ g.ref = q.ref
    BY EntryFields
  <2>2. Sound(E, I) /\ e \in E /\ q.ref.issue = q.issue /\ q.kind = "Accept" /\ q.user \in Users
    BY <1>3, FitsSoFar DEF Aware, AcceptAware
  <2> HIDE DEF e, g
  <2>3. \A f \in E : f.ref.issue = q.issue => f = e
    BY <2>1, <2>2 DEF Sound
  <2>4. Loose("Accept.in", q, F) = {g} /\ g \notin E
    BY <2>1, <2>2, <2>3 DEF Loose
  <2>5. Sound(F \ Loose("Accept.in", q, F), I)
    <3>1. F \ Loose("Accept.in", q, F) = E
      BY <2>4
    <3> QED
      BY <2>2, <3>1
  <2>6. \A f \in F : f.ref.issue = q.issue => f \in {e, g}
    BY <2>3
  <2>7. e \in F /\ g \in F
    BY <2>2
  <2> HIDE DEF F
  <2>8. Aware("Accept.in", q, F, I)
    BY <2>2, <2>5, <2>6, <2>7 DEF e, g, Aware, AddAware, SendAware, EndAware, AcceptAware, EditAware,
       AssignAware, Undoing
  <2> QED
    BY <2>8 DEF F, g
<1>4. ASSUME Aware("Accept.in", q, E, I)
      PROVE  Aware("ok", q, Taken(E, q.user, "In", q.issue), I)
  <2> DEFINE e == Entry(q.user, "In", q.ref)
             g == Entry(q.user, "My", q.ref)
             G == E \ Loose("Accept.in", q, E)
             F == Taken(E, q.user, "In", q.issue)
  <2>1. e.user = q.user /\ e.list = "In" /\ e.ref = q.ref /\ g.user = q.user /\ g.list = "My" /\ g.ref = q.ref
    BY EntryFields
  <2>2. /\ Sound(G, I) /\ e \in E /\ g \in E /\ q.ref.issue = q.issue
        /\ \A f \in E : f.ref.issue = q.issue => f \in {e, g}
    BY <1>4 DEF Aware, AcceptAware
  <2> HIDE DEF e, g
  <2>3. e \in G
    BY <2>1, <2>2 DEF Loose
  <2>4. F = (G \ {e}) \cup {g}
    BY <2>1, <2>2 DEF Loose, Taken
  <2> HIDE DEF F, G
  <2>5. Sound(F, I)
    BY <2>2, <2>3, <2>4, SoundAccepted DEF e, g
  <2> QED
    BY <2>5, AwareDone DEF F
<1> QED
  BY <1>1, <1>2, <1>3, <1>4

LEMMA EditAwareness ==
    ASSUME NEW label, NEW q, NEW p, NEW E, NEW I, Aware(label, q, E, I),
           label \in {"Edit.get", "Edit.find", "Edit.found", "Edit.fget", "Edit.fsave", "Edit.save"},
           NEW to \in {"Edit.find", "Edit.found", "Edit.fget", "Edit.fsave", "Edit.save", "ok", "err"},
           p.text = q.text,
           NEW J, J = I \/ \E id : J = Put(I, id, q.text)
    PROVE  Aware(to, p, E, J)
<1>1. Sound(E, I) /\ q.text \in Texts
  BY FitsSoFar DEF Aware, EditAware
<1>2. Sound(E, J)
  BY <1>1, SoundPut
<1> QED
  BY <1>1, <1>2, NothingLoose DEF Aware, AddAware, SendAware, EndAware, AcceptAware, EditAware,
     AssignAware, Undoing

LEMMA AssignFindAware ==
    ASSUME NEW q, NEW p, NEW E, NEW I,
           p.user = q.user, p.to = q.to, p.issue = q.issue, p.twin = q.twin
    PROVE  /\ Aware("Assign.get", q, E, I) /\ p.text = I[q.issue] /\ I[q.issue] # Gone
              => Aware("Assign.find", p, E, I)
           /\ Aware("Assign.find", q, E, I) /\ p.text = q.text => Aware("Assign.find", p, E, I)
           /\ /\ Aware("Assign.find", q, E, I) /\ p.text = q.text
              /\ Entry(q.user, p.list, p.ref) \in E /\ p.ref.issue = q.issue
              => Aware("Assign.found", p, E, I)
<1> USE NothingLoose DEF Aware, AddAware, SendAware, EndAware, AcceptAware, EditAware, AssignAware, Undoing
<1>1. ASSUME Aware("Assign.get", q, E, I), p.text = I[q.issue] /\ I[q.issue] # Gone
      PROVE  Aware("Assign.find", p, E, I)
  <2>1. q.issue \in IssueIds /\ Sound(E, I)
    BY <1>1
  <2>2. p.text \in Texts
    BY <1>1, <2>1 DEF Sound
  <2> QED
    BY <1>1, <2>2
<1>2. Aware("Assign.find", q, E, I) /\ p.text = q.text => Aware("Assign.find", p, E, I)
  OBVIOUS
<1>3. ASSUME Aware("Assign.find", q, E, I) /\ p.text = q.text,
             Entry(q.user, p.list, p.ref) \in E /\ p.ref.issue = q.issue
      PROVE  Aware("Assign.found", p, E, I)
  <2>1. p.to = p.user => p.list = "Out"
    <3> SUFFICES ASSUME p.to = p.user PROVE p.list = "Out"
      OBVIOUS
    <3>1. PICK e \in E : e.user = q.user /\ e.list = "Out" /\ e.ref.issue = q.issue
      BY <1>3
    <3>2. e = Entry(q.user, p.list, p.ref)
      BY <1>3, <3>1, EntryFields DEF Sound
    <3> QED
      BY <3>1, <3>2, EntryFields
  <2> QED
    BY <1>3, <2>1
<1> QED
  BY <1>1, <1>2, <1>3

(* What is not received is one's own, or has been sent to somebody.        *)
LEMMA AssignFoundAware ==
    ASSUME NEW q, NEW E, NEW I, Aware("Assign.found", q, E, I), ~Received(q)
    PROVE  /\ q.ref.fuser # NoUser => Aware("Assign.ffind", q, E, I)
           /\ q.ref.fuser = NoUser => Route(q) = "Assign.unlist" /\ Aware("Assign.unlist", q, E, I)
<1> DEFINE e == Entry(q.user, q.list, q.ref)
<1>1. e.user = q.user /\ e.list = q.list /\ e.ref = q.ref
  BY EntryFields
<1>2. /\ Sound(E, I) /\ e \in E /\ q.ref.issue = q.issue
      /\ q.to = q.user => q.list = "Out"
  BY FitsSoFar DEF Aware, AssignAware
<1> HIDE DEF e
<1>3. ASSUME q.ref.fuser # NoUser
      PROVE  Aware("Assign.ffind", q, E, I)
  <2>1. e \in EntryType /\ Tied(e, E)
    BY <1>2 DEF Sound
  <2>2. q.ref.fuser \in Users /\ q.list \in Lists
    BY <1>1, <1>3, <2>1 DEF EntryType, Ref
  <2>3. q.list = "Out"
    <3>1. SUFFICES ASSUME q.list = "My", q.ref.fissue = NoIssue PROVE FALSE
      BY <2>2 DEF Received, Lists
    <3>2. PICK f \in E : Ends(e, f)
      BY <1>1, <1>3, <2>1, <3>1 DEF Tied
    <3>3. f.ref.issue \in IssueIds
      BY <1>2 DEF Sound, EntryType, Ref
    <3> QED
      BY <1>1, <3>1, <3>2, <3>3 DEF Ends, IssueIds, NoIssue
  <2> QED
    BY <1>2, <2>2, <2>3, NothingLoose DEF Aware, AddAware, SendAware, EndAware, AcceptAware, EditAware,
       AssignAware, Undoing
<1>4. ASSUME q.ref.fuser = NoUser
      PROVE  Route(q) = "Assign.unlist" /\ Aware("Assign.unlist", q, E, I)
  <2>1. e.list = "My" /\ \A f \in E : f.ref.fissue # e.ref.issue
    BY <1>1, <1>2, <1>4, OwnIsFree
  <2>2. Route(q) = "Assign.unlist"
    BY <1>1, <1>2, <2>1 DEF Route
  <2>3. \A f \in E : f.ref.fissue # q.issue
    BY <1>1, <1>2, <2>1
  <2> QED
    BY <1>2, <2>2, <2>3, NothingLoose DEF Aware, AddAware, SendAware, EndAware, AcceptAware, EditAware,
       AssignAware, Undoing
<1> QED
  BY <1>3, <1>4

LEMMA AssignFarAware ==
    ASSUME NEW q, NEW p, NEW E, NEW I, Aware("Assign.ffind", q, E, I),
           p.user = q.user, p.to = q.to, p.issue = q.issue, p.twin = q.twin, p.text = q.text,
           p.list = q.list, p.ref = q.ref
    PROVE  Aware("Assign.ffind", p, E, I) /\ Aware("Assign.funlist", p, E, I)
BY NothingLoose DEF Aware, AddAware, SendAware, EndAware, AcceptAware, EditAware, AssignAware, Undoing

(* The copy is taken from whom it was sent to.                             *)
LEMMA AssignFarUnlistedAware ==
    ASSUME NEW q, NEW E, NEW I, Aware("Assign.funlist", q, E, I),
           \E f \in E : f.user = q.ref.fuser /\ f.list = q.flist /\ f.ref.issue = q.ref.fissue,
           NEW F, F = Taken(E, q.ref.fuser, q.flist, q.ref.fissue)
    PROVE  Aware("Assign.ftake", q, F, I)
<1> DEFINE e == Entry(q.user, q.list, q.ref)
<1>1. e.user = q.user /\ e.list = q.list /\ e.ref = q.ref
  BY EntryFields
<1>2. /\ Sound(E, I) /\ e \in E /\ q.ref.issue = q.issue /\ q.list = "Out"
      /\ Unused(q.twin, E)
  BY FitsSoFar DEF Aware, AssignAware
<1> HIDE DEF e
<1>3. PICK f \in E : f.user = q.ref.fuser /\ f.list = q.flist /\ f.ref.issue = q.ref.fissue
  OBVIOUS
<1>4. \A g \in E : g.ref.issue = q.ref.fissue => g = f
  BY <1>2, <1>3 DEF Sound
<1>5. F = {g \in E : g.ref.issue # e.ref.fissue}
  BY <1>1, <1>3, <1>4 DEF Taken
<1>6. Sound(F, I) /\ e \in F /\ \A g \in F : g.ref.fissue # e.ref.issue
  BY <1>1, <1>2, <1>5, SoundTakenBack
<1>7. \A g \in F : g.ref.fissue # q.issue /\ g.ref.issue # q.ref.fissue
  BY <1>1, <1>2, <1>5, <1>6
<1>8. Unused(q.twin, F)
  BY <1>2, <1>5 DEF Unused
<1>9. F \ Loose("Assign.ftake", q, F) = F
  BY NothingLoose
<1>10. Entry(q.user, q.list, q.ref) \in F
  BY <1>6 DEF e
<1> QED
  BY <1>6, <1>7, <1>8, <1>9, <1>10 DEF Aware, AddAware, SendAware, EndAware, AcceptAware, EditAware,
     AssignAware, Undoing

LEMMA AssignFarTakenAware ==
    ASSUME NEW q, NEW p, NEW E, NEW I, NEW label \in {"Assign.ftake", "Assign.fdrop"},
           Aware(label, q, E, I),
           p.user = q.user, p.to = q.to, p.issue = q.issue, p.twin = q.twin, p.text = q.text,
           p.list = q.list, p.ref = q.ref, NEW J \in {I, Put(I, q.ref.fissue, Gone)}
    PROVE  /\ Route(q) = "Assign.unlist"
           /\ Aware("Assign.unlist", p, E, J) /\ Aware("Assign.fdrop", p, E, J)
<1>1. Sound(E, I) /\ q.list = "Out" /\ \A e \in E : e.ref.issue # q.ref.fissue
  BY FitsSoFar DEF Aware, AssignAware
<1>2. Sound(E, J)
  BY <1>1, SoundDrop
<1>3. Route(q) = "Assign.unlist"
  BY <1>1 DEF Route
<1>4. /\ E \ Loose("Assign.fdrop", p, E) = E /\ E \ Loose("Assign.unlist", p, E) = E
  BY NothingLoose
<1> QED
  BY <1>2, <1>3, <1>4 DEF Aware, AddAware, SendAware, EndAware, AcceptAware, EditAware, AssignAware,
     Undoing

LEMMA AssignUnlistedAware ==
    ASSUME NEW q, NEW E, NEW I, Aware("Assign.unlist", q, E, I),
           NEW F, F = Taken(E, q.user, q.list, q.issue)
    PROVE  Aware(IF q.user = q.to THEN "Assign.my" ELSE "Assign.save", q, F, I)
<1>1. /\ Sound(E, I) /\ Entry(q.user, q.list, q.ref) \in E /\ q.ref.issue = q.issue
      /\ Unused(q.twin, E) /\ \A e \in E : e.ref.fissue # q.issue
  BY FitsSoFar DEF Aware, AssignAware
<1>2. Sound(F, I) /\ Unused(q.issue, F)
  BY <1>1, SoundUnlisted
<1>3. I[q.issue] # Gone
  BY <1>1, EntryFields DEF Sound
<1>4. Unused(q.twin, F)
  BY <1>1 DEF Unused, Taken
<1>5. F \ Loose("Assign.my", q, F) = F /\ F \ Loose("Assign.save", q, F) = F
  BY NothingLoose
<1>6. CASE q.user = q.to
  BY <1>2, <1>3, <1>4, <1>5, <1>6 DEF Aware, AddAware, SendAware, EndAware, AcceptAware, EditAware,
     AssignAware, Undoing
<1>7. CASE q.user # q.to
  BY <1>2, <1>3, <1>4, <1>5, <1>7 DEF Aware, AddAware, SendAware, EndAware, AcceptAware, EditAware,
     AssignAware, Undoing
<1> QED
  BY <1>6, <1>7

LEMMA AssignAnewAware ==
    ASSUME NEW q, NEW E, NEW I
    PROVE  /\ Aware("Assign.my", q, E, I) =>
                 Aware("ok", q, E \cup {Entry(q.user, "My", OwnRef(q.issue))}, I)
           /\ Aware("Assign.save", q, E, I) => Aware("Assign.out", q, E, Put(I, q.twin, q.text))
           /\ Aware("Assign.out", q, E, I) =>
                 Aware("Assign.in", q, E \cup {Entry(q.user, "Out", SentRef(q))}, I)
           /\ \A ref : /\ ref = [issue |-> q.twin, fuser |-> q.user, fissue |-> q.issue]
                       /\ Aware("Assign.in", q, E, I)
                       => Aware("ok", q, E \cup {Entry(q.to, "In", ref)}, I)
<1> USE NothingLoose DEF Aware, AddAware, SendAware, EndAware, AcceptAware, EditAware, AssignAware, Undoing
<1>1. ASSUME Aware("Assign.my", q, E, I)
      PROVE  Aware("ok", q, E \cup {Entry(q.user, "My", OwnRef(q.issue))}, I)
  <2>1. Sound(E, I) /\ q.user \in Users /\ q.issue \in IssueIds /\ Unused(q.issue, E) /\ I[q.issue] # Gone
    BY <1>1
  <2> QED
    BY <2>1, SoundNewOwn, AwareDone
<1>2. ASSUME Aware("Assign.save", q, E, I)
      PROVE  Aware("Assign.out", q, E, Put(I, q.twin, q.text))
  <2>1. Sound(E, I) /\ q.text \in Texts /\ q.twin \in IssueIds /\ q.issue \in IssueIds /\ I[q.issue] # Gone
    BY <1>2
  <2>2. Sound(E, Put(I, q.twin, q.text))
    BY <2>1, SoundPut
  <2>3. Put(I, q.twin, q.text)[q.issue] # Gone /\ Put(I, q.twin, q.text)[q.twin] # Gone
    BY <2>1, SentinelAssumption DEF Put, Sound
  <2> QED
    BY <1>2, <2>2, <2>3
<1>3. ASSUME Aware("Assign.out", q, E, I)
      PROVE  Aware("Assign.in", q, E \cup {Entry(q.user, "Out", SentRef(q))}, I)
  <2> DEFINE F == E \cup {Entry(q.user, "Out", SentRef(q))}
  <2>1. /\ Sound(E, I) /\ q.user \in Users /\ q.to \in Users /\ q.issue \in IssueIds
        /\ q.twin \in IssueIds \ {q.issue} /\ Unused(q.issue, E) /\ Unused(q.twin, E)
        /\ I[q.issue] # Gone /\ I[q.twin] # Gone
    BY <1>3
  <2>2. Sound(F, I) /\ Posted(q, F, I)
    BY <2>1, SoundPosted
  <2> HIDE DEF F
  <2>3. Aware("Assign.in", q, F, I)
    BY <1>3, <2>2
  <2> QED
    BY <2>3 DEF F
<1>4. ASSUME NEW ref, ref = [issue |-> q.twin, fuser |-> q.user, fissue |-> q.issue],
             Aware("Assign.in", q, E, I)
      PROVE  Aware("ok", q, E \cup {Entry(q.to, "In", ref)}, I)
  <2>1. /\ Sound(E, I) /\ q.user \in Users /\ q.to \in Users /\ q.issue \in IssueIds
        /\ q.twin \in IssueIds /\ Posted(q, E, I)
    BY <1>4
  <2> QED
    BY <1>4, <2>1, SoundDelivered, AwareDone
<1> QED
  BY <1>1, <1>2, <1>3, <1>4

LEMMA AsideAware ==
    ASSUME NEW label \in Aside, NEW to \in Aside \cup {"ok", "err"}, NEW q, NEW p, NEW E, NEW I,
           Aware(label, q, E, I)
    PROVE  Aware(to, p, E, I)
BY NothingLoose DEF Aware, AddAware, SendAware, EndAware, AcceptAware, EditAware, AssignAware, Undoing,
   Aside

-----------------------------------------------------------------------------
(* The steps of a request that is aware of what it relies on.              *)

Mindful(r) ==
    /\ Inv /\ AllUnique /\ Troubled \subseteq Lossy
    /\ Aware(pc[r], req[r], Entries, issues)

StaysAware(r) == AllUnique' /\ Aware(pc'[r], req'[r], Entries', issues')

LEMMA MindfulFacts ==
    ASSUME NEW r \in Requests, Mindful(r)
    PROVE  /\ Inv /\ AllUnique /\ Entries \subseteq EntryType
           /\ req[r] \in ReqType /\ req[r].look \in 1..3
           /\ pc[r] # "idle" => req[r].user \in Users
           /\ \A label : Goto(r, label) => pc'[r] = label
           /\ req[r].kind \notin Lossy => ~Trouble(r)
           /\ pc[r] \notin {"End.take", "End.drop", "End.ffind", "End.funlist", "Accept.in"}
                 => Sound(Entries, issues)
<1>1. Inv /\ AllUnique /\ Entries \subseteq EntryType
  BY DEF Mindful, Entries
<1>2. /\ req[r] \in ReqType /\ req[r].look \in 1..3
      /\ pc[r] # "idle" => req[r].user \in Users
      /\ \A label : Goto(r, label) => pc'[r] = label
  BY <1>1, ReqTyped
<1>3. req[r].kind \notin Lossy => ~Trouble(r)
  BY DEF Mindful, Trouble
<1>4. pc[r] \notin {"End.take", "End.drop", "End.ffind", "End.funlist", "Accept.in"}
         => Sound(Entries, issues)
  BY FitsSoFar DEF Mindful
<1> QED
  BY <1>1, <1>2, <1>3, <1>4

(* The request has its answer.                                             *)
LEMMA StaysDone ==
    ASSUME NEW r \in Requests, AllUnique', pc'[r] \in {"ok", "err"}, Sound(Entries', issues')
    PROVE  StaysAware(r)
BY AwareDone DEF StaysAware

(* A reference that has been removed was there.                            *)
LEMMA RemovedWas ==
    ASSUME Inv, NEW r \in Requests, NEW u \in Users, NEW id, NEW l \in Lists, NEW ok, NEW err,
           RemoveReference(r, u, id, l, ok, err), ~Goto(r, err)
    PROVE  \E e \in Entries : e.user = u /\ e.list = l /\ e.ref.issue = id
<1> DEFINE op == [kind |-> "remove", ref |-> [NoRef EXCEPT !.issue = id]]
<1>1. op.kind = "remove" /\ op.ref.issue = id
  BY DEF NoRef
<1>2. ChangeList(r, u, l, op, ok, err)
  BY DEF RemoveReference
<1> HIDE DEF op
<1>3. ~Refuses(lists[u][l], op)
  BY <1>2 DEF ChangeList
<1>4. Holds(lists[u][l], id)
  BY <1>1, <1>3 DEF Refuses
<1> QED
  BY <1>4, HeldEntry

(* The record is gone, or the call has failed.                             *)
LEMMA DroppedCall ==
    ASSUME Inv, NEW r \in Requests, NEW id, NEW next, DropTaken(r, id, next)
    PROVE  /\ Entries' = Entries /\ (AllUnique => AllUnique')
           /\ Goto(r, next) /\ SameFind(req[r], req'[r])
           /\ req'[r].flist = req[r].flist /\ req'[r].look = req[r].look
           /\ issues' \in {issues, Put(issues, id, Gone)}
<1>1. Entries' = Entries /\ (AllUnique => AllUnique') /\ Goto(r, next)
  BY DropCall
<1>2. issues' \in {issues, Put(issues, id, Gone)}
  BY DEF DropTaken, Put
<1>3. req'[r] = req[r] \/ req'[r] = [req[r] EXCEPT !.got = Gone]
  BY DEF DropTaken, Kept, Inv, ReqInv
<1>4. /\ SameFind(req[r], req'[r])
      /\ req'[r].flist = req[r].flist /\ req'[r].look = req[r].look
  BY <1>3, ReqTyped DEF ReqType, SameFind, SameTask
<1> QED
  BY <1>1, <1>2, <1>4

LEMMA AddStaysAware ==
    ASSUME NEW r \in Requests, Mindful(r), AddIssue(r)
    PROVE  StaysAware(r)
<1> DEFINE q == req[r]
           E == Entries
           I == issues
<1>1. Aware(pc[r], q, E, I)
  BY DEF Mindful
<1>2. /\ Inv /\ AllUnique
      /\ \A label : Goto(r, label) => pc'[r] = label
  BY MindfulFacts
<1>3. req'[r] = q
  BY DEF AddIssue, Kept
<1> HIDE DEF q, E, I
<1>4. CASE At(r, "Add.save") /\ SaveIssue(r, q.issue, q.text, "Add.list", "err")
  <2>1. /\ Entries' = E /\ AllUnique'
        /\ \/ pc'[r] = "Add.list" /\ issues' = Put(I, q.issue, q.text)
           \/ pc'[r] = "err" /\ issues' = I
    BY <1>2, <1>4, SaveCall DEF E, I
  <2>2. Aware("Add.save", q, E, I)
    BY <1>1, <1>4 DEF At
  <2>3. Aware("Add.list", q, E, Put(I, q.issue, q.text)) /\ Aware("err", q, E, I)
    BY <2>2, AddAwareness, FitsSoFar, AwareDone
  <2> QED
    BY <1>3, <2>1, <2>3 DEF StaysAware
<1>5. CASE At(r, "Add.list")
           /\ AddReference(r, q.user, q.issue, "My", NoUser, NoIssue, "ok", "Add.undo")
  <2>1. Aware("Add.list", q, E, I)
    BY <1>1, <1>5 DEF At
  <2>2. q.user \in Users /\ q.issue \in IssueIds
    BY <2>1 DEF Aware, AddAware
  <2>3. \/ /\ pc'[r] = "ok" /\ issues' = I /\ AllUnique'
           /\ Entries' = E \cup {Entry(q.user, "My", OwnRef(q.issue))}
        \/ pc'[r] = "Add.undo" /\ issues' = I /\ AllUnique' /\ Entries' = E
    BY <1>2, <1>5, <2>2, AddCall DEF E, I, OwnRef, Still, Lists
  <2>4. /\ Aware("ok", q, E \cup {Entry(q.user, "My", OwnRef(q.issue))}, I)
        /\ Aware("Add.undo", q, E, I)
    BY <2>1, AddAwareness
  <2> QED
    BY <1>3, <2>3, <2>4 DEF StaysAware
<1>6. CASE At(r, "Add.undo") /\ DropIssue(r, q.issue, "err")
  <2>1. /\ Entries' = E /\ AllUnique' /\ pc'[r] = "err"
        /\ issues' = Put(I, q.issue, Gone) \/ issues' = I
    BY <1>2, <1>6, SaveCall DEF E, I, DropIssue
  <2>2. Aware("Add.undo", q, E, I)
    BY <1>1, <1>6 DEF At
  <2>3. Aware("err", q, E, Put(I, q.issue, Gone)) /\ Aware("err", q, E, I)
    BY <2>2, AddAwareness, FitsSoFar, AwareDone
  <2> QED
    BY <1>3, <2>1, <2>3 DEF StaysAware
<1> QED
  BY <1>4, <1>5, <1>6 DEF AddIssue, q

(* No call of a sending fails here, so that it has nothing to undo.        *)
LEMMA SendStaysAware ==
    ASSUME NEW r \in Requests, Mindful(r), SendIssue(r)
    PROVE  StaysAware(r)
<1> DEFINE q == req[r]
           E == Entries
           I == issues
<1>1. Aware(pc[r], q, E, I)
  BY DEF Mindful
<1>2. /\ Inv /\ AllUnique
      /\ \A label : Goto(r, label) => pc'[r] = label
      /\ q.kind = "Send" => ~Trouble(r)
  BY MindfulFacts DEF Lossy
<1>3. req'[r] = q
  BY DEF SendIssue, Kept
<1> HIDE DEF q, E, I
<1>4. ASSUME NEW label \in {"Send.save", "Send.saveTwin", "Send.out", "Send.in"}, At(r, label)
      PROVE  /\ Aware(label, q, E, I) /\ ~Trouble(r) /\ q.user \in Users /\ q.to \in Users
             /\ q.issue \in IssueIds /\ q.twin \in IssueIds
  BY <1>1, <1>2, <1>4 DEF At, Aware, SendAware
<1>5. CASE At(r, "Send.save") /\ SaveIssue(r, q.issue, q.text, "Send.saveTwin", "err")
  <2>1. Aware("Send.save", q, E, I) /\ ~Trouble(r)
    BY <1>4, <1>5
  <2>2. /\ Entries' = E /\ AllUnique' /\ pc'[r] = "Send.saveTwin"
        /\ issues' = Put(I, q.issue, q.text)
    BY <1>2, <1>5, <2>1, SaveCall DEF E, I
  <2>3. Aware("Send.saveTwin", q, E, Put(I, q.issue, q.text))
    BY <2>1, SendAwareness
  <2> QED
    BY <1>3, <2>2, <2>3 DEF StaysAware
<1>6. CASE At(r, "Send.saveTwin") /\ SaveIssue(r, q.twin, q.text, "Send.out", "Send.undo")
  <2>1. Aware("Send.saveTwin", q, E, I) /\ ~Trouble(r)
    BY <1>4, <1>6
  <2>2. /\ Entries' = E /\ AllUnique' /\ pc'[r] = "Send.out"
        /\ issues' = Put(I, q.twin, q.text)
    BY <1>2, <1>6, <2>1, SaveCall DEF E, I
  <2>3. Aware("Send.out", q, E, Put(I, q.twin, q.text))
    BY <2>1, SendAwareness
  <2> QED
    BY <1>3, <2>2, <2>3 DEF StaysAware
<1>7. CASE At(r, "Send.out")
           /\ AddReference(r, q.user, q.issue, "Out", q.to, q.twin, "Send.in", "Send.undo2")
  <2>1. /\ Aware("Send.out", q, E, I) /\ ~Trouble(r) /\ q.user \in Users /\ q.to \in Users
        /\ q.issue \in IssueIds /\ q.twin \in IssueIds
    BY <1>4, <1>7
  <2>2. \A e \in E : e.ref.issue # q.issue
    BY <2>1 DEF Aware, SendAware, Unused
  <2>3. /\ pc'[r] = "Send.in" /\ issues' = I /\ AllUnique'
        /\ Entries' = E \cup {Entry(q.user, "Out", SentRef(q))}
    BY <1>2, <1>7, <2>1, <2>2, AddCall DEF E, I, SentRef, Lists
  <2>4. Aware("Send.in", q, E \cup {Entry(q.user, "Out", SentRef(q))}, I)
    BY <2>1, SendAwareness
  <2> QED
    BY <1>3, <2>3, <2>4 DEF StaysAware
<1>8. CASE At(r, "Send.in")
           /\ AddReference(r, q.to, q.twin, "In", q.user, q.issue, "ok", "Send.undo3")
  <2> DEFINE ref == [issue |-> q.twin, fuser |-> q.user, fissue |-> q.issue]
  <2>1. /\ Aware("Send.in", q, E, I) /\ ~Trouble(r) /\ q.user \in Users /\ q.to \in Users
        /\ q.issue \in IssueIds /\ q.twin \in IssueIds
    BY <1>4, <1>8
  <2>2. \A e \in E : e.ref.issue # q.twin
    BY <2>1 DEF Aware, SendAware, Posted
  <2>3. ref = [issue |-> q.twin, fuser |-> q.user, fissue |-> q.issue]
    OBVIOUS
  <2> HIDE DEF ref
  <2>4. /\ pc'[r] = "ok" /\ issues' = I /\ AllUnique'
        /\ Entries' = E \cup {Entry(q.to, "In", ref)}
    BY <1>2, <1>8, <2>1, <2>2, <2>3, AddCall DEF E, I, Lists
  <2>5. Aware("ok", q, E \cup {Entry(q.to, "In", ref)}, I)
    BY <2>1, <2>3, SendAwareness
  <2> QED
    BY <1>3, <2>4, <2>5 DEF StaysAware
<1>9. pc[r] \notin Undoing \ {"Add.undo"}
  BY <1>1 DEF Aware, SendAware
<1> QED
  BY <1>5, <1>6, <1>7, <1>8, <1>9 DEF SendIssue, q, At, Undoing

LEMMA EndTodoStaysAware ==
    ASSUME NEW r \in Requests, Mindful(r), EndTodo(r)
    PROVE  StaysAware(r)
<1> DEFINE q == req[r]
           p == req'[r]
           E == Entries
           I == issues
<1>1. Aware(pc[r], q, E, I)
  BY DEF Mindful
<1>2. /\ Inv /\ AllUnique /\ E \subseteq EntryType
      /\ \A label : Goto(r, label) => pc'[r] = label
      /\ pc[r] # "idle" => q.user \in Users
      /\ q.list \in Lists /\ q.ref.fuser \in Users \cup {NoUser}
  BY MindfulFacts DEF ReqType, Ref, NoRef
<1>3. q.kind \in Ending => ~Trouble(r)
  BY MindfulFacts DEF Ending, Lossy
<1>4. Kept => p = q
  BY DEF Kept
<1> HIDE DEF q, p, E, I
<1>5. CASE At(r, "End.find") /\ FindOwn(r, "End.unlist", "err")
  <2>1. Aware("End.find", q, E, I) /\ q.user \in Users
    BY <1>1, <1>2, <1>5 DEF At
  <2>2. /\ Still /\ p.kind = q.kind /\ p.user = q.user /\ p.issue = q.issue
        /\ \/ /\ pc'[r] = "End.unlist" /\ Entry(q.user, p.list, p.ref) \in E
              /\ p.ref.issue = p.issue /\ p.look = 1
           \/ pc'[r] = "End.find"
           \/ pc'[r] = "err"
    BY <1>2, <1>5, <2>1, OwnCall DEF At, SameTask, LookOn, q, p, E
  <2>3. Aware(pc'[r], p, E, I)
    BY <2>1, <2>2, EndSearchAware
  <2> QED
    BY <1>2, <2>2, <2>3 DEF StaysAware, Still, p, E, I
<1>6. CASE /\ At(r, "End.unlist")
           /\ RemoveReference(r, q.user, q.issue, q.list, "End.take", "err") /\ Kept
  <2>1. Aware("End.unlist", q, E, I) /\ q.user \in Users
    BY <1>1, <1>2, <1>6 DEF At
  <2>2. \/ /\ pc'[r] = "End.take" /\ issues' = I /\ AllUnique'
           /\ Entries' = Taken(E, q.user, q.list, q.issue)
        \/ pc'[r] = "err" /\ issues' = I /\ AllUnique' /\ Entries' = E
    BY <1>2, <1>6, <2>1, RemoveCall DEF E, I, Still
  <2>3. Sound(E, I)
    BY <2>1, FitsSoFar
  <2>4. /\ Entry(q.user, q.list, q.ref) \in E /\ q.ref.issue = q.issue /\ q.kind \in Ending
        /\ q.look = 1 /\ (q.kind # "Remove" => q.list # "Out")
    BY <2>1 DEF Aware, EndAware
  <2>5. Aware("End.take", q, Taken(E, q.user, q.list, q.issue), I)
    BY <2>3, <2>4, EndUnlistedAware
  <2>6. Aware("err", q, E, I)
    BY <2>3, AwareDone
  <2> QED
    BY <1>4, <1>6, <2>2, <2>5, <2>6 DEF StaysAware, p
<1>7. CASE At(r, "End.pop") /\ PopReference(r, q.user, "My", "End.take", "err")
  <2>1. Aware("End.pop", q, E, I) /\ q.user \in Users
    BY <1>1, <1>2, <1>7 DEF At
  <2>2. q.kind = "Pop" /\ q.list = "My" /\ q.look = 1
    BY <2>1 DEF Aware, EndAware
  <2>3. Sound(E, I)
    BY <2>1, FitsSoFar
  <2>4. \/ /\ pc'[r] = "End.take" /\ issues' = I /\ AllUnique'
           /\ Entry(q.user, "My", p.ref) \in E /\ p.ref.issue = p.issue
           /\ Entries' = Taken(E, q.user, "My", p.issue)
           /\ p.kind = q.kind /\ p.user = q.user /\ p.list = "My" /\ p.look = 1
        \/ pc'[r] = "err" /\ issues' = I /\ AllUnique' /\ Entries' = E
    BY <1>2, <1>7, <2>1, <2>2, PopCall DEF E, I, q, p, Lists, Still
  <2>5. CASE pc'[r] = "End.take"
    <3>1. Entry(p.user, p.list, p.ref) \in E /\ p.kind \in Ending /\ Entries' = Taken(E, p.user, p.list, p.issue)
      BY <2>2, <2>4, <2>5 DEF Ending
    <3>2. Aware("End.take", p, Entries', I)
      BY <2>2, <2>3, <2>4, <2>5, <3>1, EndUnlistedAware
    <3> QED
      BY <2>4, <2>5, <3>2 DEF StaysAware, p
  <2>6. CASE pc'[r] = "err"
    BY <2>3, <2>4, <2>6, StaysDone
  <2> QED
    BY <2>4, <2>5, <2>6
<1>8. CASE At(r, "End.take") /\ TakeIssue(r, q.issue, "End.drop", OtherEnd(q))
  <2>1. Aware("End.take", q, E, I)
    BY <1>1, <1>8 DEF At
  <2>2. /\ Still /\ p.kind = q.kind /\ p.user = q.user /\ p.issue = q.issue /\ p.list = q.list
        /\ p.ref = q.ref /\ p.look = q.look
        /\ pc'[r] = "End.drop" \/ pc'[r] = OtherEnd(q)
    BY <1>2, <1>8, TakeCall DEF SameFind, SameTask, q, p
  <2>3. OtherEnd(p) = OtherEnd(q)
    BY <2>2 DEF OtherEnd
  <2>4. Aware("End.drop", p, E, I)
    BY <2>1, <2>2, EndTakenAware
  <2>5. Aware(OtherEnd(p), p, E, I)
    BY <1>2, <2>1, <2>2, EndDroppedAware
  <2> QED
    BY <1>2, <2>2, <2>3, <2>4, <2>5 DEF StaysAware, Still, p, E, I
<1>9. CASE At(r, "End.drop") /\ DropTaken(r, q.issue, OtherEnd(q))
  <2>1. Aware("End.drop", q, E, I)
    BY <1>1, <1>9 DEF At
  <2>2. /\ Entries' = E /\ AllUnique' /\ pc'[r] = OtherEnd(q)
        /\ p.kind = q.kind /\ p.user = q.user /\ p.issue = q.issue /\ p.list = q.list
        /\ p.ref = q.ref /\ p.look = q.look /\ issues' \in {I, Put(I, q.issue, Gone)}
    BY <1>2, <1>9, DroppedCall DEF SameFind, SameTask, q, p, E, I
  <2>3. OtherEnd(p) = OtherEnd(q)
    BY <2>2 DEF OtherEnd
  <2>4. Aware(OtherEnd(p), p, E, issues')
    BY <1>2, <2>1, <2>2, EndDroppedAware
  <2> QED
    BY <2>2, <2>3, <2>4 DEF StaysAware, p
<1> QED
  BY <1>5, <1>6, <1>7, <1>8, <1>9 DEF EndTodo, q

LEMMA EndCopyStaysAware ==
    ASSUME NEW r \in Requests, Mindful(r), EndCopy(r)
    PROVE  StaysAware(r)
<1> DEFINE q == req[r]
           p == req'[r]
           E == Entries
           I == issues
<1>1. Aware(pc[r], q, E, I)
  BY DEF Mindful
<1>2. /\ Inv /\ AllUnique /\ E \subseteq EntryType
      /\ \A label : Goto(r, label) => pc'[r] = label
      /\ q.look \in 1..3 /\ q.flist \in Lists
  BY MindfulFacts DEF ReqType
<1>3. q.kind \in Ending => ~Trouble(r)
  BY MindfulFacts DEF Ending, Lossy
<1>4. Kept => p = q
  BY DEF Kept
<1> HIDE DEF q, p, E, I
<1>5. CASE At(r, "End.ffind") /\ FindForeign(r, "End.funlist", "End.funlist")
  <2>1. Aware("End.ffind", q, E, I)
    BY <1>1, <1>5 DEF At
  <2>2. q.ref.fuser \in Users /\ ~Trouble(r)
    BY <1>3, <2>1 DEF Aware, EndAware
  <2>3. /\ Still /\ p.kind = q.kind /\ p.user = q.user /\ p.issue = q.issue /\ p.list = q.list
        /\ p.ref = q.ref
        /\ \/ pc'[r] = "End.funlist" /\ Hit(q, E) /\ p.flist = SearchOrder[q.look]
           \/ ~Hit(q, E) /\ pc'[r] = "End.ffind" /\ p.look = q.look + 1
           \/ ~Hit(q, E) /\ pc'[r] = "End.funlist" /\ q.look = 3
    BY <1>2, <1>5, <2>2, ForeignCall DEF At, SameFind, SameTask, LookOn, q, p, E
  <2>4. Aware(pc'[r], p, E, I)
    BY <1>2, <2>1, <2>3, EndFarFoundAware
  <2> QED
    BY <1>2, <2>3, <2>4 DEF StaysAware, Still, p, E, I
<1>6. CASE /\ At(r, "End.funlist")
           /\ RemoveReference(r, q.ref.fuser, Copy(q), FarList(q), "End.ftake", "End.ftake")
           /\ Kept
  <2>1. Aware("End.funlist", q, E, I)
    BY <1>1, <1>6 DEF At
  <2>2. q.ref.fuser \in Users /\ ~Trouble(r) /\ FarList(q) \in Lists
    BY <1>2, <1>3, <2>1 DEF Aware, EndAware, FarList, Lists
  <2>3. RemoveReference(r, q.ref.fuser, q.ref.fissue, FarList(q), "End.ftake", "End.ftake")
    BY <1>6 DEF Copy
  <2> DEFINE u == q.ref.fuser
             l == FarList(q)
             id == q.ref.fissue
  <2>4. /\ pc'[r] = "End.ftake" /\ issues' = I /\ AllUnique'
        /\ \/ Entries' = Taken(E, u, l, id)
           \/ Entries' = E /\ ~\E e \in E : e.user = u /\ e.list = l /\ e.ref.issue = id
    <3>1. u \in Users /\ l \in Lists /\ RemoveReference(r, u, id, l, "End.ftake", "End.ftake")
      BY <2>2, <2>3
    <3> HIDE DEF u, l, id
    <3> QED
      BY <1>2, <2>2, <3>1, RemoveCall DEF E, I, Still
  <2>5. Aware("End.ftake", q, Entries', I)
    BY <2>1, <2>4, EndFarUnlistedAware
  <2> QED
    BY <1>4, <1>6, <2>4, <2>5 DEF StaysAware, p
<1>7. CASE At(r, "End.ftake") /\ TakeIssue(r, Copy(q), "End.fdrop", "ok")
  <2>1. Aware("End.ftake", q, E, I)
    BY <1>1, <1>7 DEF At
  <2>2. /\ Still /\ p.kind = q.kind /\ p.ref = q.ref
        /\ pc'[r] = "End.fdrop" \/ pc'[r] = "ok"
    BY <1>2, <1>7, TakeCall DEF SameFind, SameTask, q, p
  <2>3. Aware("End.fdrop", p, E, I) /\ Aware("ok", p, E, I)
    BY <2>1, <2>2, EndFarTakenAware
  <2> QED
    BY <1>2, <2>2, <2>3 DEF StaysAware, Still, p, E, I
<1>8. CASE At(r, "End.fdrop") /\ DropTaken(r, Copy(q), "ok")
  <2>1. Aware("End.fdrop", q, E, I)
    BY <1>1, <1>8 DEF At
  <2>2. /\ Entries' = E /\ AllUnique' /\ pc'[r] = "ok"
        /\ p.kind = q.kind /\ p.ref = q.ref /\ issues' \in {I, Put(I, q.ref.fissue, Gone)}
    BY <1>2, <1>8, DroppedCall DEF SameFind, SameTask, Copy, q, p, E, I
  <2>3. Aware("ok", p, E, issues')
    BY <2>1, <2>2, EndFarTakenAware
  <2> QED
    BY <2>2, <2>3 DEF StaysAware, p
<1> QED
  BY <1>5, <1>6, <1>7, <1>8 DEF EndCopy, FarList, q

LEMMA EditStaysAware ==
    ASSUME NEW r \in Requests, Mindful(r), EditIssue(r)
    PROVE  StaysAware(r)
<1> DEFINE q == req[r]
           p == req'[r]
           E == Entries
           I == issues
           Places == {"Edit.get", "Edit.find", "Edit.found", "Edit.fget", "Edit.fsave", "Edit.save"}
<1>1. Aware(pc[r], q, E, I)
  BY DEF Mindful
<1>2. /\ Inv /\ AllUnique
      /\ \A label : Goto(r, label) => pc'[r] = label
      /\ pc[r] # "idle" => q.user \in Users
  BY MindfulFacts
<1>3. Kept => p = q
  BY DEF Kept
<1> HIDE DEF q, p, E, I
<1>4. /\ pc[r] \in Places /\ pc'[r] \in (Places \ {"Edit.get"}) \cup {"ok", "err"}
      /\ p.text = q.text /\ Entries' = E /\ AllUnique'
      /\ issues' = I \/ \E id : issues' = Put(I, id, q.text)
  <2>1. CASE At(r, "Edit.find") /\ FindOwn(r, "Edit.found", "err")
    BY <1>2, <2>1, OwnCall DEF At, SameTask, LookOn, Still, q, p, E, I
  <2>2. CASE Kept /\ At(r, "Edit.get") /\ GetIssue(r, q.issue, "Edit.find", "err")
    BY <1>2, <1>3, <2>2, GetCall DEF At, Still, E, I
  <2>3. CASE Kept /\ At(r, "Edit.found") /\ (Proceed(r, "Edit.save") \/ Proceed(r, "Edit.fget"))
    BY <1>2, <1>3, <2>3, ReadCall DEF At, Proceed, Still, E, I
  <2>4. CASE Kept /\ At(r, "Edit.fget") /\ GetIssue(r, Copy(q), "Edit.fsave", "Edit.save")
    BY <1>2, <1>3, <2>4, GetCall DEF At, Still, E, I
  <2>5. CASE Kept /\ At(r, "Edit.fsave") /\ SaveIssue(r, Copy(q), q.text, "Edit.save", "Edit.save")
    BY <1>2, <1>3, <2>5, SaveCall DEF At, E, I
  <2>6. CASE Kept /\ At(r, "Edit.save") /\ SaveIssue(r, q.issue, q.text, "ok", "err")
    BY <1>2, <1>3, <2>6, SaveCall DEF At, E, I
  <2> QED
    BY <2>1, <2>2, <2>3, <2>4, <2>5, <2>6 DEF EditIssue, q
<1>5. Aware(pc'[r], p, E, issues')
  BY <1>1, <1>4, EditAwareness
<1> QED
  BY <1>4, <1>5 DEF StaysAware, p

LEMMA AcceptStaysAware ==
    ASSUME NEW r \in Requests, Mindful(r), AcceptIssue(r)
    PROVE  StaysAware(r)
<1> DEFINE q == req[r]
           p == req'[r]
           E == Entries
           I == issues
<1>1. Aware(pc[r], q, E, I)
  BY DEF Mindful
<1>2. /\ Inv /\ AllUnique /\ E \subseteq EntryType
      /\ \A label : Goto(r, label) => pc'[r] = label
      /\ pc[r] # "idle" => q.user \in Users
      /\ q.kind = "Accept" => ~Trouble(r)
  BY MindfulFacts DEF Lossy
<1>3. Kept => p = q
  BY DEF Kept
<1> HIDE DEF q, p, E, I
<1>4. CASE At(r, "Accept.ref") /\ GetReference(r, "In", "Accept.my", "err")
  <2>1. Aware("Accept.ref", q, E, I) /\ q.user \in Users
    BY <1>1, <1>2, <1>4 DEF At
  <2>2. /\ Still /\ p.kind = q.kind /\ p.user = q.user /\ p.issue = q.issue
        /\ \/ /\ pc'[r] = "Accept.my"
              /\ Entry(q.user, "In", p.ref) \in E /\ p.ref.issue = q.issue
           \/ pc'[r] = "err"
    BY <1>2, <1>4, <2>1, ReferenceCall DEF SameTask, q, p, E, Lists
  <2>3. Aware("err", p, E, I)
    BY <2>1, FitsSoFar, AwareDone
  <2>4. Aware(pc'[r], p, E, I)
    <3>1. Entry(q.user, "In", p.ref) \in E /\ p.ref.issue = q.issue => Aware("Accept.my", p, E, I)
      BY <2>1, <2>2, AcceptAwareness
    <3> QED
      BY <2>2, <2>3, <3>1
  <2> QED
    BY <1>2, <2>2, <2>4 DEF StaysAware, Still, p, E, I
<1>5. CASE Kept /\ At(r, "Accept.get") /\ GetIssue(r, q.issue, "Accept.ref", "err")
  <2>1. Aware("Accept.get", q, E, I)
    BY <1>1, <1>5 DEF At
  <2>2. Still /\ pc'[r] \in {"Accept.ref", "err"} /\ p = q
    BY <1>2, <1>3, <1>5, GetCall
  <2>3. Aware("err", q, E, I) /\ Aware("Accept.ref", q, E, I)
    BY <2>1, FitsSoFar, AwareDone, AcceptAwareness
  <2> QED
    BY <1>2, <2>2, <2>3 DEF StaysAware, Still, p, E, I
<1>6. CASE /\ Kept /\ At(r, "Accept.my")
           /\ AddReference(r, q.user, q.issue, "My", q.ref.fuser, Copy(q), "Accept.in", "err")
  <2>1. Aware("Accept.my", q, E, I) /\ q.user \in Users
    BY <1>1, <1>2, <1>6 DEF At
  <2>2. q.ref \in Ref /\ q.ref.issue = q.issue
    <3>1. Entry(q.user, "In", q.ref) \in E /\ q.ref.issue = q.issue
      BY <2>1 DEF Aware, AcceptAware
    <3> QED
      BY <1>2, <3>1, EntryFields DEF EntryType
  <2> DEFINE ref == [issue |-> q.issue, fuser |-> q.ref.fuser, fissue |-> q.ref.fissue]
  <2>3. /\ ref = q.ref /\ q.issue \in IssueIds /\ q.ref.fuser \in Users \cup {NoUser}
        /\ q.ref.fissue \in IssueIds \cup {NoIssue}
    BY <2>2 DEF Ref
  <2>4. \/ /\ pc'[r] = "Accept.in" /\ issues' = I /\ AllUnique'
           /\ Entries' = E \cup {Entry(q.user, "My", ref)}
        \/ pc'[r] = "err" /\ Still
    BY <1>2, <1>6, <2>1, <2>3, AddCall DEF E, I, Copy, Lists
  <2> HIDE DEF ref
  <2>5. Aware("Accept.in", q, E \cup {Entry(q.user, "My", ref)}, I)
    BY <2>1, <2>3, AcceptAwareness
  <2>6. Aware("err", q, E, I)
    BY <2>1, FitsSoFar, AwareDone
  <2> QED
    BY <1>2, <1>3, <1>6, <2>4, <2>5, <2>6 DEF StaysAware, Still, p, E, I
<1>7. CASE /\ Kept /\ At(r, "Accept.in")
           /\ RemoveReference(r, q.user, q.issue, "In", "ok", "Accept.undo")
  <2>1. Aware("Accept.in", q, E, I) /\ q.user \in Users /\ ~Trouble(r)
    BY <1>1, <1>2, <1>7 DEF At, Aware, AcceptAware
  <2>2. \E e \in E : e.user = q.user /\ e.list = "In" /\ e.ref.issue = q.issue
    <3>1. Entry(q.user, "In", q.ref) \in E /\ q.ref.issue = q.issue
      BY <2>1 DEF Aware, AcceptAware
    <3> QED
      BY <3>1, EntryFields
  <2>3. /\ pc'[r] = "ok" /\ issues' = I /\ AllUnique'
        /\ Entries' = Taken(E, q.user, "In", q.issue)
    BY <1>2, <1>7, <2>1, <2>2, RemoveCall DEF E, I, Lists
  <2>4. Aware("ok", q, Taken(E, q.user, "In", q.issue), I)
    BY <2>1, AcceptAwareness
  <2> QED
    BY <1>3, <1>7, <2>3, <2>4 DEF StaysAware, p
<1>8. ~At(r, "Accept.undo")
  BY <1>1 DEF At, Aware, SendAware, Undoing
<1> QED
  BY <1>4, <1>5, <1>6, <1>7, <1>8 DEF AcceptIssue, q

LEMMA TakeBackStaysAware ==
    ASSUME NEW r \in Requests, Mindful(r), TakeBack(r)
    PROVE  StaysAware(r)
<1> DEFINE q == req[r]
           p == req'[r]
           E == Entries
           I == issues
<1>1. Aware(pc[r], q, E, I)
  BY DEF Mindful
<1>2. /\ Inv /\ AllUnique
      /\ \A label : Goto(r, label) => pc'[r] = label
      /\ pc[r] # "idle" => q.user \in Users
      /\ q \in ReqType
  BY MindfulFacts
<1>3. Kept => p = q
  BY DEF Kept
<1>4. pc[r] \notin {"End.take", "End.drop", "End.ffind", "End.funlist", "Accept.in"} => Sound(E, I)
  BY MindfulFacts
<1> HIDE DEF q, p, E, I
<1>5. CASE /\ At(r, "Assign.get")
           /\ GetIssue(r, q.issue, "Assign.find", "err")
           /\ req' = [req EXCEPT ![r].text = issues[q.issue]]
  <2>1. Aware("Assign.get", q, E, I) /\ Sound(E, I)
    BY <1>1, <1>4, <1>5 DEF At
  <2>2. Still /\ (pc'[r] = "err" \/ (pc'[r] = "Assign.find" /\ I[q.issue] # Gone))
    BY <1>2, <1>5, GetCall DEF I
  <2>3. /\ p.user = q.user /\ p.to = q.to /\ p.issue = q.issue /\ p.twin = q.twin
        /\ p.text = I[q.issue]
    <3>1. p = [q EXCEPT !.text = I[q.issue]]
      BY <1>2, <1>5 DEF q, p, I, Inv, ReqInv
    <3> QED
      BY <1>2, <3>1 DEF ReqType
  <2>4. Aware(pc'[r], p, E, I)
    BY <2>1, <2>2, <2>3, AssignFindAware, AwareDone
  <2> QED
    BY <1>2, <2>2, <2>4 DEF StaysAware, Still, p, E, I
<1>6. CASE At(r, "Assign.find") /\ FindOwn(r, "Assign.found", "err")
  <2>1. Aware("Assign.find", q, E, I) /\ Sound(E, I) /\ q.user \in Users
    BY <1>1, <1>2, <1>4, <1>6 DEF At
  <2>2. /\ Still /\ p.user = q.user /\ p.to = q.to /\ p.issue = q.issue
        /\ p.twin = q.twin /\ p.text = q.text
        /\ \/ /\ pc'[r] = "Assign.found" /\ Entry(q.user, p.list, p.ref) \in E
              /\ p.ref.issue = q.issue
           \/ pc'[r] = "Assign.find"
           \/ pc'[r] = "err"
    BY <1>2, <1>6, <2>1, OwnCall DEF At, SameTask, LookOn, q, p, E
  <2>3. Aware(pc'[r], p, E, I)
    BY <2>1, <2>2, AssignFindAware, AwareDone
  <2> QED
    BY <1>2, <2>2, <2>3 DEF StaysAware, Still, p, E, I
<1>7. CASE /\ At(r, "Assign.found") /\ Kept
           /\ Proceed(r, CASE Received(q) -> "err"
                           [] ~Received(q) /\ q.ref.fuser # NoUser -> "Assign.ffind"
                           [] OTHER -> Route(q))
  <2>1. Aware("Assign.found", q, E, I) /\ Sound(E, I)
    BY <1>1, <1>4, <1>7 DEF At
  <2>2. Still /\ p = q
    BY <1>3, <1>7, ReadCall DEF Proceed
  <2>3. \/ Received(q) /\ pc'[r] = "err"
        \/ ~Received(q) /\ q.ref.fuser # NoUser /\ pc'[r] = "Assign.ffind"
        \/ ~Received(q) /\ q.ref.fuser = NoUser /\ pc'[r] = Route(q)
    BY <1>2, <1>7 DEF Proceed
  <2>4. Aware(pc'[r], q, E, I)
    BY <2>1, <2>3, AssignFoundAware, AwareDone
  <2> QED
    BY <1>2, <2>2, <2>4 DEF StaysAware, Still, p, E, I
<1>8. CASE At(r, "Assign.ffind") /\ FindForeign(r, "Assign.funlist", "err")
  <2>1. Aware("Assign.ffind", q, E, I) /\ Sound(E, I)
    BY <1>1, <1>4, <1>8 DEF At
  <2>2. q.ref.fuser \in Users
    BY <2>1 DEF Aware, AssignAware
  <2>3. /\ Still /\ p.kind = q.kind /\ p.user = q.user /\ p.to = q.to /\ p.issue = q.issue
        /\ p.twin = q.twin /\ p.text = q.text /\ p.list = q.list /\ p.ref = q.ref
        /\ pc'[r] \in {"Assign.funlist", "Assign.ffind", "err"}
    BY <1>2, <1>8, <2>2, ForeignCall DEF At, SameFind, SameTask, LookOn, q, p
  <2>4. Aware(pc'[r], p, E, I)
    BY <2>1, <2>3, AssignFarAware, AwareDone
  <2> QED
    BY <1>2, <2>3, <2>4 DEF StaysAware, Still, p, E, I
<1>9. CASE /\ At(r, "Assign.funlist")
           /\ RemoveReference(r, q.ref.fuser, Copy(q), q.flist, "Assign.ftake", "err") /\ Kept
  <2>1. Aware("Assign.funlist", q, E, I) /\ Sound(E, I)
    BY <1>1, <1>4, <1>9 DEF At
  <2> DEFINE u == q.ref.fuser
             l == q.flist
             id == q.ref.fissue
  <2>2. /\ u \in Users /\ l \in Lists
        /\ RemoveReference(r, u, id, l, "Assign.ftake", "err")
    BY <1>2, <1>9, <2>1 DEF Aware, AssignAware, ReqType, Copy
  <2>3. \/ /\ pc'[r] = "Assign.ftake" /\ issues' = I /\ AllUnique' /\ Entries' = Taken(E, u, l, id)
           /\ \E f \in E : f.user = u /\ f.list = l /\ f.ref.issue = id
        \/ pc'[r] = "err" /\ Still
    <3> HIDE DEF u, l, id
    <3>1. \/ /\ pc'[r] = "Assign.ftake" /\ issues' = I /\ AllUnique'
             /\ Entries' = Taken(E, u, l, id)
          \/ pc'[r] = "err" /\ Still
      BY <1>2, <2>2, RemoveCall DEF E, I
    <3>2. pc'[r] = "Assign.ftake" => ~Goto(r, "err")
      BY <1>2
    <3>3. ~Goto(r, "err") => \E f \in E : f.user = u /\ f.list = l /\ f.ref.issue = id
      BY <1>2, <2>2, RemovedWas DEF E
    <3> QED
      BY <3>1, <3>2, <3>3
  <2>4. CASE pc'[r] = "err"
    BY <1>2, <2>1, <2>3, <2>4, StaysDone DEF Still, E, I
  <2>5. CASE pc'[r] = "Assign.ftake"
    <3>1. Aware("Assign.ftake", q, Entries', I)
      BY <2>1, <2>3, <2>5, AssignFarUnlistedAware
    <3> QED
      BY <1>3, <1>9, <2>3, <2>5, <3>1 DEF StaysAware, p
  <2> QED
    BY <2>3, <2>4, <2>5
<1>10. CASE At(r, "Assign.ftake") /\ TakeIssue(r, Copy(q), "Assign.fdrop", Route(q))
  <2>1. Aware("Assign.ftake", q, E, I)
    BY <1>1, <1>10 DEF At
  <2>2. /\ Still /\ p.user = q.user /\ p.to = q.to /\ p.issue = q.issue
        /\ p.twin = q.twin /\ p.text = q.text /\ p.list = q.list /\ p.ref = q.ref
        /\ pc'[r] = "Assign.fdrop" \/ pc'[r] = Route(q)
    BY <1>2, <1>10, TakeCall DEF SameFind, SameTask, q, p
  <2>3. Aware(pc'[r], p, E, I)
    BY <2>1, <2>2, AssignFarTakenAware
  <2> QED
    BY <1>2, <2>2, <2>3 DEF StaysAware, Still, p, E, I
<1>11. CASE At(r, "Assign.fdrop") /\ DropTaken(r, Copy(q), Route(q))
  <2>1. Aware("Assign.fdrop", q, E, I)
    BY <1>1, <1>11 DEF At
  <2>2. /\ Entries' = E /\ AllUnique' /\ pc'[r] = Route(q)
        /\ p.user = q.user /\ p.to = q.to /\ p.issue = q.issue
        /\ p.twin = q.twin /\ p.text = q.text /\ p.list = q.list /\ p.ref = q.ref
        /\ issues' \in {I, Put(I, q.ref.fissue, Gone)}
    BY <1>2, <1>11, DroppedCall DEF SameFind, SameTask, Copy, q, p, E, I
  <2>3. Aware(pc'[r], p, E, issues')
    BY <2>1, <2>2, AssignFarTakenAware
  <2> QED
    BY <2>2, <2>3 DEF StaysAware, p
<1> QED
  BY <1>5, <1>6, <1>7, <1>8, <1>9, <1>10, <1>11 DEF TakeBack, q

LEMMA AssignAnewStaysAware ==
    ASSUME NEW r \in Requests, Mindful(r), AssignAnew(r)
    PROVE  StaysAware(r)
<1> DEFINE q == req[r]
           E == Entries
           I == issues
<1>1. Aware(pc[r], q, E, I)
  BY DEF Mindful
<1>2. /\ Inv /\ AllUnique
      /\ \A label : Goto(r, label) => pc'[r] = label
      /\ q \in ReqType
  BY MindfulFacts
<1>3. req'[r] = q
  BY DEF AssignAnew, Kept
<1>4. pc[r] \notin {"End.take", "End.drop", "End.ffind", "End.funlist", "Accept.in"} => Sound(E, I)
  BY MindfulFacts
<1> HIDE DEF q, E, I
<1>5. ASSUME NEW label \in {"Assign.unlist", "Assign.my", "Assign.save", "Assign.out", "Assign.in"},
             At(r, label)
      PROVE  /\ Aware(label, q, E, I) /\ Sound(E, I) /\ q.user \in Users /\ q.to \in Users
             /\ q.issue \in IssueIds /\ q.twin \in IssueIds
  <2>1. Aware(label, q, E, I) /\ Sound(E, I)
    BY <1>1, <1>4, <1>5 DEF At
  <2> QED
    BY <2>1 DEF Aware, AssignAware
<1>6. CASE /\ At(r, "Assign.unlist")
           /\ RemoveReference(r, q.user, q.issue, q.list,
                              IF q.user = q.to THEN "Assign.my" ELSE "Assign.save", "err")
  <2> DEFINE F == Taken(E, q.user, q.list, q.issue)
             next == IF q.user = q.to THEN "Assign.my" ELSE "Assign.save"
  <2>1. Aware("Assign.unlist", q, E, I) /\ Sound(E, I) /\ q.user \in Users /\ q.list \in Lists
    BY <1>2, <1>5, <1>6 DEF ReqType
  <2>2. Aware(next, q, F, I)
    BY <2>1, AssignUnlistedAware
  <2>3. RemoveReference(r, q.user, q.issue, q.list, next, "err")
    BY <1>6
  <2> HIDE DEF next
  <2>4. \/ pc'[r] = next /\ issues' = I /\ AllUnique' /\ Entries' = F
        \/ pc'[r] = "err" /\ issues' = I /\ AllUnique' /\ Entries' = E
    BY <1>2, <2>1, <2>3, RemoveCall DEF E, I, Still
  <2> HIDE DEF F
  <2>5. CASE pc'[r] = next /\ issues' = I /\ AllUnique' /\ Entries' = F
    BY <1>3, <2>2, <2>5 DEF StaysAware
  <2>6. CASE pc'[r] = "err" /\ issues' = I /\ AllUnique' /\ Entries' = E
    BY <2>1, <2>6, StaysDone
  <2> QED
    BY <2>4, <2>5, <2>6
<1>7. CASE /\ At(r, "Assign.my")
           /\ AddReference(r, q.user, q.issue, "My", NoUser, NoIssue, "ok", "err")
  <2>1. /\ Aware("Assign.my", q, E, I) /\ Sound(E, I) /\ q.user \in Users /\ q.issue \in IssueIds
    BY <1>5, <1>7
  <2>2. \/ /\ pc'[r] = "ok" /\ issues' = I /\ AllUnique'
           /\ Entries' = E \cup {Entry(q.user, "My", OwnRef(q.issue))}
        \/ pc'[r] = "err" /\ issues' = I /\ AllUnique' /\ Entries' = E
    BY <1>2, <1>7, <2>1, AddCall DEF E, I, OwnRef, Still, Lists
  <2>3. /\ Aware("ok", q, E \cup {Entry(q.user, "My", OwnRef(q.issue))}, I)
        /\ Aware("err", q, E, I)
    BY <2>1, AssignAnewAware, AwareDone
  <2> QED
    BY <1>3, <2>2, <2>3 DEF StaysAware
<1>8. CASE At(r, "Assign.save") /\ SaveIssue(r, q.twin, q.text, "Assign.out", "err")
  <2>1. Aware("Assign.save", q, E, I) /\ Sound(E, I)
    BY <1>5, <1>8
  <2>2. /\ Entries' = E /\ AllUnique'
        /\ \/ pc'[r] = "Assign.out" /\ issues' = Put(I, q.twin, q.text)
           \/ pc'[r] = "err" /\ issues' = I
    BY <1>2, <1>8, SaveCall DEF E, I
  <2>3. Aware("Assign.out", q, E, Put(I, q.twin, q.text)) /\ Aware("err", q, E, I)
    BY <2>1, AssignAnewAware, AwareDone
  <2> QED
    BY <1>3, <2>2, <2>3 DEF StaysAware
<1>9. CASE /\ At(r, "Assign.out")
           /\ AddReference(r, q.user, q.issue, "Out", q.to, q.twin, "Assign.in", "err")
  <2>1. /\ Aware("Assign.out", q, E, I) /\ Sound(E, I) /\ q.user \in Users /\ q.to \in Users
        /\ q.issue \in IssueIds /\ q.twin \in IssueIds
    BY <1>5, <1>9
  <2>2. \/ /\ pc'[r] = "Assign.in" /\ issues' = I /\ AllUnique'
           /\ Entries' = E \cup {Entry(q.user, "Out", SentRef(q))}
        \/ pc'[r] = "err" /\ issues' = I /\ AllUnique' /\ Entries' = E
    BY <1>2, <1>9, <2>1, AddCall DEF E, I, SentRef, Still, Lists
  <2>3. /\ Aware("Assign.in", q, E \cup {Entry(q.user, "Out", SentRef(q))}, I)
        /\ Aware("err", q, E, I)
    BY <2>1, AssignAnewAware, AwareDone
  <2> QED
    BY <1>3, <2>2, <2>3 DEF StaysAware
<1>10. CASE /\ At(r, "Assign.in")
            /\ AddReference(r, q.to, q.twin, "In", q.user, q.issue, "ok", "err")
  <2> DEFINE ref == [issue |-> q.twin, fuser |-> q.user, fissue |-> q.issue]
  <2>1. /\ Aware("Assign.in", q, E, I) /\ Sound(E, I) /\ q.user \in Users /\ q.to \in Users
        /\ q.issue \in IssueIds /\ q.twin \in IssueIds
    BY <1>5, <1>10
  <2>2. ref = [issue |-> q.twin, fuser |-> q.user, fissue |-> q.issue]
    OBVIOUS
  <2> HIDE DEF ref
  <2>3. \/ /\ pc'[r] = "ok" /\ issues' = I /\ AllUnique'
           /\ Entries' = E \cup {Entry(q.to, "In", ref)}
        \/ pc'[r] = "err" /\ issues' = I /\ AllUnique' /\ Entries' = E
    BY <1>2, <1>10, <2>1, <2>2, AddCall DEF E, I, Still, Lists
  <2>4. Aware("ok", q, E \cup {Entry(q.to, "In", ref)}, I) /\ Aware("err", q, E, I)
    BY <2>1, <2>2, AssignAnewAware, AwareDone
  <2> QED
    BY <1>3, <2>3, <2>4 DEF StaysAware
<1> QED
  BY <1>6, <1>7, <1>8, <1>9, <1>10 DEF AssignAnew, q

LEMMA AsideStaysAware ==
    ASSUME NEW r \in Requests, Mindful(r), BumpIssue(r) \/ GetAllList(r)
    PROVE  StaysAware(r)
<1>1. Inv /\ AllUnique /\ Aware(pc[r], req[r], Entries, issues)
  BY DEF Mindful
<1>2. Still /\ pc[r] \in Aside /\ pc'[r] \in Aside \cup {"ok", "err"}
  BY <1>1, AsideCalls
<1>3. Aware(pc'[r], req'[r], Entries, issues)
  BY <1>1, <1>2, AsideAware
<1> QED
  BY <1>1, <1>2, <1>3 DEF StaysAware, Still

(* Whatever step a request makes, it is aware of what it relies on next.   *)
LEMMA StepStaysAware ==
    ASSUME NEW r \in Requests, Mindful(r), Step(r)
    PROVE  StaysAware(r)
BY AddStaysAware, SendStaysAware, EndTodoStaysAware, EndCopyStaysAware, EditStaysAware,
   TakeBackStaysAware, AssignAnewStaysAware, AcceptStaysAware, AsideStaysAware DEF Step

-----------------------------------------------------------------------------
(* One request after the other, whatever becomes of them.                  *)

LEMMA StepTracks ==
    ASSUME Inv, Tracks, OneAtATime, Troubled \subseteq Lossy, NEW r \in Requests, Step(r)
    PROVE  Tracks'
<1>1. Busy(r) /\ Others(r)
  BY StepIsBusy, StepAlone
<1>2. StaysAware(r)
  <2>1. Mindful(r)
    BY <1>1 DEF Tracks, Mindful
  <2> QED
    BY <2>1, StepStaysAware
<1>3. \A s \in Requests \ {r} : ~Busy(s) /\ ~Busy(s)'
  BY <1>1 DEF OneAtATime, Others, Busy
<1>4. pc'[r] \in {"idle", "ok", "err"} => Sound(Entries', issues')
  BY <1>2, FitsSoFar DEF StaysAware
<1>5. (Quiet => Sound(Entries, issues))'
  BY <1>4 DEF Quiet
<1>6. (\A s \in Requests : Busy(s) => Aware(pc[s], req[s], Entries, issues))'
  BY <1>2, <1>3 DEF StaysAware
<1> QED
  BY <1>2, <1>5, <1>6 DEF Tracks, StaysAware

LEMMA ReturnTracks ==
    ASSUME Inv, Tracks, NEW r \in Requests, Return(r)
    PROVE  Tracks'
<1>1. /\ pc[r] \in {"ok", "err"} /\ pc'[r] = "idle"
      /\ \A s \in Requests \ {r} : pc'[s] = pc[s] /\ req'[s] = req[s]
  BY DEF Inv, ReqInv, Return, Goto
<1>2. UNCHANGED <<lists, issues>>
  BY DEF Return
<1>3. AllUnique' /\ Entries' = Entries
  BY <1>2, EntriesSame DEF Tracks
<1>4. Quiet' => Quiet
  BY <1>1 DEF Quiet
<1>5. (Quiet => Sound(Entries, issues))'
  BY <1>2, <1>3, <1>4 DEF Tracks
<1>6. ASSUME NEW s \in Requests, pc'[s] \notin {"idle", "ok", "err"}
      PROVE  Aware(pc'[s], req'[s], Entries', issues')
  <2>1. s # r
    BY <1>1, <1>6
  <2>2. pc'[s] = pc[s] /\ req'[s] = req[s]
    BY <1>1, <2>1
  <2> QED
    BY <1>2, <1>3, <1>6, <2>2 DEF Tracks, Busy
<1>7. (\A s \in Requests : Busy(s) => Aware(pc[s], req[s], Entries, issues))'
  BY <1>6 DEF Busy
<1> QED
  BY <1>3, <1>5, <1>7 DEF Tracks

(* The handlers that die are those of which nothing is loose.              *)
LEMMA CrashTracks ==
    ASSUME Inv, Tracks, OneAtATime, TroubledDie, Troubled \subseteq Lossy,
           NEW r \in Requests, Crash(r)
    PROVE  Tracks'
<1>1. /\ Busy(r) /\ pc'[r] = "idle" /\ pc'[r] # pc[r]
      /\ \A s \in Requests \ {r} : pc'[s] = pc[s]
  BY DEF Inv, ReqInv, Crash, Goto, Busy
<1>2. UNCHANGED <<lists, issues>>
  BY DEF Crash
<1>3. AllUnique' /\ Entries' = Entries
  BY <1>2, EntriesSame DEF Tracks
<1>4. req[r].kind \in Lossy
  <2>1. crashes' > crashes
    BY DEF Inv, StoreInv, Crash
  <2> QED
    BY <1>1, <2>1 DEF TroubledDie
<1>5. Aware(pc[r], req[r], Entries, issues)
  BY <1>1 DEF Tracks
<1>6. Sound(Entries, issues)
  <2>1. pc[r] \notin {"End.take", "End.drop", "End.ffind", "End.funlist", "Accept.in"}
    BY <1>4, <1>5 DEF Aware, EndAware, AcceptAware, Lossy, Ending
  <2> QED
    BY <1>5, <2>1, FitsSoFar
<1>7. \A s \in Requests : ~Busy(s)'
  BY <1>1 DEF OneAtATime, Busy
<1> QED
  BY <1>2, <1>3, <1>6, <1>7 DEF Tracks

(* An id that has not been handed out is in no entry.                      *)
LEMMA FreshIsUnused ==
    ASSUME Inv, Sound(Entries, issues), NEW id \in IssueIds, id > born
    PROVE  Unused(id, Entries)
<1>1. owner[id] = NoUser
  BY DEF Inv, StoreInv, Fresh
<1>2. ASSUME NEW e \in Entries
      PROVE  e.ref.issue # id /\ e.ref.fissue # id
  <2>1. e.user \in Users /\ e.list \in Lists
        /\ \E i \in 1..Len(lists[e.user][e.list]) : lists[e.user][e.list][i] = e.ref
    BY EntryIs DEF Entries
  <2>2. RefOwned(e.user, e.ref)
    BY <2>1 DEF Inv, StoreInv, ListsOwned
  <2>3. e.ref.issue # id
    BY <1>1, <2>1, <2>2, SentinelAssumption DEF RefOwned
  <2>4. CASE e.ref.fuser # NoUser
    BY <1>1, <2>2, <2>3, <2>4 DEF RefOwned, PeerOwned
  <2>5. CASE e.ref.fuser = NoUser
    <3>1. e.ref.fissue = NoIssue
      BY <2>5 DEF Sound, Tied
    <3> QED
      BY <2>3, <3>1 DEF NoIssue, IssueIds
  <2> QED
    BY <2>3, <2>4, <2>5
<1> QED
  BY <1>2 DEF Unused

(* What a request that arrives has to be aware of.                         *)
StartsAware(r) == Aware(pc'[r], req'[r], Entries, issues)

LEMMA Prepared ==
    ASSUME NEW q, NEW E, NEW I, Sound(E, I),
           NEW label \in {"Add.save", "Send.save", "End.find", "End.pop", "Edit.get", "Assign.get",
                          "Accept.get", "Bump.ref", "List.read"},
           AddAware(label, q, E, I), SendAware(label, q, E, I), EndAware(label, q, E),
           AcceptAware(label, q, E), EditAware(label, q), AssignAware(label, q, E, I)
    PROVE  Aware(label, q, E, I)
BY NothingLoose DEF Aware

LEMMA NewStartsAware ==
    ASSUME Inv, Sound(Entries, issues), NEW r \in Requests, BeginNew(r)
    PROVE  StartsAware(r)
<1>1. /\ \A label : Goto(r, label) => pc'[r] = label
      /\ \A q : req' = [req EXCEPT ![r] = q] => req'[r] = q
  BY ReqTyped
<1>2. born \in Nat
  BY DEF Inv, StoreInv
<1>3. ASSUME NEW u \in Users, NEW text \in Texts, NEW q,
             q = [[NoReq EXCEPT !.user = u, !.issue = born + 1, !.text = text] EXCEPT !.kind = "Add"],
             Arrive(r, "Add.save", q, <<u>>)
      PROVE  StartsAware(r)
  <2>1. pc'[r] = "Add.save" /\ req'[r] = q /\ born + 1 <= MaxIssues
    BY <1>1, <1>3 DEF Arrive
  <2>2. born + 1 \in IssueIds /\ Unused(born + 1, Entries)
    <3>1. born + 1 \in IssueIds /\ born + 1 > born
      BY <1>2, <2>1, BoundsAssumption DEF IssueIds
    <3> QED
      BY <3>1, FreshIsUnused
  <2>3. q.user = u /\ q.issue = born + 1 /\ q.text = text
    BY <1>3 DEF NoReq
  <2>4. Aware("Add.save", q, Entries, issues)
    BY <2>2, <2>3, Prepared DEF AddAware, SendAware, EndAware, AcceptAware, EditAware, AssignAware, Undoing
  <2> QED
    BY <2>1, <2>4 DEF StartsAware
<1>4. ASSUME NEW u \in Users, NEW text \in Texts, NEW v \in Users \ {u}, NEW q,
             q = [[NoReq EXCEPT !.user = u, !.issue = born + 1, !.text = text]
                     EXCEPT !.kind = "Send", !.to = v, !.twin = born + 2],
             Arrive(r, "Send.save", q, <<u, v>>)
      PROVE  StartsAware(r)
  <2>1. pc'[r] = "Send.save" /\ req'[r] = q /\ born + 2 <= MaxIssues
    BY <1>1, <1>4 DEF Arrive
  <2>2. \A id \in {born + 1, born + 2} : id \in IssueIds /\ Unused(id, Entries)
    <3>1. \A id \in {born + 1, born + 2} : id \in IssueIds /\ id > born
      BY <1>2, <2>1, BoundsAssumption DEF IssueIds
    <3> QED
      BY <3>1, FreshIsUnused
  <2>3. /\ q.kind = "Send" /\ q.user = u /\ q.issue = born + 1 /\ q.text = text
        /\ q.to = v /\ v # u /\ q.twin = born + 2 /\ born + 1 # born + 2
    BY <1>2, <1>4 DEF NoReq
  <2>4. Aware("Send.save", q, Entries, issues)
    BY <2>2, <2>3, Prepared DEF AddAware, SendAware, EndAware, AcceptAware, EditAware, AssignAware, Undoing
  <2> QED
    BY <2>1, <2>4 DEF StartsAware
<1> QED
  BY <1>3, <1>4 DEF BeginNew

LEMMA EndStartsAware ==
    ASSUME Inv, Sound(Entries, issues), OnlyShown, NEW r \in Requests, BeginEnd(r)
    PROVE  StartsAware(r)
<1>1. /\ \A label : Goto(r, label) => pc'[r] = label
      /\ \A q : req' = [req EXCEPT ![r] = q] => req'[r] = q
  BY ReqTyped
<1>2. ASSUME NEW u \in Users, NEW id, NEW kind \in {"Complete", "Remove"}, NEW q,
             q = [NoReq EXCEPT !.kind = kind, !.user = u, !.issue = id],
             Arrive(r, "End.find", q, << >>)
      PROVE  StartsAware(r)
  <2>1. pc'[r] = "End.find" /\ req'[r] = q /\ pc[r] = "idle"
    BY <1>1, <1>2 DEF Arrive
  <2>2. q.kind = kind /\ q.user = u /\ q.issue = id
    BY <1>2 DEF NoReq
  <2>3. ASSUME kind = "Complete", NEW e \in Entries, e.user = u, e.ref.issue = id
        PROVE  e.list # "Out"
    <3>1. CanComplete(u, id)
      BY <2>1, <2>2, <2>3 DEF OnlyShown, Begins
    <3>2. \A l \in Lists : Holds(lists[u][l], id) <=>
            \E f \in Entries : f.user = u /\ f.list = l /\ f.ref.issue = id
      BY HeldEntry
    <3>3. \E l \in Lists : l # "Out" /\ Holds(lists[u][l], id)
      BY <3>1 DEF CanComplete, Lists
    <3>4. PICK f \in Entries : f.user = u /\ f.list # "Out" /\ f.ref.issue = id
      BY <3>2, <3>3
    <3> QED
      BY <2>3, <3>4 DEF Sound
  <2>4. EndAware("End.find", q, Entries)
    BY <2>2, <2>3 DEF EndAware, Ending
  <2>5. Aware("End.find", q, Entries, issues)
    BY <2>4, Prepared DEF AddAware, SendAware, AcceptAware, EditAware, AssignAware, Undoing
  <2> QED
    BY <2>1, <2>5 DEF StartsAware
<1>3. ASSUME NEW u \in Users, NEW q, q = [NoReq EXCEPT !.kind = "Pop", !.user = u],
             Arrive(r, "End.pop", q, << >>)
      PROVE  StartsAware(r)
  <2>1. pc'[r] = "End.pop" /\ req'[r] = q
    BY <1>1, <1>3 DEF Arrive
  <2>2. q.kind = "Pop" /\ q.list = "My" /\ q.look = 1
    BY <1>3 DEF NoReq
  <2>3. EndAware("End.pop", q, Entries)
    BY <2>2 DEF EndAware, Ending
  <2>4. Aware("End.pop", q, Entries, issues)
    BY <2>3, Prepared DEF AddAware, SendAware, AcceptAware, EditAware, AssignAware, Undoing
  <2> QED
    BY <2>1, <2>4 DEF StartsAware
<1> QED
  BY <1>2, <1>3 DEF BeginEnd

LEMMA ChangeStartsAware ==
    ASSUME Inv, Sound(Entries, issues), SelfFromSent, NEW r \in Requests, BeginChange(r)
    PROVE  StartsAware(r)
<1>1. /\ \A label : Goto(r, label) => pc'[r] = label
      /\ \A q : req' = [req EXCEPT ![r] = q] => req'[r] = q
  BY ReqTyped
<1>2. born \in Nat
  BY DEF Inv, StoreInv
<1>3. ASSUME NEW u \in Users, NEW id \in Known, NEW text \in Texts, NEW q,
             q = [[NoReq EXCEPT !.user = u, !.issue = id] EXCEPT !.kind = "Edit", !.text = text],
             Arrive(r, "Edit.get", q, << >>)
      PROVE  StartsAware(r)
  <2>1. pc'[r] = "Edit.get" /\ req'[r] = q
    BY <1>1, <1>3 DEF Arrive
  <2>2. q.text = text
    BY <1>3 DEF NoReq
  <2>3. Aware("Edit.get", q, Entries, issues)
    BY <2>2, Prepared DEF AddAware, SendAware, EndAware, AcceptAware, EditAware, AssignAware, Undoing
  <2> QED
    BY <2>1, <2>3 DEF StartsAware
<1>4. ASSUME NEW u \in Users, NEW id \in Known, NEW v \in Users, NEW q,
             q = [[NoReq EXCEPT !.user = u, !.issue = id]
                     EXCEPT !.kind = "Assign", !.to = v, !.twin = born + 1],
             Arrive(r, "Assign.get", q, <<v>>)
      PROVE  StartsAware(r)
  <2>1. pc'[r] = "Assign.get" /\ req'[r] = q /\ pc[r] = "idle" /\ born + 1 <= MaxIssues
    BY <1>1, <1>4 DEF Arrive
  <2>2. born + 1 \in IssueIds /\ Unused(born + 1, Entries)
    <3>1. born + 1 \in IssueIds /\ born + 1 > born
      BY <1>2, <2>1, BoundsAssumption DEF IssueIds
    <3> QED
      BY <3>1, FreshIsUnused
  <2>3. /\ q.kind = "Assign" /\ q.user = u /\ q.issue = id /\ q.to = v /\ q.twin = born + 1
        /\ born + 1 # id /\ id \in IssueIds
    BY <1>2, <1>4, <2>1, BoundsAssumption DEF NoReq, Known, IssueIds
  <2>4. ASSUME v = u
        PROVE  \E e \in Entries : e.user = u /\ e.list = "Out" /\ e.ref.issue = id
    <3>1. Holds(lists[u]["Out"], id)
      BY <2>1, <2>3, <2>4 DEF SelfFromSent, Begins
    <3>2. "Out" \in Lists
      BY DEF Lists
    <3> QED
      BY <3>1, <3>2, HeldEntry
  <2>5. AssignAware("Assign.get", q, Entries, issues)
    BY <2>2, <2>3, <2>4 DEF AssignAware
  <2>6. Aware("Assign.get", q, Entries, issues)
    BY <2>5, Prepared DEF AddAware, SendAware, EndAware, AcceptAware, EditAware, Undoing
  <2> QED
    BY <2>1, <2>6 DEF StartsAware
<1>5. ASSUME NEW u \in Users, NEW id \in Known, NEW q,
             q = [[NoReq EXCEPT !.user = u, !.issue = id] EXCEPT !.kind = "Accept"],
             Arrive(r, "Accept.get", q, << >>)
      PROVE  StartsAware(r)
  <2>1. pc'[r] = "Accept.get" /\ req'[r] = q
    BY <1>1, <1>5 DEF Arrive
  <2>2. q.kind = "Accept" /\ q.user = u
    BY <1>5 DEF NoReq
  <2>3. Aware("Accept.get", q, Entries, issues)
    BY <2>2, Prepared DEF AddAware, SendAware, EndAware, AcceptAware, EditAware, AssignAware, Undoing
  <2> QED
    BY <2>1, <2>3 DEF StartsAware
<1>6. ASSUME NEW u \in Users, NEW id \in Known, NEW q, Arrive(r, "Bump.ref", q, << >>)
      PROVE  StartsAware(r)
  <2>1. pc'[r] = "Bump.ref"
    BY <1>1, <1>6 DEF Arrive
  <2>2. Aware("Bump.ref", req'[r], Entries, issues)
    BY Prepared DEF AddAware, SendAware, EndAware, AcceptAware, EditAware, AssignAware, Undoing
  <2> QED
    BY <2>1, <2>2 DEF StartsAware
<1> QED
  BY <1>3, <1>4, <1>5, <1>6 DEF BeginChange

LEMMA ListStartsAware ==
    ASSUME Inv, Sound(Entries, issues), NEW r \in Requests, BeginList(r)
    PROVE  StartsAware(r)
<1>1. pc'[r] = "List.read"
  BY ReqTyped DEF BeginList, Arrive
<1>2. Aware("List.read", req'[r], Entries, issues)
  BY Prepared DEF AddAware, SendAware, EndAware, AcceptAware, EditAware, AssignAware, Undoing
<1> QED
  BY <1>1, <1>2 DEF StartsAware

LEMMA BeginTracks ==
    ASSUME Inv, Tracks, OneAtATime', OnlyShown, SelfFromSent, NEW r \in Requests, Begin(r)
    PROVE  Tracks'
<1>1. /\ pc[r] = "idle" /\ \E label : pc' = [pc EXCEPT ![r] = label]
      /\ \E q : req' = [req EXCEPT ![r] = q]
  BY DEF Begin, BeginNew, BeginEnd, BeginChange, BeginList, Arrive, Goto
<1>2. Others(r)
  BY <1>1 DEF Inv, ReqInv, Others
<1>3. UNCHANGED <<lists, issues>> /\ AllUnique' /\ Entries' = Entries
  BY EntriesSame DEF Begin, Tracks
<1>4. Sound(Entries, issues) => StartsAware(r)
  BY NewStartsAware, EndStartsAware, ChangeStartsAware, ListStartsAware DEF Begin
<1>5. Busy(r)'
  BY <1>1 DEF Inv, ReqInv, Begin, BeginNew, BeginEnd, BeginChange, BeginList, Arrive, Goto, Busy
<1>6. \A s \in Requests \ {r} : ~Busy(s)'
  BY <1>5 DEF OneAtATime
<1>7. \A s \in Requests \ {r} : ~Busy(s)
  BY <1>2, <1>6 DEF Busy, Others
<1>8. Quiet
  BY <1>1, <1>7 DEF Quiet, Busy
<1>9. Aware(pc'[r], req'[r], Entries', issues')
  BY <1>3, <1>4, <1>8 DEF Tracks, StartsAware
<1>10. ~Quiet'
  BY <1>5 DEF Quiet, Busy
<1>11. (\A s \in Requests : Busy(s) => Aware(pc[s], req[s], Entries, issues))'
  BY <1>6, <1>9
<1> QED
  BY <1>3, <1>10, <1>11 DEF Tracks

LEMMA InitTracks ==
    ASSUME Init
    PROVE  Tracks
<1>1. \A u \in Users, l \in Lists : lists[u][l] = << >>
  BY DEF Init
<1>2. AllUnique
  BY <1>1 DEF AllUnique, IdsUnique
<1>3. Entries = {}
  BY <1>1 DEF Entries, EntryType
<1>4. Sound(Entries, issues)
  BY <1>3 DEF Sound, Init
<1> QED
  BY <1>2, <1>4 DEF Tracks, Busy, Init

LEMMA NextTracks ==
    ASSUME Troubled \subseteq Lossy, Inv, Tracks, OneAtATime, OneAtATime', [WebNext]_vars
    PROVE  Tracks'
<1>1. CASE UNCHANGED vars
  <2>1. UNCHANGED <<lists, issues, pc, req>>
    BY <1>1 DEF vars
  <2>2. AllUnique' /\ Entries' = Entries
    BY <2>1, EntriesSame DEF Tracks
  <2> QED
    BY <2>1, <2>2 DEF Tracks, Quiet, Busy
<1>2. CASE WebNext
  <2>1. PICK r \in Requests : Begin(r) \/ Step(r) \/ Return(r) \/ Crash(r)
    BY <1>2 DEF WebNext, Next
  <2>2. OnlyShown /\ SelfFromSent /\ TroubledDie
    BY <1>2 DEF WebNext
  <2> QED
    BY <2>1, <2>2, BeginTracks, StepTracks, ReturnTracks, CrashTracks
<1> QED
  BY <1>1, <1>2

(* A received todo is tied to the one entry of its author's.               *)
LEMMA SoundReceivers ==
    ASSUME Inv, Sound(Entries, issues), NEW u \in Users, NEW id \in IssueIds
    PROVE  Cardinality(Receivers(u, id)) <= 1
<1>1. ASSUME NEW v \in Receivers(u, id)
      PROVE  \E f \in Entries : f.user = u /\ f.ref.issue = id /\ f.ref.fuser = v
  <2>1. v \in Users
    BY <1>1 DEF Receivers
  <2>2. PICK m \in {"My", "In"} : \E i \in 1..Len(lists[v][m]) :
          lists[v][m][i].fuser = u /\ lists[v][m][i].fissue = id
    BY <1>1 DEF Receivers
  <2> PICK i \in 1..Len(lists[v][m]) :
          lists[v][m][i].fuser = u /\ lists[v][m][i].fissue = id
    BY <2>2
  <2> DEFINE e == Entry(v, m, lists[v][m][i])
  <2>3. e \in Entries
    BY <2>1, <2>2, ListedEntry DEF Lists
  <2>4. e.user = v /\ e.list # "Out" /\ e.ref.fuser = u /\ e.ref.fissue = id /\ u # NoUser
    BY EntryFields, SentinelAssumption
  <2> HIDE DEF e
  <2>5. PICK f \in Entries : Ends(e, f)
    BY <2>3, <2>4 DEF Sound, Tied
  <2> QED
    BY <2>4, <2>5 DEF Ends
<1>2. \A v, w \in Receivers(u, id) : v = w
  <2> TAKE v, w \in Receivers(u, id)
  <2>1. PICK f \in Entries : f.user = u /\ f.ref.issue = id /\ f.ref.fuser = v
    BY <1>1
  <2>2. PICK g \in Entries : g.user = u /\ g.ref.issue = id /\ g.ref.fuser = w
    BY <1>1
  <2> QED
    BY <2>1, <2>2 DEF Sound
<1>3. CASE Receivers(u, id) = {}
  BY <1>3, FS_EmptySet
<1>4. CASE Receivers(u, id) # {}
  <2>1. PICK v : v \in Receivers(u, id)
    BY <1>4
  <2>2. Receivers(u, id) = {v}
    BY <1>2, <2>1
  <2> QED
    BY <2>2, FS_Singleton
<1> QED
  BY <1>3, <1>4

LEMMA TracksSuffice ==
    ASSUME Inv, Tracks
    PROVE  NothingDangles /\ OneReceiver
<1>1. ASSUME Quiet, NEW u \in Users, NEW l \in Lists, NEW i \in 1..Len(lists[u][l])
      PROVE  issues[lists[u][l][i].issue] # Gone
  <2> DEFINE ref == lists[u][l][i]
  <2>1. Entry(u, l, ref) \in Entries
    BY ListedEntry
  <2>2. Entry(u, l, ref).ref = ref
    BY EntryFields
  <2> QED
    BY <1>1, <2>1, <2>2 DEF Tracks, Sound
<1>2. NothingDangles
  BY <1>1 DEF NothingDangles
<1>3. OneReceiver
  BY SoundReceivers DEF Tracks, OneReceiver
<1> QED
  BY <1>2, <1>3

LEMMA TracksKept ==
    ASSUME Troubled \subseteq Lossy
    PROVE  WebSpec /\ []OneAtATime => [](Inv /\ Tracks)
<1>1. Init => Inv /\ Tracks
  BY InitEstablishes, InitTracks
<1>2. Inv /\ Tracks /\ OneAtATime /\ OneAtATime' /\ [WebNext]_vars => (Inv /\ Tracks)'
  <2>1. [WebNext]_vars => [Next]_vars
    BY DEF WebNext
  <2> QED
    BY <2>1, NextKeeps, NextTracks
<1> QED
  BY <1>1, <1>2, PTL DEF WebSpec

-----------------------------------------------------------------------------
(* The theorems: requests that come one after the other, from a web app    *)
(* that offers only what it shows.                                         *)

LEMMA CoursesKept ==
    ASSUME Troubled \subseteq Reversible, MaxCrashes = 0
    PROVE  SequentialSpec => [](Inv /\ Courses)
<1>1. Init => Inv /\ Courses
  BY InitEstablishes, InitOnCourse
<1>2. Inv /\ Courses /\ OneAtATime /\ OneAtATime' /\ [RollbacksWork]_vars /\ [WebNext]_vars
        => (Inv /\ Courses)'
  <2>1. [WebNext]_vars => [Next]_vars
    BY DEF WebNext
  <2> QED
    BY <2>1, NextKeeps, NextOnCourse
<1> QED
  BY <1>1, <1>2, PTL DEF SequentialSpec, WebSpec

(* Between requests every record is in exactly one list, and every listed  *)
(* todo has a record: with any number of users, todos and requests, when   *)
(* calls of additions, sendings and acceptances fail anywhere but where    *)
(* the code undoes them (list.go logs those errors and goes on).           *)
THEOREM RecordsAreListed ==
    ASSUME Troubled \subseteq Reversible, MaxCrashes = 0
    PROVE  SequentialSpec => []RecordsMatchLists
<1>1. Inv /\ Courses => RecordsMatchLists
  BY CoursesSuffice
<1> QED
  BY <1>1, CoursesKept, PTL

(* Between requests the two copies of a sent todo point to each other,     *)
(* from the lists they belong to, whatever has been done to either.        *)
THEOREM CopiesAreLinked ==
    ASSUME Troubled \subseteq Reversible, MaxCrashes = 0
    PROVE  SequentialSpec => []Linked
<1>1. Inv /\ Courses => Linked
  BY CoursesSuffice
<1> QED
  BY <1>1, CoursesKept, PTL

(* Between requests the two copies say the same: an edit reaches both, and *)
(* an assignment takes the text along.                                     *)
THEOREM CopiesSayTheSame ==
    ASSUME Troubled \subseteq Reversible, MaxCrashes = 0
    PROVE  SequentialSpec => []CopiesAgree
<1>1. Inv /\ Courses => CopiesAgree
  BY CoursesSuffice
<1> QED
  BY <1>1, CoursesKept, PTL

(* The handlers that complete, remove or pop a todo get the todo they have *)
(* ended: what they dereference is never nil.                              *)
THEOREM EndedTodosAreReturned ==
    ASSUME Troubled \subseteq Reversible, MaxCrashes = 0
    PROVE  SequentialSpec => []EndedTodoIsReturned
<1>1. Inv /\ Courses => EndedTodoIsReturned
  BY CoursesSuffice
<1> QED
  BY <1>1, CoursesKept, PTL

(* One failing call is no reason for an undo to fail: SequentialSpec asks  *)
(* nothing more than requests one after the other then.                    *)
THEOREM OneFaultIsUndone ==
    ASSUME Troubled \subseteq Reversible, MaxCrashes = 0, MaxFaults <= 1
    PROVE  WebSpec /\ []OneAtATime => SequentialSpec
<1>1. Init => Inv /\ Courses /\ Spent
  BY InitEstablishes, InitOnCourse DEF Init, Spent, Undoing
<1>2. Inv /\ Courses /\ Spent /\ OneAtATime /\ OneAtATime' /\ [WebNext]_vars
        => [RollbacksWork]_vars /\ (Inv /\ Courses /\ Spent)'
  <2>1. [WebNext]_vars => [Next]_vars
    BY DEF WebNext
  <2> QED
    BY <2>1, NextKeeps, NextOnCourse, OneFaultUndone
<1> QED
  BY <1>1, <1>2, PTL DEF SequentialSpec, WebSpec

(* For its users a todo is one thing: what they see from one request to    *)
(* the next changes by one step of SharedTodos, or not at all when the     *)
(* request has failed, though it was made in many steps on two records and *)
(* up to three lists.                                                      *)
THEOREM TodosAreOneThing ==
    ASSUME Troubled \subseteq Reversible, MaxCrashes = 0
    PROVE  SeenSpec /\ []OneAtATime /\ [][RollbacksWork]_vars => ImplementsSharedTodos
<1>1. Inv /\ Courses => Sight
  BY VisibleIsSeen DEF Courses, Sight
<1>2. SeenInit => Init /\ Inv /\ Courses /\ Following /\ Shared!Init
  BY SeenInitially DEF SeenInit, Shared!Init
<1>3. [SeenNext]_<<vars, shown>> => [WebNext]_vars
  BY DEF SeenNext, vars
<1>4. Inv /\ Courses /\ Sight /\ Sight' /\ Following /\ OneAtATime /\ OneAtATime'
        /\ [RollbacksWork]_vars /\ [SeenNext]_<<vars, shown>>
        => Following' /\ [Shared!Next]_shown
  BY NextSeen, TurnsAreSteps
<1>5. SeenSpec => WebSpec
  BY <1>2, <1>3, PTL DEF SeenSpec, WebSpec
<1>6. SeenSpec /\ []OneAtATime /\ [][RollbacksWork]_vars => [](Inv /\ Courses)
  BY <1>5, CoursesKept, PTL DEF SequentialSpec
<1> QED
  BY <1>1, <1>2, <1>4, <1>6, PTL DEF SeenSpec, ImplementsSharedTodos, Shared!Spec

(* So it is when one call fails: then no call that undoes something does.  *)
THEOREM TodosAreOneThingDespiteAFault ==
    ASSUME Troubled \subseteq Reversible, MaxCrashes = 0, MaxFaults <= 1
    PROVE  SeenSpec /\ []OneAtATime => ImplementsSharedTodos
<1>1. SeenInit => Init
  BY DEF SeenInit
<1>2. [SeenNext]_<<vars, shown>> => [WebNext]_vars
  BY DEF SeenNext, vars
<1>3. SeenSpec => WebSpec
  BY <1>1, <1>2, PTL DEF SeenSpec, WebSpec
<1> QED
  BY <1>3, OneFaultIsUndone, TodosAreOneThing, PTL DEF SequentialSpec

(* Between requests no list shows a todo without a record, whichever calls *)
(* of additions, edits and assignments have failed and wherever their      *)
(* handlers have died: with any number of users, todos, requests, failing  *)
(* calls and crashes, what is left behind is a record in no list or a todo *)
(* without its copy, never a reference to nothing.                         *)
THEOREM NothingIsLeftDangling ==
    ASSUME Troubled \subseteq Lossy
    PROVE  WebSpec /\ []OneAtATime => []NothingDangles
<1>1. Inv /\ Tracks => NothingDangles
  BY TracksSuffice
<1> QED
  BY <1>1, TracksKept, PTL

(* Nor has a todo two receivers then, however often an assignment that has *)
(* failed half way is tried again: ChangeAssignment takes before it gives. *)
THEOREM OneReceiverAtMost ==
    ASSUME Troubled \subseteq Lossy
    PROVE  WebSpec /\ []OneAtATime => []OneReceiver
<1>1. Inv /\ Tracks => OneReceiver
  BY TracksSuffice
<1> QED
  BY <1>1, TracksKept, PTL
=============================================================================
