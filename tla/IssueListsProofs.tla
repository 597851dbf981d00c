--------------------------- MODULE IssueListsProofs ---------------------------
(***************************************************************************)
(* What the list operators do to any list, proved once for the proofs of   *)
(* the modules that use them.                                              *)
(***************************************************************************)
EXTENDS IssueLists, TLAPS, WellFoundedInduction

(* Taking one element out of a sequence. *)
LEMMA RemoveAtFacts ==
    ASSUME NEW S, NEW s \in Seq(S), NEW i \in 1..Len(s)
    PROVE  /\ RemoveAt(s, i) \in Seq(S)
           /\ Len(RemoveAt(s, i)) = Len(s) - 1
           /\ \A j \in 1..(Len(s) - 1) : RemoveAt(s, i)[j] = s[IF j < i THEN j ELSE j + 1]
<1> DEFINE front == SubSeq(s, 1, i - 1)
           back == SubSeq(s, i + 1, Len(s))
<1>1. /\ front \in Seq(S)
      /\ Len(front) = i - 1
      /\ \A j \in 1..(i - 1) : front[j] = s[j]
  OBVIOUS
<1>2. /\ back \in Seq(S)
      /\ Len(back) = Len(s) - i
      /\ \A j \in 1..(Len(s) - i) : back[j] = s[i + j]
  OBVIOUS
<1>3. RemoveAt(s, i) = front \o back
  BY DEF RemoveAt
<1> HIDE DEF front, back
<1>4. /\ front \o back \in Seq(S)
      /\ Len(front \o back) = Len(s) - 1
  BY <1>1, <1>2
<1>5. ASSUME NEW j \in 1..(Len(s) - 1)
      PROVE  (front \o back)[j] = s[IF j < i THEN j ELSE j + 1]
  <2>1. CASE j < i
    BY <1>1, <1>2, <2>1
  <2>2. CASE ~(j < i)
    <3>1. (front \o back)[j] = back[j - (i - 1)]
      BY <1>1, <1>2, <2>2
    <3>2. j - (i - 1) \in 1..(Len(s) - i) /\ i + (j - (i - 1)) = j + 1
      BY <2>2
    <3>3. back[j - (i - 1)] = s[i + (j - (i - 1))]
      BY <1>2, <3>2
    <3> QED
      BY <2>2, <3>1, <3>2, <3>3
  <2> QED
    BY <2>1, <2>2
<1> QED
  BY <1>3, <1>4, <1>5

(* The first position of a todo that the list holds is one of its positions. *)
LEMMA PositionFacts ==
    ASSUME NEW S, NEW s \in Seq(S), NEW id, Holds(s, id)
    PROVE  PositionOf(s, id) \in 1..Len(s) /\ s[PositionOf(s, id)].issue = id
<1> DEFINE P == Positions(s, id)
<1>1. P # {} /\ P \subseteq Nat
  BY DEF Holds, Positions
<1>2. \E i \in P : \A j \in P : i <= j
  <2>1. PICK i \in P : \A j \in P : ~ (<<j, i>> \in OpToRel(<, Nat))
    BY <1>1, NatLessThanWellFounded, WFMin
  <2>2. ASSUME NEW j \in P PROVE i <= j
    <3>1. ~ (j < i)
      BY <2>1, <1>1 DEF OpToRel
    <3> QED
      BY <3>1, <1>1
  <2> QED
    BY <2>1, <2>2
<1>3. PositionOf(s, id) \in P
  BY <1>2 DEF PositionOf
<1> QED
  BY <1>3 DEF Positions

(* Where BumpReference stops is a position of any list but the empty one. *)
LEMMA BumpFromFacts ==
    ASSUME NEW S, NEW s \in Seq(S), NEW id, s # <<>>
    PROVE  BumpFrom(s, id) \in 1..Len(s)
<1>1. Len(s) \in 1..Len(s)
  OBVIOUS
<1> QED
  BY <1>1, PositionFacts DEF BumpFrom

(* A bump rotates the references up to the one it moves. *)
LEMMA BumpRefFacts ==
    ASSUME NEW S, NEW s \in Seq(S), NEW id, s # <<>>
    PROVE  /\ BumpRef(s, id) \in Seq(S)
           /\ Len(BumpRef(s, id)) = Len(s)
           /\ \A j \in 1..Len(s) :
                 BumpRef(s, id)[j] =
                   s[IF j = 1 THEN BumpFrom(s, id)
                     ELSE IF j <= BumpFrom(s, id) THEN j - 1 ELSE j]
<1> DEFINE i == BumpFrom(s, id)
           rest == RemoveAt(s, i)
<1>1. i \in 1..Len(s)
  BY BumpFromFacts
<1>2. /\ rest \in Seq(S)
      /\ Len(rest) = Len(s) - 1
      /\ \A j \in 1..(Len(s) - 1) : rest[j] = s[IF j < i THEN j ELSE j + 1]
  BY <1>1, RemoveAtFacts
<1>3. BumpRef(s, id) = <<s[i]>> \o rest
  BY DEF BumpRef
<1>4. s[i] \in S
  BY <1>1
<1> HIDE DEF i, rest
<1>5. /\ <<s[i]>> \o rest \in Seq(S)
      /\ Len(<<s[i]>> \o rest) = Len(s)
      /\ (<<s[i]>> \o rest)[1] = s[i]
      /\ \A j \in 2..Len(s) : (<<s[i]>> \o rest)[j] = rest[j - 1]
  BY <1>2, <1>4
<1>6. ASSUME NEW j \in 1..Len(s)
      PROVE  (<<s[i]>> \o rest)[j] = s[IF j = 1 THEN i ELSE IF j <= i THEN j - 1 ELSE j]
  <2>1. CASE j = 1
    BY <1>5, <2>1
  <2>2. CASE j # 1
    <3>1. j - 1 \in 1..(Len(s) - 1)
      BY <2>2
    <3>2. rest[j - 1] = s[IF j - 1 < i THEN j - 1 ELSE j]
      BY <1>2, <3>1
    <3> QED
      BY <1>1, <1>5, <2>2, <3>2
  <2> QED
    BY <2>1, <2>2
<1> QED
  BY <1>3, <1>5, <1>6 DEF i

-----------------------------------------------------------------------------

(* What a call makes of a list is again a list of the same references, with *)
(* at most the added one besides.                                           *)
LEMMA EffectFacts ==
    ASSUME NEW S, NEW s \in Seq(S), NEW op,
           op.kind \in Kinds, op.kind = "add" => op.ref \in S, ~Refuses(s, op)
    PROVE  /\ Effect(s, op) \in Seq(S)
           /\ \A j \in 1..Len(Effect(s, op)) :
                 \/ \E i \in 1..Len(s) : Effect(s, op)[j] = s[i]
                 \/ op.kind = "add" /\ Effect(s, op)[j] = op.ref
<1>1. CASE op.kind = "add"
  BY <1>1 DEF Effect, AddRef
<1>2. CASE op.kind = "remove"
  <2> DEFINE i == PositionOf(s, op.ref.issue)
  <2>1. i \in 1..Len(s)
    BY <1>2, PositionFacts DEF Refuses
  <2>2. Effect(s, op) = RemoveAt(s, i)
    BY <1>2 DEF Effect, RemoveRef
  <2> HIDE DEF i
  <2>3. /\ RemoveAt(s, i) \in Seq(S)
        /\ Len(RemoveAt(s, i)) = Len(s) - 1
        /\ \A j \in 1..(Len(s) - 1) : RemoveAt(s, i)[j] = s[IF j < i THEN j ELSE j + 1]
    BY <2>1, RemoveAtFacts
  <2>4. \A j \in 1..(Len(s) - 1) : (IF j < i THEN j ELSE j + 1) \in 1..Len(s)
    BY <2>1
  <2> QED
    BY <2>2, <2>3, <2>4
<1>3. CASE op.kind = "pop"
  BY <1>3 DEF Refuses, Effect, PopRef
<1>4. CASE op.kind = "bump"
  <2> DEFINE i == BumpFrom(s, op.ref.issue)
  <2>1. s # <<>> /\ i \in 1..Len(s)
    BY <1>4, BumpFromFacts DEF Refuses
  <2>2. Effect(s, op) = BumpRef(s, op.ref.issue)
    BY <1>4 DEF Effect
  <2>3. \A j \in 1..Len(s) :
           (IF j = 1 THEN i ELSE IF j <= i THEN j - 1 ELSE j) \in 1..Len(s)
    BY <2>1
  <2> QED
    BY <2>1, <2>2, <2>3, BumpRefFacts
<1> QED
  BY <1>1, <1>2, <1>3, <1>4 DEF Kinds

(* No call makes a list refer to a todo twice. *)
LEMMA EffectKeepsIdsUnique ==
    ASSUME NEW S, NEW s \in Seq(S), NEW op,
           op.kind \in Kinds, op.kind = "add" => op.ref \in S, ~Refuses(s, op),
           IdsUnique(s)
    PROVE  IdsUnique(Effect(s, op))
<1>1. CASE op.kind = "add"
  <2>1. \A i \in 1..Len(s) : s[i].issue # op.ref.issue
    BY <1>1 DEF Refuses, Holds, Positions
  <2> QED
    BY <1>1, <2>1 DEF Effect, AddRef, IdsUnique
<1>2. CASE op.kind = "remove"
  <2> DEFINE i == PositionOf(s, op.ref.issue)
             t == RemoveAt(s, i)
  <2>1. i \in 1..Len(s)
    BY <1>2, PositionFacts DEF Refuses
  <2>2. Effect(s, op) = t
    BY <1>2 DEF Effect, RemoveRef
  <2>3. /\ Len(t) = Len(s) - 1
        /\ \A j \in 1..(Len(s) - 1) : t[j] = s[IF j < i THEN j ELSE j + 1]
    BY <2>1, RemoveAtFacts
  <2> HIDE DEF i, t
  <2>4. ASSUME NEW a \in 1..Len(t), NEW b \in 1..Len(t), t[a].issue = t[b].issue
        PROVE  a = b
    <3> DEFINE From(j) == IF j < i THEN j ELSE j + 1
    <3>1. /\ t[a] = s[From(a)] /\ From(a) \in 1..Len(s)
          /\ t[b] = s[From(b)] /\ From(b) \in 1..Len(s)
      BY <2>1, <2>3
    <3>2. From(a) = From(b)
      BY <2>4, <3>1 DEF IdsUnique
    <3> QED
      BY <2>1, <2>3, <3>2
  <2>5. IdsUnique(t)
    BY <2>4 DEF IdsUnique
  <2> QED
    BY <2>2, <2>5
<1>3. CASE op.kind = "pop"
  <2>1. s # <<>> /\ Effect(s, op) = Tail(s)
    BY <1>3 DEF Refuses, Effect, PopRef
  <2>2. IdsUnique(Tail(s))
    BY <2>1 DEF IdsUnique
  <2> QED
    BY <2>1, <2>2
<1>4. CASE op.kind = "bump"
  <2> DEFINE i == BumpFrom(s, op.ref.issue)
             t == BumpRef(s, op.ref.issue)
  <2>1. s # <<>> /\ i \in 1..Len(s)
    BY <1>4, BumpFromFacts DEF Refuses
  <2>2. Effect(s, op) = t
    BY <1>4 DEF Effect
  <2>3. /\ Len(t) = Len(s)
        /\ \A j \in 1..Len(s) :
              t[j] = s[IF j = 1 THEN i ELSE IF j <= i THEN j - 1 ELSE j]
    BY <2>1, BumpRefFacts
  <2> HIDE DEF i, t
  <2>4. ASSUME NEW a \in 1..Len(t), NEW b \in 1..Len(t), t[a].issue = t[b].issue
        PROVE  a = b
    <3> DEFINE From(j) == IF j = 1 THEN i ELSE IF j <= i THEN j - 1 ELSE j
    <3>1. /\ t[a] = s[From(a)] /\ From(a) \in 1..Len(s)
          /\ t[b] = s[From(b)] /\ From(b) \in 1..Len(s)
      BY <2>1, <2>3
    <3>2. From(a) = From(b)
      BY <2>4, <3>1 DEF IdsUnique
    <3> QED
      BY <2>1, <2>3, <3>2
  <2>5. IdsUnique(t)
    BY <2>4 DEF IdsUnique
  <2> QED
    BY <2>2, <2>5
<1> QED
  BY <1>1, <1>2, <1>3, <1>4 DEF Kinds
=============================================================================
