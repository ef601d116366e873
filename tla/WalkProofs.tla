------------------------------ MODULE WalkProofs ------------------------------
(***************************************************************************)
(* Proofs about the recursive walk, for every finite edge table and every  *)
(* hop: each row stands for a trail, no row is made twice, the result is   *)
(* complete when the queue is empty, and the walk implements Enumeration.  *)
(*                                                                         *)
(* The second part is about the guard over the text of the path, for every *)
(* way of writing rowids without the delimiter: the LIKE finds a rowid in  *)
(* the text of a path exactly when the path uses it, so that the walk over *)
(* text is the walk over sequences of rowids.                              *)
(***************************************************************************)
EXTENDS WalkText, FiniteSetTheorems, FunctionTheorems, SequenceTheorems, TLAPS

(* A trail uses each row of the table at most once, so it is no longer than *)
(* the table is, and Trails leaves none out.                                *)
LEMMA TrailsComplete ==
  ASSUME NEW pr, NEW h, NEW p
  PROVE  p \in Trails(pr, h) <=> p \in Seq(Rowid) /\ IsTrail(pr, h, p)
<1>1. ASSUME p \in Trails(pr, h)
      PROVE  p \in Seq(Rowid) /\ IsTrail(pr, h, p)
  <2>1. Cardinality(Rowid) \in Nat
    BY FS_CardinalityType, RowidAssumption
  <2>2. PICK n \in 1..Cardinality(Rowid) : p \in [1..n -> Rowid]
    BY <1>1 DEF Trails
  <2>3. p \in Seq(Rowid)
    BY <2>1, <2>2, SeqDef
  <2> QED BY <1>1, <2>3 DEF Trails
<1>2. ASSUME p \in Seq(Rowid), IsTrail(pr, h, p)
      PROVE  p \in Trails(pr, h)
  <2>1. Len(p) \in Nat /\ p \in [1..Len(p) -> Rowid]
    BY <1>2, LenProperties
  <2>2. p \in Injection(1..Len(p), Rowid)
    BY <1>2, <2>1 DEF IsTrail, Injection, IsInjective
  <2>3. Cardinality(1..Len(p)) = Len(p)
    BY <2>1, FS_Interval
  <2>4. Len(p) <= Cardinality(Rowid) /\ Cardinality(Rowid) \in Nat
    BY <2>2, <2>3, FS_Injection, FS_CardinalityType, RowidAssumption
  <2>5. Len(p) # 0
    BY <1>2, <2>1, EmptySeq DEF IsTrail
  <2>6. Len(p) \in 1..Cardinality(Rowid)
    BY <2>1, <2>4, <2>5
  <2> QED BY <1>2, <2>1, <2>6 DEF Trails
<1> QED BY <1>1, <1>2

(* The rows of the base member: one-edge trails.                           *)
LEMMA BaseRows ==
  ASSUME TypeOK, NEW e \in Rowid, OfType(prov, hop, e)
  PROVE  /\ BaseRow(e).path \in Seq(Rowid)
         /\ BaseRow(e).path = << e >>
         /\ IsTrail(prov, hop, << e >>)
         /\ BaseRow(e) = RowOf(prov, << e >>)
<1>1. hop.max \in Nat \ {0}
  BY HopsAssumption DEF TypeOK
<1>2. << e >> \in Seq(Rowid) /\ Len(<< e >>) = 1 /\ << e >>[1] = e /\ << e >> # << >>
  OBVIOUS
<1>3. IsTrail(prov, hop, << e >>)
  BY <1>1, <1>2 DEF IsTrail
<1>4. BaseRow(e) = RowOf(prov, << e >>)
  BY <1>2 DEF BaseRow, RowOf
<1> QED BY <1>2, <1>3, <1>4 DEF BaseRow

(* The rows of the recursive member: the trail of the row taken, with one  *)
(* more edge at its end.                                                   *)
LEMMA ExtendedRows ==
  ASSUME TypeOK, RowsAreTrails, NEW w \in queue, NEW e \in Rowid, Extends(w, e)
  PROVE  /\ ExtendedRow(w, e).path = Append(w.path, e)
         /\ Append(w.path, e) \in Seq(Rowid)
         /\ IsTrail(prov, hop, Append(w.path, e))
         /\ ExtendedRow(w, e) = RowOf(prov, Append(w.path, e))
<1> DEFINE p == w.path
           q == Append(p, e)
<1>1. p \in Seq(Rowid) /\ IsTrail(prov, hop, p) /\ w = RowOf(prov, p)
  BY DEF TypeOK, RowsAreTrails
<1>2. /\ q \in Seq(Rowid) /\ Len(p) \in Nat /\ Len(q) = Len(p) + 1
      /\ \A i \in 1..Len(p) : q[i] = p[i]
      /\ q[Len(p) + 1] = e
  BY <1>1, AppendProperties, LenProperties
<1>3. Len(p) >= 1
  BY <1>1, <1>2, EmptySeq DEF IsTrail
<1>4. /\ w.source_id = prov[p[1]].source_id
      /\ w.source_name = prov[p[1]].source_name
      /\ w.target_id = prov[p[Len(p)]].target_id
      /\ w.target_name = prov[p[Len(p)]].target_name
      /\ w.depth = Len(p)
  BY <1>1 DEF RowOf
<1>5. IsTrail(prov, hop, q)
  <2>1. q # << >>
    BY <1>2
  <2>2. ASSUME NEW i \in 1..Len(q) PROVE OfType(prov, hop, q[i])
    BY <1>1, <1>2 DEF IsTrail, Extends, Joins, OnPath
  <2>3. ASSUME NEW i \in 1..(Len(q) - 1) PROVE Follows(prov, q[i], q[i + 1])
    <3>1. CASE i = Len(p)
      BY <1>2, <1>3, <1>4, <3>1 DEF Extends, Joins, OnPath, Follows
    <3>2. CASE i # Len(p)
      BY <1>1, <1>2, <3>2 DEF IsTrail
    <3> QED BY <3>1, <3>2
  <2>4. ASSUME NEW i \in 1..Len(q), NEW j \in 1..Len(q), q[i] = q[j]
        PROVE  i = j
    BY <1>1, <1>2, <2>4 DEF IsTrail, Extends, Joins, OnPath
  <2>5. hop.has_max => Len(q) <= hop.max
    <3>1. hop.max \in Nat
      BY HopsAssumption DEF TypeOK
    <3> QED BY <1>2, <1>4, <3>1 DEF Extends, Joins
  <2> QED BY <2>1, <2>2, <2>3, <2>4, <2>5 DEF IsTrail
<1>6. ExtendedRow(w, e) = RowOf(prov, q)
  <2>1. q[1] = p[1] /\ q[Len(q)] = e /\ Len(q) = w.depth + 1
    BY <1>2, <1>3, <1>4
  <2>2. /\ w.source_id = prov[q[1]].source_id
        /\ w.source_name = prov[q[1]].source_name
    BY <1>4, <2>1
  <2>3. ExtendedRow(w, e) =
          [ source_id   |-> prov[q[1]].source_id,
            source_name |-> prov[q[1]].source_name,
            target_id   |-> prov[q[Len(q)]].target_id,
            target_name |-> prov[q[Len(q)]].target_name,
            depth       |-> Len(q),
            path        |-> q ]
    BY <2>1, <2>2 DEF ExtendedRow
  <2> HIDE DEF q
  <2> QED BY <2>3 DEF RowOf
<1> QED BY <1>2, <1>5, <1>6 DEF ExtendedRow
-----------------------------------------------------------------------------
(* The walk starts in the inductive invariant: the base member alone is the *)
(* frontier of every trail.                                                *)
THEOREM Initially == Init => IInv
<1> SUFFICES ASSUME Init PROVE IInv
  OBVIOUS
<1>1. prov \in [Rowid -> EdgeRows] /\ hop \in Hops /\ walk = {}
  BY DEF Init
<1>2. \A r \in queue \cup walk :
        \E e \in Rowid : OfType(prov, hop, e) /\ r = BaseRow(e)
  BY DEF Init
<1>3. TypeOK
  <2>1. ASSUME NEW e \in Rowid
        PROVE  BaseRow(e).path \in Seq(Rowid) /\ BaseRow(e).depth \in Nat
    <3>1. BaseRow(e).path = << e >> /\ BaseRow(e).depth = 1
      BY DEF BaseRow
    <3> QED BY <3>1
  <2> QED BY <1>1, <1>2, <2>1 DEF TypeOK
<1>4. RowsAreTrails
  BY <1>2, <1>3, BaseRows DEF RowsAreTrails
<1>7. TakenOnce
  BY <1>1 DEF TakenOnce
<1>5. QueueIsFrontier
  <2> SUFFICES ASSUME NEW r \in queue, NEW s \in queue, StartsWith(s.path, r.path)
               PROVE  s = r
    BY <1>1 DEF QueueIsFrontier
  <2>1. PICK e \in Rowid : r = BaseRow(e) /\ r.path = << e >>
    BY <1>2, <1>3, BaseRows
  <2>2. PICK x \in Rowid : s = BaseRow(x) /\ s.path = << x >>
    BY <1>2, <1>3, BaseRows
  <2> QED BY <2>1, <2>2 DEF StartsWith
<1>6. NothingLost
  <2> SUFFICES ASSUME NEW p \in Trails(prov, hop)
               PROVE  \E r \in queue : StartsWith(p, r.path)
    BY DEF NothingLost
  <2>1. p \in Seq(Rowid) /\ IsTrail(prov, hop, p)
    BY TrailsComplete
  <2>2. Len(p) \in Nat /\ Len(p) >= 1
    BY <2>1, LenProperties, EmptySeq DEF IsTrail
  <2>3. p[1] \in Rowid /\ OfType(prov, hop, p[1])
    BY <2>1, <2>2 DEF IsTrail
  <2>4. BaseRow(p[1]) \in queue /\ BaseRow(p[1]).path = << p[1] >>
    BY <1>3, <2>3, BaseRows DEF Init
  <2>5. StartsWith(p, << p[1] >>)
    BY <2>2 DEF StartsWith
  <2> QED BY <2>4, <2>5
<1> QED BY <1>3, <1>4, <1>5, <1>6, <1>7 DEF IInv

(* A row made from w starts with the path of w, and a path that starts with *)
(* the new one starts with that of w.                                       *)
LEMMA NewRowsExtend ==
  ASSUME TypeOK, RowsAreTrails, NEW w \in queue, NEW s \in NewRows(w)
  PROVE  \E e \in Rowid :
           /\ Extends(w, e)
           /\ s = ExtendedRow(w, e)
           /\ s.path = Append(w.path, e)
           /\ s = RowOf(prov, s.path)
           /\ IsTrail(prov, hop, s.path)
           /\ s.path \in Seq(Rowid)
           /\ w.path \in Seq(Rowid)
           /\ Len(w.path) \in Nat
           /\ Len(s.path) = Len(w.path) + 1
           /\ \A i \in 1..Len(w.path) : s.path[i] = w.path[i]
           /\ s.path[Len(s.path)] = e
<1>1. PICK e \in Rowid : Extends(w, e) /\ s = ExtendedRow(w, e)
  BY DEF NewRows
<1>2. w.path \in Seq(Rowid)
  BY DEF TypeOK
<1>3. s.path = Append(w.path, e) /\ s = RowOf(prov, s.path)
      /\ IsTrail(prov, hop, s.path) /\ s.path \in Seq(Rowid)
  BY <1>1, ExtendedRows
<1>4. /\ Len(w.path) \in Nat
      /\ Len(s.path) = Len(w.path) + 1
      /\ \A i \in 1..Len(w.path) : s.path[i] = w.path[i]
      /\ s.path[Len(s.path)] = e
  BY <1>2, <1>3, AppendProperties, LenProperties
<1> QED BY <1>1, <1>2, <1>3, <1>4

(* A row made from a queued row is in neither set yet.                     *)
LEMMA NewRowsAreNew ==
  ASSUME TypeOK, RowsAreTrails, QueueIsFrontier, NEW w \in queue
  PROVE  NewRows(w) \cap (queue \cup walk) = {}
<1> SUFFICES ASSUME NEW s \in NewRows(w), s \in queue \cup walk
             PROVE  FALSE
  OBVIOUS
<1>1. /\ Len(w.path) \in Nat /\ Len(s.path) = Len(w.path) + 1
      /\ \A i \in 1..Len(w.path) : s.path[i] = w.path[i]
  BY NewRowsExtend
<1>2. StartsWith(s.path, w.path)
  BY <1>1 DEF StartsWith
<1>3. s = w
  BY <1>2 DEF QueueIsFrontier
<1> QED BY <1>1, <1>3

(* A step of the walk keeps the invariant.                                 *)
THEOREM Inductive == IInv /\ [Next]_vars => IInv'
<1> SUFFICES ASSUME IInv, [Next]_vars PROVE IInv'
  OBVIOUS
<1> USE DEF IInv
<1>1. CASE UNCHANGED vars
  BY <1>1 DEF vars, TypeOK, RowsAreTrails, RowOf, TakenOnce,
                 QueueIsFrontier, NothingLost
<1>2. ASSUME NEW w \in queue, Take(w) PROVE IInv'
  <2>1. /\ walk' = walk \cup {w}
        /\ queue' = (queue \ {w}) \cup NewRows(w)
        /\ prov' = prov /\ hop' = hop
    BY <1>2 DEF Take
  <2>2. \A p : RowOf(prov', p) = RowOf(prov, p)
    BY <2>1 DEF RowOf
  <2>3. \A r \in queue \cup walk : r.path \in Seq(Rowid) /\ Len(r.path) \in Nat
    BY LenProperties DEF TypeOK
  <2>4. TypeOK'
    <3>1. ASSUME NEW s \in NewRows(w) PROVE s.path \in Seq(Rowid) /\ s.depth \in Nat
      BY NewRowsExtend DEF RowOf
    <3> QED BY <2>1, <3>1 DEF TypeOK
  <2>5. RowsAreTrails'
    <3>1. ASSUME NEW s \in NewRows(w) PROVE IsTrail(prov, hop, s.path) /\ s = RowOf(prov, s.path)
      BY NewRowsExtend
    <3> QED BY <2>1, <2>2, <3>1 DEF RowsAreTrails
  <2>8. TakenOnce'
    <3>1. NewRows(w) \cap (queue \cup walk) = {}
      BY NewRowsAreNew
    <3> QED BY <2>1, <3>1 DEF TakenOnce
  <2>6. QueueIsFrontier'
    <3> SUFFICES ASSUME NEW r \in queue', NEW s \in queue' \cup walk',
                        StartsWith(s.path, r.path)
                 PROVE  s = r
      BY DEF QueueIsFrontier
    <3>1. CASE r \in queue \ {w} /\ s \in queue \cup walk
      BY <3>1 DEF QueueIsFrontier
    <3>2. CASE r \in queue \ {w} /\ s \in NewRows(w)
      <4>1. PICK e \in Rowid :
              /\ s = RowOf(prov, s.path) /\ s.path = Append(w.path, e)
              /\ Len(w.path) \in Nat /\ Len(s.path) = Len(w.path) + 1
              /\ \A i \in 1..Len(w.path) : s.path[i] = w.path[i]
        BY <3>2, NewRowsExtend
      <4>2. CASE Len(r.path) <= Len(w.path)
        <5>1. StartsWith(w.path, r.path)
          BY <2>3, <3>2, <4>1, <4>2 DEF StartsWith
        <5> QED BY <3>2, <5>1 DEF QueueIsFrontier
      <4>3. CASE Len(r.path) = Len(w.path) + 1
        <5>1. StartsWith(r.path, w.path)
          BY <2>3, <3>2, <4>1, <4>3 DEF StartsWith
        <5> QED BY <3>2, <5>1 DEF QueueIsFrontier
      <4> QED BY <2>3, <3>2, <4>1, <4>2, <4>3 DEF StartsWith
    <3>3. CASE r \in NewRows(w) /\ s \in queue \cup walk
      <4>1. PICK e \in Rowid :
              /\ Len(w.path) \in Nat /\ Len(r.path) = Len(w.path) + 1
              /\ \A i \in 1..Len(w.path) : r.path[i] = w.path[i]
        BY <3>3, NewRowsExtend
      <4>2. StartsWith(s.path, w.path)
        BY <2>3, <3>3, <4>1 DEF StartsWith
      <4>3. s = w
        BY <3>3, <4>2 DEF QueueIsFrontier
      <4> QED BY <4>1, <4>3 DEF StartsWith
    <3>4. CASE r \in NewRows(w) /\ s \in NewRows(w)
      <4>1. PICK e \in Rowid :
              /\ r = RowOf(prov, r.path) /\ r.path = Append(w.path, e)
              /\ Len(w.path) \in Nat /\ Len(r.path) = Len(w.path) + 1
              /\ r.path[Len(r.path)] = e
        BY <3>4, NewRowsExtend
      <4>2. PICK x \in Rowid :
              /\ s = RowOf(prov, s.path) /\ s.path = Append(w.path, x)
              /\ Len(s.path) = Len(w.path) + 1
              /\ s.path[Len(s.path)] = x
        BY <3>4, NewRowsExtend
      <4>3. e = x
        BY <4>1, <4>2 DEF StartsWith
      <4> QED BY <4>1, <4>2, <4>3
    <3> QED BY <2>1, <3>1, <3>2, <3>3, <3>4
  <2>7. NothingLost'
    <3> SUFFICES ASSUME NEW p \in Trails(prov, hop)
                 PROVE  RowOf(prov, p) \in walk' \/ \E r \in queue' : StartsWith(p, r.path)
      BY <2>1, <2>2 DEF NothingLost
    <3>1. CASE RowOf(prov, p) \in walk \/ \E r \in queue \ {w} : StartsWith(p, r.path)
      BY <2>1, <3>1
    <3>2. CASE StartsWith(p, w.path)
      <4>1. /\ p \in Seq(Rowid) /\ IsTrail(prov, hop, p) /\ Len(p) \in Nat
            /\ w.path \in Seq(Rowid) /\ Len(w.path) \in Nat
            /\ IsTrail(prov, hop, w.path) /\ w = RowOf(prov, w.path)
        BY <2>3, TrailsComplete, LenProperties DEF RowsAreTrails
      <4>2. Len(w.path) >= 1 /\ Len(w.path) <= Len(p)
        BY <3>2, <4>1, EmptySeq DEF IsTrail, StartsWith
      <4>3. CASE Len(w.path) = Len(p)
        <5>1. p = w.path
          BY <3>2, <4>1, <4>3, SeqEqual DEF StartsWith
        <5> QED BY <2>1, <4>1, <5>1
      <4>4. CASE Len(w.path) < Len(p)
        <5> DEFINE e == p[Len(w.path) + 1]
        <5>1. e \in Rowid /\ OfType(prov, hop, e)
          BY <4>1, <4>2, <4>4 DEF IsTrail
        <5>2. Follows(prov, p[Len(w.path)], e)
          BY <4>1, <4>2, <4>4 DEF IsTrail
        <5>3. p[Len(w.path)] = w.path[Len(w.path)]
          BY <3>2, <4>1, <4>2 DEF StartsWith
        <5>4. /\ w.target_id = prov[w.path[Len(w.path)]].target_id
              /\ w.target_name = prov[w.path[Len(w.path)]].target_name
              /\ w.depth = Len(w.path)
          BY <4>1 DEF RowOf
        <5>5. \A i \in 1..Len(w.path) : w.path[i] # e
          BY <3>2, <4>1, <4>2, <4>4 DEF StartsWith, IsTrail
        <5>6. hop.has_max => w.depth < hop.max
          <6>1. hop.max \in Nat
            BY HopsAssumption DEF TypeOK
          <6> QED BY <4>1, <4>4, <5>4, <6>1 DEF IsTrail
        <5>7. Extends(w, e)
          BY <5>1, <5>2, <5>3, <5>4, <5>5, <5>6 DEF Extends, Joins, OnPath, Follows
        <5>8. ExtendedRow(w, e) \in queue' /\ ExtendedRow(w, e).path = Append(w.path, e)
          BY <2>1, <5>1, <5>7 DEF NewRows, ExtendedRow
        <5>9. StartsWith(p, Append(w.path, e))
          BY <3>2, <4>1, <4>4, AppendProperties DEF StartsWith
        <5> QED BY <5>8, <5>9
      <4> QED BY <4>1, <4>2, <4>3, <4>4
    <3> QED BY <3>1, <3>2 DEF NothingLost
  <2> QED BY <2>4, <2>5, <2>6, <2>7, <2>8
<1> QED BY <1>1, <1>2 DEF Next

(* The conjuncts of the invariant give the properties the runs check.      *)
THEOREM Consequences ==
  IInv => TypeOK /\ RowsAreTrails /\ NoRowTwice /\ AllTrailsFound
<1> SUFFICES ASSUME IInv
             PROVE  TypeOK /\ RowsAreTrails /\ NoRowTwice /\ AllTrailsFound
  OBVIOUS
<1> USE DEF IInv
<1>1. NoRowTwice
  BY NewRowsAreNew DEF NoRowTwice, TakenOnce
<1>2. ASSUME queue = {} PROVE { r.path : r \in walk } = Trails(prov, hop)
  <2>1. ASSUME NEW r \in walk PROVE r.path \in Trails(prov, hop)
    BY TrailsComplete DEF TypeOK, RowsAreTrails
  <2>2. ASSUME NEW p \in Trails(prov, hop) PROVE p \in { r.path : r \in walk }
    <3>1. RowOf(prov, p) \in walk
      BY <1>2 DEF NothingLost
    <3>2. RowOf(prov, p).path = p
      BY DEF RowOf
    <3> QED BY <3>1, <3>2
  <2> QED BY <2>1, <2>2
<1> QED BY <1>1, <1>2 DEF AllTrailsFound

(* The invariant holds in every reachable state.                           *)
THEOREM Invariance == Spec => []IInv
<1>1. Init => IInv
  BY Initially
<1>2. IInv /\ [Next]_vars => IInv'
  BY Inductive
<1> QED BY <1>1, <1>2, PTL DEF Spec

(* Every path of the walk is a sequence of rowids.                         *)
THEOREM TypeCorrect == Spec => []TypeOK
BY Invariance, Consequences, PTL

(* Every row of transform_varlen's walk stands for a trail of the edge     *)
(* table and carries that trail's ends and length.                         *)
THEOREM RowsSound == Spec => []RowsAreTrails
BY Invariance, Consequences, PTL

(* The UNION ALL of the walk makes no row twice.                           *)
THEOREM RowsOnce == Spec => []NoRowTwice
BY Invariance, Consequences, PTL

(* An exhausted walk holds all trails of the hop, and nothing else.        *)
THEOREM Complete == Spec => []AllTrailsFound
BY Invariance, Consequences, PTL

(* Each step of the walk finds one trail the search had not found yet.     *)
THEOREM Refinement == Spec => ImplementsSearch
<1> DEFINE paths == { r.path : r \in walk }
<1>1. Init => Search!Init
  BY DEF Init, Search!Init
<1>2. ASSUME IInv, [Next]_vars PROVE [Search!Next]_(Search!vars)
  <2>1. CASE UNCHANGED vars
    BY <2>1 DEF vars, Search!vars, Trails, IsTrail, Follows, OfType
  <2>2. ASSUME NEW w \in queue, Take(w) PROVE Search!Next
    <3>1. w.path \in Trails(prov, hop)
      BY <1>2, TrailsComplete DEF IInv, TypeOK, RowsAreTrails
    <3>2. w.path \notin paths
      <4> SUFFICES ASSUME NEW r \in walk, r.path = w.path PROVE FALSE
        OBVIOUS
      <4>1. r = w
        BY <1>2 DEF IInv, RowsAreTrails
      <4> QED BY <1>2, <4>1 DEF IInv, TakenOnce
    <3>3. paths' = paths \cup {w.path} /\ prov' = prov /\ hop' = hop
      BY <2>2 DEF Take
    <3>4. Trails(prov, hop)' = Trails(prov, hop)
      BY <3>3 DEF Trails, IsTrail, Follows, OfType
    <3> QED BY <3>1, <3>2, <3>3, <3>4 DEF Search!Next, Search!Find
  <2> QED BY <1>2, <2>1, <2>2 DEF Next
<1> QED BY <1>1, <1>2, Invariance, PTL DEF Spec, ImplementsSearch, Search!Spec

-----------------------------------------------------------------------------
(***************************************************************************)
(* The text of a path.                                                     *)
(***************************************************************************)
(* A text with a rowid appended: the old text, the digits, the delimiter.  *)
LEMMA ExtendedTextIs ==
  ASSUME NEW tx \in Seq(Character), NEW e \in Rowid
  PROVE  /\ ExtendedText(tx, e) \in Seq(Character)
         /\ Len(tx) \in Nat /\ Len(Decimal[e]) \in Nat \ {0}
         /\ Len(ExtendedText(tx, e)) = Len(tx) + Len(Decimal[e]) + 1
         /\ \A i \in 1..Len(tx) : ExtendedText(tx, e)[i] = tx[i]
         /\ \A k \in 1..Len(Decimal[e]) : ExtendedText(tx, e)[Len(tx) + k] = Decimal[e][k]
         /\ ExtendedText(tx, e)[Len(tx) + Len(Decimal[e]) + 1] = Slash
         /\ \A k \in 1..Len(Decimal[e]) : Decimal[e][k] # Slash
<1> DEFINE d == Decimal[e]
           m == tx \o d
<1>1. d \in Seq(Digit) /\ d # << >> /\ Slash \notin Digit
  BY DecimalAssumption
<1>2. d \in Seq(Character) /\ << Slash >> \in Seq(Character)
      /\ Len(<< Slash >>) = 1 /\ << Slash >>[1] = Slash
  BY <1>1, SeqMonotonic DEF Character
<1>3. Len(tx) \in Nat /\ Len(d) \in Nat \ {0}
  BY <1>1, LenProperties, EmptySeq
<1>4. /\ m \in Seq(Character) /\ Len(m) = Len(tx) + Len(d)
      /\ \A i \in 1..(Len(tx) + Len(d)) :
           m[i] = IF i <= Len(tx) THEN tx[i] ELSE d[i - Len(tx)]
  BY <1>2, ConcatProperties
<1> HIDE DEF m, d
<1>5. /\ m \o << Slash >> \in Seq(Character) /\ Len(m \o << Slash >>) = Len(m) + 1
      /\ \A i \in 1..(Len(m) + 1) :
           (m \o << Slash >>)[i] = IF i <= Len(m) THEN m[i] ELSE << Slash >>[i - Len(m)]
  <2> DEFINE sl == << Slash >>
  <2>1. sl \in Seq(Character) /\ Len(sl) = 1 /\ m \in Seq(Character)
    BY <1>2, <1>4
  <2> HIDE DEF sl
  <2>2. /\ m \o sl \in Seq(Character) /\ Len(m \o sl) = Len(m) + Len(sl)
        /\ \A i \in 1..(Len(m) + Len(sl)) :
             (m \o sl)[i] = IF i <= Len(m) THEN m[i] ELSE sl[i - Len(m)]
    BY <2>1, ConcatProperties
  <2> QED BY <2>1, <2>2 DEF sl
<1>6. ExtendedText(tx, e) = m \o << Slash >>
  BY DEF ExtendedText, m, d
<1>7. \A i \in 1..Len(tx) : (m \o << Slash >>)[i] = tx[i]
  BY <1>3, <1>4, <1>5
<1>8. ASSUME NEW k \in 1..Len(d) PROVE (m \o << Slash >>)[Len(tx) + k] = d[k]
  <2>1. Len(tx) + k \in 1..(Len(tx) + Len(d)) /\ ~ (Len(tx) + k <= Len(tx))
        /\ (Len(tx) + k) - Len(tx) = k
    BY <1>3
  <2> QED BY <1>3, <1>4, <1>5, <2>1
<1>9. (m \o << Slash >>)[Len(tx) + Len(d) + 1] = Slash
  BY <1>2, <1>3, <1>4, <1>5
<1>10. \A k \in 1..Len(d) : d[k] # Slash
  BY <1>1, <1>3, ElementOfSeq
<1> QED BY <1>3, <1>4, <1>5, <1>6, <1>7, <1>8, <1>9, <1>10 DEF d

(* Appending a rowid to a text that closes with the delimiter adds that    *)
(* rowid to those found in it, and no other: what is found has no          *)
(* delimiter inside, so it lies in the old text or is the rowid appended.  *)
LEMMA LikeExtended ==
  ASSUME NEW tx \in Seq(Character), Len(tx) >= 1, tx[Len(tx)] = Slash,
         NEW e \in Rowid, NEW x \in Rowid
  PROVE  Like(ExtendedText(tx, e), Decimal[x]) <=> Like(tx, Decimal[x]) \/ x = e
<1> DEFINE u == ExtendedText(tx, e)
           n == Len(tx)
           d == Decimal[e]
           c == Decimal[x]
<1>1. /\ u \in Seq(Character) /\ n \in Nat /\ Len(d) \in Nat \ {0}
      /\ Len(u) = n + Len(d) + 1
      /\ \A i \in 1..n : u[i] = tx[i]
      /\ \A k \in 1..Len(d) : u[n + k] = d[k]
      /\ u[n + Len(d) + 1] = Slash
      /\ \A k \in 1..Len(d) : d[k] # Slash
  BY ExtendedTextIs
<1>2. Len(c) \in Nat \ {0} /\ \A k \in 1..Len(c) : c[k] # Slash
  BY ExtendedTextIs
<1>3. Len(d) = Len(c) /\ (\A k \in 1..Len(d) : d[k] = c[k]) => x = e
  <2> SUFFICES ASSUME Len(d) = Len(c), \A k \in 1..Len(d) : d[k] = c[k]
               PROVE  x = e
    OBVIOUS
  <2>1. d \in Seq(Digit) /\ c \in Seq(Digit)
    BY DecimalAssumption
  <2>2. d = c
    BY <2>1, SeqEqual
  <2> QED BY <2>2, DecimalAssumption
<1> HIDE DEF u, d, c
<1>4. ASSUME Like(tx, c) PROVE Like(u, c)
  <2>1. PICK i \in 1..n : /\ i + Len(c) + 1 <= n /\ tx[i] = Slash
                          /\ \A k \in 1..Len(c) : tx[i + k] = c[k]
                          /\ tx[i + Len(c) + 1] = Slash
    BY <1>4 DEF Like
  <2>2. i \in 1..Len(u) /\ i + Len(c) + 1 <= Len(u)
    BY <1>1, <1>2, <2>1
  <2>3. u[i] = Slash /\ u[i + Len(c) + 1] = Slash
    BY <1>1, <1>2, <2>1
  <2>4. ASSUME NEW k \in 1..Len(c) PROVE u[i + k] = c[k]
    <3>1. i + k \in 1..n
      BY <1>1, <1>2, <2>1
    <3> QED BY <1>1, <2>1, <3>1
  <2> QED BY <2>2, <2>3, <2>4 DEF Like
<1>5. ASSUME x = e PROVE Like(u, c)
  <2>1. c = d
    BY <1>5 DEF c, d
  <2>2. n \in 1..Len(u) /\ n + Len(c) + 1 <= Len(u) /\ u[n] = Slash
    BY <1>1, <2>1
  <2> QED BY <1>1, <2>1, <2>2 DEF Like
<1>6. ASSUME Like(u, c) PROVE Like(tx, c) \/ x = e
  <2>1. PICK i \in 1..Len(u) : /\ i + Len(c) + 1 <= Len(u) /\ u[i] = Slash
                               /\ \A k \in 1..Len(c) : u[i + k] = c[k]
                               /\ u[i + Len(c) + 1] = Slash
    BY <1>6 DEF Like
  <2>2. CASE i + Len(c) + 1 <= n
    <3>1. i \in 1..n /\ tx[i] = Slash /\ tx[i + Len(c) + 1] = Slash
      BY <1>1, <1>2, <2>1, <2>2
    <3>2. ASSUME NEW k \in 1..Len(c) PROVE tx[i + k] = c[k]
      <4>1. i + k \in 1..n
        BY <1>1, <1>2, <2>1, <2>2
      <4> QED BY <1>1, <2>1, <4>1
    <3> QED BY <2>2, <3>1, <3>2 DEF Like
  <2>3. CASE i < n /\ n < i + Len(c) + 1
    <3>1. n - i \in 1..Len(c) /\ i + (n - i) = n
      BY <1>1, <1>2, <2>1, <2>3
    <3>2. u[n] = Slash
      BY <1>1
    <3>3. u[n] = c[n - i]
      BY <2>1, <3>1
    <3> QED BY <1>2, <3>1, <3>2, <3>3
  <2>4. CASE i = n
    <3>1. ASSUME Len(c) < Len(d) PROVE FALSE
      <4>1. Len(c) + 1 \in 1..Len(d) /\ n + (Len(c) + 1) = i + Len(c) + 1
        BY <1>1, <1>2, <2>4, <3>1
      <4> QED BY <1>1, <2>1, <4>1
    <3>2. Len(c) = Len(d)
      BY <1>1, <1>2, <2>1, <2>4, <3>1
    <3>3. \A k \in 1..Len(d) : d[k] = c[k]
      BY <1>1, <2>1, <2>4, <3>2
    <3> QED BY <1>3, <3>2, <3>3
  <2>5. CASE i > n
    <3>1. i - n \in 1..Len(d) /\ n + (i - n) = i
      BY <1>1, <1>2, <2>1, <2>5
    <3>2. u[i] = d[i - n]
      BY <1>1, <3>1
    <3> QED BY <1>1, <2>1, <3>1, <3>2
  <2> QED BY <1>1, <1>2, <2>1, <2>2, <2>3, <2>4, <2>5
<1> QED BY <1>4, <1>5, <1>6 DEF u, c

(* The text of a base row holds the one rowid it is made of.               *)
LEMMA BaseTextIs ==
  ASSUME NEW e \in Rowid
  PROVE  /\ BaseText(e) = ExtendedText(<< Slash >>, e)
         /\ \A x \in Rowid : Like(BaseText(e), Decimal[x]) <=> x = e
<1>1. /\ << Slash >> \in Seq(Character) /\ Len(<< Slash >>) = 1
      /\ << Slash >>[1] = Slash
  BY DEF Character
<1>2. BaseText(e) = ExtendedText(<< Slash >>, e)
  BY DEF BaseText, ExtendedText
<1>3. ASSUME NEW x \in Rowid PROVE ~ Like(<< Slash >>, Decimal[x])
  <2>1. Len(Decimal[x]) \in Nat \ {0}
    BY <1>1, ExtendedTextIs
  <2> QED BY <1>1, <2>1 DEF Like
<1> DEFINE sl == << Slash >>
<1>4. /\ sl \in Seq(Character) /\ Len(sl) >= 1 /\ sl[Len(sl)] = Slash
      /\ \A x \in Rowid : ~ Like(sl, Decimal[x])
  BY <1>1, <1>3
<1> HIDE DEF sl
<1>5. \A x \in Rowid : Like(ExtendedText(sl, e), Decimal[x]) <=> x = e
  BY <1>4, LikeExtended
<1> QED BY <1>2, <1>5 DEF sl
-----------------------------------------------------------------------------
(* The walk over text starts in its invariant.                             *)
THEOREM TextInitially == TextInit => TextIInv
<1> SUFFICES ASSUME TextInit PROVE TextIInv
  OBVIOUS
<1>1. IInv
  BY Initially DEF TextInit
<1>2. walk = {} /\ DOMAIN text = { r.path : r \in queue }
  BY DEF TextInit, Init
<1>3. ASSUME NEW p \in DOMAIN text PROVE TextOK(p)
  <2>1. PICK e \in Rowid : p = << e >>
    BY <1>2, <1>3 DEF TextInit, Init, BaseRow
  <2>2. p[1] = e /\ Len(p) = 1
    BY <2>1
  <2>3. text[p] = BaseText(e)
    BY <1>2, <2>2 DEF TextInit
  <2>4. /\ << Slash >> \in Seq(Character) /\ Len(<< Slash >>) = 1
    BY DEF Character
  <2>5. /\ text[p] \in Seq(Character)
        /\ Len(text[p]) = 1 + Len(Decimal[e]) + 1
        /\ Len(Decimal[e]) \in Nat
        /\ text[p][1 + Len(Decimal[e]) + 1] = Slash
    <3> DEFINE sl == << Slash >>
    <3>1. sl \in Seq(Character) /\ Len(sl) = 1 /\ text[p] = ExtendedText(sl, e)
      BY <2>3, <2>4, BaseTextIs
    <3> HIDE DEF sl
    <3>2. /\ ExtendedText(sl, e) \in Seq(Character)
          /\ Len(ExtendedText(sl, e)) = Len(sl) + Len(Decimal[e]) + 1
          /\ Len(Decimal[e]) \in Nat
          /\ ExtendedText(sl, e)[Len(sl) + Len(Decimal[e]) + 1] = Slash
      BY <3>1, ExtendedTextIs
    <3> QED BY <3>1, <3>2
  <2>6. text[p] # << >> /\ text[p][Len(text[p])] = Slash
    BY <2>5, EmptySeq
  <2>7. \A x \in Rowid : OnPath(p, x) <=> x = e
    BY <2>2 DEF OnPath
  <2> QED BY <2>3, <2>5, <2>6, <2>7, BaseTextIs DEF TextOK
<1> QED BY <1>1, <1>2, <1>3 DEF TextIInv, TextInv

(* What the guard over text joins to a queued row is what the guard over   *)
(* sequences does, so a round of the one is a round of the other.          *)
LEMMA TextTakeIsTake ==
  ASSUME TextIInv, NEW w \in queue
  PROVE  /\ \A e \in Rowid : e \in Joined(w) <=> Extends(w, e)
         /\ TextTake(w) => Take(w)
<1>1. w.path \in DOMAIN text
  BY DEF TextIInv, TextInv
<1>2. \A e \in Rowid : Like(text[w.path], Decimal[e]) <=> OnPath(w.path, e)
  BY <1>1 DEF TextIInv, TextInv, TextOK
<1>3. \A e \in Rowid : e \in Joined(w) <=> Extends(w, e)
  BY <1>2 DEF Joined, Extends
<1>4. { ExtendedRow(w, e) : e \in Joined(w) } = NewRows(w)
  BY <1>3 DEF NewRows, Joined
<1> QED BY <1>3, <1>4 DEF TextTake, Take

(* A round keeps the invariant.                                            *)
THEOREM TextInductive == TextIInv /\ [TextNext]_textVars => TextIInv'
<1> SUFFICES ASSUME TextIInv, [TextNext]_textVars PROVE TextIInv'
  OBVIOUS
<1>1. CASE UNCHANGED textVars
  <2>1. IInv'
    BY <1>1, Inductive DEF TextIInv, textVars
  <2>2. TextInv'
    BY <1>1 DEF TextIInv, TextInv, TextOK, textVars, vars
  <2> QED BY <2>1, <2>2 DEF TextIInv
<1>2. ASSUME NEW w \in queue, TextTake(w) PROVE TextIInv'
  <2>1. IInv'
    BY <1>2, TextTakeIsTake, Inductive DEF TextIInv, Next
  <2>2. /\ walk' = walk \cup {w}
        /\ queue' = (queue \ {w}) \cup { ExtendedRow(w, e) : e \in Joined(w) }
        /\ text' = [ p \in DOMAIN text \cup { Append(w.path, e) : e \in Joined(w) } |->
                       IF p \in DOMAIN text THEN text[p]
                       ELSE ExtendedText(text[w.path], p[Len(p)]) ]
    BY <1>2 DEF TextTake
  <2>3. \A e \in Joined(w) : ExtendedRow(w, e).path = Append(w.path, e)
    BY DEF ExtendedRow
  <2>4. DOMAIN text' = { r.path : r \in queue' \cup walk' }
    <3>1. DOMAIN text = { r.path : r \in queue \cup walk }
      BY DEF TextIInv, TextInv
    <3>2. DOMAIN text' = DOMAIN text \cup { Append(w.path, e) : e \in Joined(w) }
      BY <2>2
    <3> QED BY <2>2, <2>3, <3>1, <3>2
  <2>5. w.path \in DOMAIN text /\ w.path \in Seq(Rowid)
    BY DEF TextIInv, TextInv, IInv, TypeOK
  <2>6. ASSUME NEW p \in DOMAIN text' PROVE TextOK(p)'
    <3>1. CASE p \in DOMAIN text
      <4>1. text'[p] = text[p]
        BY <2>2, <3>1
      <4> QED BY <3>1, <4>1 DEF TextIInv, TextInv, TextOK
    <3>2. CASE p \notin DOMAIN text
      <4>1. PICK e \in Joined(w) : p = Append(w.path, e)
        BY <2>2, <3>2
      <4>2. e \in Rowid
        BY DEF Joined
      <4>3. /\ Len(w.path) \in Nat /\ Len(p) = Len(w.path) + 1
            /\ \A i \in 1..Len(w.path) : p[i] = w.path[i]
            /\ p[Len(p)] = e
        BY <2>5, <4>1, <4>2, AppendProperties, LenProperties
      <4>4. text'[p] = ExtendedText(text[w.path], e)
        BY <2>2, <3>2, <4>3
      <4>5. /\ text[w.path] \in Seq(Character) /\ text[w.path] # << >>
            /\ text[w.path][Len(text[w.path])] = Slash
            /\ \A x \in Rowid : Like(text[w.path], Decimal[x]) <=> OnPath(w.path, x)
        BY <2>5 DEF TextIInv, TextInv, TextOK
      <4>6. Len(text[w.path]) \in Nat /\ Len(text[w.path]) >= 1
        BY <4>5, EmptySeq
      <4>7. /\ text'[p] \in Seq(Character)
            /\ Len(text'[p]) = Len(text[w.path]) + Len(Decimal[e]) + 1
            /\ Len(Decimal[e]) \in Nat
            /\ text'[p][Len(text[w.path]) + Len(Decimal[e]) + 1] = Slash
        <5> DEFINE tx == text[w.path]
        <5>1. tx \in Seq(Character) /\ text'[p] = ExtendedText(tx, e)
          BY <4>4, <4>5
        <5> HIDE DEF tx
        <5>2. /\ ExtendedText(tx, e) \in Seq(Character)
              /\ Len(ExtendedText(tx, e)) = Len(tx) + Len(Decimal[e]) + 1
              /\ Len(Decimal[e]) \in Nat
              /\ ExtendedText(tx, e)[Len(tx) + Len(Decimal[e]) + 1] = Slash
          BY <4>2, <5>1, ExtendedTextIs
        <5> QED BY <5>1, <5>2 DEF tx
      <4>8. text'[p] # << >>
        <5>1. \A l, n, d \in Nat : l = n + d + 1 => l # 0
          OBVIOUS
        <5>2. Len(text'[p]) \in Nat
          BY <4>7, LenProperties
        <5>3. Len(text'[p]) # 0
          BY <4>6, <4>7, <5>1, <5>2
        <5>4. Len(<< >>) = 0
          OBVIOUS
        <5> QED BY <5>3, <5>4
      <4>9. ASSUME NEW x \in Rowid
            PROVE  Like(text'[p], Decimal[x]) <=> OnPath(p, x)
        <5>1. Like(text'[p], Decimal[x]) <=> OnPath(w.path, x) \/ x = e
          BY <4>2, <4>4, <4>5, <4>6, LikeExtended
        <5>2. OnPath(p, x) <=> OnPath(w.path, x) \/ x = e
          BY <4>3 DEF OnPath
        <5> QED BY <5>1, <5>2
      <4> QED BY <4>7, <4>8, <4>9 DEF TextOK
    <3> QED BY <3>1, <3>2
  <2> QED BY <2>1, <2>4, <2>6 DEF TextIInv, TextInv
<1> QED BY <1>1, <1>2 DEF TextNext

(* The invariant holds in every reachable state.                           *)
THEOREM TextInvariance == TextSpec => []TextIInv
<1>1. TextInit => TextIInv
  BY TextInitially
<1>2. TextIInv /\ [TextNext]_textVars => TextIInv'
  BY TextInductive
<1> QED BY <1>1, <1>2, PTL DEF TextSpec

(* The guard path NOT LIKE '%/' || rowid || '/%' keeps out exactly the     *)
(* edges that are on the path already.                                     *)
THEOREM GuardExact == TextSpec => []GuardIsMembership
<1>1. TextIInv => GuardIsMembership
  <2> SUFFICES ASSUME TextIInv, NEW w \in queue \cup walk, NEW e \in Rowid
               PROVE  Like(text[w.path], Decimal[e]) <=> OnPath(w.path, e)
    BY DEF GuardIsMembership
  <2>1. w.path \in DOMAIN text
    BY DEF TextIInv, TextInv
  <2> QED BY <2>1 DEF TextIInv, TextInv, TextOK
<1> QED BY <1>1, TextInvariance, PTL

(* The walk SQLite runs over text is the walk over sequences of rowids, so *)
(* what is proved of the one holds of the other.                           *)
THEOREM TextRefinement == TextSpec => ImplementsWalk
<1>1. TextInit => Init
  BY DEF TextInit
<1>2. TextIInv /\ [TextNext]_textVars => [Next]_vars
  BY TextTakeIsTake DEF TextNext, Next, textVars
<1> QED BY <1>1, <1>2, TextInvariance, PTL DEF TextSpec, ImplementsWalk, Spec
=============================================================================
