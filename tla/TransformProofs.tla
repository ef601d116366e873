---------------------------- MODULE TransformProofs ----------------------------
(***************************************************************************)
(* The slots and edges of a translation, for any queries, maps and         *)
(* catalog: they stay in range in every engine, and the general engine     *)
(* keeps one slot for each node of the pattern, anchored to the first      *)
(* edge it is on.                                                          *)
(*                                                                         *)
(* Slots are found again by their variable or, without one, their place.   *)
(* So the slot of an occurrence is the same from the step that collects it *)
(* on, and an edge still points where it did: no step changes the          *)
(* variable or the place of a slot, and what is appended comes later than  *)
(* the slot that is found first.                                           *)
(*                                                                         *)
(* The second half shows that the translator rejects a query exactly when  *)
(* the pattern or a reference is outside what it understands.              *)
(***************************************************************************)
EXTENDS Transform, NamesProofs, FiniteSetTheorems

SlotFields ==
  { "var", "np", "label", "name", "alias", "referenced", "is_lone", "anchor_edge",
    "anchor_target" }

EdgeFields == { "var", "alias", "types", "props", "src", "tgt" }

(* A sequence of records with these fields.                                *)
Listing(ss, fields) ==
  /\ ss \in Seq({ ss[i] : i \in 1..Len(ss) })
  /\ \A i \in 1..Len(ss) : DOMAIN ss[i] = fields

(* Where the translation is.                                               *)
Places ==
  /\ query \in Queries
  /\ engine \in { "none", "general", "undirected", "varlen" }
  /\ pc \in Phases
  /\ pc = "failed" <=> err # "none"
  /\ engine = "none" => pc \in { "dispatch", "failed" }
  /\ pc = "dispatch" => engine = "none" /\ at = << 1, 0 >>
  /\ pc \in { "dispatch", "hop" } => slots = << >> /\ edges = << >>
  /\ pc = "hop" => engine \in { "undirected", "varlen" }
  /\ engine # "general" => prev = 0
  /\ engine \in { "undirected", "varlen" } /\ pc \notin { "hop", "failed" } => Len(slots) = 2
  /\ at \in Nat \X Nat

Ranges ==
  /\ Listing(slots, SlotFields) /\ Listing(edges, EdgeFields)
  /\ prev \in 0..Len(slots)
  /\ \A i \in 1..Len(slots) : slots[i].anchor_edge \in 0..Len(edges)
  /\ \A e \in 1..Len(edges) : edges[e].src \in 1..Len(slots) /\ edges[e].tgt \in 1..Len(slots)
  /\ emitted \in 0..Len(query.uses)

(* The place of the next path element: past the last path, or in a path.   *)
InPath ==
  pc = "collect" =>
    /\ engine = "general"
    /\ at[1] \in 1..(Len(query.paths) + 1)
    /\ at[1] \in 1..Len(query.paths) => at[2] \in 0..(Len(query.paths[at[1]].segs) + 1)
    /\ at[1] = Len(query.paths) + 1 => at[2] = 0

(* The relationships collected, each with its edge.                        *)
Done == { r \in Relationships(query) : Collected(r) }

Numbered ==
  engine = "general" =>
    /\ IsFiniteSet(Done) /\ Cardinality(Done) = Len(edges)
    /\ \A r \in Done :
         /\ edges[Number(r)].src = SlotIndex(slots, EndOf(query, r, FALSE))
         /\ edges[Number(r)].tgt = SlotIndex(slots, EndOf(query, r, TRUE))

(* The nodes collected, each with its slot.                                *)
Found ==
  engine = "general" =>
    /\ \A o \in Occurrences(query) : Collected(o) => SlotIndex(slots, o) # 0
    /\ pc = "collect" /\ at[2] > 0 => prev = SlotIndex(slots, << at[1], at[2] - 1 >>)

TInv == Places /\ Ranges /\ InPath /\ AnchorsFirst /\ Numbered /\ Found

-----------------------------------------------------------------------------
(***************************************************************************)
(* Sequences of records.                                                   *)
(***************************************************************************)
LEMMA Appended ==
  ASSUME NEW ss, NEW fields, Listing(ss, fields), NEW x, DOMAIN x = fields
  PROVE  /\ Len(ss) \in Nat
         /\ Listing(Append(ss, x), fields)
         /\ Len(Append(ss, x)) = Len(ss) + 1
         /\ Append(ss, x)[Len(ss) + 1] = x
         /\ \A i \in 1..Len(ss) : Append(ss, x)[i] = ss[i]
<1> DEFINE S == { ss[i] : i \in 1..Len(ss) } \cup {x}
           tt == Append(ss, x)
<1>1. ss \in Seq(S) /\ x \in S
  BY DEF Listing
<1>2. /\ Len(ss) \in Nat /\ Len(tt) = Len(ss) + 1
      /\ tt[Len(ss) + 1] = x
      /\ \A i \in 1..Len(ss) : tt[i] = ss[i]
  <2> HIDE DEF S
  <2> QED BY <1>1
<1>3. tt \in Seq({ tt[i] : i \in 1..Len(tt) })
  <2>1. tt \in Seq(S)
    <3> HIDE DEF S
    <3> QED BY <1>1
  <2> HIDE DEF tt, S
  <2> QED BY <2>1
<1>4. ASSUME NEW i \in 1..Len(tt) PROVE DOMAIN tt[i] = fields
  <2>1. i \in 1..Len(ss) \/ i = Len(ss) + 1
    BY <1>2, <1>4
  <2> HIDE DEF tt
  <2> QED BY <1>2, <2>1 DEF Listing
<1> QED BY <1>2, <1>3, <1>4 DEF Listing

(* A function on an interval is a list.                                    *)
LEMMA Mapped ==
  ASSUME NEW n \in Nat, NEW tt, NEW fields, tt = [ i \in 1..n |-> tt[i] ],
         \A i \in 1..n : DOMAIN tt[i] = fields
  PROVE  Listing(tt, fields) /\ Len(tt) = n
  BY DEF Listing

(* So is a list one of whose members is replaced.                          *)
LEMMA Replaced ==
  ASSUME NEW ss, NEW fields, Listing(ss, fields), NEW k, NEW tt,
         tt = [ i \in 1..Len(ss) |-> tt[i] ],
         DOMAIN tt[k] = fields,
         \A i \in 1..Len(ss) : i # k => tt[i] = ss[i]
  PROVE  Listing(tt, fields) /\ Len(tt) = Len(ss)
<1>1. Len(ss) \in Nat
  BY DEF Listing
<1>2. \A i \in 1..Len(ss) : DOMAIN tt[i] = fields
  <2>1. TAKE i \in 1..Len(ss)
  <2>2. i = k \/ tt[i] = ss[i]
    OBVIOUS
  <2> QED BY <2>2 DEF Listing
<1> QED BY <1>1, <1>2, Mapped

-----------------------------------------------------------------------------
(***************************************************************************)
(* The slot of an occurrence.                                              *)
(***************************************************************************)
Match(s, o) ==
  IF NodeAt(query, o).var # Anon THEN s.var = NodeAt(query, o).var
  ELSE s.var = Anon /\ s.np = o

(* It is the first one that matches, 0 if none does.                       *)
LEMMA SlotIndexIs ==
  ASSUME NEW ss, Len(ss) \in Nat, NEW o
  PROVE  LET k == SlotIndex(ss, o)
         IN  /\ k \in 0..Len(ss)
             /\ k # 0 => Match(ss[k], o) /\ \A i \in 1..(k - 1) : ~Match(ss[i], o)
             /\ k = 0 => \A i \in 1..Len(ss) : ~Match(ss[i], o)
<1> DEFINE same == { i \in 1..Len(ss) : Match(ss[i], o) }
<1>1. SlotIndex(ss, o) = IF same = {} THEN 0 ELSE Least(same)
  BY DEF SlotIndex, Match
<1>2. CASE same = {}
  BY <1>1, <1>2
<1>3. CASE same # {}
  <2>1. \E k \in same : \A j \in same : k <= j
    BY <1>3, LeastIndex
  <2>2. Least(same) \in same /\ \A j \in same : Least(same) <= j
    BY <2>1 DEF Least
  <2>3. ASSUME NEW i \in 1..(Least(same) - 1), Match(ss[i], o) PROVE FALSE
    <3>1. i \in same /\ i < Least(same)
      BY <2>2, <2>3
    <3> QED BY <2>2, <3>1
  <2> QED BY <1>1, <1>3, <2>2, <2>3
<1> QED BY <1>2, <1>3

(* It stays the same while slots are appended and keep variable and place. *)
Same(s, t) == s.var = t.var /\ s.np = t.np

(* Then a slot found is found again.                                       *)
LEMMA SlotIndexStays ==
  ASSUME NEW ss, NEW tt, Len(ss) \in Nat, Len(tt) \in Nat, Len(ss) <= Len(tt),
         \A i \in 1..Len(ss) : Same(ss[i], tt[i]),
         NEW o
  PROVE  /\ SlotIndex(ss, o) # 0 => SlotIndex(tt, o) = SlotIndex(ss, o)
         /\ Len(tt) = Len(ss) => SlotIndex(tt, o) = SlotIndex(ss, o)
<1> DEFINE k == SlotIndex(ss, o)
           l == SlotIndex(tt, o)
<1>1. /\ k \in 0..Len(ss)
      /\ k # 0 => Match(ss[k], o) /\ \A i \in 1..(k - 1) : ~Match(ss[i], o)
      /\ k = 0 => \A i \in 1..Len(ss) : ~Match(ss[i], o)
  BY SlotIndexIs
<1>2. /\ l \in 0..Len(tt)
      /\ l # 0 => Match(tt[l], o) /\ \A i \in 1..(l - 1) : ~Match(tt[i], o)
      /\ l = 0 => \A i \in 1..Len(tt) : ~Match(tt[i], o)
  BY SlotIndexIs
<1>3. \A i \in 1..Len(ss) : Match(ss[i], o) <=> Match(tt[i], o)
  BY DEF Match, Same
<1> HIDE DEF k, l
<1>4. CASE k # 0
  <2>1. k \in 1..Len(ss) /\ Match(tt[k], o)
    BY <1>1, <1>3, <1>4
  <2>2. l # 0 /\ ~(l > k)
    BY <1>2, <2>1
  <2>3. ~(l < k)
    BY <1>1, <1>2, <1>3, <2>1, <2>2
  <2> QED BY <1>1, <1>2, <2>2, <2>3 DEF k, l
<1>5. CASE k = 0 /\ Len(tt) = Len(ss)
  BY <1>1, <1>2, <1>3, <1>5 DEF k, l
<1> QED BY <1>4, <1>5 DEF k, l

(* Occurrences that have slots share one exactly when they are the same    *)
(* node.                                                                   *)
LEMMA SameSlot ==
  ASSUME NEW ss, Len(ss) \in Nat, NEW o1, NEW o2,
         SlotIndex(ss, o1) # 0, SlotIndex(ss, o2) # 0
  PROVE  SlotIndex(ss, o1) = SlotIndex(ss, o2) <=> SameNode(query, o1, o2)
<1>1. ASSUME SlotIndex(ss, o1) = SlotIndex(ss, o2) PROVE SameNode(query, o1, o2)
  <2>1. PICK s : Match(s, o1) /\ Match(s, o2)
    BY <1>1, SlotIndexIs
  <2> QED BY <2>1 DEF Match, SameNode
<1>2. ASSUME SameNode(query, o1, o2) PROVE SlotIndex(ss, o1) = SlotIndex(ss, o2)
  <2>1. CASE o1 = o2
    BY <2>1
  <2>2. CASE NodeAt(query, o1).var = NodeAt(query, o2).var /\ NodeAt(query, o1).var # Anon
    <3>1. \A s : Match(s, o1) <=> Match(s, o2)
      BY <2>2 DEF Match
    <3> DEFINE i == SlotIndex(ss, o1)
               j == SlotIndex(ss, o2)
    <3>2. i \in 1..Len(ss) /\ Match(ss[i], o1) /\ \A l \in 1..(i - 1) : ~Match(ss[l], o1)
      BY SlotIndexIs
    <3>3. j \in 1..Len(ss) /\ Match(ss[j], o2) /\ \A l \in 1..(j - 1) : ~Match(ss[l], o2)
      BY SlotIndexIs
    <3> HIDE DEF i, j
    <3>4. ~(i < j) /\ ~(j < i)
      BY <3>1, <3>2, <3>3
    <3> QED BY <3>2, <3>3, <3>4 DEF i, j
  <2> QED BY <1>2, <2>1, <2>2 DEF SameNode
<1> QED BY <1>1, <1>2

(* The query does not change, so neither does how slots are found.         *)
LEMMA SlotIndexPrimed ==
  ASSUME query' = query, NEW o
  PROVE  SlotIndex(slots, o)' = SlotIndex(slots', o)
  BY DEF SlotIndex, NodeAt, Least

-----------------------------------------------------------------------------
(***************************************************************************)
(* Anchors, slot by slot and edge by edge.                                 *)
(***************************************************************************)
AnchoredAt(ss, ee, i) ==
  LET on == { e \in 1..Len(ee) : i \in {ee[e].src, ee[e].tgt} }
      a  == ss[i].anchor_edge
  IN  IF on = {} THEN a = 0
      ELSE /\ a \in on /\ \A e \in on : a <= e
           /\ ss[i].anchor_target = (ee[a].src # i)

On(e, i)   == e.src = i \/ e.tgt = i
Side(e, i) == e.src # i

(* A slot's anchor is an edge it is on, and no edge it is on comes before. *)
LEMMA AnchorSpelt ==
  ASSUME NEW ss, NEW ee, NEW i, Len(ee) \in Nat, ss[i].anchor_edge \in 0..Len(ee)
  PROVE  LET a == ss[i].anchor_edge
         IN  AnchoredAt(ss, ee, i) <=>
               /\ a # 0 => On(ee[a], i) /\ ss[i].anchor_target = (ee[a].src # i)
               /\ \A e \in 1..Len(ee) : On(ee[e], i) => a # 0 /\ a <= e
<1> DEFINE on == { e \in 1..Len(ee) : i \in {ee[e].src, ee[e].tgt} }
           a  == ss[i].anchor_edge
<1>1. \A e : e \in on <=> e \in 1..Len(ee) /\ On(ee[e], i)
  BY DEF On
<1>2. AnchoredAt(ss, ee, i) <=>
        IF on = {} THEN a = 0
        ELSE /\ a \in on /\ \A e \in on : a <= e
             /\ ss[i].anchor_target = (ee[a].src # i)
  BY DEF AnchoredAt
<1> DEFINE T == ss[i].anchor_target = (ee[a].src # i)
<1> HIDE DEF on, a, T
<1>3. a \in 0..Len(ee)
  BY DEF a
<1>4. CASE on = {}
  BY <1>1, <1>2, <1>3, <1>4 DEF a
<1>5. CASE on # {}
  <2>1. AnchoredAt(ss, ee, i) <=> a \in on /\ (\A e \in on : a <= e) /\ T
    BY <1>2, <1>5 DEF T
  <2>2. a \in on /\ (\A e \in on : a <= e) /\ T <=>
          /\ a # 0 => On(ee[a], i) /\ T
          /\ \A e \in 1..Len(ee) : On(ee[e], i) => a # 0 /\ a <= e
    BY <1>1, <1>3, <1>5
  <2> QED BY <2>1, <2>2 DEF a, T
<1> QED BY <1>4, <1>5

-----------------------------------------------------------------------------
(***************************************************************************)
(* Most steps change nothing the invariant is about.                       *)
(***************************************************************************)
KeepsSlots ==
  /\ Listing(slots', SlotFields) /\ Len(slots') = Len(slots)
  /\ \A i \in 1..Len(slots) :
       /\ Same(slots[i], slots'[i])
       /\ slots'[i].anchor_edge = slots[i].anchor_edge
       /\ slots'[i].anchor_target = slots[i].anchor_target

KeepsEdges ==
  /\ Listing(edges', EdgeFields) /\ Len(edges') = Len(edges)
  /\ \A e \in 1..Len(edges) : edges'[e].src = edges[e].src /\ edges'[e].tgt = edges[e].tgt

(* A step that keeps the place in the pattern, the anchors and the ends.   *)
Quiet ==
  /\ query' = query /\ engine' = engine /\ at' = at /\ prev' = prev
  /\ pc' # "collect"
  /\ KeepsSlots /\ KeepsEdges
  /\ emitted' \in 0..Len(query.uses)

(* What was collected stays collected, with its number.                    *)
LEMMA CollectedPrimed ==
  ASSUME query' = query, at' = at
  PROVE  /\ Done' = Done
         /\ \A r : Number(r)' = Number(r)
         /\ \A o : Collected(o)' <=> Collected(o)
         /\ \A r, b : EndOf(query, r, b)' = EndOf(query, r, b)
         /\ Occurrences(query)' = Occurrences(query)
  BY DEF Done, Number, Collected, Relationships, Occurrences, EndOf, RelAt

(* Places are pairs of numbers.                                            *)
LEMMA OccurrencesArePairs ==
  ASSUME NEW q \in Queries, NEW o
  PROVE  o \in Occurrences(q) <=>
           \E p, s \in Nat : /\ o = << p, s >>
                            /\ p \in 1..Len(q.paths) /\ s \in 0..Len(q.paths[p].segs)
<1>1. Len(q.paths) \in Nat /\ \A p \in 1..Len(q.paths) : Len(q.paths[p].segs) \in Nat
  BY QueriesAssumption
<1>2. o \in Occurrences(q) <=>
        \E p \in 1..Len(q.paths) : \E s \in 0..Len(q.paths[p].segs) : o = << p, s >>
  BY DEF Occurrences
<1> QED BY <1>1, <1>2

(* A relationship collected is one of the first ones, up to its number.    *)
LEMMA NumberInRange ==
  ASSUME query \in Queries, at \in Nat \X Nat, IsFiniteSet(Done), NEW r \in Done
  PROVE  Number(r) \in 1..Cardinality(Done)
<1> DEFINE S == { s \in Relationships(query) : s = r \/ Before(s, r) }
<1>1. PICK p, k \in Nat : r = << p, k >>
  BY OccurrencesArePairs DEF Done, Relationships
<1>2. PICK x, y \in Nat : at = << x, y >>
  OBVIOUS
<1>3. Collected(r) /\ r \in Relationships(query)
  BY DEF Done
<1>4. S \subseteq Done
  <2>1. SUFFICES ASSUME NEW s \in S PROVE s \in Done
    OBVIOUS
  <2>2. s \in Relationships(query)
    BY <2>1
  <2>3. PICK u, v \in Nat : s = << u, v >>
    BY <2>2, OccurrencesArePairs DEF Relationships
  <2>4. Collected(s)
    <3>1. s = r \/ Before(s, r)
      BY <2>1
    <3>2. CASE s = r
      BY <3>2, <1>3
    <3>3. CASE Before(s, r)
      <4>1. u < p \/ (u = p /\ v < k)
        BY <3>3, <1>1, <2>3 DEF Before
      <4>2. p < x \/ (p = x /\ k < y)
        BY <1>1, <1>2, <1>3 DEF Collected
      <4>3. u < x \/ (u = x /\ v < y)
        BY <4>1, <4>2
      <4> QED BY <4>3, <1>2, <2>3 DEF Collected
    <3> QED BY <3>1, <3>2, <3>3
  <2> QED BY <2>2, <2>4 DEF Done
<1>5. r \in S
  BY <1>3
<1>6. Number(r) = Cardinality(S)
  BY DEF Number
<1> HIDE DEF S
<1>7. IsFiniteSet(S) /\ Cardinality(S) <= Cardinality(Done)
  BY <1>4, FS_Subset
<1>8. Cardinality(S) \in Nat /\ Cardinality(S) # 0 /\ Cardinality(Done) \in Nat
  BY <1>5, <1>7, FS_CardinalityType, FS_EmptySet
<1> QED BY <1>6, <1>7, <1>8

(* A quiet step keeps the parts of the invariant on slots and edges.       *)
LEMMA QuietKeeps ==
  ASSUME TInv, Quiet
  PROVE  (Ranges /\ InPath /\ AnchorsFirst /\ Numbered /\ Found)'
<1>1. Len(slots) \in Nat /\ Len(edges) \in Nat
  BY DEF TInv, Ranges, Listing
<1>2. \A o : SlotIndex(slots, o)' = SlotIndex(slots, o)
  <2>1. TAKE o
  <2>2. SlotIndex(slots', o) = SlotIndex(slots, o)
    BY <1>1, SlotIndexStays DEF Quiet, KeepsSlots
  <2> QED BY <2>2, SlotIndexPrimed DEF Quiet
<1>3. Ranges'
  BY <1>1 DEF TInv, Ranges, Quiet, KeepsSlots, KeepsEdges
<1>4. InPath'
  BY DEF InPath, Quiet
<1>5. AnchorsFirst'
  <2>1. \A i \in 1..Len(slots) : AnchoredAt(slots, edges, i) => AnchoredAt(slots', edges', i)
    <3>1. TAKE i \in 1..Len(slots)
    <3>2. /\ slots[i].anchor_edge \in 0..Len(edges)
          /\ slots'[i].anchor_edge = slots[i].anchor_edge
          /\ slots'[i].anchor_target = slots[i].anchor_target
          /\ Len(edges') = Len(edges)
          /\ \A e \in 1..Len(edges) : edges'[e].src = edges[e].src /\ edges'[e].tgt = edges[e].tgt
      BY DEF TInv, Ranges, Quiet, KeepsSlots, KeepsEdges
    <3> QED BY <1>1, <3>2, AnchorSpelt, SMTT(20) DEF On
  <2>2. Len(slots') = Len(slots) /\ engine' = engine
    BY DEF Quiet, KeepsSlots
  <2> QED BY <2>1, <2>2 DEF TInv, AnchorsFirst, AnchoredAt
<1>6. Numbered'
  <2>1. CASE engine # "general"
    BY <2>1 DEF Numbered, Quiet
  <2>2. CASE engine = "general"
    <3>1. /\ IsFiniteSet(Done) /\ Cardinality(Done) = Len(edges)
          /\ query \in Queries /\ at \in Nat \X Nat
      BY <2>2 DEF TInv, Numbered, Places
    <3>2. ASSUME NEW r \in Done
          PROVE  /\ edges'[Number(r)].src = SlotIndex(slots, EndOf(query, r, FALSE))
                 /\ edges'[Number(r)].tgt = SlotIndex(slots, EndOf(query, r, TRUE))
      <4>1. Number(r) \in 1..Len(edges)
        BY <3>1, NumberInRange
      <4> QED BY <2>2, <4>1 DEF TInv, Numbered, Quiet, KeepsEdges
    <3>3. /\ Done' = Done
          /\ \A r : Number(r)' = Number(r)
          /\ \A r, b : EndOf(query, r, b)' = EndOf(query, r, b)
      BY CollectedPrimed DEF Quiet
    <3>4. Len(edges') = Len(edges)
      BY DEF Quiet, KeepsEdges
    <3>5. \A r, b : SlotIndex(slots, EndOf(query, r, b))' = SlotIndex(slots, EndOf(query, r, b))
      <4>1. TAKE r, b
      <4>2. query' = query /\ SlotIndex(slots', EndOf(query, r, b)) = SlotIndex(slots, EndOf(query, r, b))
        BY <1>1, SlotIndexStays DEF Quiet, KeepsSlots
      <4>3. SlotIndex(slots, EndOf(query, r, b))' = SlotIndex(slots', EndOf(query, r, b))
        BY <4>2 DEF SlotIndex
      <4> QED BY <4>2, <4>3
    <3> QED BY <3>1, <3>2, <3>3, <3>4, <3>5 DEF Numbered
  <2> QED BY <2>1, <2>2
<1>7. Found'
  BY <1>2, CollectedPrimed DEF TInv, Found, Quiet
<1> QED BY <1>3, <1>4, <1>5, <1>6, <1>7

-----------------------------------------------------------------------------
(***************************************************************************)
(* The steps that are quiet.                                               *)
(***************************************************************************)
(* A failure leaves slots and edges alone.                                 *)
LEMMA FailKeeps ==
  ASSUME TInv, NEW reason, reason # "none", Fail(reason)
  PROVE  TInv'
<1>1. Quiet
  <2>1. KeepsSlots
    BY DEF TInv, Ranges, Fail, KeepsSlots, Same
  <2>2. KeepsEdges
    BY DEF TInv, Ranges, Fail, KeepsEdges
  <2> QED BY <2>1, <2>2 DEF TInv, Ranges, Fail, Quiet
<1>2. Places'
  BY DEF TInv, Places, Fail, Phases
<1> QED BY <1>1, <1>2, QuietKeeps DEF TInv

(* A slot whose label is resolved is the slot of the same node.            *)
LEMMA ResolvedIs ==
  ASSUME NEW s, DOMAIN s = SlotFields
  PROVE  /\ DOMAIN Resolved(s) = SlotFields /\ Same(s, Resolved(s))
         /\ Resolved(s).anchor_edge = s.anchor_edge
         /\ Resolved(s).anchor_target = s.anchor_target
  BY DEF Resolved, SlotFields, Same

(* A step that changes other fields of the slots keeps them.               *)
LEMMA MappedSlots ==
  ASSUME TInv,
         slots' = [ i \in 1..Len(slots) |-> slots'[i] ],
         \A i \in 1..Len(slots) :
           /\ DOMAIN slots'[i] = SlotFields /\ Same(slots[i], slots'[i])
           /\ slots'[i].anchor_edge = slots[i].anchor_edge
           /\ slots'[i].anchor_target = slots[i].anchor_target
  PROVE  KeepsSlots
<1>1. Len(slots) \in Nat
  BY DEF TInv, Ranges, Listing
<1>2. Listing(slots', SlotFields) /\ Len(slots') = Len(slots)
  BY <1>1, Mapped
<1> QED BY <1>2 DEF KeepsSlots

(* Resolving labels changes labels and names only.                         *)
LEMMA ResolveLabelsKeeps ==
  ASSUME TInv, engine = "general", ResolveLabels
  PROVE  TInv'
<1>1. CASE \E i \in 1..Len(slots) : Ambiguous(map, slots[i].label)
  BY <1>1, FailKeeps DEF ResolveLabels
<1>2. CASE ~\E i \in 1..Len(slots) : Ambiguous(map, slots[i].label)
  <2>1. /\ slots' = [ i \in 1..Len(slots) |-> Resolved(slots[i]) ]
        /\ pc = "resolve" /\ Goto("name")
        /\ UNCHANGED << at, prev, edges, emitted, from, where >>
    BY <1>2 DEF ResolveLabels
  <2>2. \A i \in 1..Len(slots) : slots'[i] = Resolved(slots[i])
    BY <2>1
  <2>3. \A i \in 1..Len(slots) : DOMAIN slots[i] = SlotFields
    BY DEF TInv, Ranges, Listing
  <2>4. KeepsSlots
    <3>1. slots' = [ i \in 1..Len(slots) |-> slots'[i] ]
      BY <2>1
    <3> QED BY <2>2, <2>3, <3>1, ResolvedIs, MappedSlots
  <2>5. Quiet
    <3>1. KeepsEdges
      BY <2>1 DEF TInv, Ranges, KeepsEdges
    <3> QED BY <2>1, <2>4, <3>1 DEF TInv, Ranges, Quiet, Goto
  <2>6. Places'
    BY <2>1, <2>4 DEF TInv, Places, Goto, Phases, KeepsSlots
  <2> QED BY <2>5, <2>6, QuietKeeps DEF TInv
<1> QED BY <1>1, <1>2

(* Naming edges changes aliases only.                                      *)
LEMMA NameEdgesKeeps ==
  ASSUME TInv, engine = "general", NameEdges
  PROVE  TInv'
<1>1. /\ Len(edges) \in Nat
      /\ \A i \in 1..Len(edges) : DOMAIN edges[i] = EdgeFields
  BY DEF TInv, Ranges, Listing
<1>2. \A i \in 1..Len(edges) :
        /\ DOMAIN edges'[i] = EdgeFields
        /\ edges'[i].src = edges[i].src /\ edges'[i].tgt = edges[i].tgt
  BY <1>1 DEF NameEdges, EdgeFields
<1>3. edges' = [ i \in 1..Len(edges) |-> edges'[i] ]
  BY DEF NameEdges
<1>4. KeepsEdges
  BY <1>1, <1>2, <1>3, Mapped DEF KeepsEdges
<1>5. KeepsSlots
  BY DEF TInv, Ranges, NameEdges, KeepsSlots, Same
<1>6. Quiet
  BY <1>4, <1>5 DEF TInv, Ranges, NameEdges, Quiet, Goto
<1>7. Places'
  BY DEF TInv, Places, NameEdges, Goto, Phases
<1> QED BY <1>6, <1>7, QuietKeeps DEF TInv

(* Checking slots marks the lone ones and names them.                      *)
LEMMA CheckSlotsKeeps ==
  ASSUME TInv, engine = "general", CheckSlots
  PROVE  TInv'
<1> DEFINE bad == { i \in 1..Len(slots) : SlotError(slots[i]) # "none" }
<1>0. Len(slots) \in Nat /\ \A i \in 1..Len(slots) : DOMAIN slots[i] = SlotFields
  BY DEF TInv, Ranges, Listing
<1>1. CASE bad # {}
  <2>1. Fail(SlotError(slots[Least(bad)]))
    BY <1>1 DEF CheckSlots
  <2>2. \E k \in bad : \A j \in bad : k <= j
    BY <1>0, <1>1, LeastIndex
  <2>3. Least(bad) \in bad
    BY <2>2 DEF Least
  <2> QED BY <2>1, <2>3, FailKeeps
<1>2. CASE bad = {}
  <2>1. /\ slots' = [ i \in 1..Len(slots) |->
                        LET lone == slots[i].anchor_edge = 0
                        IN  [ slots[i] EXCEPT !.is_lone = lone,
                                !.alias = IF lone /\ @ = Anon THEN << "_n", i >> ELSE @ ] ]
        /\ pc = "check" /\ Goto("emit")
        /\ UNCHANGED << at, prev, edges, emitted, from, where >>
    BY <1>2 DEF CheckSlots
  <2>2. KeepsSlots
    <3>1. slots' = [ i \in 1..Len(slots) |-> slots'[i] ]
      BY <2>1
    <3>2. ASSUME NEW i \in 1..Len(slots)
          PROVE  /\ DOMAIN slots'[i] = SlotFields /\ Same(slots[i], slots'[i])
                 /\ slots'[i].anchor_edge = slots[i].anchor_edge
                 /\ slots'[i].anchor_target = slots[i].anchor_target
      BY <1>0, <2>1 DEF SlotFields, Same
    <3> QED BY <3>1, <3>2, MappedSlots
  <2>3. KeepsEdges
    BY <2>1 DEF TInv, Ranges, KeepsEdges
  <2>4. Quiet
    BY <2>1, <2>2, <2>3 DEF TInv, Ranges, Quiet, Goto
  <2>5. Places'
    BY <2>1 DEF TInv, Places, Goto, Phases
  <2> QED BY <2>4, <2>5, QuietKeeps DEF TInv
<1> QED BY <1>1, <1>2

(* Emitting a reference marks the first slot of its name.                  *)
LEMMA EmitReferenceKeeps ==
  ASSUME TInv, engine # "none", EmitReference
  PROVE  TInv'
<1> DEFINE use   == query.uses[emitted + 1]
           named == NodesNamed(use.var)
<1>0. /\ Len(slots) \in Nat /\ DOMAIN slots = 1..Len(slots)
      /\ \A i \in 1..Len(slots) : DOMAIN slots[i] = SlotFields
  BY DEF TInv, Ranges, Listing
<1>1. CASE BindError(use) # "none"
  BY <1>1, FailKeeps DEF EmitReference
<1>2. CASE BindError(use) = "none"
  <2>1. /\ slots' = IF named = {} THEN slots
                    ELSE [ slots EXCEPT ![Least(named)].referenced = TRUE ]
        /\ pc = "emit" /\ emitted < Len(query.uses) /\ emitted' = emitted + 1
        /\ UNCHANGED << query, map, engine, pc, at, prev, edges, from, where, err >>
    BY <1>2 DEF EmitReference
  <2>2. KeepsSlots
    <3>1. CASE named = {}
      BY <2>1, <3>1 DEF TInv, Ranges, KeepsSlots, Same
    <3>2. CASE named # {}
      <4>1. named \subseteq 1..Len(slots)
        BY DEF NodesNamed
      <4> HIDE DEF named
      <4>2. \E k \in named : \A j \in named : k <= j
        BY <1>0, <3>2, <4>1, LeastIndex
      <4>3. PICK k \in 1..Len(slots) : k = Least(named)
        BY <4>1, <4>2 DEF Least
      <4>4. slots' = [ slots EXCEPT ![k] = [ slots[k] EXCEPT !.referenced = TRUE ] ]
        BY <2>1, <3>2, <4>3
      <4>5. slots' = [ i \in 1..Len(slots) |-> slots'[i] ]
        BY <1>0, <4>4
      <4>6. \A i \in 1..Len(slots) :
              slots'[i] = IF i = k THEN [ slots[i] EXCEPT !.referenced = TRUE ] ELSE slots[i]
        BY <1>0, <4>4
      <4>7. ASSUME NEW i \in 1..Len(slots)
            PROVE  /\ DOMAIN slots'[i] = SlotFields /\ Same(slots[i], slots'[i])
                   /\ slots'[i].anchor_edge = slots[i].anchor_edge
                   /\ slots'[i].anchor_target = slots[i].anchor_target
        BY <1>0, <4>6 DEF SlotFields, Same
      <4> QED BY <4>5, <4>7, MappedSlots
    <3> QED BY <3>1, <3>2
  <2>3. KeepsEdges
    BY <2>1 DEF TInv, Ranges, KeepsEdges
  <2>4. emitted' \in 0..Len(query.uses)
    <3>1. Len(query.uses) \in Nat /\ emitted \in 0..Len(query.uses)
      BY QueriesAssumption DEF TInv, Ranges, Places
    <3> QED BY <2>1, <3>1
  <2>5. Quiet
    BY <2>1, <2>2, <2>3, <2>4 DEF Quiet
  <2>6. Places'
    BY <2>1, <2>2 DEF TInv, Places, KeepsSlots
  <2> QED BY <2>5, <2>6, QuietKeeps DEF TInv
<1> QED BY <1>1, <1>2

(* A step that changes the phase only.                                     *)
Onward(phase) ==
  /\ Goto(phase) /\ phase \in { "resolve", "where", "done" }
  /\ UNCHANGED << at, prev, slots, edges, emitted >>

(* Such a step keeps the invariant.                                        *)
LEMMA OnwardKeeps ==
  ASSUME TInv, pc \in { "collect", "emit", "where" }, NEW phase, Onward(phase)
  PROVE  TInv'
<1>1. KeepsSlots /\ KeepsEdges
  BY DEF TInv, Ranges, Onward, KeepsSlots, KeepsEdges, Same
<1>2. Quiet
  BY <1>1 DEF TInv, Ranges, Onward, Quiet, Goto
<1>3. Places'
  BY DEF TInv, Places, InPath, Onward, Goto, Phases
<1> QED BY <1>2, <1>3, QuietKeeps DEF TInv

(* FROM and WHERE are built from the slots and edges and change neither.   *)
LEMMA EmitKeeps ==
  ASSUME TInv, \/ EndCollect \/ EmitFrom \/ EmitWhere
               \/ EmitUndirected \/ EmitVarlen
  PROVE  TInv'
<1>1. CASE EndCollect
  BY <1>1, OnwardKeeps DEF EndCollect, Onward
<1>2. CASE EmitFrom
  <2>1. pc = "emit" /\ Onward("where")
    BY <1>2 DEF EmitFrom, AllEmitted, Onward
  <2> QED BY <2>1, OnwardKeeps
<1>3. CASE EmitWhere
  <2>1. pc = "where" /\ (Fail("relationship property") \/ Onward("done"))
    BY <1>3 DEF EmitWhere, Onward
  <2> QED BY <2>1, FailKeeps, OnwardKeeps
<1>4. CASE EmitUndirected
  <2>1. pc = "emit" /\ (Fail("relationship property") \/ Onward("done"))
    BY <1>4 DEF EmitUndirected, AllEmitted, Onward
  <2> QED BY <2>1, FailKeeps, OnwardKeeps
<1>5. CASE EmitVarlen
  <2>1. pc = "emit" /\ Onward("done")
    BY <1>5 DEF EmitVarlen, AllEmitted, Onward
  <2> QED BY <2>1, OnwardKeeps
<1> QED BY <1>1, <1>2, <1>3, <1>4, <1>5

(* Resolving the labels of a hop changes labels and names only.            *)
LEMMA ResolveHopKeeps ==
  ASSUME TInv, engine \in { "undirected", "varlen" }, ResolveHop
  PROVE  TInv'
<1>1. CASE Fail("ambiguous label") \/ Fail("unknown table")
  BY <1>1, FailKeeps
<1>2. CASE ~(Fail("ambiguous label") \/ Fail("unknown table"))
  <2>1. /\ slots' = [ i \in 1..2 |-> Resolved(slots[i]) ]
        /\ pc = "resolve" /\ Goto("emit")
        /\ UNCHANGED << at, prev, edges, emitted, from, where >>
    BY <1>2 DEF ResolveHop
  <2>2. Len(slots) = 2
    BY <2>1 DEF TInv, Places
  <2>3. KeepsSlots
    <3>1. slots' = [ i \in 1..Len(slots) |-> slots'[i] ]
      BY <2>1, <2>2
    <3>2. \A i \in 1..Len(slots) : DOMAIN slots[i] = SlotFields /\ slots'[i] = Resolved(slots[i])
      BY <2>1, <2>2 DEF TInv, Ranges, Listing
    <3> QED BY <3>1, <3>2, ResolvedIs, MappedSlots
  <2>4. Quiet
    BY <2>1, <2>3 DEF TInv, Ranges, Quiet, Goto, KeepsEdges
  <2>5. Places'
    BY <2>1, <2>2, <2>3 DEF TInv, Places, Goto, Phases, KeepsSlots
  <2> QED BY <2>4, <2>5, QuietKeeps DEF TInv
<1> QED BY <1>1, <1>2

-----------------------------------------------------------------------------
(***************************************************************************)
(* The choice of an engine and the start of a hop.                         *)
(***************************************************************************)
(* Nothing is collected when an engine takes over.                         *)
LEMMA DispatchKeeps ==
  ASSUME TInv, Dispatch
  PROVE  TInv'
<1>1. ASSUME NEW e, NEW phase, pc = "dispatch", Choose(e, phase),
             << e, phase >> \in { << "varlen", "hop" >>, << "undirected", "hop" >>,
                                 << "general", "collect" >> }
      PROVE  TInv'
  <2>1. /\ at' = << 1, 0 >> /\ slots' = << >> /\ edges' = << >> /\ query' = query
        /\ engine' = e /\ pc' = phase /\ prev' = 0 /\ err' = err /\ emitted' = emitted
        /\ query \in Queries
    BY <1>1 DEF TInv, Places, Choose
  <2>2. Places'
    BY <1>1, <2>1 DEF TInv, Places, Phases
  <2>3. Ranges'
    BY <2>1 DEF TInv, Ranges, Listing
  <2>4. InPath'
    <3>1. Len(query.paths) \in Nat /\ \A p \in 1..Len(query.paths) : Len(query.paths[p].segs) \in Nat
      BY <2>1, QueriesAssumption
    <3> QED BY <1>1, <2>1, <3>1 DEF InPath
  <2>5. AnchorsFirst'
    BY <2>1 DEF AnchorsFirst
  <2>6. \A o \in Occurrences(query) : ~Collected(o)'
    BY <2>1, OccurrencesArePairs DEF Collected
  <2>7. Numbered'
    <3>1. Relationships(query') \subseteq Occurrences(query)
      BY <2>1 DEF Relationships
    <3>2. Done' = {}
      BY <2>6, <3>1 DEF Done
    <3> QED BY <2>1, <3>2, FS_EmptySet DEF Numbered
  <2>8. Found'
    BY <2>1, <2>6 DEF Found
  <2> QED BY <2>2, <2>3, <2>4, <2>5, <2>7, <2>8 DEF TInv
<1>2. pc = "dispatch"
  BY DEF Dispatch
<1>3. CASE \E reason : reason # "none" /\ Fail(reason)
  BY <1>3, FailKeeps
<1>4. CASE ~\E reason : reason # "none" /\ Fail(reason)
  <2>1. Choose("varlen", "hop") \/ Choose("undirected", "hop") \/ Choose("general", "collect")
    BY <1>4 DEF Dispatch
  <2> QED BY <1>1, <1>2, <2>1
<1> QED BY <1>3, <1>4

(* The two slots of a hop and its edge.                                    *)
LEMMA OpenHopKeeps ==
  ASSUME TInv, engine \in { "undirected", "varlen" }, pc = "hop",
         NEW src \in 1..2, NEW tgt \in 1..2, OpenHop(src, tgt)
  PROVE  TInv'
<1> DEFINE new == NewEdge(RelAt(query, TheHop), src, tgt)
           x   == [ new EXCEPT !.alias = IF @ = Anon THEN << "r", 1 >> ELSE @ ]
<1>1. \A o : DOMAIN NewSlot(o) = SlotFields /\ NewSlot(o).anchor_edge = 0
  BY DEF NewSlot, SlotFields
<1>2. DOMAIN x = EdgeFields /\ x.src = src /\ x.tgt = tgt
  <2>1. DOMAIN new = EdgeFields /\ new.src = src /\ new.tgt = tgt
    BY DEF NewEdge, EdgeFields
  <2> HIDE DEF new
  <2> QED BY <2>1 DEF EdgeFields
<1>3. /\ slots' = << NewSlot(Left), NewSlot(Right) >> /\ edges' = << x >>
      /\ pc' = "resolve" /\ UNCHANGED << query, map, engine, err, at, prev, emitted >>
  BY DEF OpenHop, Goto
<1> HIDE DEF x
<1>4. Listing(slots', SlotFields) /\ Len(slots') = 2
  <2>1. slots' = [ i \in 1..2 |-> slots'[i] ] /\ \A i \in 1..2 : DOMAIN slots'[i] = SlotFields
    BY <1>1, <1>3
  <2> QED BY <2>1, Mapped
<1>5. Listing(edges', EdgeFields) /\ Len(edges') = 1
  <2>1. edges' = [ i \in 1..1 |-> edges'[i] ] /\ \A i \in 1..1 : DOMAIN edges'[i] = EdgeFields
    BY <1>2, <1>3
  <2> QED BY <2>1, Mapped
<1>6. Ranges'
  <2>1. \A i \in 1..2 : slots'[i].anchor_edge = 0
    BY <1>1, <1>3
  <2>2. edges'[1] = x /\ prev' = 0
    BY <1>3 DEF TInv, Places
  <2> QED BY <1>2, <1>3, <1>4, <1>5, <2>1, <2>2 DEF TInv, Ranges
<1>7. Places'
  BY <1>3, <1>4 DEF TInv, Places, Phases
<1>8. (InPath /\ AnchorsFirst /\ Numbered /\ Found)'
  BY <1>3 DEF InPath, AnchorsFirst, Numbered, Found
<1> QED BY <1>6, <1>7, <1>8 DEF TInv

(* A hop is opened from left to right or from right to left, or rejected.  *)
LEMMA OpenKeeps ==
  ASSUME TInv, engine \in { "undirected", "varlen" }, OpenUndirected \/ OpenVarlen
  PROVE  TInv'
<1>1. pc = "hop"
  BY DEF OpenUndirected, OpenVarlen
<1>2. CASE \E reason : reason # "none" /\ Fail(reason)
  BY <1>2, FailKeeps
<1>3. CASE ~\E reason : reason # "none" /\ Fail(reason)
  <2>1. OpenHop(1, 2) \/ OpenHop(2, 1)
    <3>1. CASE OpenUndirected
      BY <1>3, <3>1 DEF OpenUndirected
    <3>2. CASE OpenVarlen
      BY <1>3, <3>2 DEF OpenVarlen
    <3> QED BY <3>1, <3>2
  <2> QED BY <1>1, <2>1, OpenHopKeeps
<1> QED BY <1>2, <1>3

-----------------------------------------------------------------------------
(***************************************************************************)
(* The collection of the pattern.                                          *)
(***************************************************************************)
(* An occurrence merged into the slots has one, which no edge is on yet if *)
(* it is new.                                                              *)
LEMMA MergedIs ==
  ASSUME NEW ss, Listing(ss, SlotFields), NEW o
  PROVE  LET mm == Merged(ss, o)
         IN  /\ Listing(mm, SlotFields) /\ Len(mm) \in Nat
             /\ Len(ss) \in Nat /\ Len(ss) <= Len(mm)
             /\ SlotIndex(mm, o) \in 1..Len(mm)
             /\ \A i \in 1..Len(ss) :
                  /\ Same(ss[i], mm[i])
                  /\ mm[i].anchor_edge = ss[i].anchor_edge
                  /\ mm[i].anchor_target = ss[i].anchor_target
             /\ \A i \in 1..Len(mm) : i > Len(ss) => mm[i].anchor_edge = 0
<1> DEFINE mm == Merged(ss, o)
           k  == SlotIndex(ss, o)
           l  == LabelOf(NodeAt(query, o))
<1>0. Len(ss) \in Nat /\ \A i \in 1..Len(ss) : DOMAIN ss[i] = SlotFields
  BY DEF Listing
<1>1. k \in 0..Len(ss)
  BY <1>0, SlotIndexIs
<1>2. CASE k = 0
  <2>1. mm = Append(ss, NewSlot(o))
    BY <1>2 DEF Merged
  <2>2. DOMAIN NewSlot(o) = SlotFields /\ NewSlot(o).anchor_edge = 0
    BY DEF NewSlot, SlotFields
  <2>3. /\ Listing(mm, SlotFields) /\ Len(mm) = Len(ss) + 1
        /\ mm[Len(ss) + 1] = NewSlot(o)
        /\ \A i \in 1..Len(ss) : mm[i] = ss[i]
    BY <2>1, <2>2, Appended
  <2>4. Match(NewSlot(o), o)
    BY DEF Match, NewSlot
  <2> HIDE DEF mm
  <2>5. Len(mm) \in Nat
    BY <1>0, <2>3
  <2>6. /\ SlotIndex(mm, o) \in 0..Len(mm)
        /\ SlotIndex(mm, o) = 0 => \A i \in 1..Len(mm) : ~Match(mm[i], o)
    BY <2>5, SlotIndexIs
  <2>7. Len(ss) + 1 \in 1..Len(mm)
    BY <1>0, <2>3
  <2>8. SlotIndex(mm, o) \in 1..Len(mm)
    BY <2>3, <2>4, <2>5, <2>6, <2>7
  <2>9. \A i \in 1..Len(mm) : i > Len(ss) => mm[i].anchor_edge = 0
    <3>1. \A i \in 1..Len(mm) : i > Len(ss) => i = Len(ss) + 1
      BY <1>0, <2>3
    <3> QED BY <2>2, <2>3, <3>1
  <2> QED BY <1>0, <2>3, <2>5, <2>8, <2>9 DEF Same, mm
<1>3. CASE k # 0 /\ l = NoLabel
  <2>1. mm = ss
    BY <1>3 DEF Merged
  <2> HIDE DEF mm
  <2> QED BY <1>0, <1>1, <1>3, <2>1 DEF Same, mm
<1>4. CASE k # 0 /\ l # NoLabel
  <2> DEFINE x == [ ss[k] EXCEPT !.label = l ]
  <2>1. mm = [ ss EXCEPT ![k] = x ]
    BY <1>4 DEF Merged
  <2>2. k \in 1..Len(ss)
    BY <1>0, <1>1, <1>4
  <2>3. /\ DOMAIN x = SlotFields /\ Same(ss[k], x)
        /\ x.anchor_edge = ss[k].anchor_edge /\ x.anchor_target = ss[k].anchor_target
    <3>1. DOMAIN ss[k] = SlotFields
      BY <1>0, <2>2
    <3> HIDE DEF k, l
    <3> QED BY <3>1 DEF SlotFields, Same
  <2> HIDE DEF x, mm, k
  <2>4. /\ Listing(mm, SlotFields) /\ Len(mm) = Len(ss) /\ mm[k] = x
        /\ \A i \in 1..Len(ss) : i # k => mm[i] = ss[i]
    <3>1. DOMAIN ss = 1..Len(ss)
      BY DEF Listing
    <3>2. /\ mm[k] = x /\ mm = [ i \in 1..Len(ss) |-> mm[i] ]
          /\ \A i \in 1..Len(ss) : i # k => mm[i] = ss[i]
      BY <2>1, <2>2, <3>1
    <3> QED BY <2>2, <2>3, <3>2, Replaced
  <2>5. \A i \in 1..Len(ss) :
          /\ Same(ss[i], mm[i])
          /\ mm[i].anchor_edge = ss[i].anchor_edge
          /\ mm[i].anchor_target = ss[i].anchor_target
    BY <2>3, <2>4 DEF Same
  <2>6. SlotIndex(mm, o) = k
    BY <1>0, <1>4, <2>4, <2>5, SlotIndexStays DEF k
  <2> QED BY <1>0, <2>2, <2>4, <2>5, <2>6 DEF mm
<1> QED BY <1>2, <1>3, <1>4

(* A slot anchored to the new edge, or left alone.                         *)
LEMMA AnchoredIs ==
  ASSUME NEW ss, Listing(ss, SlotFields), NEW k \in 1..Len(ss), NEW e, e # 0, NEW b,
         NEW tt, tt = Anchored(ss, k, e, b)
  PROVE  /\ Listing(tt, SlotFields) /\ Len(tt) = Len(ss)
         /\ \A i \in 1..Len(ss) :
              LET fresh == i = k /\ ss[i].anchor_edge = 0
              IN  /\ Same(ss[i], tt[i]) /\ tt[i].label = ss[i].label
                  /\ tt[i].anchor_edge = IF fresh THEN e ELSE ss[i].anchor_edge
                  /\ tt[i].anchor_target = IF fresh THEN b ELSE ss[i].anchor_target
<1>1. CASE ss[k].anchor_edge # 0
  <2>1. tt = ss
    BY <1>1 DEF Anchored
  <2> QED BY <1>1, <2>1 DEF Same
<1>2. CASE ss[k].anchor_edge = 0
  <2> DEFINE x == [ ss[k] EXCEPT !.anchor_edge = e, !.anchor_target = b ]
  <2>0. DOMAIN ss = 1..Len(ss) /\ DOMAIN ss[k] = SlotFields
    BY DEF Listing
  <2>1. tt = [ ss EXCEPT ![k] = x ]
    <3>1. tt = [ ss EXCEPT ![k].anchor_edge = e, ![k].anchor_target = b ]
      BY <1>2 DEF Anchored
    <3> QED BY <2>0, <3>1
  <2>2. /\ DOMAIN x = SlotFields /\ Same(ss[k], x) /\ x.label = ss[k].label
        /\ x.anchor_edge = e /\ x.anchor_target = b
    BY <2>0 DEF SlotFields, Same
  <2> HIDE DEF x
  <2>3. /\ Listing(tt, SlotFields) /\ Len(tt) = Len(ss) /\ tt[k] = x
        /\ \A i \in 1..Len(ss) : i # k => tt[i] = ss[i]
    <3>1. DOMAIN ss = 1..Len(ss)
      BY DEF Listing
    <3>2. /\ tt[k] = x /\ tt = [ i \in 1..Len(ss) |-> tt[i] ]
          /\ \A i \in 1..Len(ss) : i # k => tt[i] = ss[i]
      BY <2>1, <2>2, <3>1
    <3> QED BY <2>2, <3>2, Replaced
  <2> QED BY <1>2, <2>2, <2>3 DEF Same
<1> QED BY <1>1, <1>2

(* The slots only grow, and stay where they are.                           *)
Grow ==
  /\ Listing(slots', SlotFields) /\ Len(slots) <= Len(slots')
  /\ \A i \in 1..Len(slots) : Same(slots[i], slots'[i])

(* A slot found stays the one that is found.                               *)
LEMMA StaysFound ==
  ASSUME TInv, query' = query, Grow, NEW o, SlotIndex(slots, o) # 0
  PROVE  SlotIndex(slots', o) = SlotIndex(slots, o)
<1>1. Len(slots) \in Nat /\ Len(slots') \in Nat
  BY DEF TInv, Ranges, Listing, Grow
<1>2. Len(slots) <= Len(slots') /\ \A i \in 1..Len(slots) : Same(slots[i], slots'[i])
  BY DEF Grow
<1> QED BY <1>1, <1>2, SlotIndexStays

(* The step that collects the occurrence at the current place.             *)
Advance ==
  /\ pc = "collect" /\ engine = "general"
  /\ at[1] <= Len(query.paths) /\ at[2] \in 0..Len(query.paths[at[1]].segs)
  /\ UNCHANGED << query, map, engine, pc, emitted, from, where, err >>
  /\ at' = << at[1], at[2] + 1 >>
  /\ Grow
  /\ prev' \in 1..Len(slots') /\ prev' = SlotIndex(slots', at)

(* It is an occurrence of the pattern, and the only new one collected.     *)
LEMMA AdvanceCollects ==
  ASSUME TInv, Advance
  PROVE  /\ at \in Occurrences(query) /\ ~Collected(at)
         /\ \A o \in Occurrences(query) : Collected(o)' <=> Collected(o) \/ o = at
<1>1. PICK p, k \in Nat : at = << p, k >>
  BY DEF TInv, Places
<1>2. /\ p \in 1..Len(query.paths) /\ k \in 0..Len(query.paths[p].segs)
      /\ at' = << p, k + 1 >> /\ query \in Queries
  <2>1. Len(query.paths) \in Nat /\ query \in Queries
    BY QueriesAssumption DEF TInv, Places
  <2> QED BY <1>1, <2>1 DEF TInv, InPath, Advance
<1>3. at \in Occurrences(query)
  BY <1>1, <1>2, OccurrencesArePairs
<1>4. ASSUME NEW o \in Occurrences(query) PROVE Collected(o)' <=> Collected(o) \/ o = at
  <2>1. PICK u, v \in Nat : o = << u, v >>
    BY <1>2, OccurrencesArePairs
  <2>2. Collected(o) <=> u < p \/ (u = p /\ v < k)
    BY <1>1, <2>1 DEF Collected
  <2>3. Collected(o)' <=> u < p \/ (u = p /\ v < k + 1)
    BY <1>2, <2>1 DEF Collected
  <2>4. o = at <=> u = p /\ v = k
    BY <1>1, <2>1
  <2> QED BY <2>2, <2>3, <2>4
<1>5. ~Collected(at)
  BY <1>1 DEF Collected
<1> QED BY <1>3, <1>4, <1>5

(* Where the translation is then, and that every node collected is found.  *)
LEMMA AdvanceKeeps ==
  ASSUME TInv, Advance
  PROVE  (Places /\ InPath /\ Found)'
<1>1. PICK p, k \in Nat : at = << p, k >>
  BY DEF TInv, Places
<1>2. /\ p \in 1..Len(query.paths) /\ k \in 0..Len(query.paths[p].segs)
      /\ at' = << p, k + 1 >> /\ query \in Queries
      /\ Len(query.paths) \in Nat /\ Len(query.paths[p].segs) \in Nat
  <2>1. Len(query.paths) \in Nat /\ query \in Queries
    BY QueriesAssumption DEF TInv, Places
  <2>2. /\ p \in 1..Len(query.paths) /\ k \in 0..Len(query.paths[p].segs)
        /\ at' = << p, k + 1 >>
    BY <1>1, <2>1 DEF TInv, InPath, Advance
  <2> QED BY <2>1, <2>2, QueriesAssumption
<1>3. Places'
  <2>1. at' \in Nat \X Nat
    BY <1>2
  <2> QED BY <2>1 DEF TInv, Places, Advance
<1>4. InPath'
  <2>1. /\ at'[1] = p /\ at'[2] = k + 1 /\ query' = query /\ engine' = "general"
        /\ p # Len(query.paths) + 1
    BY <1>2 DEF Advance
  <2>2. /\ at'[1] \in 1..(Len(query.paths) + 1)
        /\ at'[2] \in 0..(Len(query.paths[p].segs) + 1)
    BY <1>2, <2>1
  <2> QED BY <2>1, <2>2 DEF InPath
<1>5. Found'
  <2>1. ASSUME NEW o \in Occurrences(query), Collected(o)' PROVE SlotIndex(slots', o) # 0
    <3>1. CASE o = at
      <4>1. prev' # 0
        BY DEF Advance
      <4> QED BY <3>1, <4>1 DEF Advance
    <3>2. CASE Collected(o)
      <4>1. SlotIndex(slots, o) # 0
        BY <3>2 DEF TInv, Found, Advance
      <4> QED BY <4>1, StaysFound DEF Advance
    <3> QED BY <2>1, <3>1, <3>2, AdvanceCollects
  <2>2. prev' = SlotIndex(slots', << at'[1], at'[2] - 1 >>)
    <3>1. << at'[1], at'[2] - 1 >> = at
      BY <1>1, <1>2
    <3> QED BY <3>1 DEF Advance
  <2>3. query' = query
    BY DEF Advance
  <2>4. \A o \in Occurrences(query) : Collected(o)' => SlotIndex(slots, o)' # 0
    BY <2>1, <2>3, SlotIndexPrimed
  <2>5. SlotIndex(slots, << at[1], at[2] - 1 >>)' = SlotIndex(slots', << at'[1], at'[2] - 1 >>)
    BY <2>3 DEF SlotIndex
  <2> QED BY <2>2, <2>3, <2>4, <2>5 DEF Found
<1> QED BY <1>3, <1>4, <1>5

(* The edges of a state to come, numbered by the query of this one.        *)
LEMMA NumberedPrimed ==
  ASSUME query' = query, IsFiniteSet(Done'), Cardinality(Done') = Len(edges'),
         \A r \in Done' :
           /\ edges'[Number(r)].src = SlotIndex(slots', EndOf(query, r, FALSE))
           /\ edges'[Number(r)].tgt = SlotIndex(slots', EndOf(query, r, TRUE))
  PROVE  Numbered'
<1>1. \A r : Number(r)' = Number(r)
  BY DEF Number
<1>2. \A r, b : SlotIndex(slots, EndOf(query, r, b))' = SlotIndex(slots', EndOf(query, r, b))
  <2>1. TAKE r, b
  <2> QED BY DEF SlotIndex
<1> QED BY <1>1, <1>2 DEF Numbered

(* Edges still point where they did.                                       *)
LEMMA OldEdges ==
  ASSUME TInv, engine = "general", query' = query, Grow,
         \A e \in 1..Len(edges) : edges'[e].src = edges[e].src /\ edges'[e].tgt = edges[e].tgt,
         NEW r \in Done
  PROVE  /\ edges'[Number(r)].src = SlotIndex(slots', EndOf(query, r, FALSE))
         /\ edges'[Number(r)].tgt = SlotIndex(slots', EndOf(query, r, TRUE))
<1>1. /\ IsFiniteSet(Done) /\ Cardinality(Done) = Len(edges)
      /\ query \in Queries /\ at \in Nat \X Nat
      /\ edges[Number(r)].src = SlotIndex(slots, EndOf(query, r, FALSE))
      /\ edges[Number(r)].tgt = SlotIndex(slots, EndOf(query, r, TRUE))
  BY DEF TInv, Numbered, Places
<1>2. Number(r) \in 1..Len(edges)
  BY <1>1, NumberInRange
<1>3. edges[Number(r)].src # 0 /\ edges[Number(r)].tgt # 0
  <2>1. Len(slots) \in Nat
    BY DEF TInv, Ranges, Listing
  <2> QED BY <1>2, <2>1 DEF TInv, Ranges
<1>4. SlotIndex(slots', EndOf(query, r, FALSE)) = SlotIndex(slots, EndOf(query, r, FALSE))
  BY <1>1, <1>3, StaysFound
<1>5. SlotIndex(slots', EndOf(query, r, TRUE)) = SlotIndex(slots, EndOf(query, r, TRUE))
  BY <1>1, <1>3, StaysFound
<1> QED BY <1>1, <1>2, <1>4, <1>5

(* A new slot is on no edge, and an old one where it was.                  *)
LEMMA MergedAnchors ==
  ASSUME TInv, engine = "general", NEW mm, mm = Merged(slots, at)
  PROVE  \A i \in 1..Len(mm) :
           mm[i].anchor_edge \in 0..Len(edges) /\ AnchoredAt(mm, edges, i)
<1>1. /\ Listing(slots, SlotFields) /\ Len(slots) \in Nat /\ Len(edges) \in Nat
      /\ \A i \in 1..Len(slots) : slots[i].anchor_edge \in 0..Len(edges)
      /\ \A e \in 1..Len(edges) : edges[e].src \in 1..Len(slots) /\ edges[e].tgt \in 1..Len(slots)
      /\ \A i \in 1..Len(slots) : AnchoredAt(slots, edges, i)
  <2>1. Len(slots) \in Nat /\ Len(edges) \in Nat
    BY DEF TInv, Ranges, Listing
  <2> QED BY <2>1 DEF TInv, Ranges, AnchorsFirst, AnchoredAt
<1>2. /\ Len(mm) \in Nat
      /\ \A i \in 1..Len(slots) :
           mm[i].anchor_edge = slots[i].anchor_edge /\ mm[i].anchor_target = slots[i].anchor_target
      /\ \A i \in 1..Len(mm) : i > Len(slots) => mm[i].anchor_edge = 0
  BY <1>1, MergedIs
<1>3. TAKE i \in 1..Len(mm)
<1>4. CASE i \in 1..Len(slots)
  <2>1. /\ mm[i].anchor_edge = slots[i].anchor_edge /\ mm[i].anchor_target = slots[i].anchor_target
        /\ slots[i].anchor_edge \in 0..Len(edges) /\ AnchoredAt(slots, edges, i)
    BY <1>1, <1>2, <1>4
  <2> QED BY <1>1, <2>1, AnchorSpelt
<1>5. CASE i > Len(slots)
  <2>1. mm[i].anchor_edge = 0 /\ 0 \in 0..Len(edges)
    BY <1>1, <1>2, <1>5
  <2>2. \A e \in 1..Len(edges) : ~On(edges[e], i)
    BY <1>1, <1>5 DEF On
  <2> QED BY <1>1, <2>1, <2>2, AnchorSpelt
<1> QED BY <1>1, <1>2, <1>4, <1>5

(* The start of a path is merged into the slots, and adds no edge.         *)
LEMMA StartIs ==
  ASSUME TInv, engine = "general", CollectStart, ~\E reason : reason # "none" /\ Fail(reason)
  PROVE  /\ Advance /\ at \notin Relationships(query) /\ edges' = edges
         /\ NodeError(NodeAt(query, at)) = "none" /\ ~Conflict(slots, at)
         /\ slots' = Merged(slots, at)
<1>1. /\ slots' = Merged(slots, at) /\ prev' = SlotIndex(slots', at) /\ at' = << at[1], 1 >>
      /\ UNCHANGED << query, map, engine, pc, edges, emitted, from, where, err >>
      /\ pc = "collect" /\ at[1] <= Len(query.paths) /\ at[2] = 0
      /\ NodeError(NodeAt(query, at)) = "none" /\ ~Conflict(slots, at)
  BY DEF CollectStart, Collecting
<1>2. Listing(slots, SlotFields) /\ query \in Queries
  BY DEF TInv, Ranges, Places
<1>3. Grow /\ prev' \in 1..Len(slots') /\ Len(slots') \in Nat
  BY <1>1, <1>2, MergedIs DEF Grow
<1>4. Advance
  <2>1. PICK p, k \in Nat : at = << p, k >>
    BY DEF TInv, Places
  <2>2. at[1] \in 1..Len(query.paths)
    BY <1>1, <1>2, <2>1, QueriesAssumption DEF TInv, InPath
  <2>3. at[2] \in 0..Len(query.paths[at[1]].segs)
    BY <1>1, <1>2, <2>2, QueriesAssumption
  <2> QED BY <1>1, <1>3, <2>3 DEF Advance
<1> QED BY <1>1, <1>4 DEF Relationships

(* The start of a path adds no edge.                                       *)
LEMMA CollectStartKeeps ==
  ASSUME TInv, engine = "general", CollectStart
  PROVE  TInv'
<1>1. CASE \E reason : reason # "none" /\ Fail(reason)
  BY <1>1, FailKeeps
<1>2. CASE ~\E reason : reason # "none" /\ Fail(reason)
  <2>1. /\ slots' = Merged(slots, at) /\ Advance /\ edges' = edges
        /\ at \notin Relationships(query)
    BY <1>2, StartIs
  <2>2. /\ Grow /\ prev' \in 1..Len(slots') /\ query' = query /\ engine' = engine
        /\ emitted' = emitted
    BY <2>1 DEF Advance
  <2>3. \A i \in 1..Len(slots') : slots'[i].anchor_edge \in 0..Len(edges) /\ AnchoredAt(slots', edges, i)
    BY <2>1, MergedAnchors
  <2>4. Ranges'
    <3>1. \A e \in 1..Len(edges) : edges[e].src \in 1..Len(slots') /\ edges[e].tgt \in 1..Len(slots')
      <4>1. Len(slots) \in Nat
        BY DEF TInv, Ranges, Listing
      <4>2. Len(slots') \in Nat /\ Len(slots) <= Len(slots')
        BY <2>2 DEF Listing, Grow
      <4> QED BY <4>1, <4>2 DEF TInv, Ranges
    <3>2. prev' \in 0..Len(slots')
      BY <2>2
    <3> QED BY <2>1, <2>2, <2>3, <3>1, <3>2 DEF TInv, Ranges, Grow
  <2>5. AnchorsFirst'
    BY <2>1, <2>2, <2>3 DEF AnchorsFirst, AnchoredAt
  <2>6. Numbered'
    <3>1. Done' = Done
      <4>1. Relationships(query) \subseteq Occurrences(query)
        BY DEF Relationships
      <4>2. Relationships(query') = Relationships(query)
        BY <2>2
      <4> QED BY <2>1, <4>1, <4>2, AdvanceCollects DEF Done
    <3>2. IsFiniteSet(Done) /\ Cardinality(Done) = Len(edges)
      BY DEF TInv, Numbered
    <3>3. \A r \in Done :
            /\ edges'[Number(r)].src = SlotIndex(slots', EndOf(query, r, FALSE))
            /\ edges'[Number(r)].tgt = SlotIndex(slots', EndOf(query, r, TRUE))
      BY <2>1, <2>2, OldEdges
    <3> QED BY <2>1, <2>2, <3>1, <3>2, <3>3, NumberedPrimed
  <2> QED BY <2>1, <2>4, <2>5, <2>6, AdvanceKeeps DEF TInv
<1> QED BY <1>1, <1>2

(* Both ends of a new edge are anchored to it if they were on none.        *)
LEMMA BothAnchored ==
  ASSUME NEW mm, Listing(mm, SlotFields), NEW j \in 1..Len(mm), NEW k \in 1..Len(mm),
         NEW e, e # 0, NEW b, NEW c,
         NEW nn, nn = Anchored(Anchored(mm, j, e, b), k, e, c)
  PROVE  /\ Listing(nn, SlotFields) /\ Len(nn) = Len(mm)
         /\ \A i \in 1..Len(mm) :
              /\ Same(mm[i], nn[i]) /\ nn[i].label = mm[i].label
              /\ mm[i].anchor_edge # 0 \/ i \notin {j, k} =>
                   /\ nn[i].anchor_edge = mm[i].anchor_edge
                   /\ nn[i].anchor_target = mm[i].anchor_target
              /\ mm[i].anchor_edge = 0 /\ i \in {j, k} =>
                   nn[i].anchor_edge = e /\ nn[i].anchor_target = IF i = j THEN b ELSE c
<1> DEFINE oo == Anchored(mm, j, e, b)
<1>1. /\ Listing(oo, SlotFields) /\ Len(oo) = Len(mm)
      /\ \A i \in 1..Len(mm) :
           LET fresh == i = j /\ mm[i].anchor_edge = 0
           IN  /\ Same(mm[i], oo[i]) /\ oo[i].label = mm[i].label
               /\ oo[i].anchor_edge = IF fresh THEN e ELSE mm[i].anchor_edge
               /\ oo[i].anchor_target = IF fresh THEN b ELSE mm[i].anchor_target
  BY AnchoredIs
<1>2. nn = Anchored(oo, k, e, c) /\ k \in 1..Len(oo)
  BY <1>1
<1> HIDE DEF oo
<1>3. /\ Listing(nn, SlotFields) /\ Len(nn) = Len(oo)
      /\ \A i \in 1..Len(oo) :
           LET fresh == i = k /\ oo[i].anchor_edge = 0
           IN  /\ Same(oo[i], nn[i]) /\ nn[i].label = oo[i].label
               /\ nn[i].anchor_edge = IF fresh THEN e ELSE oo[i].anchor_edge
               /\ nn[i].anchor_target = IF fresh THEN c ELSE oo[i].anchor_target
  BY <1>1, <1>2, AnchoredIs
<1>4. ASSUME NEW i \in 1..Len(mm)
      PROVE  /\ Same(mm[i], nn[i]) /\ nn[i].label = mm[i].label
             /\ mm[i].anchor_edge # 0 \/ i \notin {j, k} =>
                  /\ nn[i].anchor_edge = mm[i].anchor_edge
                  /\ nn[i].anchor_target = mm[i].anchor_target
             /\ mm[i].anchor_edge = 0 /\ i \in {j, k} =>
                  nn[i].anchor_edge = e /\ nn[i].anchor_target = IF i = j THEN b ELSE c
  <2>1. Same(mm[i], nn[i]) /\ nn[i].label = mm[i].label
    BY <1>1, <1>3 DEF Same
  <2>2. CASE mm[i].anchor_edge # 0 \/ i \notin {j, k}
    BY <1>1, <1>3, <2>1, <2>2
  <2>3. CASE mm[i].anchor_edge = 0 /\ i = j
    BY <1>1, <1>3, <2>1, <2>3
  <2>4. CASE mm[i].anchor_edge = 0 /\ i # j /\ i = k
    BY <1>1, <1>3, <2>1, <2>4
  <2> QED BY <2>2, <2>3, <2>4
<1> QED BY <1>1, <1>3, <1>4

(* An edge is appended, and each slot on it that was on none is anchored.  *)
LEMMA EdgeAnchors ==
  ASSUME NEW mm, NEW nn, NEW ee, NEW ff, NEW i, NEW n, NEW m, n \in Nat, m = n + 1,
         Len(ee) = n, Len(ff) = m, \A e \in 1..n : ff[e] = ee[e],
         mm[i].anchor_edge \in 0..n, AnchoredAt(mm, ee, i),
         mm[i].anchor_edge # 0 \/ ~On(ff[m], i) =>
           /\ nn[i].anchor_edge = mm[i].anchor_edge
           /\ nn[i].anchor_target = mm[i].anchor_target,
         mm[i].anchor_edge = 0 /\ On(ff[m], i) =>
           nn[i].anchor_edge = m /\ nn[i].anchor_target = Side(ff[m], i)
  PROVE  nn[i].anchor_edge \in 0..m /\ AnchoredAt(nn, ff, i)
<1>1. /\ mm[i].anchor_edge # 0 =>
           /\ On(ee[mm[i].anchor_edge], i)
           /\ mm[i].anchor_target = (ee[mm[i].anchor_edge].src # i)
      /\ \A e \in 1..n :
           On(ee[e], i) => mm[i].anchor_edge # 0 /\ mm[i].anchor_edge <= e
  BY AnchorSpelt
<1>2. \A e \in 1..Len(ff) : e \in 1..n \/ e = m
  OBVIOUS
<1>3. CASE mm[i].anchor_edge # 0
  <2>1. /\ nn[i].anchor_edge = mm[i].anchor_edge /\ nn[i].anchor_target = mm[i].anchor_target
        /\ nn[i].anchor_edge \in 1..n
    BY <1>3
  <2>2. \A e \in 1..Len(ff) : On(ff[e], i) => nn[i].anchor_edge <= e
    BY <1>1, <1>2, <2>1
  <2>3. /\ On(ff[nn[i].anchor_edge], i)
        /\ nn[i].anchor_target = (ff[nn[i].anchor_edge].src # i)
    BY <1>1, <1>3, <2>1
  <2>4. Len(ff) \in Nat /\ nn[i].anchor_edge \in 0..Len(ff) /\ nn[i].anchor_edge # 0
    BY <2>1
  <2> QED BY <2>2, <2>3, <2>4, AnchorSpelt
<1>4. CASE mm[i].anchor_edge = 0 /\ ~On(ff[m], i)
  <2>1. nn[i].anchor_edge = 0 /\ \A e \in 1..Len(ff) : ~On(ff[e], i)
    BY <1>1, <1>2, <1>4
  <2>2. Len(ff) \in Nat /\ nn[i].anchor_edge \in 0..Len(ff)
    BY <2>1
  <2> QED BY <2>1, <2>2, AnchorSpelt
<1>5. CASE mm[i].anchor_edge = 0 /\ On(ff[m], i)
  <2>1. nn[i].anchor_edge = m /\ nn[i].anchor_target = (ff[m].src # i)
    BY <1>5 DEF Side
  <2>2. \A e \in 1..Len(ff) : On(ff[e], i) => nn[i].anchor_edge <= e
    BY <1>1, <1>2, <1>5, <2>1
  <2>3. Len(ff) \in Nat /\ nn[i].anchor_edge \in 0..Len(ff) /\ nn[i].anchor_edge # 0
    BY <2>1
  <2> QED BY <1>5, <2>1, <2>2, <2>3, AnchorSpelt
<1> QED BY <1>3, <1>4, <1>5

(* A segment adds an edge from its source's slot to its target's, and both *)
(* are anchored to it if they were on no edge.                             *)
LEMMA SegmentIs ==
  ASSUME TInv, engine = "general", CollectSegment,
         ~\E reason : reason # "none" /\ Fail(reason),
         NEW mm, mm = Merged(slots, at),
         NEW cur, cur = SlotIndex(mm, at),
         NEW src, src = IF RelAt(query, at).dir = "left" THEN cur ELSE prev,
         NEW tgt, tgt = IF RelAt(query, at).dir = "left" THEN prev ELSE cur,
         NEW ei, ei = Len(edges) + 1
  PROVE  /\ Advance /\ at \in Relationships(query) /\ Len(slots) \in Nat /\ Len(edges) \in Nat
         /\ NodeError(NodeAt(query, at)) = "none" /\ Len(RelAt(query, at).types) <= 1
         /\ ~Conflict(slots, at)
         /\ cur \in 1..Len(mm) /\ SlotIndex(slots', at) = cur
         /\ prev # 0 /\ prev = SlotIndex(slots, << at[1], at[2] - 1 >>)
         /\ src \in 1..Len(mm) /\ tgt \in 1..Len(mm)
         /\ Len(mm) \in Nat /\ Len(slots) <= Len(mm)
         /\ Listing(edges', EdgeFields) /\ Len(edges') = ei
         /\ edges'[ei] = NewEdge(RelAt(query, at), src, tgt)
         /\ edges'[ei].src = src /\ edges'[ei].tgt = tgt
         /\ \A e \in 1..Len(edges) : edges'[e] = edges[e]
         /\ Listing(slots', SlotFields) /\ Len(slots') = Len(mm)
         /\ \A i \in 1..Len(mm) :
              /\ Same(mm[i], slots'[i]) /\ slots'[i].label = mm[i].label
              /\ mm[i].anchor_edge # 0 \/ i \notin {src, tgt} =>
                   /\ slots'[i].anchor_edge = mm[i].anchor_edge
                   /\ slots'[i].anchor_target = mm[i].anchor_target
              /\ mm[i].anchor_edge = 0 /\ i \in {src, tgt} =>
                   /\ slots'[i].anchor_edge = ei
                   /\ slots'[i].anchor_target = Side(edges'[ei], i)
<1> DEFINE rel == RelAt(query, at)
           x   == NewEdge(rel, src, tgt)
           no  == FALSE
           yes == TRUE
<1>1. /\ edges' = Append(edges, x)
      /\ slots' = Anchored(Anchored(mm, src, ei, no), tgt, ei, yes)
      /\ prev' = cur /\ at' = << at[1], at[2] + 1 >>
      /\ UNCHANGED << query, map, engine, pc, emitted, from, where, err >>
      /\ pc = "collect" /\ at[1] <= Len(query.paths) /\ at[2] \in 1..Len(query.paths[at[1]].segs)
      /\ NodeError(NodeAt(query, at)) = "none" /\ ~(Len(rel.types) > 1) /\ ~Conflict(slots, at)
  BY DEF CollectSegment, Collecting
<1>2. DOMAIN x = EdgeFields /\ x.src = src /\ x.tgt = tgt
  BY DEF NewEdge, EdgeFields
<1> HIDE DEF no, yes, x
<1>3. PICK p, k \in Nat : at = << p, k >>
  BY DEF TInv, Places
<1>4. /\ query \in Queries /\ Listing(slots, SlotFields) /\ Listing(edges, EdgeFields)
      /\ Len(slots) \in Nat /\ Len(edges) \in Nat /\ prev \in 0..Len(slots)
      /\ p \in 1..Len(query.paths) /\ k \in 1..Len(query.paths[p].segs)
      /\ Len(query.paths[p].segs) \in Nat
  <2>1. query \in Queries /\ Listing(slots, SlotFields) /\ Listing(edges, EdgeFields)
        /\ prev \in 0..Len(slots)
    BY DEF TInv, Places, Ranges
  <2>2. Len(slots) \in Nat /\ Len(edges) \in Nat
    BY <2>1 DEF Listing
  <2>3. Len(query.paths) \in Nat
    BY <2>1, QueriesAssumption
  <2>4. p \in 1..Len(query.paths) /\ k \in 1..Len(query.paths[p].segs)
    BY <1>1, <1>3, <2>3 DEF TInv, InPath
  <2> QED BY <2>1, <2>2, <2>4, QueriesAssumption
<1>5. /\ Listing(mm, SlotFields) /\ Len(mm) \in Nat /\ Len(slots) <= Len(mm)
      /\ cur \in 1..Len(mm)
      /\ \A i \in 1..Len(slots) : Same(slots[i], mm[i])
  BY <1>4, MergedIs
<1>6. prev \in 1..Len(slots) /\ prev = SlotIndex(slots, << p, k - 1 >>)
  <2>1. << p, k - 1 >> \in Occurrences(query)
    <3>1. k - 1 \in Nat /\ k - 1 \in 0..Len(query.paths[p].segs)
      BY <1>4
    <3> QED BY <1>4, <3>1, OccurrencesArePairs
  <2>2. Collected(<< p, k - 1 >>)
    BY <1>3, <1>4 DEF Collected
  <2>3. SlotIndex(slots, << p, k - 1 >>) # 0
    BY <2>1, <2>2 DEF TInv, Found
  <2>4. prev = SlotIndex(slots, << p, k - 1 >>)
    BY <1>1, <1>3, <1>4 DEF TInv, Found
  <2> QED BY <1>4, <2>3, <2>4
<1>7. src \in 1..Len(mm) /\ tgt \in 1..Len(mm)
  BY <1>4, <1>5, <1>6
<1>8. /\ Listing(edges', EdgeFields) /\ Len(edges') = ei /\ edges'[ei] = x
      /\ \A e \in 1..Len(edges) : edges'[e] = edges[e]
  BY <1>1, <1>2, <1>4, Appended
<1>9. /\ Listing(slots', SlotFields) /\ Len(slots') = Len(mm)
      /\ \A i \in 1..Len(mm) :
           /\ Same(mm[i], slots'[i]) /\ slots'[i].label = mm[i].label
           /\ mm[i].anchor_edge # 0 \/ i \notin {src, tgt} =>
                /\ slots'[i].anchor_edge = mm[i].anchor_edge
                /\ slots'[i].anchor_target = mm[i].anchor_target
           /\ mm[i].anchor_edge = 0 /\ i \in {src, tgt} =>
                /\ slots'[i].anchor_edge = ei
                /\ slots'[i].anchor_target = IF i = src THEN no ELSE yes
  <2>1. ei # 0
    BY <1>4
  <2>2. slots' = Anchored(Anchored(mm, src, ei, no), tgt, ei, yes)
    BY <1>1
  <2> HIDE DEF rel
  <2> QED BY <1>5, <1>7, <2>1, <2>2, BothAnchored
<1>10. SlotIndex(slots', at) = cur
  <2>1. /\ Len(slots') = Len(mm) /\ Len(mm) \in Nat /\ SlotIndex(mm, at) # 0
        /\ \A i \in 1..Len(mm) : Same(mm[i], slots'[i])
    BY <1>5, <1>9
  <2>2. SlotIndex(slots', at) = SlotIndex(mm, at)
    BY <2>1, SlotIndexStays
  <2> QED BY <2>2
<1>11. Advance
  <2>1. Grow
    <3>1. \A i \in 1..Len(slots) : i \in 1..Len(mm)
      BY <1>4, <1>5
    <3>2. \A i \in 1..Len(mm) : Same(mm[i], slots'[i])
      BY <1>9
    <3>3. \A i \in 1..Len(slots) : Same(slots[i], slots'[i])
      BY <1>5, <3>1, <3>2 DEF Same
    <3> QED BY <1>5, <1>9, <3>3 DEF Grow
  <2>2. at[2] \in 0..Len(query.paths[at[1]].segs)
    BY <1>3, <1>4
  <2> QED BY <1>1, <1>5, <1>9, <1>10, <2>1, <2>2 DEF Advance

<1>12. at \in Relationships(query)
  <2>1. at[2] > 0
    BY <1>3, <1>4
  <2> QED BY <1>11, <2>1, AdvanceCollects DEF Relationships
<1>13. \A i : (IF i = src THEN no ELSE yes) = Side(x, i)
  BY <1>2 DEF no, yes, Side
<1>14. \A i \in 1..Len(mm) :
         mm[i].anchor_edge = 0 /\ i \in {src, tgt} =>
           slots'[i].anchor_edge = ei /\ slots'[i].anchor_target = Side(edges'[ei], i)
  BY <1>8, <1>9, <1>13
<1>15. << at[1], at[2] - 1 >> = << p, k - 1 >>
  BY <1>3
<1>16. edges'[ei] = NewEdge(RelAt(query, at), src, tgt)
  BY <1>8 DEF x
<1>17. Len(RelAt(query, at).types) <= 1
  BY <1>1
<1>18. /\ edges'[ei].src = src /\ edges'[ei].tgt = tgt
       /\ prev # 0 /\ prev = SlotIndex(slots, << at[1], at[2] - 1 >>)
  BY <1>2, <1>4, <1>6, <1>8, <1>15
<1> HIDE DEF rel
<1> QED BY <1>1, <1>4, <1>5, <1>7, <1>8, <1>9, <1>10, <1>11, <1>12, <1>14, <1>16, <1>17, <1>18

(* Its relationship is the next one by number.                             *)
LEMMA NumberNext ==
  ASSUME TInv, engine = "general", Advance, at \in Relationships(query)
  PROVE  /\ Done' = Done \cup {at} /\ at \notin Done
         /\ IsFiniteSet(Done') /\ Cardinality(Done') = Len(edges) + 1
         /\ Number(at) = Len(edges) + 1
<1>1. Relationships(query) \subseteq Occurrences(query) /\ Relationships(query') = Relationships(query)
  BY DEF Relationships, Advance
<1>2. Done' = Done \cup {at} /\ at \notin Done
  BY <1>1, AdvanceCollects DEF Done
<1>3. IsFiniteSet(Done) /\ Cardinality(Done) = Len(edges)
  BY DEF TInv, Numbered
<1>4. IsFiniteSet(Done') /\ Cardinality(Done') = Len(edges) + 1
  BY <1>2, <1>3, FS_AddElement
<1>5. \A s : Before(s, at) <=> Collected(s)
  BY DEF Before, Collected
<1>6. { s \in Relationships(query) : s = at \/ Before(s, at) } = Done \cup {at}
  BY <1>5 DEF Done
<1> QED BY <1>2, <1>4, <1>6 DEF Number

(* A segment adds an edge from its source's slot to its target's.          *)
LEMMA CollectSegmentKeeps ==
  ASSUME TInv, engine = "general", CollectSegment
  PROVE  TInv'
<1>1. CASE \E reason : reason # "none" /\ Fail(reason)
  BY <1>1, FailKeeps
<1>2. CASE ~\E reason : reason # "none" /\ Fail(reason)
  <2> DEFINE rel == RelAt(query, at)
             mm  == Merged(slots, at)
             cur == SlotIndex(mm, at)
             src == IF rel.dir = "left" THEN cur ELSE prev
             tgt == IF rel.dir = "left" THEN prev ELSE cur
             ei  == Len(edges) + 1
  <2>1. /\ Advance /\ at \in Relationships(query) /\ Len(slots) \in Nat /\ Len(edges) \in Nat
        /\ cur \in 1..Len(mm) /\ SlotIndex(slots', at) = cur
        /\ prev # 0 /\ prev = SlotIndex(slots, << at[1], at[2] - 1 >>)
        /\ src \in 1..Len(mm) /\ tgt \in 1..Len(mm)
        /\ Len(mm) \in Nat /\ Len(slots) <= Len(mm)
        /\ Listing(edges', EdgeFields) /\ Len(edges') = ei
        /\ edges'[ei].src = src /\ edges'[ei].tgt = tgt
        /\ \A e \in 1..Len(edges) : edges'[e] = edges[e]
        /\ Listing(slots', SlotFields) /\ Len(slots') = Len(mm)
        /\ \A i \in 1..Len(mm) :
             /\ mm[i].anchor_edge # 0 \/ i \notin {src, tgt} =>
                  /\ slots'[i].anchor_edge = mm[i].anchor_edge
                  /\ slots'[i].anchor_target = mm[i].anchor_target
             /\ mm[i].anchor_edge = 0 /\ i \in {src, tgt} =>
                  /\ slots'[i].anchor_edge = ei
                  /\ slots'[i].anchor_target = Side(edges'[ei], i)
    <3>1. /\ mm = Merged(slots, at) /\ cur = SlotIndex(mm, at) /\ ei = Len(edges) + 1
          /\ src = (IF RelAt(query, at).dir = "left" THEN cur ELSE prev)
          /\ tgt = (IF RelAt(query, at).dir = "left" THEN prev ELSE cur)
      OBVIOUS
    <3> HIDE DEF rel, mm, cur, src, tgt, ei
    <3> QED BY <1>2, <3>1, SegmentIs
  <2>2. /\ Grow /\ query' = query /\ engine' = engine /\ pc = "collect" /\ emitted' = emitted
        /\ prev' = cur
    BY <2>1 DEF Advance
  <2> HIDE DEF mm, cur
  <2>3. \A i \in 1..Len(slots') :
          slots'[i].anchor_edge \in 0..Len(edges') /\ AnchoredAt(slots', edges', i)
    <3>1. TAKE i \in 1..Len(slots')
    <3>2. /\ i \in 1..Len(mm) /\ mm[i].anchor_edge \in 0..Len(edges)
          /\ AnchoredAt(mm, edges, i)
      BY <2>1, MergedAnchors DEF mm
    <3> HIDE DEF src, tgt, ei
    <3>3. On(edges'[ei], i) <=> i \in {src, tgt}
      BY <2>1 DEF On
    <3>4. /\ mm[i].anchor_edge # 0 \/ ~On(edges'[ei], i) =>
               /\ slots'[i].anchor_edge = mm[i].anchor_edge
               /\ slots'[i].anchor_target = mm[i].anchor_target
          /\ mm[i].anchor_edge = 0 /\ On(edges'[ei], i) =>
               /\ slots'[i].anchor_edge = ei
               /\ slots'[i].anchor_target = Side(edges'[ei], i)
      BY <2>1, <3>2, <3>3
    <3> DEFINE n == Len(edges)
    <3>5. /\ n \in Nat /\ ei = n + 1 /\ Len(edges) = n /\ Len(edges') = ei
          /\ \A e \in 1..n : edges'[e] = edges[e]
          /\ mm[i].anchor_edge \in 0..n
      BY <2>1, <3>2 DEF ei
    <3> HIDE DEF n, rel
    <3>6. slots'[i].anchor_edge \in 0..ei /\ AnchoredAt(slots', edges', i)
      BY <3>2, <3>4, <3>5, EdgeAnchors
    <3> QED BY <2>1, <3>6
  <2>4. Ranges'
    <3>1. \A e \in 1..Len(edges') :
            edges'[e].src \in 1..Len(slots') /\ edges'[e].tgt \in 1..Len(slots')
      <4>1. TAKE e \in 1..Len(edges')
      <4>2. CASE e \in 1..Len(edges)
        <5>1. edges[e].src \in 1..Len(slots) /\ edges[e].tgt \in 1..Len(slots)
          <6>1. \A d \in 1..Len(edges) : edges[d].src \in 1..Len(slots) /\ edges[d].tgt \in 1..Len(slots)
            BY DEF TInv, Ranges
          <6> QED BY <4>2, <6>1
        <5>2. edges'[e] = edges[e] /\ 1..Len(slots) \subseteq 1..Len(slots')
          BY <2>1, <4>2
        <5> QED BY <5>1, <5>2
      <4>3. CASE e = ei
        <5> HIDE DEF src, tgt, ei
        <5> QED BY <2>1, <4>3
      <4> QED BY <2>1, <4>2, <4>3
    <3>2. prev' \in 0..Len(slots')
      BY <2>1, <2>2
    <3> QED BY <2>1, <2>2, <2>3, <3>1, <3>2 DEF TInv, Ranges
  <2>5. AnchorsFirst'
    BY <2>3 DEF AnchorsFirst, AnchoredAt
  <2>6. Numbered'
    <3>1. /\ Done' = Done \cup {at} /\ IsFiniteSet(Done') /\ Cardinality(Done') = Len(edges')
          /\ Number(at) = ei
      BY <2>1, NumberNext
    <3>2. \A r \in Done :
            /\ edges'[Number(r)].src = SlotIndex(slots', EndOf(query, r, FALSE))
            /\ edges'[Number(r)].tgt = SlotIndex(slots', EndOf(query, r, TRUE))
      BY <2>1, <2>2, OldEdges
    <3>3. /\ edges'[Number(at)].src = SlotIndex(slots', EndOf(query, at, FALSE))
          /\ edges'[Number(at)].tgt = SlotIndex(slots', EndOf(query, at, TRUE))
      <4> DEFINE o == << at[1], at[2] - 1 >>
      <4>1. EndOf(query, at, FALSE) = (IF rel.dir = "left" THEN at ELSE o)
        BY DEF EndOf
      <4>2. EndOf(query, at, TRUE) = (IF rel.dir = "left" THEN o ELSE at)
        BY DEF EndOf
      <4> HIDE DEF o
      <4>3. SlotIndex(slots', o) = prev
        BY <2>1, <2>2, StaysFound DEF o
      <4>4. edges'[Number(at)].src = src /\ edges'[Number(at)].tgt = tgt
        BY <2>1, <3>1
      <4> HIDE DEF rel
      <4> QED BY <2>1, <4>1, <4>2, <4>3, <4>4
    <3> QED BY <2>2, <3>1, <3>2, <3>3, NumberedPrimed
  <2> QED BY <2>1, <2>3, <2>4, <2>5, <2>6, AdvanceKeeps DEF TInv
<1> QED BY <1>1, <1>2

(* The end of a path leads to the next one: all of the path is collected.  *)
LEMMA EndPathCollects ==
  ASSUME TInv, engine = "general", EndPath
  PROVE  \A o \in Occurrences(query) : Collected(o)' <=> Collected(o)
<1>1. PICK p, k \in Nat : at = << p, k >>
  BY DEF TInv, Places
<1>2. /\ query \in Queries /\ p \in 1..Len(query.paths) /\ k > Len(query.paths[p].segs)
      /\ Len(query.paths) \in Nat /\ Len(query.paths[p].segs) \in Nat
  <2>1. query \in Queries /\ Len(query.paths) \in Nat
    BY QueriesAssumption DEF TInv, Places
  <2>2. p \in 1..Len(query.paths) /\ k > Len(query.paths[p].segs)
    BY <1>1, <2>1 DEF TInv, InPath, EndPath, Collecting
  <2> QED BY <2>1, <2>2, QueriesAssumption
<1>3. /\ at' = << p + 1, 0 >> /\ pc = "collect"
      /\ UNCHANGED << query, map, engine, pc, prev, slots, edges, emitted, from, where, err >>
  BY <1>1 DEF EndPath, Collecting
<1>4. ASSUME NEW o \in Occurrences(query) PROVE Collected(o)' <=> Collected(o)
  <2>1. PICK u, v \in Nat : /\ o = << u, v >>
                            /\ u \in 1..Len(query.paths) /\ v \in 0..Len(query.paths[u].segs)
    BY <1>2, OccurrencesArePairs
  <2>2. Collected(o) <=> u < p \/ (u = p /\ v < k)
    BY <1>1, <2>1 DEF Collected
  <2>3. Collected(o)' <=> u < p + 1 \/ (u = p + 1 /\ v < 0)
    BY <1>3, <2>1 DEF Collected
  <2>4. u = p => v < k
    BY <1>2, <2>1
  <2> QED BY <2>1, <2>2, <2>3, <2>4
<1> QED BY <1>4

(* The end of a path changes nothing else.                                 *)
LEMMA EndPathKeeps ==
  ASSUME TInv, engine = "general", EndPath
  PROVE  TInv'
<1>1. PICK p, k \in Nat : at = << p, k >>
  BY DEF TInv, Places
<1>2. /\ query \in Queries /\ p \in 1..Len(query.paths) /\ k > Len(query.paths[p].segs)
      /\ Len(query.paths) \in Nat /\ Len(query.paths[p].segs) \in Nat
  <2>1. query \in Queries /\ Len(query.paths) \in Nat
    BY QueriesAssumption DEF TInv, Places
  <2>2. p \in 1..Len(query.paths) /\ k > Len(query.paths[p].segs)
    BY <1>1, <2>1 DEF TInv, InPath, EndPath, Collecting
  <2> QED BY <2>1, <2>2, QueriesAssumption
<1>3. /\ at' = << p + 1, 0 >> /\ pc = "collect"
      /\ UNCHANGED << query, map, engine, pc, prev, slots, edges, emitted, from, where, err >>
  BY <1>1 DEF EndPath, Collecting
<1>4. \A o \in Occurrences(query) : Collected(o)' <=> Collected(o)
  BY EndPathCollects
<1>5. Places'
  <2>1. at' \in Nat \X Nat
    BY <1>3
  <2> QED BY <1>3, <2>1 DEF TInv, Places
<1>6. Ranges'
  BY <1>3 DEF TInv, Ranges
<1>7. InPath'
  <2>1. at'[1] = p + 1 /\ at'[2] = 0 /\ p + 1 \in 1..(Len(query.paths) + 1)
    BY <1>2, <1>3
  <2>2. \A j \in 1..Len(query.paths) : 0 \in 0..(Len(query.paths[j].segs) + 1)
    BY <1>2, QueriesAssumption
  <2> QED BY <1>3, <2>1, <2>2 DEF TInv, InPath
<1>8. AnchorsFirst'
  BY <1>3 DEF TInv, AnchorsFirst
<1>9. Numbered'
  <2>1. Done' = Done
    <3>1. Relationships(query') = Relationships(query)
      BY <1>3
    <3>2. Relationships(query) \subseteq Occurrences(query)
      BY DEF Relationships
    <3> QED BY <1>4, <3>1, <3>2 DEF Done
  <2>2. IsFiniteSet(Done) /\ Cardinality(Done) = Len(edges)
    BY DEF TInv, Numbered
  <2>3. \A r \in Done :
          /\ edges'[Number(r)].src = SlotIndex(slots', EndOf(query, r, FALSE))
          /\ edges'[Number(r)].tgt = SlotIndex(slots', EndOf(query, r, TRUE))
    BY <1>3 DEF TInv, Numbered
  <2> QED BY <1>3, <2>1, <2>2, <2>3, NumberedPrimed
<1>10. Found'
  <2>1. at'[2] = 0
    BY <1>3
  <2>2. \A o : SlotIndex(slots, o)' = SlotIndex(slots, o)
    BY <1>3, SlotIndexPrimed
  <2> QED BY <1>3, <1>4, <2>1, <2>2 DEF TInv, Found
<1> QED BY <1>5, <1>6, <1>7, <1>8, <1>9, <1>10 DEF TInv

-----------------------------------------------------------------------------
(***************************************************************************)
(* The theorems.                                                           *)
(***************************************************************************)
(* A translation starts with nothing collected.                            *)
THEOREM Initially == Init => TInv
<1> SUFFICES ASSUME Init PROVE TInv
  OBVIOUS
<1>1. Places
  BY DEF Init, Places, Phases
<1>2. Ranges
  <2>1. Len(query.uses) \in Nat
    BY QueriesAssumption DEF Init
  <2> QED BY <2>1 DEF Init, Ranges, Listing
<1>3. InPath /\ AnchorsFirst /\ Numbered /\ Found
  BY DEF Init, InPath, AnchorsFirst, Numbered, Found
<1> QED BY <1>1, <1>2, <1>3 DEF TInv

(* Every step of every engine keeps slots, edges and anchors consistent.   *)
THEOREM Inductive == TInv /\ [Next]_vars => TInv'
<1> SUFFICES ASSUME TInv, [Next]_vars PROVE TInv'
  OBVIOUS
<1>1. CASE Dispatch
  BY <1>1, DispatchKeeps
<1>2. CASE TranslateGeneral
  <2>1. engine = "general"
    BY <1>2 DEF TranslateGeneral
  <2>2. CASE CollectStart
    BY <2>1, <2>2, CollectStartKeeps
  <2>3. CASE CollectSegment
    BY <2>1, <2>3, CollectSegmentKeeps
  <2>4. CASE EndPath
    BY <2>1, <2>4, EndPathKeeps
  <2>5. CASE EndCollect \/ EmitFrom \/ EmitWhere
    BY <2>5, EmitKeeps
  <2>6. CASE ResolveLabels
    BY <2>1, <2>6, ResolveLabelsKeeps
  <2>7. CASE NameEdges
    BY <2>1, <2>7, NameEdgesKeeps
  <2>8. CASE CheckSlots
    BY <2>1, <2>8, CheckSlotsKeeps
  <2>9. CASE EmitReference
    BY <2>1, <2>9, EmitReferenceKeeps
  <2> QED BY <1>2, <2>2, <2>3, <2>4, <2>5, <2>6, <2>7, <2>8, <2>9
          DEF TranslateGeneral, CollectPattern
<1>3. CASE TranslateUndirected
  <2>1. engine = "undirected"
    BY <1>3 DEF TranslateUndirected
  <2> QED BY <1>3, <2>1, OpenKeeps, ResolveHopKeeps, EmitReferenceKeeps, EmitKeeps
          DEF TranslateUndirected
<1>4. CASE TranslateVarlen
  <2>1. engine = "varlen"
    BY <1>4 DEF TranslateVarlen
  <2> QED BY <1>4, <2>1, OpenKeeps, ResolveHopKeeps, EmitReferenceKeeps, EmitKeeps
          DEF TranslateVarlen
<1>5. CASE UNCHANGED vars
  <2>1. UNCHANGED << query, map, engine, pc, at, prev, slots, edges, emitted, from, where, err >>
    BY <1>5 DEF vars
  <2>2. Places' /\ Ranges' /\ InPath' /\ AnchorsFirst'
    BY <2>1 DEF TInv, Places, Ranges, InPath, AnchorsFirst
  <2>3. \A o : SlotIndex(slots, o)' = SlotIndex(slots, o)
    BY <2>1, SlotIndexPrimed
  <2>4. Numbered'
    <3>1. Done' = Done
      BY <2>1, CollectedPrimed
    <3>2. CASE engine = "general"
      BY <2>1, <3>1, <3>2, NumberedPrimed DEF TInv, Numbered
    <3>3. CASE engine # "general"
      BY <2>1, <3>3 DEF Numbered
    <3> QED BY <3>2, <3>3
  <2>5. Found'
    BY <2>1, <2>3, CollectedPrimed DEF TInv, Found
  <2> QED BY <2>2, <2>4, <2>5 DEF TInv
<1> QED BY <1>1, <1>2, <1>3, <1>4, <1>5 DEF Next

(* So they are in every state of a translation.                            *)
THEOREM SlotsConsistent == Spec => []TInv
  BY Initially, Inductive, PTL DEF Spec

(* Slot and edge indexes stay in range in every engine, and a message is   *)
(* left exactly when a translation failed.                                 *)
THEOREM TranslationTyped == Spec => []TypeOK
<1>1. TInv => TypeOK
  BY DEF TInv, Places, Ranges, TypeOK
<1> QED BY SlotsConsistent, <1>1, PTL

(* A slot is anchored to the first edge it is on, so FROM never refers to  *)
(* an alias ahead of its declaration.                                      *)
THEOREM AnchoredFirst == Spec => []AnchorsFirst
<1>1. TInv => AnchorsFirst
  BY DEF TInv
<1> QED BY SlotsConsistent, <1>1, PTL

(* Two occurrences share a slot exactly when they are the same node, and   *)
(* edges connect the slots of their ends.                                  *)
THEOREM OneSlotPerNode == Spec => []SlotsAreNodes
<1>1. TInv => SlotsAreNodes
  <2> SUFFICES ASSUME TInv, engine = "general" PROVE SlotsAreNodes
    BY DEF SlotsAreNodes
  <2> DEFINE occs == { o \in Occurrences(query) : Collected(o) }
  <2>1. Len(slots) \in Nat
    BY DEF TInv, Ranges, Listing
  <2>2. \A o \in occs : SlotIndex(slots, o) # 0
    BY DEF TInv, Found
  <2>3. \A o1, o2 \in occs :
          SlotIndex(slots, o1) = SlotIndex(slots, o2) <=> SameNode(query, o1, o2)
    BY <2>1, <2>2, SameSlot
  <2>4. \A r \in occs \cap Relationships(query) : r \in Done
    BY DEF Done
  <2>5. \A r \in occs \cap Relationships(query) :
          /\ edges[Number(r)].src = SlotIndex(slots, EndOf(query, r, FALSE))
          /\ edges[Number(r)].tgt = SlotIndex(slots, EndOf(query, r, TRUE))
    BY <2>4 DEF TInv, Numbered
  <2> QED BY <2>2, <2>3, <2>5 DEF SlotsAreNodes
<1> QED BY SlotsConsistent, <1>1, PTL

-----------------------------------------------------------------------------
(***************************************************************************)
(* What is rejected.                                                       *)
(*                                                                         *)
(* A slot remembers where it came from: its variable, and one label of the *)
(* occurrences merged into it.  So what the translator checks on slots,    *)
(* label by label and reference by reference, it checks of the nodes of    *)
(* the pattern, whichever engine asks and however late.                    *)
(***************************************************************************)
(* A hop from a node to itself has two slots for one node.                 *)
Sound == engine = "general" \/ ~OpensWithSelfLoop(query)

(* The slot of a node and the edge of a relationship, in every engine.     *)
Place(o)  == IF engine = "general" THEN SlotIndex(slots, o) ELSE o[2] + 1
EdgeOf(r) == IF engine = "general" THEN Number(r) ELSE 1

(* The occurrences that have a slot, and the relationships that have an    *)
(* edge, once the translation has any.                                     *)
Live        == pc \notin { "dispatch", "hop", "failed" }
Gathered    == { o \in Occurrences(query) : engine = "general" => Collected(o) }
Connected   == { r \in Relationships(query) : engine = "general" => Collected(r) }
Written(o)  == LabelOf(NodeAt(query, o))

(* The engine chosen can translate the pattern.                            *)
Dispatched ==
  pc \notin { "dispatch", "failed" } =>
    /\ query.matches = 1 /\ query.shape
    /\ engine = "general" => ~HasVarlen /\ ~HasUndirected
    /\ engine = "undirected" => SingleHop /\ ~HasVarlen /\ HasUndirected
    /\ engine = "varlen" => SingleHop /\ HasVarlen

AllCollected ==
  engine = "general" /\ Live /\ pc # "collect" => at[1] > Len(query.paths)

(* Every slot is the slot of a node, and every edge of a relationship.     *)
Owned ==
  Live => \A i \in 1..Len(slots) :
    /\ slots[i].np \in Gathered /\ Place(slots[i].np) = i
    /\ slots[i].var = NodeAt(query, slots[i].np).var

Drawn(e, rel) ==
  Len(rel.types) <= 1 /\ e.var = rel.var /\ e.types = rel.types /\ e.props = rel.props

Mirrored ==
  Live =>
    /\ engine # "general" => Len(edges) = 1
    /\ \A e \in 1..Len(edges) : \E r \in Connected : EdgeOf(r) = e
    /\ \A r \in Connected : Drawn(edges[EdgeOf(r)], RelAt(query, r))

NodesChecked == Live => \A o \in Gathered : NodeError(NodeAt(query, o)) = "none"

(* The label of a slot: one its node is written with, no two differ.       *)
Original(i, l) ==
  /\ \A o \in Gathered : Place(o) = i /\ Written(o) # NoLabel => Written(o) = l
  /\ l # NoLabel => \E o \in Gathered : Place(o) = i /\ Written(o) = l

Reads(s, l) ==
  ~Ambiguous(map, l) /\ s.label = Resolve(map, l).table /\ s.name = Resolve(map, l).name

Labels ==
  /\ pc \in { "collect", "resolve" } => \A i \in 1..Len(slots) : Original(i, slots[i].label)
  /\ Live /\ pc \notin { "collect", "resolve" } =>
       \A i \in 1..Len(slots) : \E l : Original(i, l) /\ Reads(slots[i], l)

TablesKnown ==
  pc \in { "emit", "where", "done" } =>
    \A i \in 1..Len(slots) :
      /\ ~UnknownTable(slots[i])
      /\ engine = "general" /\ slots[i].anchor_edge = 0 => slots[i].label # NoLabel

(* The references emitted, none of them before the tables are known.       *)
UsesChecked ==
  /\ pc \notin { "emit", "where", "done", "failed" } => emitted = 0
  /\ pc \in { "where", "done" } => emitted = Len(query.uses)
  /\ Sound /\ pc \in { "emit", "where", "done" } =>
       \A k \in 1..emitted : UseUnderstood(query.uses[k])

HopChecked ==
  engine = "varlen" /\ Live =>
    LET rel == RelAt(query, TheHop)
    IN  rel.props = << >> /\ rel.dir # "undir" /\ rel.var = Anon /\ BoundsError = "none"

PropsChecked ==
  pc = "done" /\ engine # "varlen" =>
    \A r \in Relationships(query) : PropsKnown(RelAt(query, r))

Refused == pc = "failed" /\ Sound /\ BoundsFit => ~Understood

Checked ==
  /\ map \in Maps
  /\ Dispatched /\ AllCollected /\ Owned /\ Mirrored /\ NodesChecked /\ Labels
  /\ TablesKnown /\ UsesChecked /\ HopChecked /\ PropsChecked /\ Refused

-----------------------------------------------------------------------------
(***************************************************************************)
(* The pattern of a query.                                                 *)
(***************************************************************************)
(* The pattern of a single hop has a node on the left and a node on the    *)
(* right, and both are ends of the relationship.                           *)
LEMMA HopPattern ==
  ASSUME query \in Queries, SingleHop
  PROVE  /\ Occurrences(query) = { Left, Right } /\ Relationships(query) = { TheHop }
         /\ \A o \in Occurrences(query) : o[2] + 1 \in 1..2
         /\ \A o1, o2 \in Occurrences(query) : o1[2] = o2[2] => o1 = o2
         /\ \A o \in Occurrences(query) : \E b \in BOOLEAN : EndOf(query, TheHop, b) = o
<1>1. /\ Len(query.paths) = 1 /\ Relationships(query) = { << 1, 1 >> }
      /\ \A p \in 1..Len(query.paths) : Len(query.paths[p].segs) \in Nat
  BY QueriesAssumption DEF SingleHop, TheHop
<1>2. ASSUME NEW o \in Occurrences(query) PROVE o \in { Left, Right }
  <2>1. PICK p, s \in Nat : o = << p, s >> /\ p \in 1..1 /\ s \in 0..Len(query.paths[p].segs)
    BY <1>1, OccurrencesArePairs
  <2>2. CASE s = 0
    BY <2>1, <2>2 DEF Left
  <2>3. CASE s > 0
    <3>1. o \in Relationships(query)
      BY <2>1, <2>3 DEF Relationships
    <3> QED BY <1>1, <3>1 DEF Right
  <2> QED BY <2>1, <2>2, <2>3
<1>3. Right \in Occurrences(query)
  BY <1>1 DEF Relationships, Right
<1>4. Left \in Occurrences(query)
  <2>1. 1 \in 1..Len(query.paths) /\ 0 \in 0..Len(query.paths[1].segs)
    BY <1>1
  <2> QED BY <1>1, <2>1, OccurrencesArePairs DEF Left
<1>5. Left[2] = 0 /\ Right[2] = 1
  BY DEF Left, Right
<1>6. \A o \in { Left, Right } : \E b \in BOOLEAN : EndOf(query, TheHop, b) = o
  <2>1. /\ << TheHop[1], TheHop[2] - 1 >> = Left /\ TheHop = Right
    BY DEF TheHop, Left, Right
  <2>2. CASE RelAt(query, TheHop).dir = "left"
    <3>1. EndOf(query, TheHop, TRUE) = Left /\ EndOf(query, TheHop, FALSE) = Right
      BY <2>1, <2>2 DEF EndOf
    <3> QED BY <3>1
  <2>3. CASE RelAt(query, TheHop).dir # "left"
    <3>1. EndOf(query, TheHop, FALSE) = Left /\ EndOf(query, TheHop, TRUE) = Right
      BY <2>1, <2>3 DEF EndOf
    <3> QED BY <3>1
  <2> QED BY <2>2, <2>3
<1> QED BY <1>1, <1>2, <1>3, <1>4, <1>5, <1>6 DEF TheHop

(* Unless the hop leads from a node to itself these are two nodes.         *)
LEMMA HopNodes ==
  ASSUME query \in Queries, SingleHop, ~OpensWithSelfLoop(query),
         NEW o1 \in Occurrences(query), NEW o2 \in Occurrences(query)
  PROVE  o1[2] + 1 = o2[2] + 1 <=> SameNode(query, o1, o2)
<1>1. /\ Occurrences(query) = { Left, Right } /\ Relationships(query) = { TheHop }
      /\ Left[2] = 0 /\ Right[2] = 1
  BY HopPattern DEF Left, Right
<1>2. ASSUME SameNode(query, Left, Right) PROVE FALSE
  <2>1. << TheHop[1], TheHop[2] - 1 >> = Left /\ TheHop = Right /\ ~Before(TheHop, TheHop)
    BY DEF TheHop, Left, Right, Before
  <2>2. SelfLoop(query, TheHop)
    <3>1. SameNode(query, Right, Left)
      BY <1>2 DEF SameNode
    <3> QED BY <1>2, <2>1, <3>1 DEF SelfLoop, EndOf
  <2> QED BY <1>1, <2>1, <2>2 DEF OpensWithSelfLoop
<1>3. ~SameNode(query, Right, Left)
  BY <1>2 DEF SameNode
<1> QED BY <1>1, <1>2, <1>3 DEF SameNode

(* A pattern has finitely many nodes.                                      *)
LEMMA OccurrencesFinite ==
  ASSUME NEW q \in Queries
  PROVE  IsFiniteSet(Occurrences(q))
<1> DEFINE P == 1..Len(q.paths)
           row == [ p \in P |-> { << p, s >> : s \in 0..Len(q.paths[p].segs) } ]
           R == { row[p] : p \in P }
<1>1. IsFiniteSet(P)
  BY QueriesAssumption, FS_Interval
<1>2. ASSUME NEW p \in P PROVE IsFiniteSet(row[p])
  <2> DEFINE S == 0..Len(q.paths[p].segs)
             f == [ s \in S |-> << p, s >> ]
             T == { << p, s >> : s \in S }
  <2>1. IsFiniteSet(S)
    <3>1. 0 \in Int /\ Len(q.paths[p].segs) \in Int
      BY QueriesAssumption
    <3> QED BY <3>1, FS_Interval
  <2>2. f \in [S -> T] /\ \A t \in T : \E s \in S : f[s] = t
    OBVIOUS
  <2>3. row[p] = T
    OBVIOUS
  <2> HIDE DEF S, f, T
  <2>4. IsFiniteSet(T)
    BY <2>1, <2>2, FiniteImage
  <2> QED BY <2>3, <2>4
<1>3. row \in [P -> R] /\ \A t \in R : \E p \in P : row[p] = t
  OBVIOUS
<1>4. Occurrences(q) = UNION R
  BY DEF Occurrences
<1> HIDE DEF P, row, R
<1>5. IsFiniteSet(R)
  BY <1>1, <1>3, FiniteImage
<1>6. \A t \in R : IsFiniteSet(t)
  BY <1>2, <1>3
<1>7. IsFiniteSet(UNION R)
  BY <1>5, <1>6, FS_UNION
<1> QED BY <1>4, <1>7

(* A node has finitely many labels.                                        *)
LEMMA LabelsFinite ==
  ASSUME NEW q \in Queries, NEW o
  PROVE  IsFiniteSet(LabelsOf(q, o))
<1> DEFINE X == { y \in Occurrences(q) : SameNode(q, o, y) }
           of == [ x \in X |-> { NodeAt(q, x).labels[i] : i \in 1..Len(NodeAt(q, x).labels) } ]
           R == { of[x] : x \in X }
<1>1. IsFiniteSet(X)
  BY OccurrencesFinite, FS_Subset
<1>2. ASSUME NEW x \in X PROVE IsFiniteSet(of[x])
  <2> DEFINE ls == NodeAt(q, x).labels
             S  == 1..Len(ls)
             f  == [ i \in S |-> ls[i] ]
             T  == { ls[i] : i \in S }
  <2>0. x \in Occurrences(q) /\ ls \in Seq({ ls[i] : i \in 1..Len(ls) } \ {NoLabel})
    BY WrittenAssumption
  <2>1. Len(ls) \in Nat
    BY <2>0
  <2>2. IsFiniteSet(S)
    BY <2>1, FS_Interval
  <2>3. f \in [S -> T] /\ \A t \in T : \E i \in S : f[i] = t
    OBVIOUS
  <2>4. of[x] = T
    OBVIOUS
  <2> HIDE DEF S, f, T
  <2>5. IsFiniteSet(T)
    BY <2>2, <2>3, FiniteImage
  <2> QED BY <2>4, <2>5
<1>3. of \in [X -> R] /\ \A t \in R : \E x \in X : of[x] = t
  OBVIOUS
<1>4. LabelsOf(q, o) = UNION R
  BY DEF LabelsOf
<1> HIDE DEF X, of, R
<1>5. IsFiniteSet(R)
  BY <1>1, <1>3, FiniteImage
<1>6. \A t \in R : IsFiniteSet(t)
  BY <1>2, <1>3
<1>7. IsFiniteSet(UNION R)
  BY <1>5, <1>6, FS_UNION
<1> QED BY <1>4, <1>7

(* A node with two labels is rejected.                                     *)
LEMMA TwoLabels ==
  ASSUME query \in Queries, NEW o, NEW l, NEW m, l \in LabelsOf(query, o),
         m \in LabelsOf(query, o), l # m
  PROVE  ~(Cardinality(LabelsOf(query, o)) <= 1)
<1> DEFINE L == LabelsOf(query, o)
<1>1. IsFiniteSet(L)
  BY LabelsFinite
<1> HIDE DEF L
<1>2. IsFiniteSet({l}) /\ Cardinality({l}) = 1 /\ {l} \in SUBSET L /\ {l} # L
  BY FS_Singleton DEF L
<1>3. Cardinality(L) \in Nat
  BY <1>1, FS_CardinalityType
<1>4. Cardinality({l}) <= Cardinality(L) /\ Cardinality({l}) # Cardinality(L)
  BY <1>1, <1>2, FS_Subset
<1>5. ~(Cardinality(L) <= 1)
  BY <1>2, <1>3, <1>4
<1> QED BY <1>5 DEF L

(* A label a node is written with is one of its labels, and no NULL.       *)
LEMMA WrittenIs ==
  ASSUME query \in Queries, NEW o \in Occurrences(query)
  PROVE  /\ Len(NodeAt(query, o).labels) \in Nat
         /\ \A i \in 1..Len(NodeAt(query, o).labels) : NodeAt(query, o).labels[i] # NoLabel
         /\ Written(o) # NoLabel <=> NodeAt(query, o).labels # << >>
         /\ Written(o) # NoLabel =>
              \A x \in Occurrences(query) : SameNode(query, x, o) => Written(o) \in LabelsOf(query, x)
<1> DEFINE ls == NodeAt(query, o).labels
           S  == { ls[i] : i \in 1..Len(ls) } \ {NoLabel}
<1>1. ls \in Seq(S)
  BY WrittenAssumption
<1>2. NoLabel \notin S
  OBVIOUS
<1>3. Written(o) = IF ls = << >> THEN NoLabel ELSE ls[1]
  BY DEF Written, LabelOf
<1>4. ASSUME Written(o) # NoLabel, NEW x \in Occurrences(query), SameNode(query, x, o),
             ls # << >>, 1 \in 1..Len(ls)
      PROVE  Written(o) \in LabelsOf(query, x)
  BY <1>3, <1>4 DEF LabelsOf
<1> HIDE DEF S, ls
<1>5. Len(ls) \in Nat /\ \A i \in 1..Len(ls) : ls[i] \in S
  BY <1>1
<1>6. ls # << >> => 1 \in 1..Len(ls)
  BY <1>1
<1> QED BY <1>2, <1>3, <1>4, <1>5, <1>6 DEF ls

-----------------------------------------------------------------------------
(***************************************************************************)
(* Slots and nodes.                                                        *)
(***************************************************************************)
(* A translation that is under way has an engine.                          *)
LEMMA Engines ==
  ASSUME TInv, Live
  PROVE  engine \in { "general", "undirected", "varlen" }
  BY DEF TInv, Places, Live

(* A hop has two slots, one for each of its nodes.                         *)
LEMMA HopSlots ==
  ASSUME TInv, Live, Dispatched, engine # "general"
  PROVE  query \in Queries /\ SingleHop /\ Len(slots) = 2
<1>1. engine \in { "undirected", "varlen" }
  BY Engines
<1> QED BY <1>1 DEF TInv, Places, Live, Dispatched

(* The slot of a node has its variable.                                    *)
LEMMA PlaceHas ==
  ASSUME TInv, Live, Dispatched, Owned, NEW o \in Gathered
  PROVE  Place(o) \in 1..Len(slots) /\ slots[Place(o)].var = NodeAt(query, o).var
<1>1. CASE engine = "general"
  <2>1. Len(slots) \in Nat /\ SlotIndex(slots, o) # 0
    <3>1. Len(slots) \in Nat
      BY DEF TInv, Ranges, Listing
    <3> QED BY <1>1, <3>1 DEF TInv, Found, Gathered
  <2>2. SlotIndex(slots, o) \in 1..Len(slots) /\ Match(slots[SlotIndex(slots, o)], o)
    BY <2>1, SlotIndexIs
  <2> QED BY <1>1, <2>2 DEF Place, Match
<1>2. CASE engine # "general"
  <2>1. query \in Queries /\ SingleHop /\ Len(slots) = 2
    BY <1>2, HopSlots
  <2>2. o \in Occurrences(query) /\ Place(o) = o[2] + 1
    BY <1>2 DEF Place, Gathered
  <2>3. Place(o) \in 1..2
    BY <2>1, <2>2, HopPattern
  <2> DEFINE np == slots[Place(o)].np
  <2>4. np \in Occurrences(query) /\ np[2] + 1 = o[2] + 1 /\ slots[Place(o)].var = NodeAt(query, np).var
    BY <1>2, <2>1, <2>2, <2>3 DEF Owned, Place, Gathered
  <2>5. np[2] = o[2]
    <3>1. Occurrences(query) = { Left, Right } /\ Left[2] = 0 /\ Right[2] = 1
      BY <2>1, HopPattern DEF Left, Right
    <3> QED BY <2>2, <2>4, <3>1
  <2>6. np = o
    BY <2>1, <2>2, <2>4, <2>5, HopPattern
  <2> QED BY <2>1, <2>3, <2>4, <2>6
<1> QED BY <1>1, <1>2

(* Nodes share a slot exactly when they are the same.                      *)
LEMMA SamePlace ==
  ASSUME TInv, Live, Dispatched, Sound, NEW o1 \in Gathered, NEW o2 \in Gathered
  PROVE  Place(o1) = Place(o2) <=> SameNode(query, o1, o2)
<1>1. CASE engine = "general"
  <2>1. Len(slots) \in Nat
    BY DEF TInv, Ranges, Listing
  <2>2. SlotIndex(slots, o1) # 0 /\ SlotIndex(slots, o2) # 0
    BY <1>1 DEF TInv, Found, Gathered
  <2>3. SlotIndex(slots, o1) = SlotIndex(slots, o2) <=> SameNode(query, o1, o2)
    BY <2>1, <2>2, SameSlot
  <2> QED BY <1>1, <2>3 DEF Place
<1>2. CASE engine # "general"
  <2>1. query \in Queries /\ SingleHop /\ ~OpensWithSelfLoop(query)
    BY <1>2, HopSlots DEF Sound
  <2>2. o1 \in Occurrences(query) /\ o2 \in Occurrences(query)
    BY DEF Gathered
  <2>3. o1[2] + 1 = o2[2] + 1 <=> SameNode(query, o1, o2)
    BY <2>1, <2>2, HopNodes
  <2> QED BY <1>2, <2>3 DEF Place
<1> QED BY <1>1, <1>2

(* Once the pattern is collected, every node has a slot.                   *)
LEMMA AllGathered ==
  ASSUME TInv, Live, AllCollected, pc # "collect"
  PROVE  Gathered = Occurrences(query) /\ Connected = Relationships(query)
<1>1. CASE engine = "general"
  <2>1. query \in Queries /\ at \in Nat \X Nat /\ at[1] > Len(query.paths)
    BY <1>1 DEF TInv, Places, AllCollected
  <2>2. ASSUME NEW o \in Occurrences(query) PROVE Collected(o)
    <3>1. PICK p, s \in Nat : o = << p, s >> /\ p \in 1..Len(query.paths)
      BY <2>1, OccurrencesArePairs
    <3>2. Len(query.paths) \in Nat
      BY <2>1, QueriesAssumption
    <3>3. o[1] < at[1]
      BY <2>1, <3>1, <3>2
    <3> QED BY <3>3 DEF Collected
  <2>3. \A r \in Relationships(query) : r \in Occurrences(query)
    BY DEF Relationships
  <2> QED BY <2>2, <2>3 DEF Gathered, Connected
<1>2. CASE engine # "general"
  BY <1>2 DEF Gathered, Connected
<1> QED BY <1>1, <1>2

(* The edge of a relationship is an edge.                                  *)
LEMMA EdgePlace ==
  ASSUME TInv, Live, Mirrored, NEW r \in Connected
  PROVE  EdgeOf(r) \in 1..Len(edges)
<1>1. CASE engine = "general"
  <2>1. r \in Done
    BY <1>1 DEF Connected, Done
  <2>2. /\ query \in Queries /\ at \in Nat \X Nat /\ IsFiniteSet(Done)
        /\ Cardinality(Done) = Len(edges)
    BY <1>1 DEF TInv, Places, Numbered
  <2>3. Number(r) \in 1..Cardinality(Done)
    BY <2>1, <2>2, NumberInRange
  <2> QED BY <1>1, <2>2, <2>3 DEF EdgeOf
<1>2. CASE engine # "general"
  BY <1>2 DEF Mirrored, EdgeOf
<1> QED BY <1>1, <1>2

(* A node that was checked has at most one label, the one written.         *)
LEMMA OneLabel ==
  ASSUME query \in Queries, NEW o \in Occurrences(query), NodeError(NodeAt(query, o)) = "none"
  PROVE  /\ ~NodeAt(query, o).props /\ Len(NodeAt(query, o).labels) <= 1
         /\ \A i \in 1..Len(NodeAt(query, o).labels) :
              NodeAt(query, o).labels[i] = Written(o) /\ Written(o) # NoLabel
<1> DEFINE n  == NodeAt(query, o)
           ls == n.labels
<1>1. ~n.props /\ ~(Len(ls) > 1)
  BY DEF NodeError
<1>2. Len(ls) \in Nat /\ \A i \in 1..Len(ls) : ls[i] # NoLabel
  BY WrittenIs
<1>3. Written(o) = IF ls = << >> THEN NoLabel ELSE ls[1]
  BY DEF Written, LabelOf
<1> HIDE DEF ls
<1>4. ASSUME NEW i \in 1..Len(ls) PROVE ls[i] = Written(o) /\ Written(o) # NoLabel
  <2>1. i = 1 /\ ls # << >>
    BY <1>1, <1>2
  <2> QED BY <1>2, <1>3, <2>1
<1> QED BY <1>1, <1>2, <1>4 DEF ls

(* The label a slot has taken over is the only one its node is written     *)
(* with.                                                                   *)
LEMMA LabelsAre ==
  ASSUME TInv, Live, Dispatched, Sound, NodesChecked, Gathered = Occurrences(query),
         NEW o \in Occurrences(query), NEW l, Original(Place(o), l)
  PROVE  LabelsOf(query, o) = { l } \ { NoLabel }
<1>1. query \in Queries
  BY DEF TInv, Places
<1>2. ASSUME NEW x \in Occurrences(query), SameNode(query, o, x),
             NEW i \in 1..Len(NodeAt(query, x).labels)
      PROVE  NodeAt(query, x).labels[i] = l /\ l # NoLabel
  <2>1. NodeAt(query, x).labels[i] = Written(x) /\ Written(x) # NoLabel
    BY <1>1, OneLabel DEF NodesChecked
  <2>2. Place(x) = Place(o)
    BY <1>2, SamePlace
  <2> QED BY <2>1, <2>2 DEF Original
<1>3. ASSUME l # NoLabel PROVE l \in LabelsOf(query, o)
  <2>1. PICK x \in Occurrences(query) : Place(x) = Place(o) /\ Written(x) = l
    BY <1>3 DEF Original
  <2>2. SameNode(query, o, x)
    BY <2>1, SamePlace
  <2> QED BY <1>1, <1>3, <2>1, <2>2, WrittenIs
<1>4. \A m \in LabelsOf(query, o) : m = l /\ l # NoLabel
  BY <1>2 DEF LabelsOf
<1> QED BY <1>3, <1>4

(* A label is resolved to nothing only if there is none, and no label is   *)
(* not ambiguous.                                                          *)
LEMMA ResolveKeepsLabels ==
  ASSUME map \in Maps, NEW l
  PROVE  /\ Resolve(map, l).table = NoLabel <=> l = NoLabel
         /\ ~Ambiguous(map, NoLabel)
<1>1. /\ Len(map) \in Nat
      /\ \A i \in 1..Len(map) : map[i].table # NoLabel /\ map[i].name # NoLabel
  BY MapsAssumption
<1>2. /\ AsTable(map, l) \in { i \in 1..Len(map) : map[i].table = l } \cup {0}
      /\ AsName(map, l) \in { i \in 1..Len(map) : map[i].name = l } \cup {0}
  BY <1>1, LastInSome DEF AsTable, AsName
<1>3. AsTable(map, NoLabel) = 0
  <2>1. { i \in 1..Len(map) : map[i].table = NoLabel } = {}
    BY <1>1
  <2> QED BY <2>1, LastInNone DEF AsTable
<1>4. Resolve(map, NoLabel).table = NoLabel
  BY DEF Resolve, Entry
<1>5. ASSUME l # NoLabel PROVE Resolve(map, l).table # NoLabel
  <2>1. CASE AsTable(map, l) # 0
    BY <1>1, <1>2, <1>5, <2>1 DEF Resolve
  <2>2. CASE AsTable(map, l) = 0 /\ AsName(map, l) # 0
    BY <1>1, <1>2, <1>5, <2>2 DEF Resolve
  <2>3. CASE AsTable(map, l) = 0 /\ AsName(map, l) = 0
    BY <1>5, <2>3 DEF Resolve, Entry
  <2> QED BY <2>1, <2>2, <2>3
<1> QED BY <1>3, <1>4, <1>5 DEF Ambiguous

-----------------------------------------------------------------------------
(***************************************************************************)
(* What a step does to the invariant.                                      *)
(***************************************************************************)
(* What is understood is a question about the query and the map.           *)
LEMMA SameQuestion ==
  ASSUME query' = query, engine' = engine, map' = map
  PROVE  /\ Sound' <=> Sound
         /\ BoundsFit' <=> BoundsFit
         /\ BoundsError' = BoundsError
         /\ \A u : UseUnderstood(u)' <=> UseUnderstood(u)
         /\ Understood' <=> Understood
<1>1. Sound' <=> Sound
  BY DEF Sound
<1>2. BoundsFit' <=> BoundsFit
  BY DEF BoundsFit, Star
<1>3. BoundsError' = BoundsError
  BY DEF BoundsError, LowerBound, UpperBound, Star
<1>4. \A u : UseUnderstood(u)' <=> UseUnderstood(u)
  BY DEF UseUnderstood
<1>5. \A o : NodeUnderstood(o)' <=> NodeUnderstood(o)
  BY DEF NodeUnderstood
<1>6. SingleHop' <=> SingleHop
  BY DEF SingleHop
<1>7. \A r : RelUnderstood(r)' <=> RelUnderstood(r)
  BY <1>6 DEF RelUnderstood
<1>8. Understood' <=> Understood
  BY <1>4, <1>5, <1>7 DEF Understood
<1> QED BY <1>1, <1>2, <1>3, <1>4, <1>8

(* A failure must have a reason in the query.                              *)
LEMMA FailChecked ==
  ASSUME Checked, NEW reason, Fail(reason), Sound /\ BoundsFit => ~Understood
  PROVE  Checked'
<1>1. pc' = "failed" /\ query' = query /\ engine' = engine /\ map' = map
  BY DEF Fail
<1>2. (Dispatched /\ AllCollected /\ Owned /\ Mirrored /\ NodesChecked /\ Labels)'
  BY <1>1 DEF Dispatched, AllCollected, Owned, Mirrored, NodesChecked, Labels, Live
<1>3. (TablesKnown /\ UsesChecked /\ HopChecked /\ PropsChecked)'
  BY <1>1 DEF TablesKnown, UsesChecked, HopChecked, PropsChecked, Live
<1>4. Refused'
  BY <1>1, SameQuestion DEF Refused
<1>5. map' \in Maps
  BY <1>1 DEF Checked
<1> QED BY <1>2, <1>3, <1>4, <1>5 DEF Checked

(* Edges keep what they have from their relationships.                     *)
KeepsDrawings ==
  \A e \in 1..Len(edges) :
    /\ edges'[e].var = edges[e].var /\ edges'[e].types = edges[e].types
    /\ edges'[e].props = edges[e].props

(* A quiet step gathers nothing, and slots and edges stay where they are.  *)
LEMMA QuietStays ==
  ASSUME TInv, Quiet
  PROVE  /\ Gathered' = Gathered /\ Connected' = Connected
         /\ \A o : Place(o)' = Place(o)
         /\ \A r : EdgeOf(r)' = EdgeOf(r)
         /\ \A o : Written(o)' = Written(o)
         /\ \A i, l : Original(i, l)' <=> Original(i, l)
<1>1. query' = query /\ engine' = engine /\ at' = at
  BY DEF Quiet
<1>2. ASSUME NEW o PROVE Place(o)' = Place(o)
  <2>1. Len(slots) \in Nat
    BY DEF TInv, Ranges, Listing
  <2>2. SlotIndex(slots', o) = SlotIndex(slots, o)
    BY <2>1, SlotIndexStays DEF Quiet, KeepsSlots
  <2>3. SlotIndex(slots, o)' = SlotIndex(slots', o)
    BY <1>1, SlotIndexPrimed
  <2> QED BY <1>1, <2>2, <2>3 DEF Place
<1>3. Gathered' = Gathered /\ Connected' = Connected
  BY <1>1 DEF Gathered, Connected, Collected
<1>4. \A r : EdgeOf(r)' = EdgeOf(r)
  BY <1>1, CollectedPrimed DEF EdgeOf
<1>5. \A o : Written(o)' = Written(o)
  BY <1>1 DEF Written
<1>6. \A i, l : Original(i, l)' <=> Original(i, l)
  BY <1>2, <1>3, <1>5 DEF Original
<1> QED BY <1>2, <1>3, <1>4, <1>5, <1>6

(* It keeps the parts about the pattern collected.                         *)
LEMMA QuietChecked ==
  ASSUME TInv, Checked, Live, Quiet, map' = map, KeepsDrawings,
         pc' \notin { "dispatch", "hop", "failed", "collect" },
         pc = "collect" => at[1] > Len(query.paths)
  PROVE  (Dispatched /\ AllCollected /\ Owned /\ Mirrored /\ NodesChecked /\ HopChecked /\ Refused)'
<1>1. query' = query /\ engine' = engine /\ at' = at /\ Live'
  BY DEF Quiet, Live
<1>2. /\ Gathered' = Gathered /\ Connected' = Connected
      /\ \A o : Place(o)' = Place(o)
      /\ \A r : EdgeOf(r)' = EdgeOf(r)
  BY QuietStays
<1>3. Dispatched'
  <2>1. HasVarlen' = HasVarlen /\ HasUndirected' = HasUndirected /\ SingleHop' = SingleHop
    BY <1>1 DEF HasVarlen, HasUndirected, SingleHop
  <2> QED BY <1>1, <2>1 DEF Checked, Dispatched, Live
<1>4. AllCollected'
  BY <1>1 DEF Checked, AllCollected
<1>5. Owned'
  <2>1. /\ Len(slots') = Len(slots)
        /\ \A i \in 1..Len(slots) : slots'[i].np = slots[i].np /\ slots'[i].var = slots[i].var
    BY DEF Quiet, KeepsSlots, Same
  <2> QED BY <1>1, <1>2, <2>1 DEF Checked, Owned
<1>6. Mirrored'
  <2>1. Len(edges') = Len(edges)
    BY DEF Quiet, KeepsEdges
  <2>2. ASSUME NEW r \in Connected PROVE Drawn(edges'[EdgeOf(r)], RelAt(query, r))
    <3>1. EdgeOf(r) \in 1..Len(edges) /\ Drawn(edges[EdgeOf(r)], RelAt(query, r))
      BY EdgePlace DEF Checked, Mirrored
    <3> QED BY <3>1 DEF Drawn, KeepsDrawings
  <2> QED BY <1>1, <1>2, <2>1, <2>2 DEF Checked, Mirrored
<1>7. NodesChecked'
  BY <1>1, <1>2 DEF Checked, NodesChecked
<1>8. HopChecked'
  BY <1>1, SameQuestion DEF Checked, HopChecked
<1>9. Refused'
  BY DEF Refused
<1> QED BY <1>3, <1>4, <1>5, <1>6, <1>7, <1>8, <1>9
-----------------------------------------------------------------------------
(***************************************************************************)
(* The choice of an engine.                                                *)
(***************************************************************************)
(* A query whose MATCH or RETURN no engine can translate is rejected.      *)
LEMMA DispatchChecked ==
  ASSUME TInv, Checked, Dispatch
  PROVE  Checked'
<1>1. /\ pc = "dispatch" /\ at = << 1, 0 >> /\ slots = << >> /\ edges = << >>
      /\ query \in Queries /\ map \in Maps /\ emitted = 0
  BY DEF Dispatch, TInv, Places, Checked, UsesChecked
<1>2. CASE query.matches # 1 \/ ~query.shape
  <2>1. ~Understood
    BY <1>2 DEF Understood
  <2> QED BY <1>2, <2>1, FailChecked DEF Dispatch
<1>3. CASE query.matches = 1 /\ query.shape /\ (HasVarlen \/ HasUndirected) /\ ~SingleHop
  <2>1. \E r \in Relationships(query) : ~RelUnderstood(r)
    BY <1>3 DEF HasVarlen, HasUndirected, RelUnderstood
  <2>2. ~Understood
    BY <2>1 DEF Understood
  <2> QED BY <1>3, <2>2, FailChecked DEF Dispatch
<1>4. CASE query.matches = 1 /\ query.shape /\ ~((HasVarlen \/ HasUndirected) /\ ~SingleHop)
  <2>1. PICK e, phase : /\ Choose(e, phase)
                        /\ \/ e = "varlen" /\ phase = "hop" /\ SingleHop /\ HasVarlen
                           \/ e = "undirected" /\ phase = "hop" /\ SingleHop /\ ~HasVarlen /\ HasUndirected
                           \/ e = "general" /\ phase = "collect" /\ ~HasVarlen /\ ~HasUndirected
    BY <1>4 DEF Dispatch
  <2>2. /\ query' = query /\ map' = map /\ at' = at /\ slots' = << >> /\ edges' = << >>
        /\ engine' = e /\ pc' = phase /\ emitted' = 0
    BY <1>1, <2>1 DEF Choose
  <2>3. Dispatched'
    <3>1. HasVarlen' = HasVarlen /\ HasUndirected' = HasUndirected /\ SingleHop' = SingleHop
      BY <2>2 DEF HasVarlen, HasUndirected, SingleHop
    <3> QED BY <1>4, <2>1, <2>2, <3>1 DEF Dispatched
  <2>4. phase = "collect" => Gathered' = {} /\ Connected' = {}
    <3>1. SUFFICES ASSUME phase = "collect" PROVE Gathered' = {} /\ Connected' = {}
      OBVIOUS
    <3>2. \A o \in Occurrences(query) : ~Collected(o)'
      BY <1>1, <2>2, OccurrencesArePairs DEF Collected
    <3>3. Relationships(query) \subseteq Occurrences(query)
      BY DEF Relationships
    <3>4. engine' = "general"
      BY <2>1, <2>2, <3>1
    <3> QED BY <2>2, <3>2, <3>3, <3>4 DEF Gathered, Connected
  <2>5. (AllCollected /\ Owned /\ Mirrored /\ NodesChecked /\ Labels)'
    <3>1. CASE phase = "collect"
      BY <2>1, <2>2, <2>4, <3>1 DEF AllCollected, Owned, Mirrored, NodesChecked, Labels
    <3>2. CASE phase = "hop"
      BY <2>2, <3>2 DEF AllCollected, Owned, Mirrored, NodesChecked, Labels, Live
    <3> QED BY <2>1, <3>1, <3>2
  <2>6. (TablesKnown /\ UsesChecked /\ HopChecked /\ PropsChecked /\ Refused)'
    BY <2>1, <2>2 DEF TablesKnown, UsesChecked, HopChecked, PropsChecked, Refused, Live
  <2> QED BY <1>1, <2>2, <2>3, <2>5, <2>6 DEF Checked
<1> QED BY <1>2, <1>3, <1>4

-----------------------------------------------------------------------------
(***************************************************************************)
(* The collection of the pattern.                                          *)
(***************************************************************************)
(* A node with an error is none the translator understands.                *)
LEMMA NodeErrorRejects ==
  ASSUME query \in Queries, NEW o \in Occurrences(query), NodeError(NodeAt(query, o)) # "none"
  PROVE  ~Understood
<1>1. Len(NodeAt(query, o).labels) \in Nat
  BY WrittenIs
<1>2. ~NodeUnderstood(o)
  BY <1>1 DEF NodeError, NodeUnderstood
<1> QED BY <1>2 DEF Understood

(* Nor is a node with two labels, wherever they are written.               *)
LEMMA ConflictRejects ==
  ASSUME TInv, Checked, engine = "general", pc = "collect", at \in Occurrences(query),
         Conflict(slots, at)
  PROVE  ~Understood
<1> DEFINE i == SlotIndex(slots, at)
<1>1. query \in Queries /\ Len(slots) \in Nat
  BY DEF TInv, Places, Ranges, Listing
<1>2. i # 0 /\ Written(at) # NoLabel /\ slots[i].label # NoLabel /\ slots[i].label # Written(at)
  BY DEF Conflict, Written
<1>3. i \in 1..Len(slots)
  BY <1>1, <1>2, SlotIndexIs
<1>4. PICK o \in Gathered : Place(o) = i /\ Written(o) = slots[i].label
  BY <1>2, <1>3 DEF Checked, Labels, Original
<1>5. o \in Occurrences(query) /\ SlotIndex(slots, o) = i
  BY <1>4 DEF Gathered, Place
<1> HIDE DEF i
<1>6. SameNode(query, at, o) /\ SameNode(query, at, at)
  BY <1>1, <1>2, <1>5, SameSlot DEF SameNode, i
<1>7. Written(o) \in LabelsOf(query, at) /\ Written(at) \in LabelsOf(query, at)
  BY <1>1, <1>2, <1>4, <1>5, <1>6, WrittenIs
<1>8. ~(Cardinality(LabelsOf(query, at)) <= 1)
  BY <1>1, <1>2, <1>4, <1>7, TwoLabels
<1> QED BY <1>8 DEF Understood, NodeUnderstood

(* Nor is a relationship with two types.                                   *)
LEMMA TypesReject ==
  ASSUME NEW r \in Relationships(query), ~(Len(RelAt(query, r).types) <= 1)
  PROVE  ~Understood
  BY DEF Understood, RelUnderstood

(* The place of a path element while the pattern is collected.             *)
LEMMA AtIsOccurrence ==
  ASSUME TInv, Collecting, at[2] \in 0..Len(query.paths[at[1]].segs)
  PROVE  query \in Queries /\ at \in Occurrences(query)
<1>1. PICK p, k \in Nat : at = << p, k >>
  BY DEF TInv, Places
<1>2. query \in Queries /\ Len(query.paths) \in Nat
  BY QueriesAssumption DEF TInv, Places
<1>3. p \in 1..Len(query.paths) /\ k \in 0..Len(query.paths[p].segs)
  BY <1>1, <1>2 DEF TInv, InPath, Collecting
<1> QED BY <1>1, <1>2, <1>3, OccurrencesArePairs

(* An occurrence merged into the slots gives its slot a label, if it has   *)
(* one, and a new slot all that a slot keeps of its node.                  *)
LEMMA MergedLabels ==
  ASSUME NEW ss, Listing(ss, SlotFields), NEW o,
         NEW mm, mm = Merged(ss, o), NEW k, k = SlotIndex(mm, o),
         NEW l, l = Written(o)
  PROVE  /\ Len(ss) \in Nat /\ Len(mm) \in Nat /\ k \in 1..Len(mm)
         /\ SlotIndex(ss, o) # 0 =>
              /\ k = SlotIndex(ss, o) /\ Len(mm) = Len(ss)
              /\ mm[k].label = IF l = NoLabel THEN ss[k].label ELSE l
         /\ SlotIndex(ss, o) = 0 =>
              /\ k = Len(ss) + 1 /\ Len(mm) = Len(ss) + 1
              /\ mm[k].label = l /\ mm[k].np = o /\ mm[k].var = NodeAt(query, o).var
         /\ \A i \in 1..Len(ss) : i # k => mm[i].label = ss[i].label
<1> DEFINE j == SlotIndex(ss, o)
<1>1. /\ Listing(mm, SlotFields) /\ Len(mm) \in Nat /\ Len(ss) \in Nat /\ Len(ss) <= Len(mm)
      /\ k \in 1..Len(mm)
      /\ \A i \in 1..Len(ss) : Same(ss[i], mm[i])
  BY MergedIs
<1>2. l = LabelOf(NodeAt(query, o))
  BY DEF Written
<1>3. CASE j = 0
  <2>1. mm = Append(ss, NewSlot(o))
    BY <1>3 DEF Merged
  <2>2. /\ DOMAIN NewSlot(o) = SlotFields /\ NewSlot(o).label = l /\ NewSlot(o).np = o
        /\ NewSlot(o).var = NodeAt(query, o).var
    BY <1>2 DEF NewSlot, SlotFields
  <2>3. /\ Len(mm) = Len(ss) + 1 /\ mm[Len(ss) + 1] = NewSlot(o)
        /\ \A i \in 1..Len(ss) : mm[i] = ss[i]
    BY <2>1, <2>2, Appended
  <2>4. Match(mm[k], o)
    <3>1. k # 0 /\ Len(mm) \in Nat
      BY <1>1
    <3> QED BY <3>1, SlotIndexIs
  <2>5. \A i \in 1..Len(ss) : ~Match(ss[i], o)
    BY <1>1, <1>3, SlotIndexIs
  <2>6. k = Len(ss) + 1
    BY <1>1, <2>3, <2>4, <2>5
  <2> QED BY <1>1, <1>3, <2>2, <2>3, <2>6
<1>4. CASE j # 0
  <2>1. mm = IF l = NoLabel THEN ss ELSE [ ss EXCEPT ![j].label = l ]
    BY <1>2, <1>4 DEF Merged
  <2>2. j \in 1..Len(ss) /\ DOMAIN ss = 1..Len(ss) /\ DOMAIN ss[j] = SlotFields
    BY <1>1, <1>4, SlotIndexIs DEF Listing
  <2> HIDE DEF j
  <2>3. /\ mm[j].label = IF l = NoLabel THEN ss[j].label ELSE l
        /\ \A i \in 1..Len(ss) : i # j => mm[i].label = ss[i].label
        /\ Len(mm) = Len(ss)
    <3>1. CASE l = NoLabel
      BY <2>1, <3>1
    <3>2. CASE l # NoLabel
      <4>1. mm = [ ss EXCEPT ![j] = [ ss[j] EXCEPT !.label = l ] ]
        BY <2>1, <2>2, <3>2
      <4>2. mm[j] = [ ss[j] EXCEPT !.label = l ] /\ \A i \in 1..Len(ss) : i # j => mm[i] = ss[i]
        BY <2>2, <4>1
      <4>3. mm[j].label = l
        BY <2>2, <4>2 DEF SlotFields
      <4>4. Len(mm) = Len(ss)
        <5>1. DOMAIN mm = 1..Len(ss) /\ DOMAIN mm = 1..Len(mm)
          BY <1>1, <2>2, <4>1 DEF Listing
        <5> QED BY <1>1, <5>1
      <4> QED BY <3>2, <4>2, <4>3, <4>4
    <3> QED BY <3>1, <3>2
  <2>4. k = j
    <3>1. SlotIndex(mm, o) = SlotIndex(ss, o)
      BY <1>1, <1>4, SlotIndexStays DEF j
    <3> QED BY <3>1 DEF j
  <2> QED BY <1>1, <1>4, <2>3, <2>4 DEF j
<1> QED BY <1>3, <1>4
(* The nodes collected, and where they are: the slots stay where they are, *)
(* and the node collected has one.                                         *)
LEMMA AdvancePlaces ==
  ASSUME TInv, Checked, Advance
  PROVE  /\ Live /\ Live' /\ engine = "general" /\ pc = "collect" /\ pc' = "collect"
         /\ query' = query /\ map' = map /\ engine' = engine /\ emitted' = emitted
         /\ at \in Occurrences(query) /\ query \in Queries
         /\ Gathered' = Gathered \cup {at}
         /\ \A o : Place(o)' = SlotIndex(slots', o)
         /\ \A o \in Gathered : Place(o) \in 1..Len(slots) /\ Place(o)' = Place(o)
         /\ \A o : Written(o)' = Written(o)
<1>1. /\ engine = "general" /\ pc = "collect" /\ pc' = "collect" /\ Live /\ Live'
      /\ query' = query /\ map' = map /\ engine' = engine /\ emitted' = emitted /\ Grow
  BY DEF Advance, Live
<1>2. query \in Queries
  BY DEF TInv, Places
<1>3. /\ at \in Occurrences(query)
      /\ \A o \in Occurrences(query) : Collected(o)' <=> Collected(o) \/ o = at
  BY AdvanceCollects
<1>4. Gathered' = Gathered \cup {at}
  BY <1>1, <1>3 DEF Gathered
<1>5. \A o : Place(o)' = SlotIndex(slots', o)
  BY <1>1, SlotIndexPrimed DEF Place
<1>6. ASSUME NEW o \in Gathered PROVE Place(o) \in 1..Len(slots) /\ Place(o)' = Place(o)
  <2>1. Place(o) \in 1..Len(slots)
    BY <1>1, PlaceHas DEF Checked
  <2>2. Place(o) = SlotIndex(slots, o) /\ Len(slots) \in Nat
    BY <1>1 DEF Place, TInv, Ranges, Listing
  <2>3. SlotIndex(slots', o) = SlotIndex(slots, o)
    BY <1>1, <2>1, <2>2, StaysFound
  <2> QED BY <1>5, <2>1, <2>2, <2>3
<1>7. \A o : Written(o)' = Written(o)
  BY <1>1 DEF Written
<1> QED BY <1>1, <1>2, <1>3, <1>4, <1>5, <1>6, <1>7

(* A node collected without an error keeps the parts about nodes.          *)
LEMMA AdvanceChecked ==
  ASSUME TInv, Checked, Advance,
         NodeError(NodeAt(query, at)) = "none", ~Conflict(slots, at),
         NEW mm, mm = Merged(slots, at), Len(slots') = Len(mm),
         \A i \in 1..Len(mm) : Same(mm[i], slots'[i]) /\ slots'[i].label = mm[i].label
  PROVE  /\ (Dispatched /\ AllCollected /\ Owned /\ NodesChecked /\ Labels)'
         /\ (TablesKnown /\ UsesChecked /\ HopChecked /\ PropsChecked /\ Refused)'
         /\ map' \in Maps
<1>0. PICK occ : occ = at
  OBVIOUS
<1> DEFINE k == SlotIndex(mm, occ)
           j == SlotIndex(slots, occ)
           l == Written(occ)
<1>1. /\ Live /\ Live' /\ engine = "general" /\ pc = "collect" /\ pc' = "collect"
      /\ query' = query /\ map' = map /\ engine' = engine /\ emitted' = emitted
      /\ Gathered' = Gathered \cup {occ}
      /\ \A o : Place(o)' = SlotIndex(slots', o)
      /\ \A o \in Gathered : Place(o) \in 1..Len(slots) /\ Place(o)' = Place(o)
      /\ \A o : Written(o)' = Written(o)
  BY <1>0, AdvancePlaces
<1>2. Listing(slots, SlotFields)
  BY DEF TInv, Ranges
<1>3. /\ Len(slots) \in Nat /\ Len(mm) \in Nat /\ k \in 1..Len(mm)
      /\ j # 0 =>
           /\ k = j /\ Len(mm) = Len(slots)
           /\ mm[k].label = IF l = NoLabel THEN slots[k].label ELSE l
      /\ j = 0 =>
           /\ k = Len(slots) + 1 /\ Len(mm) = Len(slots) + 1
           /\ mm[k].label = l /\ mm[k].np = occ /\ mm[k].var = NodeAt(query, occ).var
      /\ \A i \in 1..Len(slots) : i # k => mm[i].label = slots[i].label
  BY <1>0, <1>2, MergedLabels
<1>4. Place(occ)' = k
  <2>1. SlotIndex(mm, occ) # 0 /\ Len(slots') \in Nat /\ Len(slots') = Len(mm)
    BY <1>3
  <2>2. SlotIndex(slots', occ) = SlotIndex(mm, occ)
    BY <1>3, <2>1, SlotIndexStays
  <2> QED BY <1>1, <2>2
<1>5. j # 0 /\ l # NoLabel /\ slots[j].label # NoLabel => slots[j].label = l
  BY <1>0 DEF Conflict, Written
<1>6. \A i \in 1..Len(slots') : i \in 1..Len(mm) /\ (i \in 1..Len(slots) \/ (i = k /\ j = 0))
  BY <1>3
<1>7. \A i \in 1..Len(slots) : Same(slots[i], slots'[i])
  BY DEF Advance, Grow
<1> HIDE DEF k, j, l
<1>8. Owned'
  <2>1. ASSUME NEW i \in 1..Len(slots')
        PROVE  \E np : /\ np = slots'[i].np /\ np \in Gathered' /\ Place(np)' = i
                       /\ slots'[i].var = NodeAt(query, np).var
    <3>1. CASE i \in 1..Len(slots)
      <4>1. PICK np : np = slots[i].np
        OBVIOUS
      <4>2. np \in Gathered /\ Place(np) = i /\ slots[i].var = NodeAt(query, np).var
        BY <1>1, <3>1, <4>1 DEF Checked, Owned
      <4>3. slots'[i].np = np /\ slots'[i].var = slots[i].var
        BY <1>7, <3>1, <4>1 DEF Same
      <4>4. Place(np)' = i
        BY <1>1, <4>2
      <4> QED BY <1>1, <4>2, <4>3, <4>4
    <3>2. CASE i = k /\ j = 0
      <4>1. slots'[i].np = occ /\ slots'[i].var = NodeAt(query, occ).var
        BY <1>3, <3>2 DEF Same
      <4>2. Place(occ)' = i
        BY <1>4, <3>2
      <4> QED BY <1>1, <4>1, <4>2
    <3> QED BY <1>6, <3>1, <3>2
  <2> QED BY <1>1, <2>1 DEF Owned
<1>9. Labels'
  <2>1. ASSUME NEW i \in 1..Len(slots')
        PROVE  LET m == slots'[i].label
               IN  /\ \A o \in Gathered' : Place(o)' = i /\ Written(o) # NoLabel => Written(o) = m
                   /\ m # NoLabel => \E o \in Gathered' : Place(o)' = i /\ Written(o) = m
    <3> DEFINE m == slots'[i].label
    <3>1. m = mm[i].label
      BY <1>6
    <3> HIDE DEF m
    <3>2. \A o \in Gathered' : o \in Gathered \/ o = occ
      BY <1>1
    <3>3. i \in 1..Len(slots) =>
            /\ \A o \in Gathered : Place(o) = i /\ Written(o) # NoLabel => Written(o) = slots[i].label
            /\ slots[i].label # NoLabel => \E o \in Gathered : Place(o) = i /\ Written(o) = slots[i].label
      BY <1>1 DEF Checked, Labels, Original
    <3>4. CASE i # k
      <4>1. i \in 1..Len(slots) /\ m = slots[i].label
        BY <1>3, <1>6, <3>1, <3>4
      <4> QED BY <1>1, <1>4, <3>2, <3>3, <3>4, <4>1 DEF m
    <3>5. CASE i = k /\ j = 0
      <4>1. m = l /\ i \notin 1..Len(slots)
        BY <1>3, <3>1, <3>5
      <4>2. \A o \in Gathered : Place(o)' # i
        BY <1>1, <4>1
      <4> QED BY <1>1, <1>4, <3>2, <3>5, <4>1, <4>2 DEF m, l
    <3>6. CASE i = k /\ j # 0
      <4>1. i \in 1..Len(slots) /\ i = j /\ m = IF l = NoLabel THEN slots[i].label ELSE l
        BY <1>3, <3>1, <3>6
      <4>2. CASE l = NoLabel
        <5>1. m = slots[i].label
          BY <4>1, <4>2
        <5> QED BY <1>1, <3>2, <3>3, <4>1, <4>2, <5>1 DEF m, l
      <4>3. CASE l # NoLabel
        <5>1. m = l /\ (slots[i].label = NoLabel \/ slots[i].label = l)
          BY <1>5, <3>6, <4>1, <4>3
        <5>2. \A o \in Gathered : Place(o) = i /\ Written(o) # NoLabel => Written(o) = l
          BY <3>3, <4>1, <5>1
        <5>3. occ \in Gathered' /\ Place(occ)' = i /\ Written(occ) = l
          BY <1>1, <1>4, <3>6 DEF l
        <5> QED BY <1>1, <3>2, <5>1, <5>2, <5>3 DEF m
      <4> QED BY <4>2, <4>3
    <3> QED BY <3>4, <3>5, <3>6
  <2> QED BY <1>1, <2>1 DEF Labels, Original
<1>10. Dispatched'
  <2>1. HasVarlen' = HasVarlen /\ HasUndirected' = HasUndirected /\ SingleHop' = SingleHop
    BY <1>1 DEF HasVarlen, HasUndirected, SingleHop
  <2> QED BY <1>1, <2>1 DEF Checked, Dispatched
<1>11. NodesChecked'
  <2>1. ASSUME NEW o \in Gathered' PROVE NodeError(NodeAt(query, o)) = "none"
    BY <1>0, <1>1 DEF Checked, NodesChecked
  <2> QED BY <1>1, <2>1 DEF NodesChecked
<1>12. (AllCollected /\ TablesKnown /\ UsesChecked /\ HopChecked /\ PropsChecked /\ Refused)'
  <2>1. emitted' = 0
    BY <1>1 DEF Checked, UsesChecked
  <2> QED BY <1>1, <2>1 DEF AllCollected, TablesKnown, UsesChecked, HopChecked, PropsChecked, Refused
<1>13. map' \in Maps
  BY <1>1 DEF Checked
<1> QED BY <1>8, <1>9, <1>10, <1>11, <1>12, <1>13
(* The place of the next path element, when there is one.                  *)
LEMMA InPathOccurrence ==
  ASSUME TInv, CollectStart \/ CollectSegment
  PROVE  query \in Queries /\ at \in Occurrences(query) /\ pc = "collect"
<1>1. Collecting
  BY DEF CollectStart, CollectSegment
<1>2. PICK p, k \in Nat : at = << p, k >>
  BY DEF TInv, Places
<1>3. query \in Queries /\ Len(query.paths) \in Nat
  BY QueriesAssumption DEF TInv, Places
<1>4. p \in 1..Len(query.paths)
  BY <1>1, <1>2, <1>3 DEF TInv, InPath, Collecting
<1>5. Len(query.paths[p].segs) \in Nat
  BY <1>3, <1>4, QueriesAssumption
<1>6. at[2] \in 0..Len(query.paths[at[1]].segs)
  <2>1. at[2] = 0 \/ at[2] \in 1..Len(query.paths[at[1]].segs)
    BY DEF CollectStart, CollectSegment
  <2> QED BY <1>2, <1>5, <2>1
<1> QED BY <1>1, <1>6, AtIsOccurrence DEF Collecting

(* Relationships keep their numbers.                                       *)
LEMMA EdgeOfStays ==
  ASSUME query' = query, engine' = engine
  PROVE  \A r : EdgeOf(r)' = EdgeOf(r)
<1>1. \A r : Number(r)' = Number(r)
  BY DEF Number
<1> QED BY <1>1 DEF EdgeOf

(* The start of a path is rejected for a reason, and draws no edge.        *)
LEMMA CollectStartChecked ==
  ASSUME TInv, Checked, engine = "general", CollectStart
  PROVE  Checked'
<1>1. query \in Queries /\ at \in Occurrences(query) /\ pc = "collect"
  BY InPathOccurrence
<1>2. CASE NodeError(NodeAt(query, at)) # "none"
  <2>1. Fail(NodeError(NodeAt(query, at))) /\ ~Understood
    BY <1>1, <1>2, NodeErrorRejects DEF CollectStart
  <2> QED BY <2>1, FailChecked
<1>3. CASE NodeError(NodeAt(query, at)) = "none" /\ Conflict(slots, at)
  <2>1. Fail("conflicting labels") /\ ~Understood
    BY <1>1, <1>3, ConflictRejects DEF CollectStart
  <2> QED BY <2>1, FailChecked
<1>4. CASE NodeError(NodeAt(query, at)) = "none" /\ ~Conflict(slots, at)
  <2>1. ~\E reason : reason # "none" /\ Fail(reason)
    BY <1>1, <1>4 DEF CollectStart, Fail
  <2>2. /\ Advance /\ at \notin Relationships(query) /\ edges' = edges
        /\ slots' = Merged(slots, at)
    BY <2>1, StartIs
  <2>3. PICK mm : mm = Merged(slots, at)
    OBVIOUS
  <2>4. /\ Len(slots') = Len(mm)
        /\ \A i \in 1..Len(mm) : Same(mm[i], slots'[i]) /\ slots'[i].label = mm[i].label
    BY <2>2, <2>3 DEF Same
  <2>5. /\ (Dispatched /\ AllCollected /\ Owned /\ NodesChecked /\ Labels)'
        /\ (TablesKnown /\ UsesChecked /\ HopChecked /\ PropsChecked /\ Refused)'
        /\ map' \in Maps
    BY <1>4, <2>2, <2>3, <2>4, AdvanceChecked
  <2>6. Mirrored'
    <3>1. /\ Live /\ query' = query /\ engine' = engine
          /\ \A o \in Occurrences(query) : Collected(o)' <=> Collected(o) \/ o = at
      BY <2>2, AdvancePlaces, AdvanceCollects
    <3>2. Connected' = Connected
      BY <2>2, <3>1 DEF Connected, Relationships
    <3>3. \A r : EdgeOf(r)' = EdgeOf(r)
      BY <3>1, EdgeOfStays
    <3> QED BY <2>2, <3>1, <3>2, <3>3 DEF Checked, Mirrored
  <2> QED BY <2>5, <2>6 DEF Checked
<1> QED BY <1>2, <1>3, <1>4

(* The relationship of a segment has the edge that was added.              *)
LEMMA SegmentMirrored ==
  ASSUME TInv, Checked, engine = "general", Advance, at \in Relationships(query),
         Len(edges') = Len(edges) + 1, Len(edges) \in Nat,
         \A e \in 1..Len(edges) : edges'[e] = edges[e],
         Drawn(edges'[Len(edges) + 1], RelAt(query, at))
  PROVE  Mirrored'
<1>1. PICK r : r = at
  OBVIOUS
<1>2. /\ Live /\ Live' /\ query' = query /\ engine' = engine /\ engine = "general"
      /\ \A o \in Occurrences(query) : Collected(o)' <=> Collected(o) \/ o = r
  BY <1>1, AdvancePlaces, AdvanceCollects
<1>3. Connected' = Connected \cup {r}
  BY <1>1, <1>2 DEF Connected, Relationships
<1>4. \A s : EdgeOf(s)' = EdgeOf(s)
  BY <1>2, EdgeOfStays
<1>5. EdgeOf(r) = Len(edges) + 1
  BY <1>1, <1>2, NumberNext DEF EdgeOf
<1>6. Mirrored
  BY DEF Checked
<1>7. \A s \in Connected : EdgeOf(s) \in 1..Len(edges) /\ Drawn(edges[EdgeOf(s)], RelAt(query, s))
  BY <1>2, <1>6, EdgePlace DEF Mirrored
<1>8. ASSUME NEW s \in Connected' PROVE Drawn(edges'[EdgeOf(s)], RelAt(query, s))
  <2>1. CASE s = r
    BY <1>1, <1>5, <2>1
  <2>2. CASE s \in Connected
    <3>1. edges'[EdgeOf(s)] = edges[EdgeOf(s)]
      BY <1>7, <2>2
    <3> QED BY <1>7, <2>2, <3>1
  <2> QED BY <1>3, <2>1, <2>2
<1>9. ASSUME NEW e \in 1..Len(edges') PROVE \E s \in Connected' : EdgeOf(s) = e
  <2>1. e \in 1..Len(edges) \/ e = Len(edges) + 1
    OBVIOUS
  <2>2. CASE e \in 1..Len(edges)
    BY <1>2, <1>3, <1>6, <2>2 DEF Mirrored
  <2> QED BY <1>3, <1>5, <2>1, <2>2
<1>10. \A s : Drawn(edges[EdgeOf(s)], RelAt(query, s))' <=> Drawn(edges'[EdgeOf(s)], RelAt(query, s))
  <2>1. TAKE s
  <2>2. EdgeOf(s)' = EdgeOf(s) /\ query' = query
    BY <1>2, <1>4
  <2> QED BY <2>2 DEF Drawn
<1> QED BY <1>2, <1>4, <1>8, <1>9, <1>10 DEF Mirrored

(* A segment is rejected for a reason, and its edge is drawn.              *)
LEMMA CollectSegmentChecked ==
  ASSUME TInv, Checked, engine = "general", CollectSegment
  PROVE  Checked'
<1>1. query \in Queries /\ at \in Occurrences(query) /\ pc = "collect"
  BY InPathOccurrence
<1>2. at \in Relationships(query)
  <2>1. PICK p, k \in Nat : at = << p, k >>
    BY DEF TInv, Places
  <2>2. at[2] \in 1..Len(query.paths[at[1]].segs)
    BY DEF CollectSegment
  <2>3. at[2] > 0
    BY <2>1, <2>2
  <2> QED BY <1>1, <2>3 DEF Relationships
<1>3. CASE NodeError(NodeAt(query, at)) # "none"
  <2>1. Fail(NodeError(NodeAt(query, at))) /\ ~Understood
    BY <1>1, <1>3, NodeErrorRejects DEF CollectSegment
  <2> QED BY <2>1, FailChecked
<1>4. CASE NodeError(NodeAt(query, at)) = "none" /\ Len(RelAt(query, at).types) > 1
  <2>1. Fail("multiple relationship types")
    BY <1>4 DEF CollectSegment
  <2>2. ~Understood
    BY <1>2, <1>4, TypesReject
  <2> QED BY <2>1, <2>2, FailChecked
<1>5. CASE /\ NodeError(NodeAt(query, at)) = "none" /\ ~(Len(RelAt(query, at).types) > 1)
           /\ Conflict(slots, at)
  <2>1. Fail("conflicting labels")
    BY <1>5 DEF CollectSegment
  <2>2. ~Understood
    BY <1>1, <1>5, ConflictRejects
  <2> QED BY <2>1, <2>2, FailChecked
<1>6. CASE /\ NodeError(NodeAt(query, at)) = "none" /\ ~(Len(RelAt(query, at).types) > 1)
           /\ ~Conflict(slots, at)
  <2>1. ~\E reason : reason # "none" /\ Fail(reason)
    BY <1>1, <1>6 DEF CollectSegment, Fail
  <2>2. PICK mm : mm = Merged(slots, at)
    OBVIOUS
  <2>3. PICK cur : cur = SlotIndex(mm, at)
    OBVIOUS
  <2>4. PICK src : src = IF RelAt(query, at).dir = "left" THEN cur ELSE prev
    OBVIOUS
  <2>5. PICK tgt : tgt = IF RelAt(query, at).dir = "left" THEN prev ELSE cur
    OBVIOUS
  <2>6. PICK ei : ei = Len(edges) + 1
    OBVIOUS
  <2>7. /\ Advance /\ Len(edges) \in Nat /\ Len(RelAt(query, at).types) <= 1
        /\ Len(edges') = ei
        /\ edges'[ei] = NewEdge(RelAt(query, at), src, tgt)
        /\ \A e \in 1..Len(edges) : edges'[e] = edges[e]
        /\ Len(slots') = Len(mm)
        /\ \A i \in 1..Len(mm) : Same(mm[i], slots'[i]) /\ slots'[i].label = mm[i].label
    BY <2>1, <2>2, <2>3, <2>4, <2>5, <2>6, SegmentIs
  <2>8. /\ (Dispatched /\ AllCollected /\ Owned /\ NodesChecked /\ Labels)'
        /\ (TablesKnown /\ UsesChecked /\ HopChecked /\ PropsChecked /\ Refused)'
        /\ map' \in Maps
    BY <1>6, <2>2, <2>7, AdvanceChecked
  <2>9. Drawn(edges'[ei], RelAt(query, at))
    BY <2>7 DEF Drawn, NewEdge
  <2>10. Mirrored'
    BY <1>2, <2>6, <2>7, <2>9, SegmentMirrored
  <2> QED BY <2>8, <2>10 DEF Checked
<1> QED BY <1>3, <1>4, <1>5, <1>6
(* The end of a path gathers nothing.                                      *)
LEMMA EndPathChecked ==
  ASSUME TInv, Checked, engine = "general", EndPath
  PROVE  Checked'
<1>1. /\ \A o \in Occurrences(query) : Collected(o)' <=> Collected(o)
      /\ UNCHANGED << query, map, engine, pc, prev, slots, edges, emitted, from, where, err >>
      /\ pc = "collect" /\ Live /\ Live'
  BY EndPathCollects DEF EndPath, Collecting, Live
<1>2. Gathered' = Gathered /\ Connected' = Connected
  BY <1>1 DEF Gathered, Connected, Relationships
<1>3. /\ \A o : Place(o)' = Place(o)
      /\ \A r : EdgeOf(r)' = EdgeOf(r)
      /\ \A o : Written(o)' = Written(o)
  <2>1. \A o : SlotIndex(slots, o)' = SlotIndex(slots, o)
    BY <1>1, SlotIndexPrimed
  <2> QED BY <1>1, <2>1, EdgeOfStays DEF Place, Written
<1>4. Dispatched' /\ NodesChecked'
  <2>1. HasVarlen' = HasVarlen /\ HasUndirected' = HasUndirected /\ SingleHop' = SingleHop
    BY <1>1 DEF HasVarlen, HasUndirected, SingleHop
  <2> QED BY <1>1, <1>2, <2>1 DEF Checked, Dispatched, NodesChecked
<1>5. Owned' /\ Mirrored'
  BY <1>1, <1>2, <1>3 DEF Checked, Owned, Mirrored, Drawn
<1>6. Labels'
  <2>1. \A i, l : Original(i, l)' <=> Original(i, l)
    BY <1>2, <1>3 DEF Original
  <2> QED BY <1>1, <2>1 DEF Checked, Labels
<1>7. (AllCollected /\ TablesKnown /\ UsesChecked /\ HopChecked /\ PropsChecked /\ Refused)'
  <2>1. emitted' = 0 /\ engine' = "general" /\ pc' = "collect"
    BY <1>1 DEF Checked, UsesChecked
  <2> QED BY <2>1 DEF AllCollected, TablesKnown, UsesChecked, HopChecked, PropsChecked, Refused
<1>8. map' \in Maps
  BY <1>1 DEF Checked
<1> QED BY <1>4, <1>5, <1>6, <1>7, <1>8 DEF Checked

(* Slots and edges that are left alone are kept.                           *)
LEMMA LeftAlone ==
  ASSUME TInv, query' = query, engine' = engine, at' = at, prev' = prev, slots' = slots,
         edges' = edges, emitted' = emitted, pc' # "collect"
  PROVE  Quiet /\ KeepsDrawings
<1>1. KeepsSlots /\ KeepsEdges /\ emitted \in 0..Len(query.uses)
  BY DEF TInv, Ranges, KeepsSlots, KeepsEdges, Same
<1> QED BY <1>1 DEF Quiet, KeepsDrawings

(* When the last path has ended all nodes are gathered.                    *)
LEMMA EndCollectChecked ==
  ASSUME TInv, Checked, engine = "general", EndCollect
  PROVE  Checked'
<1>1. /\ pc = "collect" /\ pc' = "resolve" /\ Live /\ at[1] > Len(query.paths)
      /\ query' = query /\ map' = map /\ engine' = engine /\ at' = at /\ prev' = prev
      /\ slots' = slots /\ edges' = edges /\ emitted' = emitted
  BY DEF EndCollect, Goto, Live
<1>2. Quiet /\ KeepsDrawings
  BY <1>1, LeftAlone
<1>3. (Dispatched /\ AllCollected /\ Owned /\ Mirrored /\ NodesChecked /\ HopChecked /\ Refused)'
  BY <1>1, <1>2, QuietChecked
<1>4. Labels'
  BY <1>1, <1>2, QuietStays DEF Checked, Labels
<1>5. (TablesKnown /\ UsesChecked /\ PropsChecked)' /\ map' \in Maps
  <2>1. emitted' = 0
    BY <1>1 DEF Checked, UsesChecked
  <2> QED BY <1>1, <2>1 DEF Checked, TablesKnown, UsesChecked, PropsChecked
<1> QED BY <1>3, <1>4, <1>5 DEF Checked

-----------------------------------------------------------------------------
(***************************************************************************)
(* Labels, aliases and lone nodes of the general engine.                   *)
(***************************************************************************)
(* A slot's label that is ambiguous or of no table is a label of a node.   *)
LEMMA LabelRejects ==
  ASSUME query \in Queries, map \in Maps, NEW i, NEW l, Original(i, l),
         \/ Ambiguous(map, l)
         \/ Resolve(map, l).table # NoLabel /\ Resolve(map, l).table \notin Catalog
  PROVE  ~Understood
<1>1. l # NoLabel
  BY ResolveKeepsLabels
<1>2. PICK o \in Occurrences(query) : Written(o) = l
  BY <1>1 DEF Original, Gathered
<1>3. l \in LabelsOf(query, o)
  <2>1. SameNode(query, o, o)
    BY DEF SameNode
  <2> QED BY <1>1, <1>2, <2>1, WrittenIs
<1>4. ~NodeUnderstood(o)
  BY <1>3 DEF NodeUnderstood
<1> QED BY <1>4 DEF Understood

(* Labels are resolved unless one is ambiguous.                            *)
LEMMA ResolveLabelsChecked ==
  ASSUME TInv, Checked, engine = "general", ResolveLabels
  PROVE  Checked'
<1>1. /\ query \in Queries /\ map \in Maps /\ pc = "resolve" /\ Live
      /\ \A i \in 1..Len(slots) : Original(i, slots[i].label)
  BY DEF TInv, Places, Checked, Labels, ResolveLabels, Live
<1>2. CASE \E i \in 1..Len(slots) : Ambiguous(map, slots[i].label)
  <2>1. Fail("ambiguous label")
    BY <1>2 DEF ResolveLabels
  <2>2. ~Understood
    BY <1>1, <1>2, LabelRejects
  <2> QED BY <2>1, <2>2, FailChecked
<1>3. CASE ~\E i \in 1..Len(slots) : Ambiguous(map, slots[i].label)
  <2>1. /\ slots' = [ i \in 1..Len(slots) |-> Resolved(slots[i]) ]
        /\ pc' = "name" /\ query' = query /\ map' = map /\ engine' = engine
        /\ at' = at /\ prev' = prev /\ edges' = edges /\ emitted' = emitted
    BY <1>3 DEF ResolveLabels, Goto
  <2>2. \A i \in 1..Len(slots) : DOMAIN slots[i] = SlotFields /\ slots'[i] = Resolved(slots[i])
    BY <2>1 DEF TInv, Ranges, Listing
  <2>3. KeepsSlots
    <3>1. slots' = [ i \in 1..Len(slots) |-> slots'[i] ]
      BY <2>1
    <3> QED BY <2>2, <3>1, ResolvedIs, MappedSlots
  <2>4. Quiet /\ KeepsDrawings
    <3>1. KeepsEdges /\ emitted \in 0..Len(query.uses)
      BY <2>1 DEF TInv, Ranges, KeepsEdges
    <3> QED BY <2>1, <2>3, <3>1 DEF Quiet, KeepsDrawings
  <2>5. (Dispatched /\ AllCollected /\ Owned /\ Mirrored /\ NodesChecked /\ HopChecked /\ Refused)'
    BY <1>1, <2>1, <2>4, QuietChecked
  <2>6. Labels'
    <3>1. \A i, l : Original(i, l)' <=> Original(i, l)
      BY <2>4, QuietStays
    <3>2. Len(slots') = Len(slots)
      BY <2>3 DEF KeepsSlots
    <3>3. \A i \in 1..Len(slots) : /\ slots'[i].label = Resolve(map, slots[i].label).table
                                   /\ slots'[i].name = Resolve(map, slots[i].label).name
      BY <2>2 DEF Resolved, SlotFields
    <3>4. \A i \in 1..Len(slots') : \E l : Original(i, l)' /\ Reads(slots'[i], l)
      BY <1>1, <1>3, <3>1, <3>2, <3>3 DEF Reads
    <3>5. \A s, l : Reads(s, l)' <=> Reads(s, l)
      BY <2>1 DEF Reads
    <3> QED BY <2>1, <3>4, <3>5 DEF Labels
  <2>7. (TablesKnown /\ UsesChecked /\ PropsChecked)' /\ map' \in Maps
    <3>1. emitted' = 0
      BY <1>1, <2>1 DEF Checked, UsesChecked
    <3> QED BY <1>1, <2>1, <3>1 DEF TablesKnown, UsesChecked, PropsChecked
  <2> QED BY <2>5, <2>6, <2>7 DEF Checked
<1> QED BY <1>2, <1>3

(* A quiet step keeps the labels that were read.                           *)
LEMMA KeepsLabels ==
  ASSUME TInv, Checked, Live, pc \notin { "collect", "resolve" }, Quiet, map' = map,
         pc' \notin { "collect", "resolve" },
         \A i \in 1..Len(slots) : slots'[i].label = slots[i].label /\ slots'[i].name = slots[i].name
  PROVE  Labels'
<1>1. Len(slots') = Len(slots)
  BY DEF Quiet, KeepsSlots
<1>2. \A i, l : Original(i, l)' <=> Original(i, l)
  BY QuietStays
<1>3. \A i \in 1..Len(slots) : \E l : Original(i, l) /\ Reads(slots[i], l)
  BY DEF Checked, Labels
<1>4. \A i \in 1..Len(slots') : \E l : Original(i, l)' /\ Reads(slots'[i], l)
  BY <1>1, <1>2, <1>3 DEF Reads
<1>5. \A s, l : Reads(s, l)' <=> Reads(s, l)
  BY DEF Reads
<1> QED BY <1>4, <1>5 DEF Labels

(* Naming edges checks nothing.                                            *)
LEMMA NameEdgesChecked ==
  ASSUME TInv, Checked, engine = "general", NameEdges
  PROVE  Checked'
<1>1. /\ pc = "name" /\ pc' = "check" /\ Live
      /\ query' = query /\ map' = map /\ engine' = engine /\ at' = at /\ prev' = prev
      /\ slots' = slots /\ emitted' = emitted
  BY DEF NameEdges, Goto, Live
<1>2. /\ edges' = [ i \in 1..Len(edges) |-> edges'[i] ]
      /\ \A i \in 1..Len(edges) :
           /\ DOMAIN edges'[i] = EdgeFields
           /\ edges'[i].src = edges[i].src /\ edges'[i].tgt = edges[i].tgt
           /\ edges'[i].var = edges[i].var /\ edges'[i].types = edges[i].types
           /\ edges'[i].props = edges[i].props
  <2>1. \A i \in 1..Len(edges) : DOMAIN edges[i] = EdgeFields
    BY DEF TInv, Ranges, Listing
  <2> QED BY <2>1 DEF NameEdges, EdgeFields
<1>3. Quiet /\ KeepsDrawings
  <2>1. Len(edges) \in Nat
    BY DEF TInv, Ranges, Listing
  <2>2. KeepsEdges
    BY <1>2, <2>1, Mapped DEF KeepsEdges
  <2>3. KeepsSlots /\ emitted \in 0..Len(query.uses)
    BY <1>1 DEF TInv, Ranges, KeepsSlots, Same
  <2> QED BY <1>1, <1>2, <2>2, <2>3 DEF Quiet, KeepsDrawings
<1>4. (Dispatched /\ AllCollected /\ Owned /\ Mirrored /\ NodesChecked /\ HopChecked /\ Refused)'
  BY <1>1, <1>3, QuietChecked
<1>5. Labels'
  BY <1>1, <1>3, KeepsLabels
<1>6. (TablesKnown /\ UsesChecked /\ PropsChecked)' /\ map' \in Maps
  <2>1. emitted' = 0
    BY <1>1 DEF Checked, UsesChecked
  <2> QED BY <1>1, <2>1 DEF Checked, TablesKnown, UsesChecked, PropsChecked
<1> QED BY <1>4, <1>5, <1>6 DEF Checked
(* A slot has no anchor exactly when its node is on no relationship.       *)
LEMMA LoneAnchor ==
  ASSUME TInv, Checked, engine = "general", Live, pc # "collect",
         NEW o \in Occurrences(query), NEW i, i = Place(o)
  PROVE  i \in 1..Len(slots) /\ (slots[i].anchor_edge = 0 <=> Lone(query, o))
<1>1. /\ Gathered = Occurrences(query) /\ Connected = Relationships(query)
      /\ i = SlotIndex(slots, o) /\ Len(slots) \in Nat
  <2>1. Gathered = Occurrences(query) /\ Connected = Relationships(query)
    BY AllGathered DEF Checked
  <2>2. Len(slots) \in Nat
    BY DEF TInv, Ranges, Listing
  <2> QED BY <2>1, <2>2 DEF Place
<1>2. i \in 1..Len(slots)
  BY <1>1, PlaceHas DEF Checked
<1>3. ASSUME NEW r \in Relationships(query)
      PROVE  /\ Number(r) \in 1..Len(edges)
             /\ i = edges[Number(r)].src <=> SameNode(query, o, EndOf(query, r, FALSE))
             /\ i = edges[Number(r)].tgt <=> SameNode(query, o, EndOf(query, r, TRUE))
  <2>1. r \in Done /\ Number(r) \in 1..Len(edges)
    BY <1>1, EdgePlace DEF Checked, Connected, Done, EdgeOf
  <2>2. PICK source, target : source = EndOf(query, r, FALSE) /\ target = EndOf(query, r, TRUE)
    OBVIOUS
  <2>3. /\ edges[Number(r)].src = SlotIndex(slots, source)
        /\ edges[Number(r)].tgt = SlotIndex(slots, target)
    BY <2>1, <2>2 DEF TInv, Numbered
  <2>4. edges[Number(r)].src # 0 /\ edges[Number(r)].tgt # 0
    BY <1>1, <2>1 DEF TInv, Ranges
  <2>5. SlotIndex(slots, source) # 0 /\ SlotIndex(slots, target) # 0 /\ SlotIndex(slots, o) # 0
    BY <1>1, <1>2, <2>3, <2>4
  <2>6. /\ i = SlotIndex(slots, source) <=> SameNode(query, o, source)
        /\ i = SlotIndex(slots, target) <=> SameNode(query, o, target)
    BY <1>1, <2>5, SameSlot
  <2> QED BY <2>1, <2>2, <2>3, <2>6
<1>4. ASSUME NEW e \in 1..Len(edges)
      PROVE  \E r \in Relationships(query) : Number(r) = e
  BY <1>1 DEF Checked, Mirrored, EdgeOf
<1> DEFINE on == { e \in 1..Len(edges) : i \in {edges[e].src, edges[e].tgt} }
<1>5. slots[i].anchor_edge = 0 <=> on = {}
  <2>1. IF on = {} THEN slots[i].anchor_edge = 0 ELSE slots[i].anchor_edge \in on
    BY <1>2 DEF TInv, AnchorsFirst
  <2>2. 0 \notin on
    OBVIOUS
  <2> HIDE DEF on
  <2> QED BY <2>1, <2>2
<1>6. ASSUME Lone(query, o) PROVE on = {}
  <2>1. SUFFICES ASSUME NEW e \in on PROVE FALSE
    OBVIOUS
  <2>2. PICK r \in Relationships(query) : Number(r) = e
    BY <1>4, <2>1
  <2>3. PICK b \in BOOLEAN : SameNode(query, o, EndOf(query, r, b))
    <3>1. SameNode(query, o, EndOf(query, r, FALSE)) \/ SameNode(query, o, EndOf(query, r, TRUE))
      BY <1>3, <2>1, <2>2
    <3> QED BY <3>1
  <2> QED BY <1>6, <2>2, <2>3 DEF Lone
<1>7. ASSUME on = {} PROVE Lone(query, o)
  <2>1. SUFFICES ASSUME NEW r \in Relationships(query), NEW b \in BOOLEAN,
                        SameNode(query, o, EndOf(query, r, b))
                 PROVE  FALSE
    BY DEF Lone
  <2>2. CASE b = FALSE
    <3>1. SameNode(query, o, EndOf(query, r, FALSE))
      BY <2>1, <2>2
    <3>2. Number(r) \in on
      BY <1>3, <3>1
    <3> QED BY <1>7, <3>2
  <2>3. CASE b = TRUE
    <3>1. SameNode(query, o, EndOf(query, r, TRUE))
      BY <2>1, <2>3
    <3>2. Number(r) \in on
      BY <1>3, <3>1
    <3> QED BY <1>7, <3>2
  <2> QED BY <2>2, <2>3
<1> QED BY <1>2, <1>5, <1>6, <1>7

(* A slot in error is of a node with an unknown table, or of a lone node   *)
(* without a label.                                                        *)
LEMMA SlotErrorRejects ==
  ASSUME TInv, Checked, engine = "general", pc = "check",
         NEW i \in 1..Len(slots), SlotError(slots[i]) # "none"
  PROVE  ~Understood
<1>1. /\ Live /\ query \in Queries /\ map \in Maps /\ Gathered = Occurrences(query)
      /\ Sound /\ Dispatched /\ NodesChecked
  BY AllGathered DEF Live, TInv, Places, Checked, Sound
<1>2. PICK l : Original(i, l) /\ ~Ambiguous(map, l) /\ slots[i].label = Resolve(map, l).table
  BY <1>1 DEF Checked, Labels, Reads
<1>3. CASE UnknownTable(slots[i])
  <2>1. Resolve(map, l).table # NoLabel /\ Resolve(map, l).table \notin Catalog
    BY <1>2, <1>3 DEF UnknownTable
  <2> QED BY <1>1, <1>2, <2>1, LabelRejects
<1>4. CASE slots[i].anchor_edge = 0 /\ slots[i].label = NoLabel
  <2>1. PICK o : o = slots[i].np
    OBVIOUS
  <2>2. o \in Occurrences(query) /\ Place(o) = i
    BY <1>1, <2>1 DEF Checked, Owned
  <2>3. Lone(query, o)
    BY <1>1, <1>4, <2>2, LoneAnchor
  <2>4. l = NoLabel
    BY <1>1, <1>2, <1>4, ResolveKeepsLabels
  <2>5. LabelsOf(query, o) = {}
    BY <1>1, <1>2, <2>2, <2>4, LabelsAre
  <2> QED BY <2>2, <2>3, <2>5 DEF Understood, NodeUnderstood
<1> QED BY <1>3, <1>4 DEF SlotError

(* Slots are checked before any reference is emitted.                      *)
LEMMA CheckSlotsChecked ==
  ASSUME TInv, Checked, engine = "general", CheckSlots
  PROVE  Checked'
<1> DEFINE bad == { i \in 1..Len(slots) : SlotError(slots[i]) # "none" }
<1>1. /\ Len(slots) \in Nat /\ \A i \in 1..Len(slots) : DOMAIN slots[i] = SlotFields
      /\ pc = "check" /\ Live
  <2>1. Listing(slots, SlotFields) /\ pc = "check"
    BY DEF TInv, Ranges, CheckSlots
  <2> QED BY <2>1 DEF Listing, Live
<1>2. CASE bad # {}
  <2>1. Fail(SlotError(slots[Least(bad)]))
    BY <1>2 DEF CheckSlots
  <2>2. ~Understood
    BY <1>1, <1>2, SlotErrorRejects
  <2> QED BY <2>1, <2>2, FailChecked
<1>3. CASE bad = {}
  <2>1. /\ slots' = [ i \in 1..Len(slots) |->
                        LET lone == slots[i].anchor_edge = 0
                        IN  [ slots[i] EXCEPT !.is_lone = lone,
                                !.alias = IF lone /\ @ = Anon THEN << "_n", i >> ELSE @ ] ]
        /\ pc' = "emit" /\ query' = query /\ map' = map /\ engine' = engine
        /\ at' = at /\ prev' = prev /\ edges' = edges /\ emitted' = emitted
    BY <1>3 DEF CheckSlots, Goto
  <2>2. /\ slots' = [ i \in 1..Len(slots) |-> slots'[i] ]
        /\ \A i \in 1..Len(slots) :
             /\ DOMAIN slots'[i] = SlotFields /\ Same(slots[i], slots'[i])
             /\ slots'[i].anchor_edge = slots[i].anchor_edge
             /\ slots'[i].anchor_target = slots[i].anchor_target
             /\ slots'[i].label = slots[i].label /\ slots'[i].name = slots[i].name
    BY <1>1, <2>1 DEF SlotFields, Same
  <2>3. KeepsSlots
    BY <2>2, MappedSlots
  <2>4. Quiet /\ KeepsDrawings
    <3>1. KeepsEdges /\ emitted \in 0..Len(query.uses)
      BY <2>1 DEF TInv, Ranges, KeepsEdges
    <3> QED BY <2>1, <2>3, <3>1 DEF Quiet, KeepsDrawings
  <2>5. (Dispatched /\ AllCollected /\ Owned /\ Mirrored /\ NodesChecked /\ HopChecked /\ Refused)'
    BY <1>1, <2>1, <2>4, QuietChecked
  <2>6. Labels'
    BY <1>1, <2>1, <2>2, <2>4, KeepsLabels
  <2>7. TablesKnown'
    <3>1. \A i \in 1..Len(slots) : SlotError(slots[i]) = "none"
      BY <1>3
    <3>2. \A i \in 1..Len(slots) :
            ~UnknownTable(slots[i]) /\ (slots[i].anchor_edge = 0 => slots[i].label # NoLabel)
      BY <3>1 DEF SlotError
    <3>3. Len(slots') = Len(slots)
      BY <2>3 DEF KeepsSlots
    <3> QED BY <2>2, <3>2, <3>3 DEF TablesKnown, UnknownTable
  <2>8. (UsesChecked /\ PropsChecked)' /\ map' \in Maps
    <3>1. emitted' = 0 /\ pc' = "emit" /\ map' \in Maps
      BY <1>1, <2>1 DEF Checked, UsesChecked
    <3>2. 1..0 = {}
      OBVIOUS
    <3> QED BY <3>1, <3>2 DEF UsesChecked, PropsChecked
  <2> QED BY <2>5, <2>6, <2>7, <2>8 DEF Checked
<1> QED BY <1>2, <1>3
-----------------------------------------------------------------------------
(***************************************************************************)
(* References, and the predicates of the pattern.                          *)
(***************************************************************************)
(* A reference is bound exactly when it is one that is understood.         *)
LEMMA BindIsUnderstood ==
  ASSUME TInv, Checked, pc = "emit", emitted < Len(query.uses), Sound,
         NEW use, use = query.uses[emitted + 1]
  PROVE  BindError(use) = "none" <=> UseUnderstood(use)
<1> DEFINE v     == use.var
           nodes == { o \in Occurrences(query) : NodeAt(query, o).var = v }
           rels  == { r \in Relationships(query) : RelAt(query, r).var = v }
<1>1. /\ Live /\ query \in Queries /\ map \in Maps /\ Len(slots) \in Nat
      /\ Gathered = Occurrences(query) /\ Connected = Relationships(query)
      /\ Dispatched /\ Owned /\ Mirrored /\ NodesChecked
  BY AllGathered DEF Live, TInv, Places, Ranges, Listing, Checked
<1>2. v # Anon
  <2>1. emitted + 1 \in 1..Len(query.uses)
    <3>1. Len(query.uses) \in Nat /\ emitted \in 0..Len(query.uses)
      BY <1>1, QueriesAssumption DEF TInv, Ranges
    <3> QED BY <3>1
  <2> QED BY <1>1, <2>1, WrittenAssumption
<1> HIDE DEF v
<1>3. ASSUME NEW o \in nodes PROVE Place(o) \in NodesNamed(v)
  BY <1>1, PlaceHas DEF NodesNamed
<1>4. ASSUME NEW i \in NodesNamed(v)
      PROVE  i \in 1..Len(slots) /\ \E o \in nodes : Place(o) = i
  BY <1>1 DEF NodesNamed, Owned
<1>5. rels = {} <=> EdgesNamed(v) = {}
  <2>1. ASSUME NEW r \in rels PROVE EdgeOf(r) \in EdgesNamed(v)
    BY <1>1, EdgePlace DEF EdgesNamed, Mirrored, Drawn
  <2>2. ASSUME NEW e \in EdgesNamed(v) PROVE \E r \in rels : EdgeOf(r) = e
    BY <1>1 DEF EdgesNamed, Mirrored, Drawn
  <2> QED BY <2>1, <2>2
<1>6. UseUnderstood(use) <=>
        use.known /\ nodes \cup rels # {} /\ \A o \in nodes : LabelsOf(query, o) # {}
  BY DEF UseUnderstood, v
<1>7. CASE NodesNamed(v) = {}
  <2>1. nodes = {}
    BY <1>3, <1>7
  <2> HIDE DEF nodes, rels
  <2> QED BY <1>5, <1>6, <1>7, <2>1 DEF BindError, v
<1>8. CASE NodesNamed(v) # {}
  <2> DEFINE i == Least(NodesNamed(v))
  <2>1. i \in NodesNamed(v)
    <3>1. NodesNamed(v) \subseteq 1..Len(slots)
      BY DEF NodesNamed
    <3>2. \E k \in NodesNamed(v) : \A j \in NodesNamed(v) : k <= j
      BY <1>1, <1>8, <3>1, LeastIndex
    <3> QED BY <3>2 DEF Least
  <2> HIDE DEF i
  <2>2. PICK n \in nodes : Place(n) = i
    BY <1>4, <2>1
  <2>3. PICK l : Original(i, l) /\ slots[i].label = Resolve(map, l).table
    BY <1>1, <1>4, <2>1 DEF Checked, Labels, Reads
  <2>4. slots[i].label = NoLabel <=> l = NoLabel
    BY <1>1, <2>3, ResolveKeepsLabels
  <2>5. ASSUME NEW o \in nodes PROVE LabelsOf(query, o) = { l } \ { NoLabel }
    <3>1. SameNode(query, o, n)
      BY <1>2 DEF SameNode
    <3>2. o \in Gathered /\ n \in Gathered
      BY <1>1
    <3>3. Place(o) = i
      BY <1>1, <2>2, <3>1, <3>2, SamePlace
    <3> QED BY <1>1, <2>3, <3>3, LabelsAre
  <2>6. (\A o \in nodes : LabelsOf(query, o) # {}) <=> l # NoLabel
    BY <2>2, <2>5
  <2>7. nodes # {}
    BY <2>2
  <2> HIDE DEF nodes, rels
  <2> QED BY <1>5, <1>6, <1>8, <2>4, <2>6, <2>7 DEF BindError, v, i
<1> QED BY <1>7, <1>8

(* A reference that is not bound is none that is understood.               *)
LEMMA EmitReferenceChecked ==
  ASSUME TInv, Checked, engine # "none", EmitReference
  PROVE  Checked'
<1> DEFINE named == NodesNamed(query.uses[emitted + 1].var)
<1>0. PICK use : use = query.uses[emitted + 1]
  OBVIOUS
<1>1. /\ pc = "emit" /\ emitted < Len(query.uses) /\ Live /\ query \in Queries /\ map \in Maps
      /\ Len(query.uses) \in Nat /\ emitted \in 0..Len(query.uses)
      /\ Listing(slots, SlotFields)
  BY QueriesAssumption DEF EmitReference, Live, TInv, Places, Ranges, Checked
<1>2. Sound => (BindError(use) = "none" <=> UseUnderstood(use))
  BY <1>0, <1>1, BindIsUnderstood
<1>3. CASE BindError(use) # "none"
  <2>1. Fail(BindError(use))
    BY <1>0, <1>3 DEF EmitReference
  <2>2. emitted + 1 \in 1..Len(query.uses)
    BY <1>1
  <2>3. Sound => ~Understood
    BY <1>0, <1>2, <1>3, <2>2 DEF Understood
  <2> QED BY <2>1, <2>3, FailChecked
<1>4. CASE BindError(use) = "none"
  <2>1. /\ slots' = IF named = {} THEN slots
                    ELSE [ slots EXCEPT ![Least(named)].referenced = TRUE ]
        /\ pc' = "emit" /\ emitted' = emitted + 1 /\ query' = query /\ map' = map
        /\ engine' = engine /\ at' = at /\ prev' = prev /\ edges' = edges
    BY <1>0, <1>1, <1>4 DEF EmitReference
  <2>2. /\ DOMAIN slots = 1..Len(slots) /\ Len(slots) \in Nat
        /\ \A i \in 1..Len(slots) : DOMAIN slots[i] = SlotFields
    BY <1>1 DEF Listing
  <2>3. \A i \in 1..Len(slots) :
          /\ DOMAIN slots'[i] = SlotFields /\ Same(slots[i], slots'[i])
          /\ slots'[i].anchor_edge = slots[i].anchor_edge
          /\ slots'[i].anchor_target = slots[i].anchor_target
          /\ slots'[i].label = slots[i].label /\ slots'[i].name = slots[i].name
    <3>1. CASE named = {}
      BY <2>1, <2>2, <3>1 DEF Same
    <3>2. CASE named # {}
      <4>1. slots' = [ slots EXCEPT ![Least(named)] =
                         [ slots[Least(named)] EXCEPT !.referenced = TRUE ] ]
        BY <2>1, <3>2
      <4> HIDE DEF named
      <4>2. \A i \in 1..Len(slots) :
              slots'[i] = IF i = Least(named) THEN [ slots[i] EXCEPT !.referenced = TRUE ]
                          ELSE slots[i]
        BY <2>2, <4>1
      <4> QED BY <2>2, <4>2 DEF SlotFields, Same
    <3> QED BY <3>1, <3>2
  <2>4. slots' = [ i \in 1..Len(slots) |-> slots'[i] ]
    <3>1. CASE named = {}
      BY <1>1, <2>1, <3>1 DEF Listing
    <3>2. CASE named # {}
      <4>1. slots' = [ i \in DOMAIN slots |-> slots'[i] ]
        BY <2>1, <3>2
      <4> QED BY <2>2, <4>1
    <3> QED BY <3>1, <3>2
  <2>5. KeepsSlots
    BY <2>3, <2>4, MappedSlots
  <2>6. Quiet /\ KeepsDrawings
    <3>1. KeepsEdges
      BY <2>1 DEF TInv, Ranges, KeepsEdges
    <3>2. emitted' \in 0..Len(query.uses)
      BY <1>1, <2>1
    <3> QED BY <2>1, <2>5, <3>1, <3>2 DEF Quiet, KeepsDrawings
  <2>7. (Dispatched /\ AllCollected /\ Owned /\ Mirrored /\ NodesChecked /\ HopChecked /\ Refused)'
    BY <1>1, <2>1, <2>6, QuietChecked
  <2>8. Labels'
    BY <1>1, <2>1, <2>3, <2>6, KeepsLabels
  <2>9. TablesKnown'
    <3>1. Len(slots') = Len(slots)
      BY <2>5 DEF KeepsSlots
    <3> QED BY <1>1, <2>1, <2>3, <3>1 DEF Checked, TablesKnown, UnknownTable
  <2>10. UsesChecked'
    <3>1. Sound => \A k \in 1..emitted : UseUnderstood(query.uses[k])
      BY <1>1 DEF Checked, UsesChecked
    <3>2. Sound => UseUnderstood(query.uses[emitted + 1])
      BY <1>0, <1>2, <1>4
    <3>3. Sound => \A k \in 1..(emitted + 1) : UseUnderstood(query.uses[k])
      <4>1. \A k \in 1..(emitted + 1) : k \in 1..emitted \/ k = emitted + 1
        BY <1>1
      <4> QED BY <3>1, <3>2, <4>1
    <3>4. (Sound' <=> Sound) /\ \A u : UseUnderstood(u)' <=> UseUnderstood(u)
      BY <2>1, SameQuestion
    <3> QED BY <2>1, <3>3, <3>4 DEF UsesChecked
  <2>11. PropsChecked' /\ map' \in Maps
    BY <1>1, <2>1 DEF PropsChecked
  <2> QED BY <2>7, <2>8, <2>9, <2>10, <2>11 DEF Checked
<1> QED BY <1>3, <1>4
(* An edge has the properties of its relationship.                         *)
LEMMA EdgeProps ==
  ASSUME TInv, Checked, Live, pc # "collect"
  PROVE  /\ (\A e \in 1..Len(edges) : PropsKnown(edges[e])) =>
              \A r \in Relationships(query) : PropsKnown(RelAt(query, r))
         /\ (\E e \in 1..Len(edges) : ~PropsKnown(edges[e])) => ~Understood
<1>1. Connected = Relationships(query)
  BY AllGathered DEF Checked
<1>2. ASSUME NEW r \in Relationships(query)
      PROVE  /\ EdgeOf(r) \in 1..Len(edges)
             /\ PropsKnown(edges[EdgeOf(r)]) <=> PropsKnown(RelAt(query, r))
  <2>1. EdgeOf(r) \in 1..Len(edges) /\ edges[EdgeOf(r)].props = RelAt(query, r).props
    BY <1>1, EdgePlace DEF Checked, Mirrored, Drawn
  <2> QED BY <2>1 DEF PropsKnown
<1>3. ASSUME NEW e \in 1..Len(edges) PROVE \E r \in Relationships(query) : EdgeOf(r) = e
  BY <1>1 DEF Checked, Mirrored
<1>4. ASSUME NEW r \in Relationships(query), ~PropsKnown(RelAt(query, r)) PROVE ~Understood
  BY <1>4 DEF Understood, RelUnderstood
<1> QED BY <1>2, <1>3, <1>4

(* A step from the references on that checks what is left to check.        *)
LEMMA OnwardChecked ==
  ASSUME TInv, Checked, pc \in { "emit", "where" }, NEW phase, phase \in { "where", "done" },
         Onward(phase), pc = "emit" => emitted = Len(query.uses),
         phase = "done" /\ engine # "varlen" => \A e \in 1..Len(edges) : PropsKnown(edges[e])
  PROVE  Checked'
<1>1. /\ Live /\ pc' = phase /\ query' = query /\ map' = map /\ engine' = engine
      /\ at' = at /\ prev' = prev /\ slots' = slots /\ edges' = edges /\ emitted' = emitted
  BY DEF Onward, Goto, Live
<1>2. Quiet /\ KeepsDrawings
  BY <1>1, LeftAlone
<1>3. (Dispatched /\ AllCollected /\ Owned /\ Mirrored /\ NodesChecked /\ HopChecked /\ Refused)'
  BY <1>1, <1>2, QuietChecked
<1>4. Labels'
  BY <1>1, <1>2, KeepsLabels
<1>5. TablesKnown'
  BY <1>1 DEF Checked, TablesKnown, UnknownTable
<1>6. UsesChecked'
  <2>1. (Sound' <=> Sound) /\ \A u : UseUnderstood(u)' <=> UseUnderstood(u)
    BY <1>1, SameQuestion
  <2>2. emitted = Len(query.uses)
    BY DEF Checked, UsesChecked
  <2> QED BY <1>1, <2>1, <2>2 DEF Checked, UsesChecked
<1>7. PropsChecked'
  <2>1. phase = "done" /\ engine # "varlen" =>
          \A r \in Relationships(query) : PropsKnown(RelAt(query, r))
    BY <1>1, EdgeProps
  <2> QED BY <1>1, <2>1 DEF PropsChecked, PropsKnown
<1>8. map' \in Maps
  BY <1>1 DEF Checked
<1> QED BY <1>3, <1>4, <1>5, <1>6, <1>7, <1>8 DEF Checked

(* FROM is built once the references are emitted, and WHERE is built       *)
(* unless a relationship has a property that is not known.                 *)
LEMMA EmitChecked ==
  ASSUME TInv, Checked,
         \/ engine = "general" /\ (EmitFrom \/ EmitWhere)
         \/ engine = "undirected" /\ EmitUndirected
         \/ engine = "varlen" /\ EmitVarlen
  PROVE  Checked'
<1>1. CASE EmitFrom
  <2>1. pc = "emit" /\ emitted = Len(query.uses) /\ Onward("where")
    BY <1>1 DEF EmitFrom, AllEmitted, Onward
  <2> QED BY <2>1, OnwardChecked
<1>2. CASE EmitWhere /\ engine = "general"
  <2>1. pc = "where" /\ Live
    BY <1>2 DEF EmitWhere, Live
  <2>2. CASE \E e \in 1..Len(edges) : ~PropsKnown(edges[e])
    <3>1. Fail("relationship property")
      BY <1>2, <2>2 DEF EmitWhere
    <3> QED BY <2>1, <2>2, <3>1, EdgeProps, FailChecked
  <2>3. CASE ~\E e \in 1..Len(edges) : ~PropsKnown(edges[e])
    <3>1. Onward("done")
      BY <1>2, <2>3 DEF EmitWhere, Onward
    <3> QED BY <2>1, <2>3, <3>1, OnwardChecked
  <2> QED BY <2>2, <2>3
<1>3. CASE EmitUndirected /\ engine = "undirected"
  <2>1. pc = "emit" /\ emitted = Len(query.uses) /\ Live /\ Len(edges) = 1
    <3>1. pc = "emit" /\ emitted = Len(query.uses) /\ Live
      BY <1>3 DEF EmitUndirected, AllEmitted, Live
    <3> QED BY <1>3, <3>1 DEF Checked, Mirrored
  <2>2. CASE ~PropsKnown(edges[1])
    <3>1. Fail("relationship property")
      BY <1>3, <2>2 DEF EmitUndirected
    <3>2. \E e \in 1..Len(edges) : ~PropsKnown(edges[e])
      BY <2>1, <2>2
    <3> QED BY <2>1, <3>1, <3>2, EdgeProps, FailChecked
  <2>3. CASE PropsKnown(edges[1])
    <3>1. Onward("done")
      BY <1>3, <2>3 DEF EmitUndirected, Onward
    <3>2. \A e \in 1..Len(edges) : PropsKnown(edges[e])
      <4>1. \A e \in 1..1 : e = 1
        OBVIOUS
      <4> QED BY <2>1, <2>3, <4>1
    <3> QED BY <2>1, <3>1, <3>2, OnwardChecked
  <2> QED BY <2>2, <2>3
<1>4. CASE EmitVarlen /\ engine = "varlen"
  <2>1. pc = "emit" /\ emitted = Len(query.uses) /\ Onward("done")
    BY <1>4 DEF EmitVarlen, AllEmitted, Onward
  <2> QED BY <1>4, <2>1, OnwardChecked
<1> QED BY <1>1, <1>2, <1>3, <1>4
-----------------------------------------------------------------------------
(***************************************************************************)
(* The engines for a hop.                                                  *)
(***************************************************************************)
(* A number that fits an int is read as it was written.                    *)
LEMMA AtoiFits ==
  ASSUME NEW n \in Nat, n < 2^(IntBits - 1)
  PROVE  Atoi(n) = n
<1> DEFINE half == 2^(IntBits - 1)
           size == 2^IntBits
           most == 2^(LongBits - 1)
<1>1. half \in Nat /\ size \in Nat /\ most \in Nat /\ half < size /\ half <= most /\ n < half
  BY WidthsAssumption
<1> HIDE DEF half, size, most
<1>2. n % size = n
  BY <1>1
<1>3. ~(n >= most) /\ ~(n >= half)
  BY <1>1
<1> QED BY <1>2, <1>3 DEF Atoi, half, size, most

(* Bounds that fit are in error exactly when they are not understood.      *)
LEMMA BoundsAre ==
  ASSUME query \in Queries, TheHop \in Relationships(query), engine = "varlen", BoundsFit
  PROVE  BoundsError = "none" <=>
           /\ Star.has_min => Star.min >= 1
           /\ Star.has_max => Star.max >= 1
           /\ Star.has_min /\ Star.has_max => Star.min <= Star.max
<1>1. Star.min \in Nat /\ Star.max \in Nat
  BY WrittenAssumption DEF Star
<1>2. Star.has_min => LowerBound = Star.min
  BY <1>1, AtoiFits DEF BoundsFit, LowerBound
<1>3. Star.has_max => UpperBound = Star.max
  BY <1>1, AtoiFits DEF BoundsFit, UpperBound
<1>4. ~Star.has_min => LowerBound = 1
  BY DEF LowerBound
<1>5. CASE Star.has_min
  <2>1. LowerBound = Star.min
    BY <1>2, <1>5
  <2>2. CASE Star.has_max
    BY <1>1, <1>3, <1>5, <2>1, <2>2 DEF BoundsError
  <2>3. CASE ~Star.has_max
    BY <1>1, <1>5, <2>1, <2>3 DEF BoundsError
  <2> QED BY <2>2, <2>3
<1>6. CASE ~Star.has_min
  <2>1. LowerBound = 1
    BY <1>4, <1>6
  <2>2. CASE Star.has_max
    BY <1>1, <1>3, <1>6, <2>1, <2>2 DEF BoundsError
  <2>3. CASE ~Star.has_max
    BY <1>1, <1>6, <2>1, <2>3 DEF BoundsError
  <2> QED BY <2>2, <2>3
<1> QED BY <1>5, <1>6

(* The pattern of a hop, before its slots are filled.                      *)
LEMMA HopIs ==
  ASSUME TInv, Checked, engine \in { "undirected", "varlen" }, pc = "hop"
  PROVE  /\ query \in Queries /\ map \in Maps /\ emitted = 0 /\ SingleHop
         /\ Occurrences(query) = { Left, Right } /\ Relationships(query) = { TheHop }
         /\ Left[2] = 0 /\ Right[2] = 1
         /\ engine = "varlen" => RelAt(query, TheHop).star.present
<1>1. /\ query \in Queries /\ map \in Maps /\ emitted = 0 /\ SingleHop
      /\ engine = "varlen" => HasVarlen
  BY DEF TInv, Places, Checked, Dispatched, UsesChecked
<1>2. Occurrences(query) = { Left, Right } /\ Relationships(query) = { TheHop }
  BY <1>1, HopPattern
<1> QED BY <1>1, <1>2 DEF Left, Right, HasVarlen

(* A hop that is opened has been checked.                                  *)
LEMMA OpenHopChecked ==
  ASSUME TInv, Checked, engine \in { "undirected", "varlen" }, pc = "hop",
         NEW src \in 1..2, NEW tgt \in 1..2, OpenHop(src, tgt),
         HopNodeError = "none", Len(RelAt(query, TheHop).types) <= 1,
         engine = "varlen" =>
           LET rel == RelAt(query, TheHop)
           IN  rel.props = << >> /\ rel.dir # "undir" /\ rel.var = Anon /\ BoundsError = "none"
  PROVE  Checked'
<1>1. /\ query \in Queries /\ map \in Maps /\ emitted = 0
      /\ Occurrences(query) = { Left, Right } /\ Relationships(query) = { TheHop }
      /\ Left[2] = 0 /\ Right[2] = 1
  BY HopIs
<1> DEFINE new == NewEdge(RelAt(query, TheHop), src, tgt)
           x   == [ new EXCEPT !.alias = IF @ = Anon THEN << "r", 1 >> ELSE @ ]
<1>2. Drawn(x, RelAt(query, TheHop))
  BY DEF Drawn, NewEdge
<1>3. /\ slots' = << NewSlot(Left), NewSlot(Right) >> /\ edges' = << x >>
      /\ pc' = "resolve" /\ query' = query /\ map' = map /\ engine' = engine
      /\ emitted' = emitted /\ Live' /\ engine # "general"
  BY DEF OpenHop, Goto, Live
<1> HIDE DEF x
<1>4. /\ Gathered' = { Left, Right } /\ Connected' = { TheHop }
      /\ \A o : Place(o)' = o[2] + 1
      /\ \A r : EdgeOf(r)' = 1
      /\ \A o : Written(o)' = Written(o)
  BY <1>1, <1>3 DEF Gathered, Connected, Place, EdgeOf, Written
<1>5. /\ Len(slots') = 2 /\ slots'[1] = NewSlot(Left) /\ slots'[2] = NewSlot(Right)
      /\ Len(edges') = 1 /\ edges'[1] = x
      /\ \A i \in 1..2 : i = 1 \/ i = 2
      /\ \A i \in 1..1 : i = 1
  BY <1>3
<1>6. \A o : /\ NewSlot(o).np = o /\ NewSlot(o).var = NodeAt(query, o).var
             /\ NewSlot(o).label = Written(o)
  BY DEF NewSlot, Written
<1>7. Dispatched'
  <2>1. HasVarlen' = HasVarlen /\ HasUndirected' = HasUndirected /\ SingleHop' = SingleHop
    BY <1>3 DEF HasVarlen, HasUndirected, SingleHop
  <2> QED BY <1>3, <2>1 DEF Checked, Dispatched
<1>8. AllCollected'
  BY <1>3 DEF AllCollected
<1>9. Owned'
  <2>1. ASSUME NEW i \in 1..2
        PROVE  \E np : /\ np = slots'[i].np /\ np \in Gathered' /\ Place(np)' = i
                       /\ slots'[i].var = NodeAt(query, np).var
    <3>1. PICK o \in { Left, Right } : slots'[i] = NewSlot(o) /\ o[2] + 1 = i
      BY <1>1, <1>5
    <3> QED BY <1>4, <1>6, <3>1
  <2> QED BY <1>3, <1>5, <2>1 DEF Owned
<1>10. Mirrored'
  <2>1. \A r \in Connected' : Drawn(edges'[1], RelAt(query, r))
    BY <1>2, <1>4, <1>5
  <2>2. \A r : Drawn(edges[EdgeOf(r)], RelAt(query, r))' <=> Drawn(edges'[1], RelAt(query, r))
    BY <1>3, <1>4 DEF Drawn
  <2> QED BY <1>4, <1>5, <2>1, <2>2 DEF Mirrored
<1>11. NodesChecked'
  <2>1. NodeError(NodeAt(query, Left)) = "none" /\ NodeError(NodeAt(query, Right)) = "none"
    BY DEF HopNodeError
  <2> QED BY <1>3, <1>4, <2>1 DEF NodesChecked
<1>12. Labels'
  <2>1. ASSUME NEW i \in 1..2
        PROVE  LET m == slots'[i].label
               IN  /\ \A o \in Gathered' : Place(o)' = i /\ Written(o) # NoLabel => Written(o) = m
                   /\ m # NoLabel => \E o \in Gathered' : Place(o)' = i /\ Written(o) = m
    <3>1. PICK n \in { Left, Right } : slots'[i] = NewSlot(n) /\ n[2] + 1 = i
      BY <1>1, <1>5
    <3>2. \A o \in { Left, Right } : o[2] + 1 = i => o = n
      BY <1>1, <3>1
    <3>3. slots'[i].label = Written(n)
      BY <1>6, <3>1
    <3> QED BY <1>4, <3>1, <3>2, <3>3
  <2> QED BY <1>3, <1>4, <1>5, <2>1 DEF Labels, Original
<1>13. HopChecked'
  BY <1>3, SameQuestion DEF HopChecked
<1>14. (TablesKnown /\ UsesChecked /\ PropsChecked /\ Refused)' /\ map' \in Maps
  BY <1>1, <1>3 DEF TablesKnown, UsesChecked, PropsChecked, Refused
<1> QED BY <1>7, <1>8, <1>9, <1>10, <1>11, <1>12, <1>13, <1>14 DEF Checked

(* A hop is rejected for a reason.                                         *)
LEMMA OpenChecked ==
  ASSUME TInv, Checked,
         \/ engine = "undirected" /\ OpenUndirected
         \/ engine = "varlen" /\ OpenVarlen
  PROVE  Checked'
<1> DEFINE rel == RelAt(query, TheHop)
<1>1. pc = "hop" /\ engine \in { "undirected", "varlen" }
  BY DEF OpenUndirected, OpenVarlen
<1>2. /\ query \in Queries /\ Occurrences(query) = { Left, Right }
      /\ Relationships(query) = { TheHop }
      /\ engine = "varlen" => rel.star.present
  BY <1>1, HopIs
<1>3. CASE HopNodeError # "none"
  <2>1. Fail(HopNodeError)
    BY <1>3 DEF OpenUndirected, OpenVarlen
  <2>2. \E o \in Occurrences(query) : NodeError(NodeAt(query, o)) # "none"
    BY <1>2, <1>3 DEF HopNodeError
  <2>3. ~Understood
    BY <1>2, <2>2, NodeErrorRejects
  <2> QED BY <2>1, <2>3, FailChecked
<1>4. CASE HopNodeError = "none" /\ engine = "undirected"
  <2>1. CASE Len(rel.types) > 1
    <3>1. Fail("multiple relationship types")
      BY <1>4, <2>1 DEF OpenUndirected
    <3>2. ~Understood
      BY <1>2, <2>1, TypesReject
    <3> QED BY <3>1, <3>2, FailChecked
  <2>2. CASE ~(Len(rel.types) > 1)
    <3>1. OpenHop(1, 2)
      BY <1>4, <2>2 DEF OpenUndirected
    <3>2. Len(rel.types) <= 1
      BY <2>2
    <3> QED BY <1>1, <1>4, <3>1, <3>2, OpenHopChecked
  <2> QED BY <2>1, <2>2
<1>5. CASE HopNodeError = "none" /\ engine = "varlen"
  <2>1. OpenVarlen
    BY <1>5
  <2>2. CASE rel.props # << >>
    <3>1. Fail("inline property map")
      BY <1>5, <2>1, <2>2 DEF OpenVarlen
    <3>2. ~Understood
      BY <1>2, <1>5, <2>2 DEF Understood, RelUnderstood
    <3> QED BY <3>1, <3>2, FailChecked
  <2>3. CASE rel.props = << >> /\ Len(rel.types) > 1
    <3>1. Fail("multiple relationship types")
      BY <1>5, <2>1, <2>3 DEF OpenVarlen
    <3>2. ~Understood
      BY <1>2, <2>3, TypesReject
    <3> QED BY <3>1, <3>2, FailChecked
  <2>4. CASE rel.props = << >> /\ ~(Len(rel.types) > 1) /\ rel.dir = "undir"
    <3>1. Fail("undirected variable-length relationship")
      BY <1>5, <2>1, <2>4 DEF OpenVarlen
    <3>2. ~Understood
      BY <1>2, <1>5, <2>4 DEF Understood, RelUnderstood
    <3> QED BY <3>1, <3>2, FailChecked
  <2>5. CASE rel.props = << >> /\ ~(Len(rel.types) > 1) /\ rel.dir # "undir" /\ rel.var # Anon
    <3>1. Fail("variable bound to a variable-length relationship")
      BY <1>5, <2>1, <2>5 DEF OpenVarlen
    <3>2. ~Understood
      BY <1>2, <1>5, <2>5 DEF Understood, RelUnderstood
    <3> QED BY <3>1, <3>2, FailChecked
  <2>6. CASE /\ rel.props = << >> /\ ~(Len(rel.types) > 1) /\ rel.dir # "undir" /\ rel.var = Anon
             /\ BoundsError # "none"
    <3>1. Fail(BoundsError)
      BY <1>5, <2>1, <2>6 DEF OpenVarlen
    <3>2. BoundsFit => ~(/\ Star.has_min => Star.min >= 1
                         /\ Star.has_max => Star.max >= 1
                         /\ Star.has_min /\ Star.has_max => Star.min <= Star.max)
      BY <1>2, <1>5, <2>6, BoundsAre
    <3>3. BoundsFit => ~RelUnderstood(TheHop)
      BY <1>2, <1>5, <3>2 DEF RelUnderstood, Star
    <3>4. BoundsFit => ~Understood
      BY <1>2, <3>3 DEF Understood
    <3> QED BY <3>1, <3>4, FailChecked
  <2>7. CASE /\ rel.props = << >> /\ ~(Len(rel.types) > 1) /\ rel.dir # "undir" /\ rel.var = Anon
             /\ BoundsError = "none"
    <3>1. OpenHop(1, 2) \/ OpenHop(2, 1)
      BY <1>5, <2>1, <2>7 DEF OpenVarlen
    <3>2. Len(rel.types) <= 1
      BY <2>7
    <3> QED BY <1>1, <1>5, <2>7, <3>1, <3>2, OpenHopChecked
  <2> QED BY <2>2, <2>3, <2>4, <2>5, <2>6, <2>7
<1> QED BY <1>1, <1>3, <1>4, <1>5

(* The labels of a hop are resolved, and their tables looked up.           *)
LEMMA ResolveHopChecked ==
  ASSUME TInv, Checked, engine \in { "undirected", "varlen" }, ResolveHop
  PROVE  Checked'
<1>1. /\ query \in Queries /\ map \in Maps /\ pc = "resolve" /\ Live /\ Len(slots) = 2
      /\ \A i \in 1..2 : Original(i, slots[i].label) /\ DOMAIN slots[i] = SlotFields
  <2>1. pc = "resolve" /\ Live /\ query \in Queries /\ map \in Maps /\ Len(slots) = 2
    BY DEF ResolveHop, Live, TInv, Places, Checked
  <2> QED BY <2>1 DEF Checked, Labels, TInv, Ranges, Listing
<1>2. \A i \in 1..2 : /\ Resolved(slots[i]).label = Resolve(map, slots[i].label).table
                      /\ Resolved(slots[i]).name = Resolve(map, slots[i].label).name
  BY <1>1 DEF Resolved, SlotFields
<1>3. CASE \E i \in 1..2 : Ambiguous(map, slots[i].label)
  <2>1. Fail("ambiguous label")
    BY <1>3 DEF ResolveHop
  <2>2. ~Understood
    BY <1>1, <1>3, LabelRejects
  <2> QED BY <2>1, <2>2, FailChecked
<1>4. CASE /\ ~\E i \in 1..2 : Ambiguous(map, slots[i].label)
           /\ \E i \in 1..2 : UnknownTable(Resolved(slots[i]))
  <2>1. Fail("unknown table")
    BY <1>4 DEF ResolveHop
  <2>2. PICK i \in 1..2 : UnknownTable(Resolved(slots[i]))
    BY <1>4
  <2>3. ~Understood
    BY <1>1, <1>2, <2>2, LabelRejects DEF UnknownTable
  <2> QED BY <2>1, <2>3, FailChecked
<1>5. CASE /\ ~\E i \in 1..2 : Ambiguous(map, slots[i].label)
           /\ ~\E i \in 1..2 : UnknownTable(Resolved(slots[i]))
  <2>1. /\ slots' = [ i \in 1..2 |-> Resolved(slots[i]) ]
        /\ pc' = "emit" /\ query' = query /\ map' = map /\ engine' = engine
        /\ at' = at /\ prev' = prev /\ edges' = edges /\ emitted' = emitted
    BY <1>5 DEF ResolveHop, Goto
  <2>2. KeepsSlots /\ Len(slots') = 2
    <3>1. slots' = [ i \in 1..Len(slots) |-> slots'[i] ]
      BY <1>1, <2>1
    <3>2. \A i \in 1..Len(slots) : DOMAIN slots[i] = SlotFields /\ slots'[i] = Resolved(slots[i])
      BY <1>1, <2>1
    <3> QED BY <1>1, <3>1, <3>2, ResolvedIs, MappedSlots DEF KeepsSlots
  <2>3. Quiet /\ KeepsDrawings
    <3>1. KeepsEdges /\ emitted \in 0..Len(query.uses)
      BY <2>1 DEF TInv, Ranges, KeepsEdges
    <3> QED BY <2>1, <2>2, <3>1 DEF Quiet, KeepsDrawings
  <2>4. (Dispatched /\ AllCollected /\ Owned /\ Mirrored /\ NodesChecked /\ HopChecked /\ Refused)'
    BY <1>1, <2>1, <2>3, QuietChecked
  <2>5. Labels'
    <3>1. \A i, l : Original(i, l)' <=> Original(i, l)
      BY <2>3, QuietStays
    <3>2. \A i \in 1..2 : \E l : Original(i, l)' /\ Reads(slots'[i], l)
      BY <1>1, <1>2, <1>5, <2>1, <3>1 DEF Reads
    <3>3. \A s, l : Reads(s, l)' <=> Reads(s, l)
      BY <2>1 DEF Reads
    <3> QED BY <2>1, <2>2, <3>2, <3>3 DEF Labels
  <2>6. TablesKnown'
    <3>1. \A i \in 1..2 : ~UnknownTable(slots'[i])
      BY <1>5, <2>1
    <3>2. engine' # "general"
      BY <2>1
    <3> QED BY <2>2, <3>1, <3>2 DEF TablesKnown, UnknownTable
  <2>7. (UsesChecked /\ PropsChecked)' /\ map' \in Maps
    <3>1. emitted' = 0 /\ pc' = "emit" /\ map' \in Maps
      BY <1>1, <2>1 DEF Checked, UsesChecked
    <3>2. 1..0 = {}
      OBVIOUS
    <3> QED BY <3>1, <3>2 DEF UsesChecked, PropsChecked
  <2> QED BY <2>4, <2>5, <2>6, <2>7 DEF Checked
<1> QED BY <1>3, <1>4, <1>5
-----------------------------------------------------------------------------
(***************************************************************************)
(* What has been checked when a statement is returned.                     *)
(***************************************************************************)
(* A node whose slot took over one label has at most one.                  *)
LEMMA AtMostOne ==
  ASSUME NEW l
  PROVE  Cardinality({ l } \ { NoLabel }) <= 1
<1>1. CASE l = NoLabel
  <2>1. { l } \ { NoLabel } = {}
    BY <1>1
  <2>2. Cardinality({}) = 0
    BY FS_EmptySet
  <2> QED BY <2>1, <2>2
<1>2. CASE l # NoLabel
  <2>1. { l } \ { NoLabel } = { l }
    BY <1>2
  <2>2. Cardinality({ l }) = 1
    BY FS_Singleton
  <2> QED BY <2>1, <2>2
<1> QED BY <1>1, <1>2

(* Every node of the pattern is understood.                                *)
LEMMA DoneNodes ==
  ASSUME TInv, Checked, pc = "done", Sound, NEW o \in Occurrences(query)
  PROVE  NodeUnderstood(o)
<1>1. /\ Live /\ query \in Queries /\ map \in Maps /\ Gathered = Occurrences(query)
      /\ Dispatched /\ Owned /\ NodesChecked
  BY AllGathered DEF Live, TInv, Places, Checked
<1>2. PICK i : i = Place(o)
  OBVIOUS
<1>3. i \in 1..Len(slots)
  BY <1>1, <1>2, PlaceHas
<1>4. PICK l : Original(i, l) /\ ~Ambiguous(map, l) /\ slots[i].label = Resolve(map, l).table
  BY <1>1, <1>3 DEF Checked, Labels, Reads
<1>5. LabelsOf(query, o) = { l } \ { NoLabel }
  BY <1>1, <1>2, <1>4, LabelsAre
<1>6. ~NodeAt(query, o).props /\ Len(NodeAt(query, o).labels) <= 1
  BY <1>1, OneLabel DEF NodesChecked
<1>7. Cardinality(LabelsOf(query, o)) <= 1
  BY <1>5, AtMostOne
<1>8. slots[i].label = NoLabel <=> l = NoLabel
  BY <1>1, <1>4, ResolveKeepsLabels
<1>9. /\ slots[i].label # NoLabel => slots[i].label \in Catalog
      /\ engine = "general" /\ slots[i].anchor_edge = 0 => slots[i].label # NoLabel
  BY <1>3 DEF Checked, TablesKnown, UnknownTable
<1>10. \A x \in LabelsOf(query, o) : ~Ambiguous(map, x) /\ Resolve(map, x).table \in Catalog
  BY <1>4, <1>5, <1>8, <1>9
<1>11. ASSUME Lone(query, o) PROVE LabelsOf(query, o) # {}
  <2>1. CASE engine = "general"
    <3>1. slots[i].anchor_edge = 0
      BY <1>1, <1>2, <1>11, <2>1, LoneAnchor
    <3> QED BY <1>5, <1>8, <1>9, <2>1, <3>1
  <2>2. CASE engine # "general"
    <3>1. SingleHop
      BY <1>1, <2>2, HopSlots
    <3>2. TheHop \in Relationships(query) /\ \E b \in BOOLEAN : EndOf(query, TheHop, b) = o
      BY <1>1, <3>1, HopPattern
    <3>3. SameNode(query, o, o)
      BY DEF SameNode
    <3> QED BY <1>11, <3>2, <3>3 DEF Lone
  <2> QED BY <2>1, <2>2
<1> QED BY <1>6, <1>7, <1>10, <1>11 DEF NodeUnderstood

(* Every relationship is.                                                  *)
LEMMA DoneRelationships ==
  ASSUME TInv, Checked, pc = "done", BoundsFit, NEW r \in Relationships(query)
  PROVE  RelUnderstood(r)
<1> DEFINE rel == RelAt(query, r)
<1>1. /\ Live /\ query \in Queries /\ Connected = Relationships(query)
      /\ engine \in { "general", "undirected", "varlen" }
      /\ engine = "general" => ~HasVarlen /\ ~HasUndirected
      /\ engine = "undirected" => SingleHop /\ ~HasVarlen
      /\ engine = "varlen" => SingleHop /\ HasVarlen
  <2>1. Live /\ query \in Queries /\ Dispatched
    BY DEF Live, TInv, Places, Checked
  <2> QED BY <2>1, AllGathered, Engines DEF Checked, Dispatched
<1>2. Len(rel.types) <= 1
  BY <1>1 DEF Checked, Mirrored, Drawn
<1>3. SingleHop => r = TheHop
  BY DEF SingleHop
<1>4. engine # "varlen" => PropsKnown(rel)
  BY DEF Checked, PropsChecked
<1>5. engine = "varlen" =>
        rel.props = << >> /\ rel.dir # "undir" /\ rel.var = Anon /\ BoundsError = "none"
  BY <1>1, <1>3 DEF Checked, HopChecked
<1>6. PropsKnown(rel)
  <2>1. rel.props = << >> => PropsKnown(rel)
    BY DEF PropsKnown
  <2> QED BY <1>4, <1>5, <2>1
<1>7. rel.star.present => engine = "varlen"
  BY <1>1 DEF HasVarlen
<1>8. rel.dir = "undir" => SingleHop
  BY <1>1 DEF HasUndirected
<1>9. ASSUME rel.star.present
      PROVE  /\ rel.star.has_min => rel.star.min >= 1
             /\ rel.star.has_max => rel.star.max >= 1
             /\ rel.star.has_min /\ rel.star.has_max => rel.star.min <= rel.star.max
  <2>1. Star = rel.star /\ engine = "varlen" /\ TheHop \in Relationships(query)
    BY <1>1, <1>3, <1>7, <1>9 DEF Star
  <2> QED BY <1>1, <1>5, <2>1, BoundsAre
<1> QED BY <1>1, <1>2, <1>5, <1>6, <1>7, <1>8, <1>9 DEF RelUnderstood

-----------------------------------------------------------------------------
(***************************************************************************)
(* The theorems.                                                           *)
(***************************************************************************)
(* Nothing has been checked when a translation starts.                     *)
THEOREM CheckedInitially == Init => Checked
<1> SUFFICES ASSUME Init PROVE Checked
  OBVIOUS
<1>1. pc = "dispatch" /\ ~Live /\ map \in Maps /\ emitted = 0
  BY DEF Init, Live
<1> QED BY <1>1 DEF Checked, Dispatched, AllCollected, Owned, Mirrored, NodesChecked, Labels,
                    TablesKnown, UsesChecked, HopChecked, PropsChecked, Refused

(* Every step of every engine checks what it must before it goes on.       *)
THEOREM CheckedInductive == TInv /\ Checked /\ [Next]_vars => Checked'
<1> SUFFICES ASSUME TInv, Checked, [Next]_vars PROVE Checked'
  OBVIOUS
<1>1. CASE Dispatch
  BY <1>1, DispatchChecked
<1>2. CASE TranslateGeneral
  <2>1. engine = "general"
    BY <1>2 DEF TranslateGeneral
  <2>2. CASE CollectStart
    BY <2>1, <2>2, CollectStartChecked
  <2>3. CASE CollectSegment
    BY <2>1, <2>3, CollectSegmentChecked
  <2>4. CASE EndPath
    BY <2>1, <2>4, EndPathChecked
  <2>5. CASE EndCollect
    BY <2>1, <2>5, EndCollectChecked
  <2>6. CASE ResolveLabels
    BY <2>1, <2>6, ResolveLabelsChecked
  <2>7. CASE NameEdges
    BY <2>1, <2>7, NameEdgesChecked
  <2>8. CASE CheckSlots
    BY <2>1, <2>8, CheckSlotsChecked
  <2>9. CASE EmitReference
    BY <2>1, <2>9, EmitReferenceChecked
  <2>10. CASE EmitFrom \/ EmitWhere
    BY <2>1, <2>10, EmitChecked
  <2> QED BY <1>2, <2>2, <2>3, <2>4, <2>5, <2>6, <2>7, <2>8, <2>9, <2>10
          DEF TranslateGeneral, CollectPattern
<1>3. CASE TranslateUndirected
  <2>1. engine = "undirected"
    BY <1>3 DEF TranslateUndirected
  <2> QED BY <1>3, <2>1, OpenChecked, ResolveHopChecked, EmitReferenceChecked, EmitChecked
          DEF TranslateUndirected
<1>4. CASE TranslateVarlen
  <2>1. engine = "varlen"
    BY <1>4 DEF TranslateVarlen
  <2> QED BY <1>4, <2>1, OpenChecked, ResolveHopChecked, EmitReferenceChecked, EmitChecked
          DEF TranslateVarlen
<1>5. CASE UNCHANGED vars
  <2>1. UNCHANGED << query, map, engine, pc, at, prev, slots, edges, emitted, from, where, err >>
    BY <1>5 DEF vars
  <2>2. /\ Live' <=> Live
        /\ Gathered' = Gathered /\ Connected' = Connected
        /\ \A o : Place(o)' = Place(o)
        /\ \A r : EdgeOf(r)' = EdgeOf(r)
        /\ \A i, l : Original(i, l)' <=> Original(i, l)
        /\ \A s, l : Reads(s, l)' <=> Reads(s, l)
    <3>1. \A o : SlotIndex(slots, o)' = SlotIndex(slots, o)
      BY <2>1, SlotIndexPrimed
    <3>2. \A o : Place(o)' = Place(o)
      BY <2>1, <3>1 DEF Place
    <3>3. Gathered' = Gathered /\ Connected' = Connected
      BY <2>1, CollectedPrimed DEF Gathered, Connected
    <3>4. \A i, l : Original(i, l)' <=> Original(i, l)
      BY <2>1, <3>2, <3>3 DEF Original, Written
    <3> QED BY <2>1, <3>2, <3>3, <3>4, EdgeOfStays DEF Live, Reads
  <2>3. /\ (Sound' <=> Sound) /\ (BoundsFit' <=> BoundsFit) /\ BoundsError' = BoundsError
        /\ (Understood' <=> Understood)
        /\ \A u : UseUnderstood(u)' <=> UseUnderstood(u)
    BY <2>1, SameQuestion
  <2>4. (Dispatched /\ AllCollected /\ NodesChecked /\ HopChecked /\ PropsChecked)'
    <3>1. HasVarlen' = HasVarlen /\ HasUndirected' = HasUndirected /\ SingleHop' = SingleHop
      BY <2>1 DEF HasVarlen, HasUndirected, SingleHop
    <3>2. Dispatched' /\ AllCollected'
      BY <2>1, <2>2, <3>1 DEF Checked, Dispatched, AllCollected
    <3>3. NodesChecked' /\ HopChecked' /\ PropsChecked'
      BY <2>1, <2>2, <2>3 DEF Checked, NodesChecked, HopChecked, PropsChecked, PropsKnown
    <3> QED BY <3>2, <3>3
  <2>5. (Owned /\ Mirrored /\ Labels)'
    BY <2>1, <2>2 DEF Checked, Owned, Mirrored, Labels, Drawn
  <2>6. (TablesKnown /\ UsesChecked /\ Refused)' /\ map' \in Maps
    BY <2>1, <2>3 DEF Checked, TablesKnown, UsesChecked, Refused, UnknownTable
  <2> QED BY <2>4, <2>5, <2>6 DEF Checked
<1> QED BY <1>1, <1>2, <1>3, <1>4, <1>5 DEF Next

(* So what a phase relies on has been checked by the phases before it.     *)
THEOREM TranslationChecked == Spec => []Checked
<1>1. TInv /\ Checked /\ [Next]_vars => (TInv /\ Checked)'
  BY Inductive, CheckedInductive
<1>2. Init => TInv /\ Checked
  BY Initially, CheckedInitially
<1>3. Spec => [](TInv /\ Checked)
  BY <1>1, <1>2, PTL DEF Spec
<1> QED BY <1>3, PTL

(* Only what is understood is translated and only the rest is rejected, in *)
(* whatever phase, and of whatever engine, the translator notices.         *)
THEOREM RejectionExact == Spec => []RejectsExactly
<1>1. TInv /\ Checked => RejectsExactly
  <2> SUFFICES ASSUME TInv, Checked, BoundsFit, Sound
               PROVE  (pc = "done" => Understood) /\ (pc = "failed" => ~Understood)
    BY DEF RejectsExactly, Sound
  <2>1. ASSUME pc = "done" PROVE Understood
    <3>1. query.matches = 1 /\ query.shape
      BY <2>1 DEF Checked, Dispatched
    <3>2. \A o \in Occurrences(query) : NodeUnderstood(o)
      BY <2>1, DoneNodes
    <3>3. \A r \in Relationships(query) : RelUnderstood(r)
      BY <2>1, DoneRelationships
    <3>4. \A i \in 1..Len(query.uses) : UseUnderstood(query.uses[i])
      BY <2>1 DEF Checked, UsesChecked
    <3> QED BY <3>1, <3>2, <3>3, <3>4 DEF Understood
  <2>2. pc = "failed" => ~Understood
    BY DEF Checked, Refused
  <2> QED BY <2>1, <2>2
<1> QED BY SlotsConsistent, TranslationChecked, <1>1, PTL
=============================================================================
