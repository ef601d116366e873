-------------------------------- MODULE General --------------------------------
(***************************************************************************)
(* transform_general: the translation of a pattern of directed             *)
(* relationships to a SELECT statement.                                    *)
(*                                                                         *)
(* The translator collects the nodes of the pattern in slots and its       *)
(* relationships in edges, one path element at a time; anchors each slot   *)
(* to the first edge it is on; resolves labels; emits the references of    *)
(* RETURN, WHERE, ORDER BY and GROUP BY, which mark slots referenced; and  *)
(* only then builds FROM, whose joins depend on the marks.  Any step may   *)
(* reject the query.                                                       *)
(***************************************************************************)
EXTENDS Engine

(* Mutant: all anonymous nodes are one.                                    *)
SlotIndex_AnonShared(ss, o) ==
  LET same == { i \in 1..Len(ss) : ss[i].var = NodeAt(query, o).var }
  IN  IF same = {} THEN 0 ELSE Least(same)

(* The slot of occurrence o, 0 if it has none yet.                         *)
SlotIndex(ss, o) ==
  LET n == NodeAt(query, o)
      same == { i \in 1..Len(ss) :
                  IF n.var # Anon THEN ss[i].var = n.var
                  ELSE ss[i].var = Anon /\ ss[i].np = o }
  IN  IF same = {} THEN 0 ELSE Least(same)

Conflict(ss, o) ==
  LET i == SlotIndex(ss, o)
      l == LabelOf(NodeAt(query, o))
  IN  i # 0 /\ l # NoLabel /\ ss[i].label # NoLabel /\ ss[i].label # l

(* slot_for: the slots with occurrence o merged in, and its index.         *)
Merged(ss, o) ==
  LET i == SlotIndex(ss, o)
      l == LabelOf(NodeAt(query, o))
  IN  IF i = 0 THEN Append(ss, NewSlot(o))
      ELSE IF l = NoLabel THEN ss ELSE [ ss EXCEPT ![i].label = l ]

(* Mutant: a slot is anchored to the last edge it is on.                   *)
Anchored_Last(ss, i, e, target) ==
  [ ss EXCEPT ![i].anchor_edge = e, ![i].anchor_target = target ]

(* A slot that is on no edge yet is anchored to edge e.                    *)
Anchored(ss, i, e, target) ==
  IF ss[i].anchor_edge # 0 THEN ss
  ELSE [ ss EXCEPT ![i].anchor_edge = e, ![i].anchor_target = target ]

Collecting == pc = "collect" /\ at[1] <= Len(query.paths)

CollectStart ==
  /\ Collecting /\ at[2] = 0
  /\ LET n == NodeAt(query, at)
     IN  IF NodeError(n) # "none" THEN Fail(NodeError(n))
         ELSE IF Conflict(slots, at) THEN Fail("conflicting labels")
         ELSE /\ slots' = Merged(slots, at)
              /\ prev' = SlotIndex(slots', at)
              /\ at' = << at[1], 1 >>
              /\ UNCHANGED << query, map, engine, pc, edges, emitted, from, where, err >>

CollectSegment ==
  /\ Collecting /\ at[2] \in 1..Len(query.paths[at[1]].segs)
  /\ LET n   == NodeAt(query, at)
         rel == RelAt(query, at)
     IN  IF NodeError(n) # "none" THEN Fail(NodeError(n))
         ELSE IF Len(rel.types) > 1 THEN Fail("multiple relationship types")
         ELSE IF Conflict(slots, at) THEN Fail("conflicting labels")
         ELSE LET merged == Merged(slots, at)
                  cur == SlotIndex(merged, at)
                  src == IF rel.dir = "left" THEN cur ELSE prev
                  tgt == IF rel.dir = "left" THEN prev ELSE cur
                  ei  == Len(edges) + 1
              IN  /\ edges' = Append(edges, NewEdge(rel, src, tgt))
                  /\ slots' = Anchored(Anchored(merged, src, ei, FALSE), tgt, ei, TRUE)
                  /\ prev' = cur
                  /\ at' = << at[1], at[2] + 1 >>
                  /\ UNCHANGED << query, map, engine, pc, emitted, from, where, err >>

EndPath ==
  /\ Collecting /\ at[2] > Len(query.paths[at[1]].segs)
  /\ at' = << at[1] + 1, 0 >>
  /\ UNCHANGED << query, map, engine, pc, prev, slots, edges, emitted, from, where, err >>

EndCollect ==
  /\ pc = "collect" /\ at[1] > Len(query.paths)
  /\ Goto("resolve")
  /\ UNCHANGED << at, prev, slots, edges, emitted, from, where >>

-----------------------------------------------------------------------------
(***************************************************************************)
(* Labels, aliases, lone nodes.                                            *)
(***************************************************************************)
ResolveLabels ==
  /\ pc = "resolve"
  /\ IF \E i \in 1..Len(slots) : Ambiguous(map, slots[i].label)
     THEN Fail("ambiguous label")
     ELSE /\ slots' = [ i \in 1..Len(slots) |-> Resolved(slots[i]) ]
          /\ Goto("name")
          /\ UNCHANGED << at, prev, edges, emitted, from, where >>

(* Generated aliases: "r", "_e<i>" and "_n<i>".                            *)
NameEdges ==
  /\ pc = "name"
  /\ edges' = [ i \in 1..Len(edges) |->
       [ edges[i] EXCEPT !.alias =
           IF edges[i].var # Anon THEN edges[i].var
           ELSE IF Len(edges) = 1 THEN << "r", 1 >> ELSE << "_e", i >> ] ]
  /\ Goto("check")
  /\ UNCHANGED << at, prev, slots, emitted, from, where >>

SlotError(s) ==
  IF UnknownTable(s) THEN "unknown table"
  ELSE IF s.anchor_edge = 0 /\ s.label = NoLabel THEN "node has no label"
  ELSE "none"

(* The first slot in error decides the message.                            *)
CheckSlots ==
  /\ pc = "check"
  /\ LET bad == { i \in 1..Len(slots) : SlotError(slots[i]) # "none" }
     IN  IF bad # {}
         THEN Fail(SlotError(slots[Least(bad)]))
         ELSE /\ slots' = [ i \in 1..Len(slots) |->
                    LET lone == slots[i].anchor_edge = 0
                    IN  [ slots[i] EXCEPT !.is_lone = lone,
                            !.alias = IF lone /\ @ = Anon THEN << "_n", i >> ELSE @ ] ]
              /\ Goto("emit")
              /\ UNCHANGED << at, prev, edges, emitted, from, where >>

-----------------------------------------------------------------------------
(***************************************************************************)
(* FROM: the edges, tied to the anchors of their ends; the lone nodes; the *)
(* tables of the referenced nodes, joined to their anchors by id.          *)
(***************************************************************************)
AnchorId(s)   == Col(edges[s.anchor_edge].alias, IdCol(s.anchor_target))
AnchorName(s) == Col(edges[s.anchor_edge].alias, NameCol(s.anchor_target))

(* Mutant: two edges meet in an id, whatever the names.                    *)
Tie_IdOnly(i, sl, target) ==
  IF slots[sl].anchor_edge = i THEN {}
  ELSE { Eq(Col(edges[i].alias, IdCol(target)), AnchorId(slots[sl])) }

Tie(i, sl, target) ==
  IF slots[sl].anchor_edge = i THEN {}
  ELSE { Eq(Col(edges[i].alias, IdCol(target)), AnchorId(slots[sl])),
         Eq(Col(edges[i].alias, NameCol(target)), AnchorName(slots[sl])) }

EdgeItem(i) ==
  FromItem(EdgeTable, edges[i].alias,
    IF i = 1 THEN {} ELSE Tie(i, edges[i].src, FALSE) \cup Tie(i, edges[i].tgt, TRUE))

LoneItem(s) == FromItem(s.label, s.alias, {})

NodeItem(s) ==
  FromItem(s.label, s.alias, { Eq(Col(s.alias, "id"), AnchorId(s)) })

EdgeItems == [ i \in 1..Len(edges) |-> EdgeItem(i) ]

LoneItems ==
  LET lone == InOrder({ i \in 1..Len(slots) : slots[i].is_lone })
  IN  [ k \in 1..Len(lone) |-> LoneItem(slots[lone[k]]) ]

NodeItems ==
  LET joined == InOrder({ i \in 1..Len(slots) : ~slots[i].is_lone /\ slots[i].referenced })
  IN  [ k \in 1..Len(joined) |-> NodeItem(slots[joined[k]]) ]

FromItems == EdgeItems \o LoneItems \o NodeItems

EmitFrom ==
  /\ AllEmitted
  /\ from' = FromItems
  /\ Goto("where")
  /\ UNCHANGED << at, prev, slots, edges, emitted, where >>

(* WHERE: the type, the labelled ends and the properties of each edge.     *)
EndSlot(e, target) == slots[IF target THEN e.tgt ELSE e.src]

(* Mutant: the source's name is required of the target and vice versa.     *)
NameClauses_Swapped(e) ==
  { Require(Eq(Col(e.alias, NameCol(~b)), Lit(EndSlot(e, b).name))) :
      b \in { x \in BOOLEAN : EndSlot(e, x).name # NoLabel } }

NameClauses(e) ==
  { Require(Eq(Col(e.alias, NameCol(b)), Lit(EndSlot(e, b).name))) :
      b \in { x \in BOOLEAN : EndSlot(e, x).name # NoLabel } }

PatternClauses ==
  UNION { TypeClauses(edges[i]) \cup NameClauses(edges[i]) \cup PropClauses(edges[i]) :
            i \in 1..Len(edges) }

EmitWhere ==
  /\ pc = "where"
  /\ IF \E i \in 1..Len(edges) : ~PropsKnown(edges[i])
     THEN Fail("relationship property")
     ELSE /\ where' = PatternClauses
          /\ Goto("done")
          /\ UNCHANGED << at, prev, slots, edges, emitted, from >>

CollectPattern == CollectStart \/ CollectSegment \/ EndPath \/ EndCollect

TranslateGeneral ==
  /\ engine = "general"
  /\ CollectPattern \/ ResolveLabels \/ NameEdges \/ CheckSlots
     \/ EmitReference \/ EmitFrom \/ EmitWhere

-----------------------------------------------------------------------------
(***************************************************************************)
(* Properties of the slots and edges, while they are collected and after.  *)
(***************************************************************************)
(* A slot is anchored to the first edge it is on, on the source side if it *)
(* is on both; a slot on no edge has no anchor.  Ties and joins speak of   *)
(* the anchor's alias, so an anchor on a later edge would be a reference   *)
(* ahead of its declaration.                                               *)
AnchorsFirst ==
  engine = "general" => \A i \in 1..Len(slots) :
    LET on == { e \in 1..Len(edges) : i \in {edges[e].src, edges[e].tgt} }
        a  == slots[i].anchor_edge
    IN  IF on = {} THEN a = 0
        ELSE /\ a \in on /\ \A e \in on : a <= e
             /\ slots[i].anchor_target = (edges[a].src # i)

(* One slot for each node of the pattern: two occurrences share a slot     *)
(* exactly when they are the same node, and the edges connect the slots of *)
(* their ends.                                                             *)
Collected(o) == o[1] < at[1] \/ (o[1] = at[1] /\ o[2] < at[2])

Number(r) ==
  Cardinality({ s \in Relationships(query) : s = r \/ Before(s, r) })

SlotsAreNodes ==
  LET occs == { o \in Occurrences(query) : Collected(o) }
  IN  engine = "general" =>
      /\ \A o \in occs : SlotIndex(slots, o) # 0
      /\ \A o1, o2 \in occs :
           SlotIndex(slots, o1) = SlotIndex(slots, o2) <=> SameNode(query, o1, o2)
      /\ \A r \in occs \cap Relationships(query) :
           /\ edges[Number(r)].src = SlotIndex(slots, EndOf(query, r, FALSE))
           /\ edges[Number(r)].tgt = SlotIndex(slots, EndOf(query, r, TRUE))
=============================================================================
