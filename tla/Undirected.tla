------------------------------ MODULE Undirected ------------------------------
(***************************************************************************)
(* transform_undirected: a hop (a)-[r]-(b) becomes one edge instance, the  *)
(* tables of the referenced nodes, and an OR over the two orientations.    *)
(***************************************************************************)
EXTENDS Hop

OpenUndirected ==
  /\ pc = "hop"
  /\ IF HopNodeError # "none" THEN Fail(HopNodeError)
     ELSE IF Len(RelAt(query, TheHop).types) > 1 THEN Fail("multiple relationship types")
     ELSE OpenHop(1, 2)

(* One end of an orientation: its id if the node's table is joined, its    *)
(* name if the node is labelled.                                           *)
OrientSide(s, target) ==
  LET alias == edges[1].alias
  IN  (IF s.referenced
       THEN { Eq(Col(alias, IdCol(target)), Col(s.alias, "id")) } ELSE {})
      \cup
      (IF s.name # NoLabel
       THEN { Eq(Col(alias, NameCol(target)), Lit(s.name)) } ELSE {})

(* The left node on the target side or not, the right node opposite.       *)
Orientation(flip) == OrientSide(slots[1], flip) \cup OrientSide(slots[2], ~flip)

OrientClauses ==
  IF Orientation(FALSE) = {} THEN {} ELSE { { Orientation(FALSE), Orientation(TRUE) } }

PeerItem(s) == FromItem(s.label, s.alias, {})

PeerItems ==
  LET joined == InOrder({ i \in 1..Len(slots) : slots[i].referenced })
  IN  [ k \in 1..Len(joined) |-> PeerItem(slots[joined[k]]) ]

UndirectedItems   == << FromItem(EdgeTable, edges[1].alias, {}) >> \o PeerItems
UndirectedClauses == TypeClauses(edges[1]) \cup OrientClauses \cup PropClauses(edges[1])

EmitUndirected ==
  /\ AllEmitted
  /\ IF ~PropsKnown(edges[1]) THEN Fail("relationship property")
     ELSE /\ from' = UndirectedItems
          /\ where' = UndirectedClauses
          /\ Goto("done")
          /\ UNCHANGED << at, prev, slots, edges, emitted >>

TranslateUndirected ==
  /\ engine = "undirected"
  /\ OpenUndirected \/ ResolveHop \/ EmitReference \/ EmitUndirected
=============================================================================
