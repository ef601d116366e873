---------------------------------- MODULE Hop ----------------------------------
(***************************************************************************)
(* What the two engines for a single hop share: one slot for the node on   *)
(* the left and one for the node on the right, whatever their variables,   *)
(* and the alias "r" for a relationship without a variable.                *)
(***************************************************************************)
EXTENDS Engine

Left  == << 1, 0 >>
Right == << 1, 1 >>

HopNodeError ==
  IF NodeError(NodeAt(query, Left)) # "none"
  THEN NodeError(NodeAt(query, Left)) ELSE NodeError(NodeAt(query, Right))

(* The two slots, and the relationship from slot src to slot tgt.          *)
OpenHop(src, tgt) ==
  /\ slots' = << NewSlot(Left), NewSlot(Right) >>
  /\ edges' = << [ NewEdge(RelAt(query, TheHop), src, tgt) EXCEPT
                     !.alias = IF @ = Anon THEN << "r", 1 >> ELSE @ ] >>
  /\ Goto("resolve")
  /\ UNCHANGED << at, prev, emitted, from, where >>

(* Both labels are resolved before either table is looked up.              *)
ResolveHop ==
  /\ pc = "resolve"
  /\ IF \E i \in 1..2 : Ambiguous(map, slots[i].label) THEN Fail("ambiguous label")
     ELSE IF \E i \in 1..2 : UnknownTable(Resolved(slots[i])) THEN Fail("unknown table")
     ELSE /\ slots' = [ i \in 1..2 |-> Resolved(slots[i]) ]
          /\ Goto("emit")
          /\ UNCHANGED << at, prev, edges, emitted, from, where >>
=============================================================================
