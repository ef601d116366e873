-------------------------------- MODULE VarLen --------------------------------
(***************************************************************************)
(* transform_varlen: a hop (a)-[:t*m..n]->(b) becomes a recursive table    *)
(* expression, walk, and a query over it in which walk stands for a single *)
(* edge.  Walk models the table expression and WalkProofs shows that it    *)
(* holds a row for each trail of the hop; here it is the table of those    *)
(* rows.                                                                   *)
(***************************************************************************)
EXTENDS Hop, Integers

CONSTANTS
  WalkTable,  \* the name of the table expression
  IntBits,    \* the width of an int
  LongBits    \* the width of a long

(* An int is no wider than a long. *)
ASSUME WidthsAssumption ==
  /\ {IntBits, LongBits} \subseteq Nat \ {0}
  /\ {2^(IntBits - 1), 2^(LongBits - 1), 2^IntBits} \subseteq Nat
  /\ 2^(IntBits - 1) < 2^IntBits /\ 2^(IntBits - 1) <= 2^(LongBits - 1)

(* atoi: strtol, which stops at the largest long, cut to an int.           *)
Atoi(n) ==
  LET long == IF n >= 2^(LongBits - 1) THEN 2^(LongBits - 1) - 1 ELSE n
      cut  == long % 2^IntBits
  IN  IF cut >= 2^(IntBits - 1) THEN cut - 2^IntBits ELSE cut

Star == RelAt(query, TheHop).star

LowerBound == IF Star.has_min THEN Atoi(Star.min) ELSE 1
UpperBound == Atoi(Star.max)

BoundsError ==
  IF LowerBound < 1 THEN "lower bound"
  ELSE IF Star.has_max /\ UpperBound < 1 THEN "upper bound"
  ELSE IF Star.has_min /\ Star.has_max /\ LowerBound > UpperBound
       THEN "lower bound exceeds upper bound"
  ELSE "none"

OpenVarlen ==
  /\ pc = "hop"
  /\ LET rel == RelAt(query, TheHop)
     IN  IF HopNodeError # "none" THEN Fail(HopNodeError)
         ELSE IF rel.props # << >> THEN Fail("inline property map")
         ELSE IF Len(rel.types) > 1 THEN Fail("multiple relationship types")
         ELSE IF rel.dir = "undir" THEN Fail("undirected variable-length relationship")
         ELSE IF rel.var # Anon THEN Fail("variable bound to a variable-length relationship")
         ELSE IF BoundsError # "none" THEN Fail(BoundsError)
         ELSE IF rel.dir = "left" THEN OpenHop(2, 1) ELSE OpenHop(1, 2)

(* The table expression, as a hop for Walk.                                *)
WalkHop ==
  [ type |-> HopType(edges[1]), has_max |-> Star.has_max, max |-> UpperBound ]

(* The source end first, then the target end.                              *)
WalkEnds == << edges[1].src, edges[1].tgt >>

EndItem(k) ==
  LET s == slots[WalkEnds[k]]
  IN  FromItem(s.label, s.alias,
        { Eq(Col(s.alias, "id"), Col(edges[1].alias, IdCol(k = 2))) })

EndItems ==
  LET joined == InOrder({ k \in 1..2 : slots[WalkEnds[k]].referenced })
  IN  [ i \in 1..Len(joined) |-> EndItem(joined[i]) ]

VarlenItems == << FromItem(WalkTable, edges[1].alias, {}) >> \o EndItems

EndClause(k) ==
  Require(Eq(Col(edges[1].alias, NameCol(k = 2)), Lit(slots[WalkEnds[k]].name)))

VarlenClauses ==
  { EndClause(k) : k \in { x \in 1..2 : slots[WalkEnds[x]].name # NoLabel } }
  \cup
  (IF LowerBound > 1
   THEN { Require(AtLeast(Col(edges[1].alias, "depth"), Lit(LowerBound))) } ELSE {})

EmitVarlen ==
  /\ AllEmitted
  /\ from' = VarlenItems
  /\ where' = VarlenClauses
  /\ Goto("done")
  /\ UNCHANGED << at, prev, slots, edges, emitted >>

TranslateVarlen ==
  /\ engine = "varlen"
  /\ OpenVarlen \/ ResolveHop \/ EmitReference \/ EmitVarlen
=============================================================================
