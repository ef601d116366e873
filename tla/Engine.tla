-------------------------------- MODULE Engine --------------------------------
(***************************************************************************)
(* What the three translation engines share: the state of a translation,   *)
(* its failure, and the references of RETURN, WHERE, ORDER BY and GROUP BY *)
(* to variables.                                                           *)
(*                                                                         *)
(* The phases of a translation are                                         *)
(*   dispatch, the choice of an engine,                                    *)
(*   collect or hop, the pattern's nodes and relationships,                *)
(*   resolve, name, check, the labels, aliases and tables,                 *)
(*   emit, the references, and FROM with their joins,                      *)
(*   where, the predicates of the pattern,                                 *)
(*   done or failed.                                                       *)
(* Indexes count from 1; 0 stands for the code's -1.                       *)
(***************************************************************************)
EXTENDS Meaning, Sql

CONSTANTS
  Catalog    \* the node tables of the catalog

VARIABLES
  query, map,
  engine,    \* the engine in charge
  pc,        \* the phase of the translation
  at,        \* the next path element: << path, segment >>
  prev,      \* the slot of the path's last node
  slots, edges,
  emitted,   \* how many references are emitted
  from, where,
  err        \* why the query is rejected

vars == << query, map, engine, pc, at, prev, slots, edges, emitted, from, where, err >>

Phases == { "dispatch", "collect", "hop", "resolve", "name", "check", "emit",
            "where", "done", "failed" }

Goto(phase) == pc' = phase /\ UNCHANGED << query, map, engine, err >>

(* Mutant: a failure that leaves no message.                               *)
Fail_Silent(reason) ==
  /\ pc' = "failed"
  /\ UNCHANGED << query, map, engine, at, prev, slots, edges, emitted, from, where, err >>

(* Everything built so far is freed and no statement is returned.          *)
Fail(reason) ==
  /\ pc' = "failed"
  /\ err' = reason
  /\ UNCHANGED << query, map, engine, at, prev, slots, edges, emitted, from, where >>

(* Mutant: an inline property map is ignored.                              *)
NodeError_PropsIgnored(n) == IF Len(n.labels) > 1 THEN "multiple labels" ELSE "none"

NodeError(n) ==
  IF n.props THEN "inline property map"
  ELSE IF Len(n.labels) > 1 THEN "multiple labels" ELSE "none"

LabelOf(n) == IF n.labels = << >> THEN NoLabel ELSE n.labels[1]

NewSlot(o) ==
  LET n == NodeAt(query, o)
  IN  [ var |-> n.var, np |-> o, label |-> LabelOf(n), name |-> NoLabel,
        alias |-> n.var, referenced |-> FALSE, is_lone |-> FALSE,
        anchor_edge |-> 0, anchor_target |-> FALSE ]

NewEdge(rel, src, tgt) ==
  [ var |-> rel.var, alias |-> rel.var, types |-> rel.types, props |-> rel.props,
    src |-> src, tgt |-> tgt ]

Resolved(s) ==
  LET tn == Resolve(map, s.label)
  IN  [ s EXCEPT !.label = tn.table, !.name = tn.name ]

UnknownTable(s) == s.label # NoLabel /\ s.label \notin Catalog

(* The predicates every engine writes.                                     *)
TypeClauses(e) ==
  { Require(Eq(Col(e.alias, "edge_type"), Lit(e.types[i]))) : i \in 1..Len(e.types) }

PropClauses(e) ==
  { Require(Eq(Col(e.alias, e.props[i].key), Lit(e.props[i].value))) :
      i \in 1..Len(e.props) }

PropsKnown(e) ==
  \A i \in 1..Len(e.props) : e.props[i].key \in EdgeColumns /\ e.props[i].literal

-----------------------------------------------------------------------------
(***************************************************************************)
(* A reference is looked up among the nodes, then among the relationships; *)
(* the first bind of its name is taken, and a node is marked referenced.   *)
(***************************************************************************)
NodesNamed(v) == { i \in 1..Len(slots) : slots[i].var = v }
EdgesNamed(v) == { i \in 1..Len(edges) : edges[i].var = v }
Least(S)      == CHOOSE i \in S : \A j \in S : i <= j

(* A loop over the indexes that are in S, from the first to the last.      *)
Rank(S, i)    == Cardinality({ j \in S : j < i }) + 1
InOrder(S)    == [ k \in 1..Cardinality(S) |-> CHOOSE i \in S : Rank(S, i) = k ]

BindError(use) ==
  IF NodesNamed(use.var) \cup EdgesNamed(use.var) = {} THEN "unknown variable"
  ELSE IF NodesNamed(use.var) # {} /\ slots[Least(NodesNamed(use.var))].label = NoLabel
       THEN "variable has no label"
  ELSE IF ~use.known THEN "unknown column" ELSE "none"

EmitReference ==
  /\ pc = "emit" /\ emitted < Len(query.uses)
  /\ LET use == query.uses[emitted + 1]
     IN  IF BindError(use) # "none" THEN Fail(BindError(use))
         ELSE /\ slots' = IF NodesNamed(use.var) = {} THEN slots
                          ELSE [ slots EXCEPT ![Least(NodesNamed(use.var))].referenced = TRUE ]
              /\ emitted' = emitted + 1
              /\ UNCHANGED << query, map, engine, pc, at, prev, edges, from, where, err >>

(* Mutants: FROM is built before the references are emitted; the loop over *)
(* the references runs one too far.                                        *)
AllEmitted_Early   == pc = "emit"
AllEmitted_TooLate == pc = "emit" /\ emitted > Len(query.uses)

AllEmitted == pc = "emit" /\ emitted = Len(query.uses)
=============================================================================
