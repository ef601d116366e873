-------------------------------- MODULE Pattern --------------------------------
(***************************************************************************)
(* The MATCH patterns of a query, and what they mean.                      *)
(*                                                                         *)
(* A query is a sequence of paths, a path a start node and a sequence of   *)
(* segments, a segment a relationship and the node it leads to:            *)
(*                                                                         *)
(*   node  [var, labels, props]         labels: a sequence, << >> if none  *)
(*   rel   [var, types, dir, props, star]                                  *)
(*                            dir: "right", "left" or "undir"              *)
(*   prop  [key, value, literal]    of props: the value is a literal       *)
(*   star  [present, has_min, min, has_max, max], the *m..n of a           *)
(*                            variable-length relationship, as written     *)
(*                                                                         *)
(* together with the references its RETURN, WHERE, ORDER BY and GROUP BY   *)
(* make to the columns of variables, in the order the translator emits     *)
(* them:                                                                   *)
(*                                                                         *)
(*   use   [var, known]       known: the column is one of the table's      *)
(*                                                                         *)
(* and with the number of its MATCH clauses and whether its RETURN has a   *)
(* shape the translator knows:                                             *)
(*                                                                         *)
(*   query [matches, shape, paths, uses]                                   *)
(*                                                                         *)
(* Node occurrences are named by their place: << p, 0 >> starts path p and *)
(* << p, s >> ends its segment s; << p, s >> also names that segment's     *)
(* relationship.                                                           *)
(***************************************************************************)
EXTENDS Names, SqlValue

CONSTANTS
  Anon,        \* no variable
  EdgeTable,   \* "__provenance__"
  EdgeColumns  \* its columns

Occurrences(q) ==
  UNION { { << p, s >> : s \in 0..Len(q.paths[p].segs) } : p \in 1..Len(q.paths) }

Relationships(q) == { o \in Occurrences(q) : o[2] > 0 }

NodeAt(q, o) ==
  IF o[2] = 0 THEN q.paths[o[1]].start ELSE q.paths[o[1]].segs[o[2]].node

RelAt(q, r) == q.paths[r[1]].segs[r[2]].rel

(* A node is identified across the query by its variable; a node without   *)
(* one is a node of its own at each occurrence.                            *)
SameNode(q, o1, o2) ==
  \/ o1 = o2
  \/ NodeAt(q, o1).var = NodeAt(q, o2).var /\ NodeAt(q, o1).var # Anon

(* The occurrence on the source side and on the target side of r.          *)
EndOf(q, r, target) ==
  IF (RelAt(q, r).dir = "left") = target THEN << r[1], r[2] - 1 >> ELSE r

(* The labels a node has at its occurrences.                               *)
LabelsOf(q, o) ==
  UNION { { NodeAt(q, x).labels[i] : i \in 1..Len(NodeAt(q, x).labels) } :
            x \in { y \in Occurrences(q) : SameNode(q, o, y) } }

(* The pair the node's label resolves to.                                  *)
TableOf(q, map, o) ==
  Resolve(map, IF LabelsOf(q, o) = {} THEN NoLabel
               ELSE CHOOSE l \in LabelsOf(q, o) : TRUE)

(* A node no relationship touches stands for the rows of its table.        *)
Lone(q, o) ==
  \A r \in Relationships(q), b \in BOOLEAN : ~SameNode(q, o, EndOf(q, r, b))

Used(q, o) == \E i \in 1..Len(q.uses) : q.uses[i].var = NodeAt(q, o).var

(* The column pair by which an edge knows its source or its target.        *)
IdCol(target)   == IF target THEN "target_id" ELSE "source_id"
NameCol(target) == IF target THEN "target_name" ELSE "source_name"

(* A relationship that leads from a node back to itself, at the node's     *)
(* first occurrence in a relationship: (a)-[r]->(a).                       *)
Before(r, s) == r[1] < s[1] \/ (r[1] = s[1] /\ r[2] < s[2])

SelfLoop(q, r) == SameNode(q, EndOf(q, r, FALSE), EndOf(q, r, TRUE))

OpensWithSelfLoop(q) ==
  \E r \in Relationships(q) :
    /\ SelfLoop(q, r)
    /\ \A s \in Relationships(q), b \in BOOLEAN :
         Before(s, r) => ~SameNode(q, EndOf(q, s, b), EndOf(q, r, FALSE))
=============================================================================
