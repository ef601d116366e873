-------------------------------- MODULE Meaning --------------------------------
(***************************************************************************)
(* What the patterns of a query mean over a database, stated on the query  *)
(* alone: which edges its relationships may stand for and which rows its   *)
(* nodes.  Nothing here is code; the translation is compared with it.      *)
(*                                                                         *)
(* A database gives each table its set of rows.  A row of the edge table   *)
(* also carries its rowid.                                                 *)
(***************************************************************************)
EXTENDS Pattern, Provenance

Ends(q) == Relationships(q) \X BOOLEAN

(* The edge has the type and the properties asked for.                     *)
EdgeFits(q, r, e) ==
  LET rel == RelAt(q, r)
  IN  /\ rel.types # << >> => SqlEq(e.edge_type, rel.types[1])
      /\ \A i \in 1..Len(rel.props) : SqlEq(e[rel.props[i].key], rel.props[i].value)

(* The peer carries the name of the node's label and, where columns of the *)
(* node are used, is a row of its table.                                   *)
NodeFits(q, map, db, o, id, name) ==
  LET tn == TableOf(q, map, o)
  IN  /\ tn.name # NoLabel => SqlEq(name, tn.name)
      /\ Used(q, o) => \E row \in db[tn.table] : SqlEq(row.id, id)

EndFits(q, map, db, o, e, target) ==
  NodeFits(q, map, db, o, e[IdCol(target)], e[NameCol(target)])

SamePeer(e1, b1, e2, b2) ==
  /\ SqlEq(e1[IdCol(b1)], e2[IdCol(b2)])
  /\ SqlEq(e1[NameCol(b1)], e2[NameCol(b2)])

-----------------------------------------------------------------------------
(***************************************************************************)
(* Directed relationships: the ways to give each relationship an edge and  *)
(* each lone node a row of its table so that all the ends at which a node  *)
(* occurs are the same peer.                                               *)
(***************************************************************************)
Coherent(q, E) ==
  \A x, y \in Ends(q) :
    x # y /\ SameNode(q, EndOf(q, x[1], x[2]), EndOf(q, y[1], y[2])) =>
      SamePeer(E[x[1]], x[2], E[y[1]], y[2])

EdgeMatches(q, map, db) ==
  { E \in [Relationships(q) -> db[EdgeTable]] :
      /\ \A r \in Relationships(q) : EdgeFits(q, r, E[r])
      /\ Coherent(q, E)
      /\ \A x \in Ends(q) :
           EndFits(q, map, db, EndOf(q, x[1], x[2]), E[x[1]], x[2]) }

(* Lone nodes, each by its first occurrence.                               *)
LoneNodes(q) ==
  { o \in Occurrences(q) :
      /\ Lone(q, o)
      /\ \A x \in Occurrences(q) : SameNode(q, o, x) => o = x \/ Before(o, x) }

LoneMatches(q, map, db) ==
  { L \in [LoneNodes(q) -> UNION { db[t] : t \in DOMAIN db }] :
      \A o \in LoneNodes(q) : L[o] \in db[TableOf(q, map, o).table] }

Matches(q, map, db) ==
  [ edges : EdgeMatches(q, map, db), lone : LoneMatches(q, map, db) ]

-----------------------------------------------------------------------------
(***************************************************************************)
(* A single hop: the edge, or the trail, it stands for and the ids of the  *)
(* nodes whose columns are used.  An undirected hop is read both ways.     *)
(***************************************************************************)
TheHop == << 1, 1 >>

UsedNodes(q) == { o \in Occurrences(q) : Used(q, o) }

(* The sides of the left and of the right node.                            *)
SideOf(q, o, flip) == (o = EndOf(q, TheHop, TRUE)) # flip

UndirectedMatches(q, map, db) ==
  { [ edge |-> m[1],
      ids  |-> [ o \in UsedNodes(q) |-> m[1][IdCol(SideOf(q, o, m[2]))] ] ] :
      m \in { x \in db[EdgeTable] \X BOOLEAN :
        /\ EdgeFits(q, TheHop, x[1])
        /\ \A o \in Occurrences(q) :
             EndFits(q, map, db, o, x[1], SideOf(q, o, x[2]))
        /\ SelfLoop(q, TheHop) => SamePeer(x[1], FALSE, x[1], TRUE) } }

(* The edge table as a function of its rowids.                             *)
Prov(db) == [ k \in Rowid |-> CHOOSE e \in db[EdgeTable] : e.rowid = k ]

HopType(rel) == IF rel.types = << >> THEN NoType ELSE rel.types[1]

WalkRows(db, hop) ==
  { RowOf(Prov(db), p) : p \in Trails(Prov(db), hop) }

VarlenMatches(q, map, db) ==
  LET rel == RelAt(q, TheHop)
      hop == [ type |-> HopType(rel), has_max |-> rel.star.has_max, max |-> rel.star.max ]
  IN  { [ path |-> w.path,
          ids  |-> [ o \in UsedNodes(q) |-> w[IdCol(SideOf(q, o, FALSE))] ] ] :
          w \in { x \in WalkRows(db, hop) :
            /\ rel.star.has_min => x.depth >= rel.star.min
            /\ \A o \in Occurrences(q) :
                 EndFits(q, map, db, o, x, SideOf(q, o, FALSE))
            /\ SelfLoop(q, TheHop) => SamePeer(x, FALSE, x, TRUE) } }
=============================================================================
