--------------------------------- MODULE Walk ---------------------------------
(***************************************************************************)
(* The recursive common table expression `walk` that transform_varlen      *)
(* writes for a hop (a)-[:t*m..n]->(b), as SQLite runs it.                 *)
(*                                                                         *)
(* The base member puts a row of depth 1 on the queue for every edge of    *)
(* the hop's type.  Each round takes a row off the queue, adds it to the   *)
(* result and queues the rows the recursive member makes from it.  SQL     *)
(* leaves the order in which queued rows are taken open, so any queued row *)
(* may be next.                                                            *)
(*                                                                         *)
(* The members are combined with UNION ALL, which keeps duplicates; queue  *)
(* and walk are sets here, and NoRowTwice states that no row is ever made  *)
(* twice, so that the sets lose nothing.  The path column is the sequence  *)
(* of rowids that the text of the column spells, see WalkText.             *)
(***************************************************************************)
EXTENDS Provenance

CONSTANTS
  EdgeRows,   \* the rows the table may hold
  Hops        \* the hops a query may ask for

ASSUME HopsAssumption ==
  \A h \in Hops : h.has_max \in BOOLEAN /\ h.max \in Nat \ {0}

VARIABLES
  prov,    \* the edge table, [Rowid -> EdgeRows]
  hop,     \* the hop: type, has_max, max
  queue,   \* rows made and not yet taken
  walk     \* rows of the result

vars == << prov, hop, queue, walk >>

(***************************************************************************)
(* The two members of the table expression.                                *)
(***************************************************************************)
BaseRow(e) ==
  [ source_id   |-> prov[e].source_id,
    source_name |-> prov[e].source_name,
    target_id   |-> prov[e].target_id,
    target_name |-> prov[e].target_name,
    depth       |-> 1,
    path        |-> << e >> ]

(* Mutants: the join compares the ids alone; the upper bound is exclusive.  *)
Joins_IdOnly(w, e) ==
  /\ SqlEq(prov[e].source_id, w.target_id)
  /\ OfType(prov, hop, e)
  /\ hop.has_max => w.depth < hop.max

Joins_BoundExclusive(w, e) ==
  /\ SqlEq(prov[e].source_id, w.target_id)
  /\ SqlEq(prov[e].source_name, w.target_name)
  /\ OfType(prov, hop, e)
  /\ hop.has_max => w.depth + 1 < hop.max

(* The JOIN and the WHERE of the recursive member but for its last term. *)
Joins(w, e) ==
  /\ SqlEq(prov[e].source_id, w.target_id)
  /\ SqlEq(prov[e].source_name, w.target_name)
  /\ OfType(prov, hop, e)
  /\ hop.has_max => w.depth < hop.max

(* The last term keeps the edges of the path out; WalkText has the text it *)
(* is written over.                                                        *)
OnPath(p, e) == \E i \in 1..Len(p) : p[i] = e

Extends(w, e) == Joins(w, e) /\ ~ OnPath(w.path, e)

(* Mutants: the path and the depth are carried on as they are; the depth   *)
(* counts down.                                                            *)
ExtendedRow_Carried(w, e) ==
  [ w EXCEPT !.target_id = prov[e].target_id, !.target_name = prov[e].target_name ]

ExtendedRow_CountsDown(w, e) ==
  [ source_id   |-> w.source_id,
    source_name |-> w.source_name,
    target_id   |-> prov[e].target_id,
    target_name |-> prov[e].target_name,
    depth       |-> w.depth - 1,
    path        |-> Append(w.path, e) ]

ExtendedRow(w, e) ==
  [ source_id   |-> w.source_id,
    source_name |-> w.source_name,
    target_id   |-> prov[e].target_id,
    target_name |-> prov[e].target_name,
    depth       |-> w.depth + 1,
    path        |-> Append(w.path, e) ]

NewRows(w) == { ExtendedRow(w, e) : e \in { x \in Rowid : Extends(w, x) } }

Init ==
  /\ prov \in [Rowid -> EdgeRows]
  /\ hop \in Hops
  /\ queue = { BaseRow(e) : e \in { x \in Rowid : OfType(prov, hop, x) } }
  /\ walk = {}

Take(w) ==
  /\ walk' = walk \cup {w}
  /\ queue' = (queue \ {w}) \cup NewRows(w)
  /\ UNCHANGED << prov, hop >>

Next == \E w \in queue : Take(w)

Spec == Init /\ [][Next]_vars

FairSpec == Spec /\ WF_vars(Next)

-----------------------------------------------------------------------------
(***************************************************************************)
(* Properties.                                                             *)
(***************************************************************************)

(* The tables and the hop stay what they were and every path is a sequence *)
(* of rowids.                                                              *)
TypeOK ==
  /\ prov \in [Rowid -> EdgeRows]
  /\ hop \in Hops
  /\ \A r \in queue \cup walk : r.path \in Seq(Rowid) /\ r.depth \in Nat

(* Every row the walk makes stands for a trail, and its carried columns    *)
(* agree with that trail: the source is that of the first edge, the target *)
(* that of the last, the depth the number of edges.  The columns are       *)
(* carried from row to row, so an error in one round would survive in all  *)
(* the rows made from it.                                                  *)
RowsAreTrails ==
  \A r \in queue \cup walk : IsTrail(prov, hop, r.path) /\ r = RowOf(prov, r.path)

(* UNION ALL makes no row twice: a row taken from the queue is not in the  *)
(* result already, and the rows made from it are new.                      *)
NoRowTwice ==
  /\ queue \cap walk = {}
  /\ \A w \in queue : NewRows(w) \cap (queue \cup walk) = {}

(* When the queue is empty the result is exactly the set of trails of the  *)
(* hop, whatever order the rows were taken in.                             *)
AllTrailsFound ==
  queue = {} => { r.path : r \in walk } = Trails(prov, hop)

(* The walk ends on every table, cyclic ones and open upper bounds too,    *)
(* because no edge is used twice on a path.                                *)
Termination == <>(queue = {})

(* The walk implements an enumeration of the trails of its hop: each round *)
(* finds one trail that was not found before.                              *)
Search == INSTANCE Enumeration
            WITH wanted <- Trails(prov, hop), found <- { r.path : r \in walk }

ImplementsSearch == Search!Spec

-----------------------------------------------------------------------------
(***************************************************************************)
(* The inductive invariant behind these properties.                        *)
(***************************************************************************)
StartsWith(q, p) ==
  Len(p) <= Len(q) /\ \A i \in 1..Len(p) : q[i] = p[i]

(* No row starts with the path of a queued row: what a queued row leads to *)
(* has not been made yet.                                                  *)
QueueIsFrontier ==
  \A r \in queue, s \in queue \cup walk : StartsWith(s.path, r.path) => s = r

(* Every trail is in the result or a queued row leads to it.               *)
NothingLost ==
  \A p \in Trails(prov, hop) :
    RowOf(prov, p) \in walk \/ \E r \in queue : StartsWith(p, r.path)

(* A taken row has left the queue.                                         *)
TakenOnce == queue \cap walk = {}

IInv == TypeOK /\ RowsAreTrails /\ TakenOnce /\ QueueIsFrontier /\ NothingLost
=============================================================================
