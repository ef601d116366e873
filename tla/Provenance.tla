------------------------------ MODULE Provenance ------------------------------
(***************************************************************************)
(* The __provenance__ edge table and the directed hop that a query walks   *)
(* over it.                                                                *)
(*                                                                         *)
(* An edge row carries the (id, name) pair of its source and of its target *)
(* and its edge_type; any of the columns may be NULL.  Rowids identify     *)
(* rows.  A peer of an edge is the pair of columns: two edges meet in a    *)
(* node when both columns agree, never on the id alone.                    *)
(***************************************************************************)
EXTENDS SqlValue, Naturals, Sequences, FiniteSets

CONSTANTS
  Rowid,      \* the rowids of the table
  NoType      \* a hop without an edge type

ASSUME RowidAssumption == IsFiniteSet(Rowid)

(* The edge predicate of a hop: no type, or the row's edge_type equals it. *)
OfType(prov, hop, e) ==
  hop.type = NoType \/ SqlEq(prov[e].edge_type, hop.type)

(* Edge f leaves the node edge e arrives at. *)
Follows(prov, e, f) ==
  /\ SqlEq(prov[f].source_id, prov[e].target_id)
  /\ SqlEq(prov[f].source_name, prov[e].target_name)

(***************************************************************************)
(* What a variable-length hop means: the trails of the edge table, that is *)
(* the sequences of edges of the hop's type in which each edge leaves the  *)
(* node where the one before arrived and no edge occurs twice.             *)
(***************************************************************************)
IsTrail(prov, hop, p) ==
  /\ p # << >>
  /\ \A i \in 1..Len(p) : OfType(prov, hop, p[i])
  /\ \A i \in 1..(Len(p) - 1) : Follows(prov, p[i], p[i + 1])
  /\ \A i, j \in 1..Len(p) : p[i] = p[j] => i = j
  /\ hop.has_max => Len(p) <= hop.max

(* A row of the walk: the peer the trail p starts from, the peer it arrives *)
(* at, its length and the trail itself.                                     *)
RowOf(prov, p) ==
  [ source_id   |-> prov[p[1]].source_id,
    source_name |-> prov[p[1]].source_name,
    target_id   |-> prov[p[Len(p)]].target_id,
    target_name |-> prov[p[Len(p)]].target_name,
    depth       |-> Len(p),
    path        |-> p ]

(* No trail is longer than the table, so these are all of them. *)
Trails(prov, hop) ==
  { p \in UNION { [1..n -> Rowid] : n \in 1..Cardinality(Rowid) } :
      IsTrail(prov, hop, p) }
=============================================================================
