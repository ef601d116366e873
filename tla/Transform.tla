------------------------------- MODULE Transform -------------------------------
(***************************************************************************)
(* transform_query: the choice of an engine for a query, and the whole     *)
(* translation of the query to a SELECT statement by that engine.          *)
(***************************************************************************)
EXTENDS General, Undirected, VarLen

CONSTANTS
  Queries,   \* the queries asked
  Maps,      \* the name maps in use
  Databases  \* the databases the statement may be run against

(* The parser makes lists of paths, of segments, of types and of references. *)
ASSUME QueriesAssumption ==
  \A q \in Queries :
    /\ Len(q.paths) \in Nat /\ Len(q.uses) \in Nat
    /\ \A p \in 1..Len(q.paths) : Len(q.paths[p].segs) \in Nat
    /\ \A r \in Relationships(q) :
         LET types == RelAt(q, r).types
         IN  types \in Seq({ types[i] : i \in 1..Len(types) })

(* What is written is no NULL: labels and variables of references are      *)
(* texts, bounds of a repetition are numbers.                              *)
ASSUME WrittenAssumption ==
  \A q \in Queries :
    /\ \A o \in Occurrences(q) :
         LET labels == NodeAt(q, o).labels
         IN  labels \in Seq({ labels[i] : i \in 1..Len(labels) } \ {NoLabel})
    /\ \A r \in Relationships(q) : {RelAt(q, r).star.min, RelAt(q, r).star.max} \subseteq Nat
    /\ \A i \in 1..Len(q.uses) : q.uses[i].var # Anon

(* So are the tables and names of a map.                                   *)
ASSUME MapsAssumption ==
  \A m \in Maps :
    /\ Len(m) \in Nat
    /\ \A i \in 1..Len(m) : NoLabel \notin {m[i].table, m[i].name}

(* The statements are run against databases with the tables of the catalog *)
(* and the edge table, and the id of a node table is its key.              *)
ASSUME DatabasesAssumption ==
  \A db \in Databases :
    /\ Catalog \cup {EdgeTable} \subseteq DOMAIN db
    /\ \A t \in Catalog : \A x, y \in db[t] : SqlEq(x.id, y.id) => x = y

Init ==
  /\ query \in Queries
  /\ map \in Maps
  /\ engine = "none"
  /\ pc = "dispatch"
  /\ at = << 1, 0 >>
  /\ prev = 0
  /\ slots = << >>
  /\ edges = << >>
  /\ emitted = 0
  /\ from = << >>
  /\ where = {}
  /\ err = "none"

HasVarlen     == \E r \in Relationships(query) : RelAt(query, r).star.present
HasUndirected == \E r \in Relationships(query) : RelAt(query, r).dir = "undir"
SingleHop     == Len(query.paths) = 1 /\ Relationships(query) = {TheHop}

Choose(e, phase) ==
  /\ engine' = e
  /\ pc' = phase
  /\ UNCHANGED << query, map, at, prev, slots, edges, emitted, from, where, err >>

Dispatch ==
  /\ pc = "dispatch"
  /\ IF query.matches # 1 THEN Fail("multiple MATCH clauses")
     ELSE IF ~query.shape THEN Fail("RETURN shape")
     ELSE IF HasVarlen THEN
       IF SingleHop THEN Choose("varlen", "hop") ELSE Fail("variable-length in a chain")
     ELSE IF HasUndirected THEN
       IF SingleHop THEN Choose("undirected", "hop") ELSE Fail("undirected in a chain")
     ELSE Choose("general", "collect")

Next == Dispatch \/ TranslateGeneral \/ TranslateUndirected \/ TranslateVarlen

Spec == Init /\ [][Next]_vars

FairSpec == Spec /\ WF_vars(Next)

-----------------------------------------------------------------------------
(***************************************************************************)
(* Properties.                                                             *)
(***************************************************************************)
(* Slot and edge indexes stay in range through every phase, and a message  *)
(* is left exactly when the translation failed.                            *)
TypeOK ==
  /\ engine \in { "none", "general", "undirected", "varlen" }
  /\ pc \in Phases
  /\ (pc = "failed") = (err # "none")
  /\ prev \in 0..Len(slots)
  /\ \A i \in 1..Len(slots) : slots[i].anchor_edge \in 0..Len(edges)
  /\ \A i \in 1..Len(edges) : {edges[i].src, edges[i].tgt} \subseteq 1..Len(slots)
  /\ emitted \in 0..Len(query.uses)

(* Every relationship variable is used once, and for nothing else, and no  *)
(* variable is spelled like an alias the translator makes up.              *)
Generated ==
  { << "r", 1 >> } \cup { << "_e", i >> : i \in 1..Len(edges) }
                 \cup { << "_n", i >> : i \in 1..Len(slots) }

DistinctVariables ==
  /\ \A i \in 1..Len(edges) :
       edges[i].var # Anon =>
         NodesNamed(edges[i].var) = {} /\ EdgesNamed(edges[i].var) = {i}
  /\ \A i \in 1..Len(edges) : edges[i].var \notin Generated
  /\ \A i \in 1..Len(slots) : slots[i].var \notin Generated

(* SQLite accepts the statement: every table in it exists, every alias is  *)
(* declared once and before it is used.  The aliases RETURN and WHERE use  *)
(* are emitted before FROM is built, and FROM declares a node only if it   *)
(* was marked by then.                                                     *)
StatementWellFormed ==
  pc = "done" /\ DistinctVariables =>
    /\ WellFormed(from, where, { query.uses[i].var : i \in 1..Len(query.uses) })
    /\ \A i \in 1..Len(from) : from[i].table \in Catalog \cup { EdgeTable, WalkTable }

(***************************************************************************)
(* The answers of the statement over a database, in the terms of Meaning.  *)
(***************************************************************************)
GeneralAnswer(env) ==
  [ edges |-> [ r \in Relationships(query) |-> env[edges[Number(r)].alias] ],
    lone  |-> [ o \in LoneNodes(query) |-> env[slots[SlotIndex(slots, o)].alias] ] ]

UsedIds(env) == [ o \in UsedNodes(query) |-> env[NodeAt(query, o).var].id ]

Answer(env) ==
  CASE engine = "general"    -> GeneralAnswer(env)
    [] engine = "undirected" -> [ edge |-> env[edges[1].alias], ids |-> UsedIds(env) ]
    [] engine = "varlen"     -> [ path |-> env[edges[1].alias].path, ids |-> UsedIds(env) ]

Meant(db) ==
  CASE engine = "general"    -> Matches(query, map, db)
    [] engine = "undirected" -> UndirectedMatches(query, map, db)
    [] engine = "varlen"     -> VarlenMatches(query, map, db)

(* The database with the table expression, if the statement has one.       *)
Visible(db) ==
  IF engine # "varlen" THEN db
  ELSE [ t \in DOMAIN db \cup {WalkTable} |->
           IF t = WalkTable THEN WalkRows(db, WalkHop) ELSE db[t] ]

ResultRows(db) == Rows(Visible(db), from, where)
Answers(db)    == { Answer(env) : env \in ResultRows(db) }

Correct(db) ==
  LET rows == ResultRows(db)
  IN  /\ Answers(db) = Meant(db)
      /\ \A x, y \in rows : Answer(x) = Answer(y) => x = y

(* The bounds of a hop, as written, fit an int.                            *)
BoundsFit ==
  engine = "varlen" =>
    /\ Star.has_min => Star.min < 2^(IntBits - 1)
    /\ Star.has_max => Star.max < 2^(IntBits - 1)

(* No table a hop of variable length joins is hidden by the table          *)
(* expression of its statement.                                            *)
Unhidden ==
  engine = "varlen" => \A i \in 1..Len(slots) : slots[i].label # WalkTable

(* The statement answers the query: over every database its rows are what  *)
(* the pattern means, each of them once.                                   *)
TranslationCorrect ==
  pc = "done" /\ DistinctVariables /\ BoundsFit /\ Unhidden /\ ~OpensWithSelfLoop(query) =>
    \A db \in Databases : Correct(db)

(* A node is identified across the whole query by its variable name, also  *)
(* where a relationship leads from a node back to itself.                  *)
OneNodePerVariable ==
  pc = "done" /\ DistinctVariables => \A db \in Databases : Correct(db)

(* A bound that is not rejected is the bound that was written.             *)
BoundsAsWritten ==
  pc = "done" /\ engine = "varlen" =>
    /\ Star.has_min => LowerBound = Star.min
    /\ Star.has_max => UpperBound = Star.max

-----------------------------------------------------------------------------
(***************************************************************************)
(* The translator rejects a query exactly when the pattern or a reference  *)
(* is outside what it understands, wherever in the translation it notices. *)
(***************************************************************************)
NodeUnderstood(o) ==
  LET n == NodeAt(query, o)
      l == LabelsOf(query, o)
  IN  /\ ~n.props /\ Len(n.labels) <= 1 /\ Cardinality(l) <= 1
      /\ \A x \in l : ~Ambiguous(map, x) /\ Resolve(map, x).table \in Catalog
      /\ Lone(query, o) => l # {}

RelUnderstood(r) ==
  LET rel == RelAt(query, r)
      s   == rel.star
  IN  /\ Len(rel.types) <= 1 /\ PropsKnown(rel)
      /\ s.present \/ rel.dir = "undir" => SingleHop
      /\ s.present =>
           /\ rel.props = << >> /\ rel.var = Anon /\ rel.dir # "undir"
           /\ s.has_min => s.min >= 1
           /\ s.has_max => s.max >= 1
           /\ s.has_min /\ s.has_max => s.min <= s.max

UseUnderstood(u) ==
  LET nodes == { o \in Occurrences(query) : NodeAt(query, o).var = u.var }
      rels  == { r \in Relationships(query) : RelAt(query, r).var = u.var }
  IN  /\ u.known
      /\ nodes \cup rels # {}
      /\ \A o \in nodes : LabelsOf(query, o) # {}

Understood ==
  /\ query.matches = 1 /\ query.shape
  /\ \A o \in Occurrences(query) : NodeUnderstood(o)
  /\ \A r \in Relationships(query) : RelUnderstood(r)
  /\ \A i \in 1..Len(query.uses) : UseUnderstood(query.uses[i])

(* Only what is understood is translated and only the rest is rejected.    *)
RejectsExactly ==
  BoundsFit /\ (engine = "general" \/ ~OpensWithSelfLoop(query)) =>
    /\ pc = "done" => Understood
    /\ pc = "failed" => ~Understood

(* No match is lost, whatever the pattern.                                 *)
NothingLost ==
  pc = "done" /\ DistinctVariables /\ BoundsFit /\ Unhidden /\ Understood =>
    \A db \in Databases : Meant(db) \subseteq Answers(db)

(* Every translation ends, with a statement or with an error.              *)
Termination == <>(pc \in {"done", "failed"})
=============================================================================
