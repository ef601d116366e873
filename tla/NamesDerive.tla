------------------------------ MODULE NamesDerive ------------------------------
(***************************************************************************)
(* names_derive: the name map read off the data.                           *)
(*                                                                         *)
(* Every (name, id) pair an edge carries is looked at once, in whatever    *)
(* order SQLite returns them; the id is looked up in the node tables, in   *)
(* the order of the catalog, and the first table that holds it is recorded *)
(* for the name.  A lookup may fail.                                       *)
(***************************************************************************)
EXTENDS Names, SqlValue

CONSTANTS
  EdgeTable,  \* "__provenance__"
  Tables,     \* the tables of the catalog, in order
  PeerSets,   \* the sets of << name, id >> pairs the edges may carry
  Holdings    \* what the node tables may hold: functions from tables to ids

(* Its tables as a set, and those among them that hold nodes.              *)
CatalogTables == { Tables[i] : i \in 1..Len(Tables) }

ASSUME TablesAssumption == Tables \in Seq(CatalogTables) /\ NoLabel \notin CatalogTables

ASSUME PeersAssumption ==
  \A s \in PeerSets : \A p \in s : p = << p[1], p[2] >> /\ p[1] # NoLabel

ASSUME HoldingsAssumption ==
  \A h \in Holdings, t \in CatalogTables : NULL \notin h[t]

VARIABLES
  pairs,   \* the distinct pairs of the edge table whose name is not NULL
  holds,   \* the ids each table holds
  broken,  \* the tables SQLite cannot read
  todo,    \* the pairs not looked at yet
  map,     \* the entries so far
  status   \* "running", "done", or "failed"

vars == << pairs, holds, broken, todo, map, status >>

NodeTables == CatalogTables \ {EdgeTable}

Init ==
  /\ pairs \in PeerSets
  /\ holds \in Holdings
  /\ broken \in SUBSET NodeTables
  /\ todo = pairs
  /\ map = << >>
  /\ status = "running"

-----------------------------------------------------------------------------
(* Mutant: the last table is not asked.                                    *)
Asked_LastMissed(id) ==
  LET stops == { i \in 1..(Len(Tables) - 1) :
        /\ Tables[i] # EdgeTable
        /\ Tables[i] \in broken \/ id \in holds[Tables[i]] }
  IN  IF stops = {} THEN 0 ELSE CHOOSE i \in stops : \A j \in stops : i <= j

(* table_holding_id: the tables are asked in order until one holds the id  *)
(* or cannot be read; 0 if neither happens.                                *)
Asked(id) ==
  LET stops == { i \in 1..Len(Tables) :
        /\ Tables[i] # EdgeTable
        /\ Tables[i] \in broken \/ id \in holds[Tables[i]] }
  IN  IF stops = {} THEN 0 ELSE CHOOSE i \in stops : \A j \in stops : i <= j

(* A row with no id, or whose name is the table of an entry, is passed by. *)
Skipped(pair) == pair[2] = NULL \/ \E e \in Entries(map) : e.table = pair[1]

Passed(pair) == todo' = todo \ {pair} /\ UNCHANGED << pairs, holds, broken, status >>

Skip(pair) ==
  /\ Skipped(pair)
  /\ Passed(pair)
  /\ UNCHANGED map

NoHolder(pair) ==
  /\ ~Skipped(pair)
  /\ Asked(pair[2]) = 0
  /\ Passed(pair)
  /\ UNCHANGED map

(* Mutant: table and name are swapped.                                     *)
Record_Swapped(pair) ==
  /\ ~Skipped(pair)
  /\ Asked(pair[2]) # 0
  /\ LET table == Tables[Asked(pair[2])]
     IN  /\ table \notin broken
         /\ map' = Append(map, Entry(pair[1], table))
  /\ Passed(pair)

Record(pair) ==
  /\ ~Skipped(pair)
  /\ Asked(pair[2]) # 0
  /\ LET table == Tables[Asked(pair[2])]
     IN  /\ table \notin broken
         /\ map' = Append(map, Entry(table, pair[1]))
  /\ Passed(pair)

(* The map is freed and none is returned.                                  *)
LookupFails(pair) ==
  /\ ~Skipped(pair)
  /\ Asked(pair[2]) # 0
  /\ Tables[Asked(pair[2])] \in broken
  /\ map' = << >>
  /\ status' = "failed"
  /\ UNCHANGED << pairs, holds, broken, todo >>

Look ==
  /\ status = "running"
  /\ \E pair \in todo : Skip(pair) \/ NoHolder(pair) \/ Record(pair) \/ LookupFails(pair)

(* Mutant: an empty map is not returned.                                   *)
Finish_NotEmpty ==
  /\ status = "running" /\ todo = {} /\ map # << >>
  /\ status' = "done"
  /\ UNCHANGED << pairs, holds, broken, todo, map >>

Finish ==
  /\ status = "running" /\ todo = {}
  /\ status' = "done"
  /\ UNCHANGED << pairs, holds, broken, todo, map >>

Next == Look \/ Finish

Spec == Init /\ [][Next]_vars

FairSpec == Spec /\ WF_vars(Next)

-----------------------------------------------------------------------------
(***************************************************************************)
(* Properties.                                                             *)
(***************************************************************************)
(* The entries pair node tables with names of the edge table.              *)
TypeOK ==
  /\ pairs \in PeerSets /\ holds \in Holdings /\ broken \subseteq NodeTables
  /\ todo \subseteq pairs
  /\ map \in Seq([ table : NodeTables, name : { p[1] : p \in pairs } ])
  /\ status \in { "running", "done", "failed" }

(* The tables that hold one of the name's ids.                             *)
HomesOf(n) == { t \in NodeTables : \E p \in pairs : p[1] = n /\ p[2] \in holds[t] }

NamesInEdges == { p[1] : p \in pairs }

Mapped(n) == \E e \in Entries(map) : e.name = n

(* A name with a row in some table is left out only if it is itself a      *)
(* table of the map.                                                       *)
MissingOnlyIfTable ==
  status = "done" =>
    \A n \in NamesInEdges :
      HomesOf(n) # {} => Mapped(n) \/ \E e \in Entries(map) : e.table = n

(* The data of a Knit database without a clash: the rows of a command are  *)
(* in one table, no two commands share a table, and a table that bears the *)
(* name of a command is that command's own.                                *)
Clean ==
  /\ \A n \in NamesInEdges : \A t, u \in HomesOf(n) : t = u
  /\ \A n, m \in NamesInEdges :
       /\ HomesOf(n) \cap HomesOf(m) # {} => n = m
       /\ m \in HomesOf(n) => n = m

Expected ==
  { e \in [ table : NodeTables, name : NamesInEdges ] : e.table \in HomesOf(e.name) }

(* On such data the map is the same in every order of the rows: an entry   *)
(* for each command with a row.                                            *)
OrderIrrelevant == status = "done" /\ Clean => Entries(map) = Expected

(* On such data either spelling of a command resolves to its table and to  *)
(* its name, and never to an error.                                        *)
ReadsBothWays ==
  status = "done" /\ Clean =>
    \A e \in Expected : \A label \in { e.table, e.name } :
      ~Ambiguous(map, label) /\ Resolve(map, label) = e

(* What names.h says of every database: a name is skipped only if no table *)
(* holds its rows.                                                         *)
EveryNameMapped ==
  status = "done" => \A n \in NamesInEdges : HomesOf(n) # {} => Mapped(n)

(* The derivation ends.                                                    *)
Termination == <>(status # "running")

-----------------------------------------------------------------------------
(***************************************************************************)
(* The inductive invariant behind these properties.                        *)
(***************************************************************************)
(* An entry pairs a table with a name that has a row in it.                *)
EntriesFromData ==
  \A e \in Entries(map) : e.name \in NamesInEdges /\ e.table \in HomesOf(e.name)

(* Every pair looked at whose id is in some table left an entry for its    *)
(* name, or found its name among the tables.                               *)
Accounted ==
  status # "failed" =>
    \A p \in pairs \ todo : (\E t \in NodeTables : p[2] \in holds[t]) =>
      \E e \in Entries(map) : p[1] \in { e.name, e.table }

IInv == TypeOK /\ EntriesFromData /\ Accounted /\ (status = "done" => todo = {})
=============================================================================
