------------------------------ MODULE CatalogLoad ------------------------------
(***************************************************************************)
(* catalog_load and catalog_free: the tables of the database are listed by *)
(* one statement, then looked at one by one, and those that belong to the  *)
(* graph are moved to the front of the array.                              *)
(*                                                                         *)
(* A cell of the array owns a block of memory, the strings of its table; a *)
(* move copies the cell, so that two cells own one block until the array   *)
(* is cut.  frees counts how often each block is freed.  Every look at the *)
(* database may fail, and between two of them another connection may       *)
(* change the schema.                                                      *)
(***************************************************************************)
EXTENDS Naturals, Sequences, FiniteSets

CONSTANTS
  Sorted,     \* the names tables may have, in order
  EdgeTable,  \* "__provenance__"
  Unlisted,   \* the names that are LIKE 'sqlite_%', in which _ is any character
  Schemas,    \* the schemas the database may have
  MaxChanges  \* how often it may change

TableNames == { Sorted[k] : k \in 1..Len(Sorted) }

(* What the database has by a name: no table, a table with a TEXT id       *)
(* column, or a table without.                                             *)
Kinds == { "none", "node", "other" }

ASSUME SortedAssumption ==
  /\ Sorted \in Seq(TableNames)
  /\ \A k, l \in 1..Len(Sorted) : Sorted[k] = Sorted[l] => k = l

ASSUME SchemasAssumption == Schemas \subseteq [TableNames -> Kinds]

ASSUME MaxChangesAssumption == MaxChanges \in Nat

VARIABLES
  schema, changes,
  phase,    \* "start", "list", "load", "loaded", "failed" or "freed"
  rows,     \* the rows of the listing to come: places in Sorted
  tables,   \* the array: a sequence of cells [name, block]
  ntables,  \* the count of its cells in use
  i,        \* the cells looked at
  nkept,    \* the cells kept
  frees     \* how often each block was freed

catalogVars == << phase, rows, tables, ntables, i, nkept, frees >>

vars == << schema, changes, catalogVars >>

Init ==
  /\ schema \in Schemas /\ changes = 0
  /\ phase = "start"
  /\ rows = {} /\ tables = << >> /\ ntables = 0 /\ i = 0 /\ nkept = 0 /\ frees = << >>

(* Another connection changes the schema.                                  *)
Change ==
  /\ changes < MaxChanges
  /\ schema' \in Schemas \ {schema}
  /\ changes' = changes + 1
  /\ UNCHANGED catalogVars

-----------------------------------------------------------------------------
(* catalog_free: the blocks of the cells in use are freed.                 *)
CellsOf(b)  == { k \in 1..ntables : tables[k].block = b }
FreedCells  == [ b \in 1..Len(frees) |-> frees[b] + Cardinality(CellsOf(b)) ]

Free(next) ==
  /\ phase' = next
  /\ frees' = FreedCells
  /\ UNCHANGED << schema, changes, rows, tables, ntables, i, nkept >>

-----------------------------------------------------------------------------
(* The listing sees one schema, whatever happens while its rows are read.  *)
(* Its pattern means SQLite's own tables, and leaves out "sqlite:f" too.   *)
List ==
  /\ phase = "start"
  /\ phase' = "list"
  /\ rows' = { k \in 1..Len(Sorted) :
                schema[Sorted[k]] # "none" /\ Sorted[k] \notin Unlisted }
  /\ UNCHANGED << schema, changes, tables, ntables, i, nkept, frees >>

AddTable ==
  /\ phase = "list"
  /\ \E k \in rows :
       /\ \A l \in rows : k <= l
       /\ tables' = Append(tables, [ name |-> Sorted[k], block |-> Len(tables) + 1 ])
       /\ rows' = rows \ {k}
  /\ frees' = Append(frees, 0)
  /\ ntables' = ntables + 1
  /\ UNCHANGED << schema, changes, phase, i, nkept >>

EndList ==
  /\ phase = "list" /\ rows = {}
  /\ phase' = "load"
  /\ UNCHANGED << schema, changes, rows, tables, ntables, i, nkept, frees >>

(* The statement cannot be prepared, or a row of it cannot be read.        *)
ListFails == phase \in { "start", "list" } /\ Free("failed")

-----------------------------------------------------------------------------
(* load_columns looks at the schema of now.                                *)
Qualifies(cell) == schema[cell.name] = "node" \/ cell.name = EdgeTable

Looking == phase = "load" /\ i < ntables

(* Mutant: the cell is kept where it is.                                   *)
Keep_InPlace ==
  /\ Looking /\ Qualifies(tables[i + 1])
  /\ nkept' = nkept + 1
  /\ i' = i + 1
  /\ UNCHANGED << schema, changes, phase, rows, tables, ntables, frees >>

Keep ==
  /\ Looking /\ Qualifies(tables[i + 1])
  /\ tables' = [ tables EXCEPT ![nkept + 1] = tables[i + 1] ]
  /\ nkept' = nkept + 1
  /\ i' = i + 1
  /\ UNCHANGED << schema, changes, phase, rows, ntables, frees >>

(* Mutant: the cell is passed by and its block not freed.                  *)
Skip_NotFreed ==
  /\ Looking /\ ~Qualifies(tables[i + 1])
  /\ i' = i + 1
  /\ UNCHANGED << schema, changes, phase, rows, tables, ntables, nkept, frees >>

Skip ==
  /\ Looking /\ ~Qualifies(tables[i + 1])
  /\ frees' = [ frees EXCEPT ![tables[i + 1].block] = @ + 1 ]
  /\ i' = i + 1
  /\ UNCHANGED << schema, changes, phase, rows, tables, ntables, nkept >>

LoadFails == Looking /\ Free("failed")

(* Mutant: the loop ends one cell short of the end.                        *)
EndLoad_OneShort ==
  /\ phase = "load" /\ i + 1 = ntables
  /\ ntables' = nkept
  /\ phase' = "loaded"
  /\ UNCHANGED << schema, changes, rows, tables, i, nkept, frees >>

EndLoad ==
  /\ phase = "load" /\ i = ntables
  /\ ntables' = nkept
  /\ phase' = "loaded"
  /\ UNCHANGED << schema, changes, rows, tables, i, nkept, frees >>

Load == List \/ AddTable \/ EndList \/ ListFails \/ Keep \/ Skip \/ LoadFails \/ EndLoad

(* The caller is done with the catalog.                                    *)
Release == phase = "loaded" /\ Free("freed")

Next == Change \/ Load \/ Release

Spec == Init /\ [][Next]_vars

-----------------------------------------------------------------------------
(***************************************************************************)
(* Properties.                                                             *)
(***************************************************************************)
Blocks == 1..Len(frees)

(* The counters stay in their order and every cell owns a block.           *)
CatalogTypeOK ==
  /\ schema \in Schemas /\ changes \in 0..MaxChanges
  /\ phase \in { "start", "list", "load", "loaded", "failed", "freed" }
  /\ tables \in Seq([ name : TableNames, block : Blocks ])
  /\ rows \subseteq 1..Len(Sorted)
  /\ frees \in Seq(Nat)
  /\ Len(frees) = Len(tables)
  /\ ntables \in 0..Len(tables)
  /\ i \in 0..Len(tables) /\ nkept \in 0..i

(* A loaded catalog owns its memory: no two of its tables share a block,   *)
(* none of them is freed, and the blocks of the tables that were passed    *)
(* over are freed, each once.  The cells past the end are copies of what   *)
(* was moved or freed, and the cut must leave out exactly those.           *)
OwnsItsTables ==
  phase = "loaded" =>
    /\ \A k, l \in 1..ntables : tables[k].block = tables[l].block => k = l
    /\ \A b \in Blocks :
         frees[b] = IF \E k \in 1..ntables : tables[k].block = b THEN 0 ELSE 1

Graph ==
  { n \in TableNames \ Unlisted :
      schema[n] = "node" \/ (n = EdgeTable /\ schema[n] # "none") }

(* The catalog is in the order of the names, without repetition, and if    *)
(* the schema did not change it is all the node tables and the edge table, *)
(* but for the names that are not listed.                                  *)
KeepsTheGraph ==
  phase = "loaded" =>
    /\ \A k, l \in 1..ntables : k < l =>
         \E x, y \in 1..Len(Sorted) :
           x < y /\ tables[k].name = Sorted[x] /\ tables[l].name = Sorted[y]
    /\ changes = 0 => { tables[k].name : k \in 1..ntables } = Graph

(* What catalog.h says: the catalog owns its memory and catalog_free       *)
(* releases it, so no block is freed twice.                                *)
FreedOnce == \A b \in Blocks : frees[b] <= 1
=============================================================================
