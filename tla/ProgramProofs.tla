---------------------------- MODULE ProgramProofs ----------------------------
(***************************************************************************)
(* The catalog owns its memory and is the graph, for any number of tables  *)
(* and of changes of the schema; and the program that uses it, from its    *)
(* command line to its exit, for any number of rows too: whatever fails,   *)
(* everything is released, all or nothing is printed, and SQLite misses    *)
(* only a table that is gone.                                              *)
(***************************************************************************)
EXTENDS Program, FiniteSetTheorems, TLAPS

-----------------------------------------------------------------------------
(***************************************************************************)
(* The memory of the catalog.                                              *)
(*                                                                         *)
(* Blocks are numbered in the order of the listing.  While the cells are   *)
(* looked at, those from i + 1 on still own the block of their number, the *)
(* nkept in front own blocks of their own up to i that were not freed, and *)
(* every other block up to i was freed once.                               *)
(***************************************************************************)
Cell == [ name : TableNames, block : Nat ]

Types ==
  /\ schema \in Schemas /\ changes \in 0..MaxChanges
  /\ phase \in { "start", "list", "load", "loaded", "failed", "freed" }
  /\ rows \subseteq 1..Len(Sorted)
  /\ tables \in Seq(Cell)
  /\ frees \in Seq(Nat)
  /\ Len(frees) = Len(tables)
  /\ ntables \in 0..Len(tables)
  /\ i \in 0..Len(tables) /\ nkept \in 0..i

(* Every cell owns a block.                                                *)
Owned == \A k \in 1..Len(tables) : tables[k].block \in 1..Len(tables)

(* Nothing is looked at before everything is listed.                       *)
Listing == phase \in { "start", "list" } => i = 0 /\ nkept = 0

(* The cells not looked at own the blocks of their numbers, never freed.   *)
Ahead ==
  phase \in { "start", "list", "load" } =>
    /\ ntables = Len(tables)
    /\ \A k \in (i + 1)..Len(tables) : tables[k].block = k /\ frees[k] = 0

(* The cells kept own blocks of their own among those passed.              *)
Kept ==
  phase \in { "load", "loaded" } =>
    /\ \A k \in 1..nkept : tables[k].block \in 1..i
    /\ \A k, l \in 1..nkept : tables[k].block = tables[l].block => k = l
    /\ \A b \in 1..i :
         frees[b] = IF \E k \in 1..nkept : tables[k].block = b THEN 0 ELSE 1

Cut == phase = "loaded" => ntables = nkept /\ i = Len(tables)

IInv == Types /\ Owned /\ Listing /\ Ahead /\ Kept /\ Cut

-----------------------------------------------------------------------------
(* The program starts loading with an empty array.                         *)
THEOREM Initially == Init => IInv
  BY MaxChangesAssumption DEF Init, IInv, Types, Owned, Listing, Ahead, Kept, Cut, Cell

(* A sequence is of the type its elements are of.                          *)
LEMMA Retyped ==
  ASSUME NEW S, NEW T, NEW s \in Seq(S), \A k \in 1..Len(s) : s[k] \in T
  PROVE  s \in Seq(T)
<1>1. s = [ k \in 1..Len(s) |-> s[k] ] /\ Len(s) \in Nat
  OBVIOUS
<1>2. [ k \in 1..Len(s) |-> s[k] ] \in Seq(T)
  BY <1>1
<1> QED BY <1>1, <1>2

(* The counts after catalog_free are counts.                               *)
LEMMA FreedIsTyped ==
  ASSUME Types
  PROVE  FreedCells \in Seq(Nat) /\ Len(FreedCells) = Len(frees)
<1>1. ASSUME NEW b \in 1..Len(frees) PROVE frees[b] + Cardinality(CellsOf(b)) \in Nat
  <2>1. IsFiniteSet(1..ntables) /\ CellsOf(b) \subseteq 1..ntables
    BY FS_Interval DEF Types, CellsOf
  <2>2. Cardinality(CellsOf(b)) \in Nat
    BY <2>1, FS_Subset, FS_CardinalityType
  <2> QED BY <2>2 DEF Types
<1>2. Len(frees) \in Nat
  BY DEF Types
<1> QED BY <1>1, <1>2 DEF FreedCells

(* catalog_free leaves nothing to be looked at.                            *)
LEMMA FreeKeeps ==
  ASSUME IInv, NEW next \in { "failed", "freed" }, Free(next)
  PROVE  IInv'
<1>1. Types'
  BY FreedIsTyped DEF IInv, Types, Free
<1>2. Owned'
  BY DEF IInv, Owned, Free
<1> QED BY <1>1, <1>2 DEF IInv, Listing, Ahead, Kept, Cut, Free

-----------------------------------------------------------------------------
(* Listing.                                                                *)
LEMMA ListKeeps ==
  ASSUME IInv, List \/ AddTable \/ EndList
  PROVE  IInv'
<1>1. CASE List
  BY <1>1 DEF IInv, Types, Owned, Listing, Ahead, Kept, Cut, List
<1>2. CASE EndList
  BY <1>2 DEF IInv, Types, Owned, Listing, Ahead, Kept, Cut, EndList
<1>3. CASE AddTable
  <2>1. PICK k \in rows :
          /\ tables' = Append(tables, [ name |-> Sorted[k], block |-> Len(tables) + 1 ])
          /\ rows' = rows \ {k}
    BY <1>3 DEF AddTable
  <2>2. [ name |-> Sorted[k], block |-> Len(tables) + 1 ] \in Cell
    BY DEF IInv, Types, Cell, TableNames
  <2>3. Types'
    BY <1>3, <2>1, <2>2 DEF IInv, Types, AddTable, Ahead
  <2>4. /\ Len(tables') = Len(tables) + 1 /\ Len(tables) \in Nat
        /\ tables'[Len(tables) + 1].block = Len(tables) + 1
        /\ \A m \in 1..Len(tables) : tables'[m] = tables[m]
    BY <2>1, <2>2 DEF IInv, Types
  <2>5. frees'[Len(tables) + 1] = 0 /\ \A m \in 1..Len(tables) : frees'[m] = frees[m]
    BY <1>3 DEF IInv, Types, AddTable
  <2>6. Owned'
    BY <2>4 DEF IInv, Owned
  <2>7. Listing'
    BY <1>3 DEF IInv, Listing, AddTable
  <2>8. Ahead'
    BY <1>3, <2>4, <2>5 DEF IInv, Types, Ahead, Listing, AddTable
  <2> QED BY <1>3, <2>3, <2>6, <2>7, <2>8 DEF IInv, Kept, Cut, AddTable
<1> QED BY <1>1, <1>2, <1>3

(* The cell looked at is kept: it is the first of those ahead, so its      *)
(* block is not that of a cell kept before.                                *)
LEMMA KeepKeeps ==
  ASSUME IInv, Keep
  PROVE  IInv'
<1> USE DEF IInv, Types, Keep, Looking
<1>1. /\ Len(tables') = Len(tables) /\ tables' \in Seq(Cell)
      /\ tables'[nkept + 1] = tables[i + 1]
      /\ \A k \in 1..Len(tables) : k # nkept + 1 => tables'[k] = tables[k]
  BY DEF Ahead
<1>2. tables[i + 1].block = i + 1 /\ frees[i + 1] = 0 /\ ntables = Len(tables)
  BY DEF Ahead
<1>3. Types'
  BY <1>1, <1>2
<1>4. Owned'
  BY <1>1, <1>2 DEF Owned
<1>5. Ahead'
  BY <1>1, <1>2 DEF Ahead
<1>6. Kept'
  <2>1. \A k \in 1..nkept : tables'[k].block = tables[k].block /\ tables[k].block \in 1..i
    BY <1>1 DEF Kept
  <2>2. tables'[nkept + 1].block = i + 1
    BY <1>1, <1>2
  <2>0. /\ i \in Nat /\ i' = i + 1 /\ frees' = frees
        /\ \A k : k \in 1..nkept' <=> k \in 1..nkept \/ k = nkept + 1
    OBVIOUS
  <2>a. ASSUME NEW b \in 1..i PROVE b \in 1..(i + 1) /\ b # i + 1
    BY <2>0
  <2>3. \A k \in 1..nkept' : tables'[k].block \in 1..i'
    <3>1. i + 1 \in 1..(i + 1)
      BY <2>0
    <3> QED BY <2>0, <2>a, <2>1, <2>2, <3>1
  <2>4. ASSUME NEW k \in 1..nkept', NEW l \in 1..nkept', tables'[k].block = tables'[l].block
        PROVE  k = l
    <3>1. CASE k \in 1..nkept /\ l \in 1..nkept
      BY <3>1, <2>1, <2>4 DEF Kept
    <3>2. CASE k = nkept + 1 \/ l = nkept + 1
      BY <3>2, <2>0, <2>a, <2>1, <2>2, <2>4
    <3> QED BY <3>1, <3>2, <2>0
  <2>5. ASSUME NEW b \in 1..i'
        PROVE  frees'[b] = IF \E k \in 1..nkept' : tables'[k].block = b THEN 0 ELSE 1
    <3>1. CASE b = i + 1
      BY <3>1, <2>2, <1>2
    <3>2. CASE b # i + 1
      <4>1. b \in 1..i
        BY <3>2
      <4>2. (\E k \in 1..nkept' : tables'[k].block = b) <=> \E k \in 1..nkept : tables[k].block = b
        BY <2>0, <2>1, <2>2, <3>2
      <4> QED BY <4>1, <4>2, <2>0 DEF Kept
    <3> QED BY <3>1, <3>2
  <2> QED BY <2>3, <2>4, <2>5 DEF Kept
<1> QED BY <1>3, <1>4, <1>5, <1>6 DEF Listing, Cut

(* The cell looked at is passed over and its block freed for the first     *)
(* time.                                                                   *)
LEMMA SkipKeeps ==
  ASSUME IInv, Skip
  PROVE  IInv'
<1> USE DEF IInv, Types, Skip, Looking
<1>1. tables[i + 1].block = i + 1 /\ frees[i + 1] = 0 /\ ntables = Len(tables)
  BY DEF Ahead
<1>2. /\ frees' \in Seq(Nat) /\ Len(frees') = Len(frees)
      /\ frees'[i + 1] = 1
      /\ \A k \in 1..Len(frees) : k # i + 1 => frees'[k] = frees[k]
  BY <1>1
<1>3. Types'
  BY <1>1, <1>2
<1>4. Owned'
  BY DEF Owned
<1>5. Ahead'
  BY <1>1, <1>2 DEF Ahead
<1>6. Kept'
  <2>1. \A k \in 1..nkept : tables[k].block \in 1..i
    BY DEF Kept
  <2>2. ASSUME NEW b \in 1..i'
        PROVE  frees'[b] = IF \E k \in 1..nkept : tables[k].block = b THEN 0 ELSE 1
    <3>1. CASE b = i + 1
      BY <3>1, <2>1, <1>2
    <3>2. CASE b # i + 1
      <4>1. b \in 1..i /\ b \in 1..Len(frees)
        BY <3>2
      <4> QED BY <4>1, <3>2, <1>2 DEF Kept
    <3> QED BY <3>1, <3>2
  <2> QED BY <2>1, <2>2 DEF Kept
<1> QED BY <1>3, <1>4, <1>5, <1>6 DEF Listing, Cut

(* Every step keeps the invariant.                                         *)
THEOREM Inductive == IInv /\ [Next]_vars => IInv'
<1> SUFFICES ASSUME IInv, [Next]_vars PROVE IInv'
  OBVIOUS
<1>1. CASE Change
  BY <1>1, MaxChangesAssumption
     DEF IInv, Types, Owned, Listing, Ahead, Kept, Cut, Change, catalogVars
<1>2. CASE List \/ AddTable \/ EndList
  BY <1>2, ListKeeps
<1>3. CASE ListFails \/ LoadFails \/ Release
  BY <1>3, FreeKeeps DEF ListFails, LoadFails, Release
<1>4. CASE Keep
  BY <1>4, KeepKeeps
<1>5. CASE Skip
  BY <1>5, SkipKeeps
<1>6. CASE EndLoad
  BY <1>6 DEF IInv, Types, Owned, Listing, Ahead, Kept, Cut, EndLoad
<1>7. CASE UNCHANGED vars
  BY <1>7 DEF IInv, Types, Owned, Listing, Ahead, Kept, Cut, vars, catalogVars
<1> QED BY <1>1, <1>2, <1>3, <1>4, <1>5, <1>6, <1>7 DEF Next, Load

(* The invariant holds in every state of the loading.                      *)
THEOREM Invariance == Spec => []IInv
  BY Initially, Inductive, PTL DEF Spec

-----------------------------------------------------------------------------
(* A loaded catalog owns its memory, each block once, and what it does not *)
(* own was freed once.                                                     *)
THEOREM LoadedCatalogOwnsItsTables == Spec => []OwnsItsTables
<1>1. IInv => OwnsItsTables
  BY DEF IInv, Types, Kept, Cut, OwnsItsTables, Blocks
<1> QED BY Invariance, <1>1, PTL

(* The type invariant of the catalog.                                      *)
THEOREM CatalogIsTyped == Spec => []CatalogTypeOK
<1>1. IInv => CatalogTypeOK
  <2> SUFFICES ASSUME IInv PROVE CatalogTypeOK
    OBVIOUS
  <2>1. \A k \in 1..Len(tables) : tables[k] \in [ name : TableNames, block : Blocks ]
    <3> SUFFICES ASSUME NEW k \in 1..Len(tables)
                 PROVE  tables[k] \in [ name : TableNames, block : Blocks ]
      OBVIOUS
    <3>1. tables[k] \in Cell /\ tables[k].block \in 1..Len(frees)
      BY DEF IInv, Types, Owned
    <3> QED BY <3>1 DEF Cell, Blocks
  <2>2. tables \in Seq([ name : TableNames, block : Blocks ])
    BY <2>1, Retyped DEF IInv, Types
  <2> QED BY <2>2 DEF IInv, Types, CatalogTypeOK
<1> QED BY Invariance, <1>1, PTL

-----------------------------------------------------------------------------
(* Whatever main does, it loads, releases and otherwise leaves the catalog *)
(* alone: the program implements the specification of the loading.         *)
THEOREM ProgramUsesTheCatalog == ProgramSpec => Spec
<1>1. ProgramInit => Init
  BY DEF ProgramInit
<1>2. ProgramNext => [Next]_vars
  <2>1. Execute => [Next]_vars
    BY DEF Execute, Prepare, Row, StepFails, Done, Next
  <2>2. EffectiveMap \/ Parse \/ Translate \/ ShowCatalog => [Next]_vars
    BY DEF EffectiveMap, Parse, ParseFails, Translate, ShowCatalog, Next
  <2>3. Arguments \/ Ast \/ ExplicitMap \/ Open \/ LoadCatalog => [Next]_vars
    BY DEF Arguments, Ast, ExplicitMap, Open, LoadCatalog, Next
  <2>4. Concurrently => [Next]_vars
    BY DEF Concurrently, Next
  <2> QED BY <2>1, <2>2, <2>3, <2>4 DEF ProgramNext, Main
<1>3. UNCHANGED allVars => UNCHANGED vars
  BY DEF allVars
<1> QED BY <1>1, <1>2, <1>3, PTL DEF ProgramSpec, Spec

(* So the catalog main works with owns its memory.                         *)
THEOREM ProgramOwnsItsTables == ProgramSpec => []OwnsItsTables
  BY ProgramUsesTheCatalog, LoadedCatalogOwnsItsTables, PTL

-----------------------------------------------------------------------------
(***************************************************************************)
(* A loaded catalog is the graph's tables, in order: while it is loaded,   *)
(* the cells in use are those kept in front and those not looked at, and   *)
(* the gap between them holds nothing that is missed.                      *)
(***************************************************************************)
Loading == phase \in { "start", "list", "load", "loaded" }

InUse == (1..nkept) \cup ((i + 1)..ntables)

PlaceOf(n) == CHOOSE x \in 1..Len(Sorted) : Sorted[x] = n

(* Nothing is listed twice or too late.                                    *)
Rest ==
  /\ phase = "start" => tables = << >> /\ rows = {}
  /\ phase \in { "load", "loaded" } => rows = {}

(* The cells in use are in the order of the names, the rows to come after  *)
(* them.                                                                   *)
Ascending ==
  Loading =>
    /\ \A k, l \in InUse : k < l => PlaceOf(tables[k].name) < PlaceOf(tables[l].name)
    /\ \A k \in InUse, r \in rows : PlaceOf(tables[k].name) < r

Present == { n \in TableNames \ Unlisted : schema[n] # "none" }

(* What is listed exists, and what is kept is in the graph.                *)
Sound ==
  Loading /\ changes = 0 =>
    /\ \A r \in rows : Sorted[r] \in Present
    /\ \A k \in InUse : tables[k].name \in Present
    /\ \A k \in 1..nkept : tables[k].name \in Graph

(* A table of the graph is still to come or in a cell in use.              *)
Complete ==
  phase \in { "list", "load", "loaded" } /\ changes = 0 =>
    \A n \in Graph : PlaceOf(n) \in rows \/ \E k \in InUse : tables[k].name = n

GInv == IInv /\ Rest /\ Ascending /\ Sound /\ Complete

-----------------------------------------------------------------------------
(* A name has one place.                                                   *)
LEMMA Placed ==
  /\ \A n \in TableNames : PlaceOf(n) \in 1..Len(Sorted) /\ Sorted[PlaceOf(n)] = n
  /\ \A x \in 1..Len(Sorted) : Sorted[x] \in TableNames /\ PlaceOf(Sorted[x]) = x
<1>1. ASSUME NEW n \in TableNames
      PROVE  PlaceOf(n) \in 1..Len(Sorted) /\ Sorted[PlaceOf(n)] = n
  <2>1. \E x \in 1..Len(Sorted) : Sorted[x] = n
    BY DEF TableNames
  <2> QED BY <2>1 DEF PlaceOf
<1>2. ASSUME NEW x \in 1..Len(Sorted)
      PROVE  Sorted[x] \in TableNames /\ PlaceOf(Sorted[x]) = x
  <2>1. Sorted[x] \in TableNames
    BY DEF TableNames
  <2> QED BY <2>1, <1>1, SortedAssumption
<1> QED BY <1>1, <1>2

(* The program starts with nothing listed.                                 *)
THEOREM StartsEmpty == Init => GInv
<1> SUFFICES ASSUME Init PROVE GInv
  OBVIOUS
<1>1. InUse = {}
  BY DEF Init, InUse
<1>2. rows = {} /\ phase = "start" /\ tables = << >> /\ nkept = 0
  BY DEF Init
<1> QED BY <1>1, <1>2, Initially DEF GInv, Rest, Ascending, Sound, Complete, Loading

(* The listing is of the tables there are, in order.                       *)
LEMMA ListOrders ==
  ASSUME GInv, List
  PROVE  Rest' /\ Ascending' /\ Sound' /\ Complete'
<1>1. /\ tables' = << >> /\ nkept' = 0 /\ i' = 0 /\ ntables' = 0
      /\ phase' = "list" /\ changes' = changes /\ schema' = schema
  BY DEF GInv, IInv, Types, Listing, Rest, List
<1>2. InUse' = {}
  BY <1>1 DEF InUse
<1>3. \A r \in rows' : Sorted[r] \in Present
  BY Placed DEF List, Present
<1>4. \A n \in Graph : PlaceOf(n) \in rows'
  BY Placed DEF List, Graph
<1>5. Present' = Present /\ Graph' = Graph
  BY <1>1 DEF Present, Graph
<1> QED BY <1>1, <1>2, <1>3, <1>4, <1>5 DEF Rest, Ascending, Sound, Complete, Loading

(* The row taken is the first of those to come.                            *)
LEMMA AddOrders ==
  ASSUME GInv, AddTable
  PROVE  Rest' /\ Ascending' /\ Sound' /\ Complete'
<1>1. /\ phase = "list" /\ phase' = "list" /\ changes' = changes /\ schema' = schema
      /\ nkept = 0 /\ i = 0 /\ nkept' = 0 /\ i' = 0
      /\ ntables = Len(tables) /\ ntables' = ntables + 1 /\ ntables \in Nat
  BY DEF GInv, IInv, Types, Listing, Ahead, AddTable
<1>2. PICK r \in rows :
        /\ \A l \in rows : r <= l
        /\ tables' = Append(tables, [ name |-> Sorted[r], block |-> Len(tables) + 1 ])
        /\ rows' = rows \ {r}
  BY DEF AddTable
<1>3. InUse = 1..ntables /\ InUse' = 1..(ntables + 1)
  BY <1>1 DEF InUse
<1>4. /\ \A k \in InUse : tables'[k] = tables[k] /\ k < ntables + 1
      /\ tables'[ntables + 1].name = Sorted[r]
      /\ \A k \in InUse' : k \in InUse \/ k = ntables + 1
      /\ InUse \subseteq InUse' /\ ntables + 1 \in InUse'
  BY <1>1, <1>2, <1>3 DEF GInv, IInv, Types
<1>5. r \in 1..Len(Sorted) /\ PlaceOf(Sorted[r]) = r /\ Len(Sorted) \in Nat
  BY Placed, SortedAssumption DEF GInv, IInv, Types
<1>6. rows \subseteq 1..Len(Sorted)
  BY DEF GInv, IInv, Types
<1>7. Present' = Present /\ Graph' = Graph
  BY <1>1 DEF Present, Graph
<1>8. Ascending'
  <2>1. ASSUME NEW k \in InUse', NEW l \in InUse', k < l
        PROVE  PlaceOf(tables'[k].name) < PlaceOf(tables'[l].name)
    <3>1. k \in InUse
      BY <1>3, <1>4, <2>1, <1>1
    <3>2. CASE l \in InUse
      BY <3>1, <3>2, <1>1, <1>4, <2>1 DEF GInv, Ascending, Loading
    <3>3. CASE l = ntables + 1
      BY <3>1, <3>3, <1>1, <1>4, <1>5 DEF GInv, Ascending, Loading
    <3> QED BY <3>2, <3>3, <1>4
  <2>2. ASSUME NEW k \in InUse', NEW q \in rows'
        PROVE  PlaceOf(tables'[k].name) < q
    <3>1. q \in rows /\ q # r /\ r <= q /\ q \in 1..Len(Sorted)
      BY <1>2, <1>6
    <3>2. CASE k \in InUse
      BY <3>1, <3>2, <1>1, <1>4 DEF GInv, Ascending, Loading
    <3>3. CASE k = ntables + 1
      BY <3>1, <3>3, <1>4, <1>5
    <3> QED BY <3>2, <3>3, <1>4
  <2> QED BY <2>1, <2>2 DEF Ascending
<1>9. Sound'
  <2> SUFFICES ASSUME changes' = 0
               PROVE  /\ \A q \in rows' : Sorted[q] \in Present
                      /\ \A k \in InUse' : tables'[k].name \in Present
    BY <1>1, <1>7 DEF Sound
  <2>1. /\ \A q \in rows : Sorted[q] \in Present
        /\ \A k \in InUse : tables[k].name \in Present
    BY <1>1 DEF GInv, Sound, Loading
  <2> QED BY <2>1, <1>2, <1>4
<1>10. Complete'
  <2>1. ASSUME changes' = 0, NEW n \in Graph'
        PROVE  PlaceOf(n) \in rows' \/ \E k \in InUse' : tables'[k].name = n
    <3>1. CASE PlaceOf(n) = r
      <4>1. n = Sorted[r]
        BY <3>1, Placed DEF Graph
      <4> QED BY <4>1, <1>4
    <3>2. CASE PlaceOf(n) # r
      BY <3>2, <2>1, <1>1, <1>2, <1>4, <1>7 DEF GInv, Complete
    <3> QED BY <3>1, <3>2
  <2> QED BY <2>1 DEF Complete
<1> QED BY <1>1, <1>8, <1>9, <1>10 DEF Rest

(* A cell that is kept moves over the gap.                                 *)
LEMMA KeepOrders ==
  ASSUME GInv, Keep
  PROVE  Rest' /\ Ascending' /\ Sound' /\ Complete'
<1> DEFINE From(k) == IF k = nkept + 1 THEN i + 1 ELSE k
<1>1. /\ phase = "load" /\ phase' = "load" /\ changes' = changes /\ schema' = schema
      /\ rows' = rows /\ ntables' = ntables /\ rows = {}
      /\ i \in Nat /\ nkept \in 0..i /\ ntables \in Nat /\ i < ntables
      /\ i' = i + 1 /\ nkept' = nkept + 1
  BY DEF GInv, IInv, Types, Rest, Keep, Looking
<1>2. /\ tables'[nkept + 1] = tables[i + 1]
      /\ \A k \in 1..Len(tables) : k # nkept + 1 => tables'[k] = tables[k]
      /\ ntables = Len(tables)
  BY <1>1 DEF GInv, IInv, Types, Ahead, Keep
<1>3. \A k \in InUse' : From(k) \in InUse /\ tables'[k] = tables[From(k)]
  BY <1>1, <1>2 DEF InUse
<1>4. \A k, l \in InUse' : k < l => From(k) < From(l)
  BY <1>1 DEF InUse
<1>5. ASSUME NEW l \in InUse PROVE \E k \in InUse' : tables'[k] = tables[l]
  <2>1. CASE l = i + 1
    <3>1. nkept + 1 \in InUse'
      BY <1>1 DEF InUse
    <3> QED BY <3>1, <2>1, <1>2
  <2>2. CASE l # i + 1
    <3>1. l \in InUse' /\ l # nkept + 1 /\ l \in 1..Len(tables)
      BY <2>2, <1>1, <1>2 DEF InUse
    <3> QED BY <3>1, <1>2
  <2> QED BY <2>1, <2>2
<1>6. Present' = Present /\ Graph' = Graph
  BY <1>1 DEF Present, Graph
<1>7. Ascending'
  BY <1>1, <1>3, <1>4 DEF GInv, Ascending, Loading
<1>8. Sound'
  <2> SUFFICES ASSUME changes' = 0
               PROVE  /\ \A k \in InUse' : tables'[k].name \in Present
                      /\ \A k \in 1..nkept' : tables'[k].name \in Graph
    BY <1>1, <1>6 DEF Sound
  <2>1. /\ \A k \in InUse : tables[k].name \in Present
        /\ \A k \in 1..nkept : tables[k].name \in Graph
    BY <1>1 DEF GInv, Sound, Loading
  <2>2. i + 1 \in InUse
    BY <1>1 DEF InUse
  <2>3. tables[i + 1].name \in Graph
    BY <2>1, <2>2 DEF Keep, Qualifies, Present, Graph
  <2>4. \A k \in 1..nkept' : k = nkept + 1 \/ (k \in 1..nkept /\ k \in 1..Len(tables) /\ k # nkept + 1)
    BY <1>1, <1>2
  <2> QED BY <2>1, <2>3, <2>4, <1>2, <1>3
<1>9. Complete'
  BY <1>1, <1>5, <1>6 DEF GInv, Complete
<1> QED BY <1>1, <1>7, <1>8, <1>9 DEF Rest

(* A cell that is passed over is not of the graph.                         *)
LEMMA SkipOrders ==
  ASSUME GInv, Skip
  PROVE  Rest' /\ Ascending' /\ Sound' /\ Complete'
<1>1. /\ phase = "load" /\ phase' = "load" /\ changes' = changes /\ schema' = schema
      /\ rows' = rows /\ ntables' = ntables /\ rows = {} /\ tables' = tables
      /\ i \in Nat /\ nkept \in 0..i /\ ntables \in Nat /\ i < ntables
      /\ i' = i + 1 /\ nkept' = nkept
  BY DEF GInv, IInv, Types, Rest, Skip, Looking
<1>2. InUse' \subseteq InUse /\ \A k \in InUse : k \in InUse' \/ k = i + 1
  BY <1>1 DEF InUse
<1>3. tables[i + 1].name \notin Graph
  BY DEF Skip, Qualifies, Graph
<1>4. Present' = Present /\ Graph' = Graph
  BY <1>1 DEF Present, Graph
<1>5. Ascending'
  BY <1>1, <1>2 DEF GInv, Ascending, Loading
<1>6. Sound'
  BY <1>1, <1>2, <1>4 DEF GInv, Sound, Loading
<1>7. Complete'
  BY <1>1, <1>2, <1>3, <1>4 DEF GInv, Complete
<1> QED BY <1>1, <1>5, <1>6, <1>7 DEF Rest

(* The cut leaves out the gap, and nothing else.                           *)
LEMMA CutOrders ==
  ASSUME GInv, EndLoad
  PROVE  Rest' /\ Ascending' /\ Sound' /\ Complete'
<1>1. /\ phase = "load" /\ phase' = "loaded" /\ changes' = changes /\ schema' = schema
      /\ rows' = rows /\ rows = {} /\ tables' = tables
      /\ ntables \in Nat /\ i = ntables /\ nkept \in 0..i
      /\ i' = i /\ nkept' = nkept /\ ntables' = nkept
  BY DEF GInv, IInv, Types, Rest, EndLoad
<1>2. InUse' = InUse
  BY <1>1 DEF InUse
<1>3. Present' = Present /\ Graph' = Graph
  BY <1>1 DEF Present, Graph
<1> QED BY <1>1, <1>2, <1>3 DEF GInv, Rest, Ascending, Sound, Complete, Loading

(* Every step keeps the order and the tables of the graph.                 *)
THEOREM OrderInductive == GInv /\ [Next]_vars => GInv'
<1> SUFFICES ASSUME GInv, [Next]_vars PROVE GInv'
  OBVIOUS
<1>0. IInv'
  BY Inductive DEF GInv
<1> SUFFICES Rest' /\ Ascending' /\ Sound' /\ Complete'
  BY <1>0 DEF GInv
<1>1. CASE Change
  <2>1. changes' # 0
    BY <1>1 DEF Change, GInv, IInv, Types
  <2>2. InUse' = InUse /\ Loading' = Loading
    BY <1>1 DEF Change, catalogVars, InUse, Loading
  <2> QED BY <1>1, <2>1, <2>2
        DEF GInv, Rest, Ascending, Sound, Complete, Change, catalogVars
<1>2. CASE ListFails \/ LoadFails \/ Release
  <2>1. phase' \in { "failed", "freed" }
    BY <1>2 DEF ListFails, LoadFails, Release, Free
  <2> QED BY <2>1 DEF Rest, Ascending, Sound, Complete, Loading
<1>3. CASE EndList
  <2>1. /\ phase = "list" /\ phase' = "load" /\ rows = {}
        /\ UNCHANGED << schema, changes, rows, tables, ntables, i, nkept >>
    BY <1>3 DEF EndList
  <2>2. InUse' = InUse /\ Present' = Present /\ Graph' = Graph
    BY <2>1 DEF InUse, Present, Graph
  <2> QED BY <2>1, <2>2 DEF GInv, Rest, Ascending, Sound, Complete, Loading
<1>4. CASE UNCHANGED vars
  <2>1. UNCHANGED << schema, changes, phase, rows, tables, ntables, i, nkept >>
    BY <1>4 DEF vars, catalogVars
  <2>2. InUse' = InUse /\ Present' = Present /\ Graph' = Graph
    BY <2>1 DEF InUse, Present, Graph
  <2> QED BY <2>1, <2>2 DEF GInv, Rest, Ascending, Sound, Complete, Loading
<1> QED BY <1>1, <1>2, <1>3, <1>4, ListOrders, AddOrders, KeepOrders, SkipOrders, CutOrders
      DEF Next, Load

(* A loaded catalog is in order and is the graph, if the schema stayed.    *)
LEMMA LoadedIsGraph == GInv => KeepsTheGraph
<1> SUFFICES ASSUME GInv, phase = "loaded"
             PROVE  /\ \A k, l \in 1..ntables : k < l =>
                         \E x, y \in 1..Len(Sorted) :
                           x < y /\ tables[k].name = Sorted[x] /\ tables[l].name = Sorted[y]
                    /\ changes = 0 => { tables[k].name : k \in 1..ntables } = Graph
  BY DEF KeepsTheGraph
<1>1. /\ ntables = nkept /\ i = Len(tables) /\ rows = {} /\ ntables \in 0..Len(tables)
      /\ Len(tables) \in Nat
  BY DEF GInv, IInv, Types, Cut, Rest
<1>2. InUse = 1..ntables
  BY <1>1 DEF InUse
<1>3. ASSUME NEW k \in 1..ntables, NEW l \in 1..ntables, k < l
      PROVE  \E x, y \in 1..Len(Sorted) :
               x < y /\ tables[k].name = Sorted[x] /\ tables[l].name = Sorted[y]
  <2>1. tables[k] \in Cell /\ tables[l] \in Cell
    BY <1>1 DEF GInv, IInv, Types
  <2>2. tables[k].name \in TableNames /\ tables[l].name \in TableNames
    BY <2>1 DEF Cell
  <2>3. PlaceOf(tables[k].name) < PlaceOf(tables[l].name)
    BY <1>2, <1>3 DEF GInv, Ascending, Loading
  <2> QED BY <2>2, <2>3, Placed
<1>4. changes = 0 => { tables[k].name : k \in 1..ntables } = Graph
  BY <1>1, <1>2 DEF GInv, Sound, Complete, Loading
<1> QED BY <1>3, <1>4

(* A catalog that is loaded while the schema stays is the node tables and  *)
(* the edge table, in order, but for the names the listing leaves out.     *)
THEOREM LoadedCatalogKeepsTheGraph == Spec => []KeepsTheGraph
<1>1. Spec => []GInv
  BY StartsEmpty, OrderInductive, PTL DEF Spec
<1> QED BY <1>1, LoadedIsGraph, PTL

(* So does the catalog main works with.                                    *)
THEOREM ProgramKeepsTheGraph == ProgramSpec => []KeepsTheGraph
  BY ProgramUsesTheCatalog, LoadedCatalogKeepsTheGraph, PTL

-----------------------------------------------------------------------------
(***************************************************************************)
(* The program.                                                            *)
(*                                                                         *)
(* What is held, how far the catalog is and what was said so far follow    *)
(* from the place the program is at; a failed load has freed every block,  *)
(* and a released catalog every block just once.                           *)
(***************************************************************************)
Before == { "args", "ast", "map", "open" }

After == { "show", "derive", "parse", "translate", "prepare", "step" }

(* How far the catalog is, by place.                                       *)
PlaceOK ==
  /\ pc \in Before \cup After \cup { "catalog", "exit" }
  /\ pc \in Before => phase = "start" /\ frees = << >>
  /\ pc = "catalog" => phase # "freed"
  /\ pc \in After => phase = "loaded"
  /\ pc = "exit" => \/ phase = "start" /\ frees = << >>
                    \/ phase \in { "failed", "freed" }

(* What may be held, by place.                                             *)
HeldOK ==
  /\ held \subseteq Resources
  /\ pc \in { "args", "ast", "map", "exit" } => held = {}
  /\ pc = "open" => held \subseteq Map
  /\ pc \in { "catalog", "show", "derive" } => held \subseteq Opened
  /\ pc = "parse" => held \subseteq Opened \cup { "derived_map" }

(* Nothing is said before the exit, and no row is fetched before a step.   *)
Silent ==
  /\ pc # "exit" => code = 0 - 1 /\ messages = 0 /\ stdout = Nothing /\ why = "none"
  /\ pc \notin { "step", "exit" } => fetched = 0
  /\ fetched \in 0..MaxRows

(* The statement speaks of tables of the catalog and of the edge table.    *)
Spoken ==
  /\ needs \subseteq TableNames
  /\ pc = "prepare" => needs \subseteq Speakable

(* SQLite has a reason to miss a table.                                    *)
Excused == changes > 0 \/ schema[EdgeTable] = "none"

(* How the program ended.                                                  *)
Ended ==
  /\ code \in (0 - 1)..2 /\ messages \in 0..1
  /\ pc = "exit" => code # 0 - 1
  /\ AllOrNothing
  /\ MissesOnlyWhatIsGone

PInv ==
  /\ cmd \in Commands
  /\ PlaceOK /\ HeldOK /\ Silent /\ Spoken /\ Ended

(* What is known of the catalog in every state.                            *)
CatalogOK == IInv /\ KeepsTheGraph

-----------------------------------------------------------------------------
(* The program starts silent, with nothing in its hands.                   *)
LEMMA StartsWell == ProgramInit => PInv
  BY MaxRowsAssumption
     DEF ProgramInit, Init, PInv, PlaceOK, HeldOK, Silent, Spoken, Ended, AllOrNothing,
         MissesOnlyWhatIsGone, Before, After

(* A complaint at the exit is the only thing that was said.                *)
LEMMA ComplaintEnds ==
  ASSUME PInv, pc # "exit", NEW reason, NEW status, NEW released,
         Complain(reason, status, released), held \subseteq released,
         \/ status = 2 /\ reason = "usage"
         \/ status = 1 /\ reason # "usage",
         \/ UNCHANGED vars /\ ((phase = "start" /\ frees = << >>) \/ phase = "failed")
         \/ Release,
         reason = "no_such_table" => Excused
  PROVE  PInv'
<1>1. /\ pc' = "exit" /\ code' = status /\ why' = reason
      /\ UNCHANGED << cmd, needs, fetched, stdout >>
  BY DEF Complain, Exit
<1>2. messages' = 1
  <2>1. messages = 0 /\ messages' = messages + 1
    BY DEF PInv, Silent, Complain
  <2> QED BY <2>1
<1>8. stdout' = Nothing
  BY <1>1 DEF PInv, Silent
<1>3. held' = {}
  BY DEF Complain, Exit
<1>4. PlaceOK'
  BY <1>1 DEF PInv, PlaceOK, Release, Free, vars, catalogVars, Before, After
<1>5. HeldOK'
  BY <1>1, <1>3 DEF HeldOK
<1>6. Silent' /\ Spoken'
  BY <1>1 DEF PInv, Silent, Spoken
<1>7. Ended'
  <2>1. AllOrNothing'
    BY <1>1, <1>2, <1>8 DEF AllOrNothing
  <2>2. MissesOnlyWhatIsGone'
    <3>1. UNCHANGED << schema, changes >>
      BY DEF vars, Release, Free
    <3> QED BY <1>1, <3>1 DEF MissesOnlyWhatIsGone, Excused
  <2> QED BY <1>1, <1>2, <2>1, <2>2 DEF Ended
<1> QED
  BY <1>1, <1>4, <1>5, <1>6, <1>7 DEF PInv

(* What is shown at the exit is the answer, if there are rows.             *)
LEMMA ShowEnds ==
  ASSUME PInv, pc # "exit", NEW output, NEW released,
         Show(output, released), held \subseteq released,
         fetched > 0 => output = << "answer", fetched >>,
         \/ UNCHANGED vars /\ phase = "start" /\ frees = << >>
         \/ Release
  PROVE  PInv'
<1>1. /\ pc' = "exit" /\ code' = 0 /\ stdout' = output
      /\ UNCHANGED << cmd, needs, fetched, messages, why >>
  BY DEF Show, Exit
<1>2. messages' = 0 /\ why' = "none"
  BY <1>1 DEF PInv, Silent
<1>3. held' = {}
  BY DEF Show, Exit
<1>4. PlaceOK'
  BY <1>1 DEF PInv, PlaceOK, Release, Free, vars, catalogVars, Before, After
<1>5. HeldOK'
  BY <1>1, <1>3 DEF HeldOK
<1>6. Silent' /\ Spoken'
  BY <1>1 DEF PInv, Silent, Spoken
<1>7. Ended'
  BY <1>1, <1>2 DEF Ended, AllOrNothing, MissesOnlyWhatIsGone
<1> QED
  BY <1>1, <1>4, <1>5, <1>6, <1>7 DEF PInv

(* Going on, the place fits what is held.                                  *)
LEMMA GoesOn ==
  ASSUME PInv, pc # "exit", NEW next, Goto(next), UNCHANGED << vars, fetched >>,
         fetched = 0, next # "exit",
         needs' \subseteq TableNames, next = "prepare" => needs' \subseteq Speakable,
         PlaceOK', HeldOK'
  PROVE  PInv'
<1>1. pc' = next /\ UNCHANGED << cmd, stdout, messages, why, code >>
  BY DEF Goto
<1>2. Speakable' = Speakable
  BY DEF vars, catalogVars, Speakable, Listed
<1> QED
  BY <1>1, <1>2
     DEF PInv, Silent, Spoken, Ended, AllOrNothing, MissesOnlyWhatIsGone, vars

-----------------------------------------------------------------------------
(* The tables of a loaded catalog are tables.                              *)
LEMMA ListedAreTables ==
  ASSUME IInv
  PROVE  Speakable \subseteq TableNames
<1>1. \A k \in 1..ntables : tables[k] \in Cell
  BY DEF IInv, Types
<1> QED BY <1>1, EdgeTableAssumption DEF Speakable, Listed, Cell

(* What SQLite misses is gone: the catalog had it, unless it is the edge   *)
(* table.                                                                  *)
LEMMA MissingIsExcused ==
  ASSUME PInv, CatalogOK, pc = "prepare", Missing # {}
  PROVE  Excused
<1>1. PICK t \in needs : schema[t] = "none"
  BY DEF Missing
<1>2. CASE t = EdgeTable
  BY <1>1, <1>2 DEF Excused
<1>3. CASE t \in Listed /\ changes = 0
  <2>1. t \in Graph
    BY <1>3 DEF PInv, PlaceOK, After, CatalogOK, KeepsTheGraph, Listed
  <2> QED BY <1>1, <2>1 DEF Graph
<1>4. CASE changes # 0
  <2>1. changes > 0
    BY <1>4, MaxChangesAssumption DEF CatalogOK, IInv, Types
  <2> QED BY <2>1 DEF Excused
<1> QED BY <1>1, <1>2, <1>3, <1>4 DEF PInv, Spoken, Speakable

(* Before the catalog: the command line, --ast, the explicit map and the   *)
(* database.                                                               *)
LEMMA StartKeeps ==
  ASSUME PInv, Arguments \/ Ast \/ ExplicitMap \/ Open
  PROVE  PInv'
<1> USE DEF Before, After
<1>0. /\ pc \in Before /\ phase = "start" /\ frees = << >> /\ fetched = 0
      /\ pc # "open" => held = {}
      /\ held \subseteq Map
  BY DEF Arguments, Ast, ExplicitMap, Open, PInv, PlaceOK, HeldOK, Silent
<1>1. ASSUME NEW next \in Before \cup { "catalog" }, Goto(next),
             UNCHANGED << vars, fetched, needs >>,
             held' \subseteq Opened,
             next \in { "args", "ast", "map" } => held' = {},
             next = "open" => held' \subseteq Map
      PROVE  PInv'
  <2>1. PlaceOK'
    BY <1>0, <1>1 DEF Goto, PInv, PlaceOK, vars, catalogVars
  <2>2. HeldOK'
    BY <1>1 DEF Goto, HeldOK, Opened, Map, Resources
  <2>3. needs' \subseteq TableNames
    BY <1>1 DEF PInv, Spoken
  <2> QED BY <1>0, <1>1, <2>1, <2>2, <2>3, GoesOn
<1>2. CASE Arguments
  <2>1. CASE Show(<< "usage", 1 >>, {})
    BY <1>0, <1>2, <2>1, ShowEnds DEF Arguments
  <2>2. CASE Complain("usage", 2, {})
    BY <1>0, <1>2, <2>2, ComplaintEnds DEF Arguments
  <2>3. CASE /\ \E next \in Before : Goto(next)
             /\ UNCHANGED << held, needs, fetched >>
    BY <1>0, <1>2, <1>1, <2>3 DEF Arguments
  <2> QED BY <1>2, <2>1, <2>2, <2>3 DEF Arguments
<1>3. CASE Ast
  <2>1. CASE Show(<< "tree", 1 >>, {})
    BY <1>0, <1>3, <2>1, ShowEnds DEF Ast
  <2>2. CASE Complain("parse", 1, {})
    BY <1>0, <1>3, <2>2, ComplaintEnds DEF Ast
  <2> QED BY <1>3, <2>1, <2>2 DEF Ast
<1>4. CASE ExplicitMap
  <2>1. CASE Complain("usage", 2, {})
    BY <1>0, <1>4, <2>1, ComplaintEnds DEF ExplicitMap
  <2>2. CASE Complain("name_map", 1, {})
    BY <1>0, <1>4, <2>2, ComplaintEnds DEF ExplicitMap
  <2>3. CASE /\ Goto("open")
             /\ held' = IF cmd.names = {} THEN held ELSE held \cup Map
             /\ UNCHANGED << needs, fetched >>
    BY <1>0, <1>4, <1>1, <2>3 DEF ExplicitMap, Opened
  <2> QED BY <1>4, <2>1, <2>2, <2>3 DEF ExplicitMap
<1>5. CASE Open
  <2>1. CASE Complain("open", 1, Map)
    BY <1>0, <1>5, <2>1, ComplaintEnds DEF Open
  <2>2. CASE Goto("catalog") /\ held' = held \cup { "db" } /\ UNCHANGED << needs, fetched >>
    BY <1>0, <1>5, <1>1, <2>2 DEF Open, Opened
  <2> QED BY <1>5, <2>1, <2>2 DEF Open
<1> QED BY <1>2, <1>3, <1>4, <1>5

(* The catalog is loaded, or freed in the attempt.                         *)
LEMMA LoadKeeps ==
  ASSUME PInv, LoadCatalog
  PROVE  PInv'
<1>0. pc = "catalog" /\ phase # "freed" /\ held \subseteq Opened /\ fetched = 0
  BY DEF LoadCatalog, PInv, PlaceOK, HeldOK, Silent
<1>1. CASE Load /\ UNCHANGED mainVars
  <2>1. phase' # "freed"
    BY <1>0, <1>1
       DEF Load, List, AddTable, EndList, ListFails, Keep, Skip, LoadFails, EndLoad, Free
  <2>2. UNCHANGED << schema, changes >>
    BY <1>1 DEF Load, List, AddTable, EndList, ListFails, Keep, Skip, LoadFails, EndLoad, Free
  <2>3. PlaceOK' /\ HeldOK' /\ Silent' /\ Spoken'
    BY <1>0, <1>1, <2>1
       DEF mainVars, PInv, PlaceOK, HeldOK, Silent, Spoken, Before, After
  <2>4. Ended'
    BY <1>1, <2>2 DEF mainVars, PInv, Ended, AllOrNothing, MissesOnlyWhatIsGone
  <2> QED BY <1>1, <2>3, <2>4 DEF mainVars, PInv
<1>2. CASE /\ phase = "failed"
           /\ UNCHANGED vars
           /\ Complain("schema", 1, Opened)
  BY <1>0, <1>2, ComplaintEnds
<1>3. ASSUME NEW next \in { "show", "derive" }, Goto(next), phase = "loaded",
             UNCHANGED << vars, held, needs, fetched >>
      PROVE  PInv'
  <2>1. PlaceOK'
    BY <1>3 DEF Goto, PInv, PlaceOK, Before, After, vars, catalogVars
  <2>2. HeldOK'
    BY <1>0, <1>3 DEF Goto, PInv, HeldOK
  <2>3. needs' \subseteq TableNames
    BY <1>3 DEF PInv, Spoken
  <2> QED BY <1>0, <1>3, <2>1, <2>2, <2>3, GoesOn
<1> QED BY <1>1, <1>2, <1>3 DEF LoadCatalog

(* With a catalog: --catalog, the map, the parse and the translation.      *)
LEMMA QueryKeeps ==
  ASSUME PInv, IInv, ShowCatalog \/ EffectiveMap \/ Parse \/ Translate
  PROVE  PInv'
<1>0. /\ pc \in { "show", "derive", "parse", "translate" } /\ phase = "loaded" /\ fetched = 0
      /\ held \subseteq Parsed
      /\ pc \in { "show", "derive" } => held \subseteq Opened
      /\ pc = "parse" => held \subseteq Opened \cup { "derived_map" }
  BY DEF ShowCatalog, EffectiveMap, Parse, Translate, PInv, PlaceOK, HeldOK, Silent, After,
         Resources, Parsed, Opened, Map
<1>1. ASSUME NEW next \in { "parse", "translate", "prepare" }, Goto(next),
             UNCHANGED << vars, fetched >>,
             held' \subseteq Parsed,
             next = "parse" => held' \subseteq Opened \cup { "derived_map" },
             needs' \subseteq TableNames,
             next = "prepare" => needs' \subseteq Speakable
      PROVE  PInv'
  <2>1. PlaceOK'
    BY <1>0, <1>1 DEF Goto, PInv, PlaceOK, Before, After, vars, catalogVars
  <2>2. HeldOK'
    BY <1>1 DEF Goto, HeldOK, Parsed, Opened, Map, Resources
  <2> QED BY <1>0, <1>1, <2>1, <2>2, GoesOn
<1>a. needs \subseteq TableNames
  BY DEF PInv, Spoken
<1>2. CASE ShowCatalog
  <2>1. CASE \E output : Show(output, Opened)
    BY <1>0, <1>2, <2>1, ShowEnds DEF ShowCatalog
  <2>2. CASE Complain("unknown_column", 1, Opened)
    BY <1>0, <1>2, <2>2, ComplaintEnds DEF ShowCatalog
  <2>3. CASE Complain("unknown_table", 1, Opened)
    BY <1>0, <1>2, <2>3, ComplaintEnds DEF ShowCatalog
  <2> QED BY <1>2, <2>1, <2>2, <2>3 DEF ShowCatalog
<1>3. CASE EffectiveMap
  <2>1. CASE Release /\ Complain("derive", 1, Opened)
    BY <1>0, <1>3, <2>1, ComplaintEnds DEF EffectiveMap
  <2>2. CASE /\ UNCHANGED vars
             /\ Goto("parse")
             /\ held' = held \cup { "derived_map" } \/ held' = held
             /\ UNCHANGED << needs, fetched >>
    <3>1. held' \subseteq Opened \cup { "derived_map" }
      BY <1>0, <1>3, <2>2 DEF EffectiveMap
    <3>2. held' \subseteq Parsed
      BY <3>1 DEF Parsed
    <3> QED BY <1>1, <1>a, <2>2, <3>1, <3>2
  <2> QED BY <1>3, <2>1, <2>2 DEF EffectiveMap
<1>4. CASE Parse
  <2>1. CASE ParseFails
    BY <1>0, <1>4, <2>1, ComplaintEnds DEF Parse, ParseFails
  <2>2. CASE /\ UNCHANGED vars
             /\ Goto("translate")
             /\ held' = held \cup { "query" }
             /\ UNCHANGED << needs, fetched >>
    <3>1. held' \subseteq Parsed
      BY <1>0, <2>2 DEF Parsed
    <3> QED BY <1>1, <1>a, <2>2, <3>1
  <2> QED BY <1>4, <2>1, <2>2 DEF Parse
<1>5. CASE Translate
  <2>1. CASE Release /\ Complain("translate", 1, Parsed)
    BY <1>0, <1>5, <2>1, ComplaintEnds DEF Translate
  <2>2. CASE Release /\ Show(<< "sql", 1 >>, Parsed)
    BY <1>0, <1>5, <2>2, ShowEnds DEF Translate
  <2>3. CASE /\ UNCHANGED vars
             /\ Goto("prepare")
             /\ needs' \in SUBSET Speakable \ {{}}
             /\ held' = held \cup { "sql" }
             /\ UNCHANGED fetched
    <3>1. held' \subseteq Parsed
      BY <1>0, <2>3 DEF Parsed
    <3>2. needs' \subseteq Speakable /\ needs' \subseteq TableNames
      BY <2>3, ListedAreTables
    <3> QED BY <1>1, <2>3, <3>1, <3>2
  <2> QED BY <1>5, <2>1, <2>2, <2>3 DEF Translate
<1> QED BY <1>2, <1>3, <1>4, <1>5

(* The execution: the rows stay in the buffer until SQLite is done.        *)
LEMMA ExecuteKeeps ==
  ASSUME PInv, CatalogOK, Execute
  PROVE  PInv'
<1>0. pc \in { "prepare", "step" } /\ phase = "loaded" /\ held \subseteq Parsed
  BY DEF Execute, Prepare, Row, StepFails, Done, PInv, PlaceOK, HeldOK, After,
         Resources, Parsed, Opened, Map
<1>1. CASE Prepare
  <2>1. CASE Missing # {}
    <3>1. Release /\ Complain("no_such_table", 1, Parsed) /\ Excused
      BY <1>1, <2>1, MissingIsExcused DEF Prepare
    <3> QED BY <1>0, <3>1, ComplaintEnds
  <2>2. CASE Release /\ Complain("storage", 1, Parsed)
    BY <1>0, <2>2, ComplaintEnds
  <2>3. CASE /\ UNCHANGED vars
             /\ Goto("step")
             /\ held' = held \cup { "rows" }
             /\ UNCHANGED << needs, fetched >>
    <3>1. PlaceOK'
      BY <1>0, <2>3 DEF Goto, PInv, PlaceOK, Before, After, vars, catalogVars
    <3>2. HeldOK'
      BY <1>0, <2>3 DEF Goto, HeldOK, Parsed, Opened, Map, Resources
    <3>3. fetched = 0 /\ needs' \subseteq TableNames
      BY <1>1, <2>3 DEF Prepare, PInv, Silent, Spoken
    <3> QED BY <1>0, <2>3, <3>1, <3>2, <3>3, GoesOn
  <2> QED BY <1>1, <2>1, <2>2, <2>3 DEF Prepare
<1>2. CASE Row
  <2>1. PlaceOK' /\ HeldOK' /\ Spoken'
    BY <1>2 DEF Row, PInv, PlaceOK, HeldOK, Spoken, vars, catalogVars
  <2>2. Silent'
    BY <1>2, MaxRowsAssumption DEF Row, PInv, Silent
  <2>3. Ended'
    BY <1>2 DEF Row, PInv, Ended, AllOrNothing, MissesOnlyWhatIsGone, vars
  <2> QED BY <1>2, <2>1, <2>2, <2>3 DEF Row, PInv
<1>3. CASE StepFails
  BY <1>0, <1>3, ComplaintEnds DEF StepFails
<1>4. CASE Done
  <2>1. fetched > 0 => (IF fetched = 0 THEN Nothing ELSE << "answer", fetched >>)
                         = << "answer", fetched >>
    OBVIOUS
  <2> QED BY <1>0, <1>4, <2>1, ShowEnds DEF Done
<1> QED BY <1>1, <1>2, <1>3, <1>4 DEF Execute

-----------------------------------------------------------------------------
(* Every step of the program keeps the invariant.                          *)
THEOREM StepsWell == PInv /\ CatalogOK /\ [ProgramNext]_allVars => PInv'
<1> SUFFICES ASSUME PInv, CatalogOK, [ProgramNext]_allVars PROVE PInv'
  OBVIOUS
<1>1. CASE Arguments \/ Ast \/ ExplicitMap \/ Open
  BY <1>1, StartKeeps
<1>2. CASE LoadCatalog
  BY <1>2, LoadKeeps
<1>3. CASE ShowCatalog \/ EffectiveMap \/ Parse \/ Translate
  BY <1>3, QueryKeeps DEF CatalogOK
<1>4. CASE Execute
  BY <1>4, ExecuteKeeps
<1>5. CASE Concurrently
  <2>1. PlaceOK' /\ HeldOK' /\ Silent' /\ Spoken'
    BY <1>5 DEF Concurrently, Change, catalogVars, mainVars, PInv, PlaceOK, HeldOK, Silent,
                Spoken, Speakable, Listed
  <2>2. Ended'
    BY <1>5 DEF Concurrently, mainVars, PInv, Silent, Ended, AllOrNothing, MissesOnlyWhatIsGone
  <2> QED BY <1>5, <2>1, <2>2 DEF Concurrently, mainVars, PInv
<1>6. CASE UNCHANGED allVars
  BY <1>6 DEF allVars, vars, catalogVars, mainVars, PInv, PlaceOK, HeldOK, Silent, Spoken,
              Speakable, Listed, Ended, AllOrNothing, MissesOnlyWhatIsGone
<1> QED BY <1>1, <1>2, <1>3, <1>4, <1>5, <1>6 DEF ProgramNext, Main

-----------------------------------------------------------------------------
(* catalog_free reaches every block that was not freed before: a failed    *)
(* load leaves none, and a catalog released by its owner frees each once.  *)
FreedAll ==
  /\ phase = "failed" => \A b \in Blocks : frees[b] >= 1
  /\ phase = "freed" => \A b \in Blocks : frees[b] = 1

(* A block is freed once for every cell in use that has it.                *)
LEMMA FreedPerCell ==
  ASSUME IInv, NEW b \in Blocks
  PROVE  /\ FreedCells[b] = frees[b] + Cardinality(CellsOf(b))
         /\ frees[b] \in Nat /\ Cardinality(CellsOf(b)) \in Nat
         /\ Cardinality(CellsOf(b)) = 0 <=> CellsOf(b) = {}
<1>1. IsFiniteSet(CellsOf(b))
  <2>1. IsFiniteSet(1..ntables) /\ CellsOf(b) \subseteq 1..ntables
    BY FS_Interval DEF IInv, Types, CellsOf
  <2> QED BY <2>1, FS_Subset
<1>2. Cardinality(CellsOf(b)) \in Nat /\ (Cardinality(CellsOf(b)) = 0 <=> CellsOf(b) = {})
  BY <1>1, FS_CardinalityType, FS_EmptySet
<1>3. FreedCells[b] = frees[b] + Cardinality(CellsOf(b)) /\ frees[b] \in Nat
  BY DEF IInv, Types, Blocks, FreedCells
<1> QED BY <1>2, <1>3

(* A load that fails.                                                      *)
LEMMA FailureFreesAll ==
  ASSUME IInv, ListFails \/ LoadFails
  PROVE  FreedAll'
<1>1. /\ phase' = "failed" /\ frees' = FreedCells /\ Len(FreedCells) = Len(frees)
      /\ phase \in { "start", "list", "load" }
  BY FreedIsTyped DEF IInv, ListFails, LoadFails, Looking, Free
<1>2. ASSUME NEW b \in Blocks PROVE FreedCells[b] >= 1
  <2>1. CASE b \in CellsOf(b)
    BY <2>1, FreedPerCell
  <2>2. CASE b \notin CellsOf(b)
    <3>1. phase = "load" /\ b \in 1..i
      BY <1>1, <2>2 DEF IInv, Types, Listing, Ahead, CellsOf, Blocks
    <3>2. CASE \E k \in 1..nkept : tables[k].block = b
      <4>1. CellsOf(b) # {}
        BY <3>1, <3>2 DEF IInv, Types, Ahead, CellsOf
      <4> QED BY <4>1, FreedPerCell
    <3>3. CASE ~ \E k \in 1..nkept : tables[k].block = b
      <4>1. frees[b] = 1
        BY <3>1, <3>3 DEF IInv, Kept
      <4> QED BY <4>1, FreedPerCell
    <3> QED BY <3>2, <3>3
  <2> QED BY <2>1, <2>2
<1> QED BY <1>1, <1>2 DEF FreedAll, Blocks

(* The owner releases the catalog.                                         *)
LEMMA ReleaseFreesOnce ==
  ASSUME IInv, Release
  PROVE  FreedAll'
<1>1. /\ phase' = "freed" /\ frees' = FreedCells /\ Len(FreedCells) = Len(frees)
      /\ phase = "loaded" /\ ntables = nkept /\ i = Len(frees)
  BY FreedIsTyped DEF IInv, Types, Cut, Release, Free
<1>2. ASSUME NEW b \in Blocks PROVE FreedCells[b] = 1
  <2>1. CASE \E k \in 1..nkept : tables[k].block = b
    <3>1. PICK k \in 1..nkept : tables[k].block = b
      BY <2>1
    <3>2. CellsOf(b) = {k} /\ frees[b] = 0
      BY <1>1, <2>1, <3>1 DEF IInv, Kept, CellsOf, Blocks
    <3>3. Cardinality(CellsOf(b)) = 1
      BY <3>2, FS_Singleton
    <3>4. FreedCells[b] = frees[b] + Cardinality(CellsOf(b))
      BY FreedPerCell
    <3> QED BY <3>2, <3>3, <3>4
  <2>2. CASE ~ \E k \in 1..nkept : tables[k].block = b
    <3>1. CellsOf(b) = {} /\ frees[b] = 1
      BY <1>1, <2>2 DEF IInv, Kept, CellsOf, Blocks
    <3> QED BY <3>1, FreedPerCell
  <2> QED BY <2>1, <2>2
<1> QED BY <1>1, <1>2 DEF FreedAll, Blocks

(* Nothing of a catalog is left, failed or released.                       *)
THEOREM CatalogLeavesNothing == Spec => []FreedAll
<1>1. Init => FreedAll
  BY DEF Init, FreedAll
<1>2. IInv /\ FreedAll /\ [Next]_vars => FreedAll'
  <2> SUFFICES ASSUME IInv, FreedAll, [Next]_vars PROVE FreedAll'
    OBVIOUS
  <2>1. CASE ListFails \/ LoadFails
    BY <2>1, FailureFreesAll
  <2>2. CASE Release
    BY <2>2, ReleaseFreesOnce
  <2>3. CASE List \/ AddTable \/ EndList \/ Keep \/ Skip \/ EndLoad
    <3>1. phase' \notin { "failed", "freed" }
      BY <2>3 DEF List, AddTable, EndList, Keep, Skip, EndLoad, Looking
    <3> QED BY <3>1 DEF FreedAll
  <2>4. CASE Change \/ UNCHANGED vars
    BY <2>4 DEF Change, FreedAll, Blocks, vars, catalogVars
  <2> QED BY <2>1, <2>2, <2>3, <2>4 DEF Next, Load
<1> QED BY <1>1, <1>2, Invariance, PTL DEF Spec

-----------------------------------------------------------------------------
(* The invariant holds in every state of the program.                      *)
THEOREM ProgramInvariance == ProgramSpec => [](PInv /\ CatalogOK)
<1>1. ProgramSpec => []CatalogOK
  BY ProgramUsesTheCatalog, Invariance, ProgramKeepsTheGraph, PTL DEF CatalogOK
<1> QED BY <1>1, StartsWell, StepsWell, PTL DEF ProgramSpec

(* What the variables hold, and that the exit status is one of the three.  *)
THEOREM ProgramIsTyped == ProgramSpec => []TypeOK
<1>1. PInv /\ CatalogTypeOK => TypeOK
  BY DEF PInv, HeldOK, Silent, Spoken, Ended, PlaceOK, TypeOK
<1> QED BY <1>1, ProgramInvariance, ProgramUsesTheCatalog, CatalogIsTyped, PTL

(* Every way out releases everything.                                      *)
THEOREM EverythingIsReleased == ProgramSpec => []NothingHeldAtExit
<1>1. PInv /\ FreedAll => NothingHeldAtExit
  BY DEF PInv, PlaceOK, HeldOK, FreedAll, NothingHeldAtExit, Blocks
<1> QED BY <1>1, ProgramInvariance, ProgramUsesTheCatalog, CatalogLeavesNothing, PTL

(* Whatever fails, all is printed or nothing.                              *)
THEOREM PrintsAllOrNothing == ProgramSpec => []AllOrNothing
<1>1. PInv => AllOrNothing
  BY DEF PInv, Ended
<1> QED BY <1>1, ProgramInvariance, PTL

(* SQLite misses only what is gone.                                        *)
THEOREM MissesOnlyTheGone == ProgramSpec => []MissesOnlyWhatIsGone
<1>1. PInv => MissesOnlyWhatIsGone
  BY DEF PInv, Ended
<1> QED BY <1>1, ProgramInvariance, PTL
=============================================================================
