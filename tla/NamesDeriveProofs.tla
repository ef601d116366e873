--------------------------- MODULE NamesDeriveProofs ---------------------------
(***************************************************************************)
(* Proofs about NamesDerive, for every database and every order in which   *)
(* its rows are looked at: what a derived map may leave out, and that on   *)
(* data without a clash it leaves out nothing and reads both ways.         *)
(***************************************************************************)
EXTENDS NamesDerive, NamesProofs

(* The derivation starts with an empty map and everything left to look at. *)
THEOREM Initially == Init => IInv
<1> SUFFICES ASSUME Init PROVE IInv
  OBVIOUS
<1>1. map = << >> /\ Entries(map) = {}
  BY DEF Init, Entries
<1>2. TypeOK
  BY <1>1 DEF Init, TypeOK
<1> QED
  BY <1>1, <1>2 DEF Init, IInv, EntriesFromData, Accounted

(* A table that stops the search is a node table, and if the search does   *)
(* not stop no node table holds the id.                                    *)
LEMMA AskedIs ==
  ASSUME NEW id
  PROVE  /\ Asked(id) # 0 =>
              /\ Tables[Asked(id)] \in NodeTables
              /\ Tables[Asked(id)] \in broken \/ id \in holds[Tables[Asked(id)]]
         /\ Asked(id) = 0 => \A t \in NodeTables : id \notin holds[t]
<1> DEFINE stops == { k \in 1..Len(Tables) :
              /\ Tables[k] # EdgeTable
              /\ Tables[k] \in broken \/ id \in holds[Tables[k]] }
<1>1. Len(Tables) \in Nat /\ stops \subseteq 1..Len(Tables)
  BY TablesAssumption
<1>2. CASE stops = {}
  <2>1. Asked(id) = 0
    BY <1>2 DEF Asked
  <2> QED
    BY <1>2, <2>1 DEF NodeTables, CatalogTables
<1>3. CASE stops # {}
  <2>1. Asked(id) = CHOOSE k \in stops : \A j \in stops : k <= j
    BY <1>3 DEF Asked
  <2>2. \E k \in stops : \A j \in stops : k <= j
    <3> HIDE DEF stops
    <3> QED
      BY <1>1, <1>3, LeastIndex
  <2>3. Asked(id) \in stops
    BY <2>1, <2>2
  <2> QED
    BY <1>1, <2>3 DEF NodeTables, CatalogTables
<1> QED
  BY <1>2, <1>3

(* The entries after one more is recorded.                                 *)
LEMMA EntriesAppend ==
  ASSUME NEW S, NEW m \in Seq(S), NEW e \in S
  PROVE  Entries(Append(m, e)) = Entries(m) \cup {e}
<1>1. /\ Len(Append(m, e)) = Len(m) + 1 /\ Len(m) \in Nat
      /\ \A k \in 1..Len(m) : Append(m, e)[k] = m[k]
      /\ Append(m, e)[Len(m) + 1] = e
  OBVIOUS
<1>2. 1..(Len(m) + 1) = 1..Len(m) \cup {Len(m) + 1}
  BY <1>1
<1> QED
  BY <1>1, <1>2 DEF Entries

(* The entries of a map are of the type of the map.                        *)
LEMMA EntriesIn ==
  ASSUME NEW S, NEW m \in Seq(S) PROVE \A e \in Entries(m) : e \in S
<1>1. \A k \in 1..Len(m) : m[k] \in S
  OBVIOUS
<1> QED
  BY <1>1 DEF Entries

(* A pair that is passed by keeps the invariant if its name is accounted   *)
(* for, whatever entries are added that come from the data.                *)
LEMMA PassedKeeps ==
  ASSUME IInv, status = "running", NEW pair \in todo, Passed(pair),
         map' \in Seq([ table : NodeTables, name : NamesInEdges ]),
         Entries(map) \subseteq Entries(map'),
         \A e \in Entries(map') \ Entries(map) :
            e.name \in NamesInEdges /\ e.table \in HomesOf(e.name),
         (\E t \in NodeTables : pair[2] \in holds[t]) =>
            \E e \in Entries(map') : pair[1] \in { e.name, e.table }
  PROVE  IInv'
<1>1. /\ pairs' = pairs /\ holds' = holds /\ broken' = broken
      /\ status' = status /\ todo' = todo \ {pair}
  BY DEF Passed
<1>2. NamesInEdges' = NamesInEdges /\ \A n : HomesOf(n)' = HomesOf(n)
  BY <1>1 DEF NamesInEdges, HomesOf
<1>3. TypeOK'
  BY <1>1 DEF IInv, TypeOK, NamesInEdges
<1>4. EntriesFromData'
  BY <1>1, <1>2 DEF IInv, EntriesFromData, HomesOf
<1>5. Accounted'
  BY <1>1 DEF IInv, Accounted
<1> QED
  BY <1>1, <1>3, <1>4, <1>5 DEF IInv

(* Every step of the derivation keeps the invariant.                       *)
THEOREM Inductive == IInv /\ [Next]_vars => IInv'
<1> SUFFICES ASSUME IInv, [Next]_vars PROVE IInv'
  OBVIOUS
<1> DEFINE EntrySet == [ table : NodeTables, name : NamesInEdges ]
<1>1. map \in Seq(EntrySet) /\ todo \subseteq pairs
  BY DEF IInv, TypeOK, NamesInEdges
<1>2. ASSUME status = "running", NEW pair \in todo, Skip(pair) PROVE IInv'
  <2>1. map' = map /\ Passed(pair) /\ Skipped(pair)
    BY <1>2 DEF Skip
  <2>2. (\E t \in NodeTables : pair[2] \in holds[t]) =>
          \E e \in Entries(map') : pair[1] \in { e.name, e.table }
    <3>1. pair[2] = NULL => \A t \in NodeTables : pair[2] \notin holds[t]
      BY HoldingsAssumption DEF IInv, TypeOK, NodeTables
    <3> QED
      BY <2>1, <3>1 DEF Skipped
  <2> QED
    BY <1>1, <1>2, <2>1, <2>2, PassedKeeps
<1>3. ASSUME status = "running", NEW pair \in todo, NoHolder(pair) PROVE IInv'
  <2>1. map' = map /\ Passed(pair) /\ Asked(pair[2]) = 0
    BY <1>3 DEF NoHolder
  <2>2. \A t \in NodeTables : pair[2] \notin holds[t]
    BY <2>1, AskedIs
  <2> QED
    BY <1>1, <1>3, <2>1, <2>2, PassedKeeps
<1>4. ASSUME status = "running", NEW pair \in todo, Record(pair) PROVE IInv'
  <2> DEFINE table == Tables[Asked(pair[2])]
             e     == Entry(table, pair[1])
  <2>1. /\ Passed(pair) /\ map' = Append(map, e)
        /\ Asked(pair[2]) # 0 /\ table \notin broken
    BY <1>4 DEF Record
  <2>2. table \in NodeTables /\ pair[2] \in holds[table]
    BY <2>1, AskedIs
  <2>3. pair \in pairs /\ pair[1] \in NamesInEdges /\ table \in HomesOf(pair[1])
    BY <1>1, <1>4, <2>2 DEF NamesInEdges, HomesOf
  <2>4. e \in EntrySet /\ e.name = pair[1] /\ e.table = table
    BY <2>2, <2>3 DEF Entry
  <2> HIDE DEF table, e, EntrySet
  <2>5. map' \in Seq(EntrySet) /\ Entries(map') = Entries(map) \cup {e}
    BY <1>1, <2>1, <2>4, EntriesAppend
  <2> QED
    BY <1>4, <2>1, <2>3, <2>4, <2>5, PassedKeeps DEF EntrySet
<1>5. ASSUME status = "running", NEW pair \in todo, LookupFails(pair) PROVE IInv'
  <2>1. Entries(map') = {}
    BY <1>5 DEF LookupFails, Entries
  <2> QED
    BY <1>5, <2>1 DEF LookupFails, IInv, TypeOK, EntriesFromData, Accounted
<1>6. CASE Finish
  BY <1>6 DEF Finish, IInv, TypeOK, EntriesFromData, Accounted, NamesInEdges, HomesOf
<1>7. CASE UNCHANGED vars
  BY <1>7 DEF vars, IInv, TypeOK, EntriesFromData, Accounted, NamesInEdges, HomesOf
<1> QED
  BY <1>2, <1>3, <1>4, <1>5, <1>6, <1>7 DEF Next, Look

-----------------------------------------------------------------------------
(* Once all pairs are looked at, a name with a row in some table has an    *)
(* entry or is a table.                                                    *)
THEOREM OnlyTablesMissing == IInv => MissingOnlyIfTable
<1> SUFFICES ASSUME IInv, status = "done", NEW n \in NamesInEdges, HomesOf(n) # {}
             PROVE  Mapped(n) \/ \E e \in Entries(map) : e.table = n
  BY DEF MissingOnlyIfTable
<1>1. PICK t \in NodeTables, p \in pairs : p[1] = n /\ p[2] \in holds[t]
  BY DEF HomesOf
<1>2. p \in pairs \ todo
  BY <1>1 DEF IInv
<1> QED
  BY <1>1, <1>2 DEF IInv, Accounted, Mapped

(* On clean data the entries are those of the commands with a row: a name  *)
(* that is a table of the map is the name of that table's command.         *)
THEOREM NoOrder == IInv => OrderIrrelevant
<1> SUFFICES ASSUME IInv, status = "done", Clean PROVE Entries(map) = Expected
  BY DEF OrderIrrelevant
<1>1. \A e \in Entries(map) : e \in [ table : NodeTables, name : NamesInEdges ]
  <2>1. map \in Seq([ table : NodeTables, name : NamesInEdges ])
    BY DEF IInv, TypeOK, NamesInEdges
  <2> QED
    BY <2>1, EntriesIn
<1>2. Entries(map) \subseteq Expected
  BY <1>1 DEF IInv, EntriesFromData, Expected
<1>3. ASSUME NEW x \in Expected PROVE x \in Entries(map)
  <2>1. x.name \in NamesInEdges /\ x.table \in HomesOf(x.name)
    BY DEF Expected
  <2>2. PICK e \in Entries(map) : x.name \in { e.name, e.table }
    BY <2>1, OnlyTablesMissing DEF MissingOnlyIfTable, Mapped
  <2>3. e.name \in NamesInEdges /\ e.table \in HomesOf(e.name)
    BY DEF IInv, EntriesFromData
  <2>4. e.name = x.name
    BY <2>1, <2>2, <2>3 DEF Clean
  <2>5. e.table = x.table
    BY <2>1, <2>3, <2>4 DEF Clean
  <2> QED
    BY <1>1, <2>4, <2>5 DEF Expected
<1> QED
  BY <1>2, <1>3

(* On clean data no other entry has the table or the name of a command for *)
(* its table or its name, so that every reading is the command's entry.    *)
THEOREM BothWays == IInv => ReadsBothWays
<1> SUFFICES ASSUME IInv, status = "done", Clean,
                    NEW e \in Expected, NEW label \in { e.table, e.name }
             PROVE  ~Ambiguous(map, label) /\ Resolve(map, label) = e
  BY DEF ReadsBothWays
<1> DEFINE T == { k \in 1..Len(map) : map[k].table = label }
           N == { k \in 1..Len(map) : map[k].name = label }
<1>1. Entries(map) = Expected
  BY NoOrder DEF OrderIrrelevant
<1>2. Len(map) \in Nat
  BY DEF IInv, TypeOK
<1>3. \A k \in 1..Len(map) : map[k] \in Expected
  BY <1>1 DEF Entries
<1>4. /\ e.name \in NamesInEdges /\ e.table \in HomesOf(e.name)
      /\ e \in [ table : NodeTables, name : NamesInEdges ]
  BY DEF Expected
<1>5. ASSUME NEW k \in 1..Len(map), label \in { map[k].table, map[k].name }
      PROVE  map[k] = e
  <2>1. /\ map[k].name \in NamesInEdges /\ map[k].table \in HomesOf(map[k].name)
        /\ map[k] \in [ table : NodeTables, name : NamesInEdges ]
    BY <1>3 DEF Expected
  <2>2. map[k].name = e.name
    BY <1>4, <1>5, <2>1 DEF Clean
  <2>3. map[k].table = e.table
    BY <1>4, <2>1, <2>2 DEF Clean
  <2> QED
    BY <1>4, <2>1, <2>2, <2>3
<1>6. T \cup N # {}
  <2>1. PICK k \in 1..Len(map) : map[k] = e
    BY <1>1 DEF Entries
  <2> QED
    BY <2>1
<1>7. label # NoLabel
  <2>1. e.name # NoLabel
    BY <1>4, PeersAssumption DEF IInv, TypeOK, NamesInEdges
  <2>2. e.table # NoLabel
    BY <1>4, TablesAssumption DEF NodeTables
  <2> QED
    BY <2>1, <2>2
<1>8. /\ AsTable(map, label) = LastIn(T) /\ AsName(map, label) = LastIn(N)
      /\ T \in SUBSET (1..Len(map)) /\ N \in SUBSET (1..Len(map))
  BY DEF AsTable, AsName
<1>9. (\A k \in T : map[k] = e) /\ (\A k \in N : map[k] = e)
  BY <1>5
<1> HIDE DEF T, N
<1>10. /\ AsTable(map, label) \in T \cup {0} /\ (AsTable(map, label) = 0 <=> T = {})
       /\ AsName(map, label) \in N \cup {0} /\ (AsName(map, label) = 0 <=> N = {})
  <2>1. LastIn(T) \in T \cup {0} /\ (LastIn(T) = 0 <=> T = {})
    BY <1>2, <1>8, LastInSome
  <2>2. LastIn(N) \in N \cup {0} /\ (LastIn(N) = 0 <=> N = {})
    BY <1>2, <1>8, LastInSome
  <2> QED
    BY <1>8, <2>1, <2>2
<1>11. ~Ambiguous(map, label)
  BY <1>9, <1>10 DEF Ambiguous
<1>12. Resolve(map, label) = e
  BY <1>6, <1>7, <1>9, <1>10 DEF Resolve
<1> QED
  BY <1>11, <1>12

-----------------------------------------------------------------------------
(* The invariant holds in every reachable state.                           *)
THEOREM Invariance == Spec => []IInv
<1> QED
  BY Initially, Inductive, PTL DEF Spec

(* The entries of a map pair node tables with names of the edge table.     *)
THEOREM TypeCorrect == Spec => []TypeOK
<1>1. IInv => TypeOK
  BY DEF IInv
<1> QED
  BY <1>1, Invariance, PTL

(* A derived map leaves a name out only if it is the table of an entry.    *)
THEOREM MissingCorrect == Spec => []MissingOnlyIfTable
<1> QED
  BY OnlyTablesMissing, Invariance, PTL

(* On data without a clash the order of the rows does not matter.          *)
THEOREM OrderCorrect == Spec => []OrderIrrelevant
<1> QED
  BY NoOrder, Invariance, PTL

(* On data without a clash both spellings of a command resolve to it.      *)
THEOREM ReadingCorrect == Spec => []ReadsBothWays
<1> QED
  BY BothWays, Invariance, PTL
=============================================================================
