----------------------------- MODULE NamesResolve -----------------------------
(***************************************************************************)
(* names_resolve: one scan of the map for the readings of a label, as a    *)
(* table and as a name, and the choice between them.                       *)
(***************************************************************************)
EXTENDS Names

CONSTANTS
  Spellings,  \* what tables, names and labels are spelled with
  Maps,       \* the maps in use
  Labels      \* the labels of a query

ASSUME MapsAssumption ==
  /\ NoLabel \notin Spellings
  /\ \A m \in Maps : m \in Seq([ table : Spellings, name : Spellings ])
  /\ Labels \subseteq Spellings \cup {NoLabel}

VARIABLES
  map, label,
  i,          \* the entries scanned so far
  as_table,   \* the last of them whose table is the label, or NoEntry
  as_name,    \* the last of them whose name is the label, or NoEntry
  status,     \* "running", "done", or "failed"
  pair        \* the table and the name the label stands for

vars == << map, label, i, as_table, as_name, status, pair >>

NoEntry == Entry(NoLabel, NoLabel)

Init ==
  /\ map \in Maps /\ label \in Labels
  /\ i = 0
  /\ as_table = NoEntry /\ as_name = NoEntry
  /\ status = "running"
  /\ pair = NoEntry

NoLabelGiven ==
  /\ status = "running" /\ label = NoLabel
  /\ status' = "done"
  /\ UNCHANGED << map, label, i, as_table, as_name, pair >>

(* Mutants: the columns of a table entry are swapped; the first match is   *)
(* kept; the scan goes on only after a match.                              *)
Scan_Swapped ==
  /\ status = "running" /\ label # NoLabel /\ i < Len(map)
  /\ i' = i + 1
  /\ as_table' = IF map[i + 1].table = label
                 THEN Entry(map[i + 1].name, map[i + 1].table) ELSE as_table
  /\ as_name'  = IF map[i + 1].name = label THEN map[i + 1] ELSE as_name
  /\ UNCHANGED << map, label, status, pair >>

Scan_FirstKept ==
  /\ status = "running" /\ label # NoLabel /\ i < Len(map)
  /\ i' = i + 1
  /\ as_table' = IF map[i + 1].table = label /\ as_table = NoEntry
                 THEN map[i + 1] ELSE as_table
  /\ as_name'  = IF map[i + 1].name = label THEN map[i + 1] ELSE as_name
  /\ UNCHANGED << map, label, status, pair >>

Scan_Sticks ==
  /\ status = "running" /\ label # NoLabel /\ i < Len(map)
  /\ label \in { map[i + 1].table, map[i + 1].name }
  /\ i' = i + 1
  /\ as_table' = IF map[i + 1].table = label THEN map[i + 1] ELSE as_table
  /\ as_name'  = IF map[i + 1].name = label THEN map[i + 1] ELSE as_name
  /\ UNCHANGED << map, label, status, pair >>

Scan ==
  /\ status = "running" /\ label # NoLabel /\ i < Len(map)
  /\ i' = i + 1
  /\ as_table' = IF map[i + 1].table = label THEN map[i + 1] ELSE as_table
  /\ as_name'  = IF map[i + 1].name = label THEN map[i + 1] ELSE as_name
  /\ UNCHANGED << map, label, status, pair >>

(* Mutant: two readings are one too many, also when they agree.            *)
Disagree_Always == as_table # NoEntry /\ as_name # NoEntry

(* The two readings differ in the table or in the name.                    *)
Disagree == as_table # NoEntry /\ as_name # NoEntry /\ as_table # as_name

(* Mutant: a label that is a name is taken for a table as well.            *)
Reading_NameAsTable == IF as_table # NoEntry THEN as_table ELSE Entry(label, label)

Reading ==
  IF as_table # NoEntry THEN as_table
  ELSE IF as_name # NoEntry THEN as_name ELSE Entry(label, label)

Decide ==
  /\ status = "running" /\ label # NoLabel /\ i = Len(map)
  /\ IF Disagree THEN status' = "failed" /\ UNCHANGED pair
     ELSE status' = "done" /\ pair' = Reading
  /\ UNCHANGED << map, label, i, as_table, as_name >>

Next == NoLabelGiven \/ Scan \/ Decide

Spec == Init /\ [][Next]_vars

FairSpec == Spec /\ WF_vars(Next)

-----------------------------------------------------------------------------
(***************************************************************************)
(* Properties.                                                             *)
(***************************************************************************)
(* The readings, and the pair returned, are entries of the map, or none.   *)
TypeOK ==
  /\ map \in Maps /\ label \in Labels
  /\ i \in 0..Len(map)
  /\ {as_table, as_name} \subseteq Entries(map) \cup {NoEntry}
  /\ status \in { "running", "done", "failed" }
  /\ pair \in Entries(map) \cup { NoEntry, Entry(label, label) }

(* The scan computes what Names says of the whole map.                     *)
ComputesResolve ==
  /\ status = "done" => ~Ambiguous(map, label) /\ pair = Resolve(map, label)
  /\ status = "failed" => Ambiguous(map, label)

(* In a map without repetitions a label is rejected exactly when it is the *)
(* table of one command and the name of another.                           *)
AmbiguityExact ==
  OneToOne(map) /\ label # NoLabel =>
    /\ status = "failed" => GenuinelyAmbiguous(map, label)
    /\ status = "done" => ~GenuinelyAmbiguous(map, label)

(* In such a map the two spellings of a command mean the same pair, unless *)
(* one of them is rejected.                                                *)
EitherSpelling ==
  OneToOne(map) /\ status = "done" =>
    \A e \in Entries(map) : label \in { e.table, e.name } => pair = e

(* What names.h and the README say of every map: a label that is a table   *)
(* for one command and the name of a different command is an error.        *)
AmbiguityReported ==
  status = "done" /\ label # NoLabel => ~GenuinelyAmbiguous(map, label)

(* Every scan ends in a decision.                                          *)
Termination == <>(status # "running")

-----------------------------------------------------------------------------
(***************************************************************************)
(* The inductive invariant behind these properties.                        *)
(***************************************************************************)
(* The entry is that of the last index in S, or none if there is none.     *)
LastOf(e, S) ==
  IF S = {} THEN e = NoEntry
  ELSE \E k \in S : e = map[k] /\ \A l \in S : l <= k

Scanned ==
  /\ LastOf(as_table, { k \in 1..i : map[k].table = label })
  /\ LastOf(as_name, { k \in 1..i : map[k].name = label })

Decided ==
  /\ status # "done" => pair = NoEntry
  /\ status # "running" =>
       IF label = NoLabel THEN status = "done" /\ pair = NoEntry
       ELSE /\ i = Len(map)
            /\ status = "failed" => Disagree
            /\ status = "done" => ~Disagree /\ pair = Reading

IInv == TypeOK /\ Scanned /\ Decided
=============================================================================
