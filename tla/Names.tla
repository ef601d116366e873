-------------------------------- MODULE Names --------------------------------
(***************************************************************************)
(* The name map and names_resolve: a node label is the spelling of a table *)
(* or of a command whose rows live in a table, and resolves to the table   *)
(* to join and the *_name value to filter the edges by.                    *)
(*                                                                         *)
(* A map is a sequence of entries, in the order they were added.           *)
(***************************************************************************)
EXTENDS Naturals, Sequences

CONSTANT NoLabel   \* a node without a label (the NULL of the code)

Entry(t, n) == [ table |-> t, name |-> n ]

(* The scan keeps the last entry that matches; 0 stands for no match.      *)
LastIn(S) == CHOOSE i \in S \cup {0} : \A j \in S : j <= i

AsTable(map, label) == LastIn({ i \in 1..Len(map) : map[i].table = label })
AsName(map, label)  == LastIn({ i \in 1..Len(map) : map[i].name = label })

(* The label reads as two different pairs.                                 *)
Ambiguous(map, label) ==
  /\ AsTable(map, label) # 0
  /\ AsName(map, label) # 0
  /\ map[AsTable(map, label)] # map[AsName(map, label)]

(* The pair a label that is not ambiguous resolves to.                     *)
Resolve(map, label) ==
  LET t == AsTable(map, label)
      n == AsName(map, label)
  IN  IF label = NoLabel THEN Entry(NoLabel, NoLabel)
      ELSE IF t # 0 THEN map[t] ELSE IF n # 0 THEN map[n] ELSE Entry(label, label)

-----------------------------------------------------------------------------
(* The entries of a map.                                                   *)
Entries(map) == { map[i] : i \in 1..Len(map) }

(* No table and no name is in two entries.                                 *)
OneToOne(map) ==
  \A i, j \in 1..Len(map) :
    map[i].table = map[j].table \/ map[i].name = map[j].name => i = j

(* No name is in two entries: every command writes to one table.           *)
NamesUnique(map) ==
  \A i, j \in 1..Len(map) : map[i].name = map[j].name => i = j

(* The label is the table of one command and the name of a different one.  *)
GenuinelyAmbiguous(map, label) ==
  \E i, j \in 1..Len(map) :
    map[i].table = label /\ map[j].name = label /\ map[i].name # map[j].name
=============================================================================
