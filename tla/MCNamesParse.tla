----------------------------- MODULE MCNamesParse -----------------------------
(* Maps of up to three entries over three tables and names, as --names and *)
(* as a file of lines with blanks and a carriage return; and every text of *)
(* up to four characters.                                                  *)
EXTENDS NamesParse

Letters == { "f", "g", "h" }
MCCharacters == { "f", "g", "h", "=", ";", "\n", " ", "\r" }

MCEntries == [ table : { << c >> : c \in Letters }, name : { << c >> : c \in Letters } ]
Written(n) == UNION { [ 1..k -> MCEntries ] : k \in 0..n }

AsSpec(m) ==
  FlattenSeq([ k \in 1..Len(m) |->
    (IF k = 1 THEN << >> ELSE << ";" >>) \o m[k].table \o << "=" >> \o m[k].name ])
AsFile(m) ==
  FlattenSeq([ k \in 1..Len(m) |->
    << " " >> \o m[k].table \o << " ", "=" >> \o m[k].name \o << "\r", "\n" >> ])

Input(kind, text) == [ kind |-> kind, text |-> text ]

MCInputs ==
  { Input("spec", AsSpec(m)) : m \in Written(3) }
  \cup { Input("file", AsFile(m)) : m \in Written(3) }
  \cup { Input("spec", t) : t \in UNION { [ 1..n -> (MCCharacters \ { "h" }) ] : n \in 0..4 } }

MCFirstCap == 4

MCSpellings == UNION { [ 1..n -> MCCharacters ] : n \in 1..2 }
MCMaps ==
  Written(3) \cup { << Entry(t, n) >> : t \in MCSpellings, n \in { << c >> : c \in MCCharacters } }
  \cup { << Entry(t, n) >> : t \in { << c >> : c \in MCCharacters }, n \in MCSpellings }
MCLabels == { << "f" >>, << "g" >>, << "h" >>, NoLabel }
=============================================================================
