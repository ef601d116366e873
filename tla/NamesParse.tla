------------------------------ MODULE NamesParse ------------------------------
(***************************************************************************)
(* names_parse and names_parse_file, and the label resolved by the map     *)
(* they give: a file is read in pieces into a growing buffer, the text is  *)
(* split at newlines and semicolons, every entry is trimmed and cut at its *)
(* first equals sign.                                                      *)
(***************************************************************************)
EXTENDS NamesResolve, SequencesExt

CONSTANTS
  Characters,
  Inputs,    \* what may be given: kind "spec" or "file", and the text
  FirstCap   \* the first capacity of the buffer

ASSUME InputsAssumption ==
  /\ FirstCap \in Nat \ {0}
  /\ \A given \in Inputs : given.kind \in { "spec", "file" } /\ given.text \in Seq(Characters)

VARIABLES
  input,
  len, cap,   \* of the buffer: bytes read, bytes allocated
  rest,       \* the text still to be parsed
  entry,      \* the entry at hand, trimmed
  stage       \* "reading", "parsing", "entry", "unreadable", "malformed", or "parsed"

parsevars == << input, len, cap, rest, entry, stage >>

allvars == << vars, parsevars >>

ParseInit ==
  /\ input \in Inputs
  /\ map = << >> /\ Init
  /\ len = 0 /\ entry = << >>
  /\ \/ input.kind = "file" /\ cap = FirstCap /\ rest = << >> /\ stage = "reading"
     \/ input.kind = "spec" /\ cap = 0 /\ rest = input.text /\ stage = "parsing"

-----------------------------------------------------------------------------
(* fread: as much as there is and the buffer has room for. *)
Got ==
  LET left == Len(input.text) - len
      room == cap - len
  IN  IF left < room THEN left ELSE room

(* Mutant: the buffer grows when it has run over. *)
Fill_GrowLate ==
  /\ stage = "reading" /\ Got > 0
  /\ len' = len + Got
  /\ cap' = IF len' > cap THEN 2 * cap ELSE cap
  /\ UNCHANGED << vars, input, rest, entry, stage >>

Fill ==
  /\ stage = "reading" /\ Got > 0
  /\ len' = len + Got
  /\ cap' = IF len' = cap THEN 2 * cap ELSE cap
  /\ UNCHANGED << vars, input, rest, entry, stage >>

(* buf[len] = '\0' *)
EndOfFile ==
  /\ stage = "reading" /\ Got = 0
  /\ rest' = SubSeq(input.text, 1, len)
  /\ stage' = "parsing"
  /\ UNCHANGED << vars, input, len, cap, entry >>

(* The file cannot be opened, or not be read to its end. *)
Unreadable ==
  /\ stage = "reading"
  /\ stage' = "unreadable"
  /\ UNCHANGED << vars, input, len, cap, rest, entry >>

-----------------------------------------------------------------------------
Separators == { "\n", ";" }
Leading    == { " ", "\t" }
Trailing   == { " ", "\t", "\r", "\n" }

(* trim: blanks at the front, blanks and line ends at the back. *)
Trimmed(s) ==
  LET last == SelectLastInSeq(s, LAMBDA c : c \notin Trailing)
  IN  IF last = 0 THEN << >>
      ELSE SubSeq(s, SelectInSeq(s, LAMBDA c : c \notin Leading), last)

(* Mutant: the last equals sign. *)
EqualsIn_Last == SelectLastInSeq(entry, LAMBDA c : c = "=")

(* 0 if there is none. *)
EqualsIn == SelectInSeq(entry, LAMBDA c : c = "=")

(* How long the entry at the front of the text is. *)
EntryLength ==
  LET sep == SelectInSeq(rest, LAMBDA c : c \in Separators)
  IN  IF sep = 0 THEN Len(rest) ELSE sep - 1

Isolate ==
  /\ stage = "parsing" /\ rest # << >>
  /\ entry' = Trimmed(SubSeq(rest, 1, EntryLength))
  /\ rest' = SubSeq(rest, EntryLength + 2, Len(rest))
  /\ stage' = "entry"
  /\ UNCHANGED << vars, input, len, cap >>

Table == Trimmed(SubSeq(entry, 1, EqualsIn - 1))
Name  == Trimmed(SubSeq(entry, EqualsIn + 1, Len(entry)))

Malformed == EqualsIn = 0 \/ Table = << >> \/ Name = << >>

(* The map is freed and none returned. *)
Reject ==
  /\ stage = "entry" /\ entry # << >> /\ Malformed
  /\ stage' = "malformed"
  /\ map' = << >>
  /\ UNCHANGED << label, i, as_table, as_name, status, pair, input, len, cap, rest, entry >>

ParseEntry ==
  /\ stage = "entry" /\ (entry # << >> => ~Malformed)
  /\ map' = IF entry = << >> THEN map ELSE Append(map, Entry(Table, Name))
  /\ stage' = "parsing"
  /\ UNCHANGED << label, i, as_table, as_name, status, pair, input, len, cap, rest, entry >>

EndOfText ==
  /\ stage = "parsing" /\ rest = << >>
  /\ stage' = "parsed"
  /\ UNCHANGED << vars, input, len, cap, rest, entry >>

Parse ==
  Fill \/ EndOfFile \/ Unreadable \/ Isolate \/ Reject \/ ParseEntry \/ EndOfText

(* The label is resolved by a map that was parsed. *)
Resolution == stage = "parsed" /\ Next /\ UNCHANGED parsevars

ParseNext == Parse \/ Resolution

ParseSpec == ParseInit /\ [][ParseNext]_allvars

ParseFairSpec == ParseSpec /\ WF_allvars(ParseNext)

-----------------------------------------------------------------------------
(***************************************************************************)
(* Properties.                                                             *)
(***************************************************************************)
(* The buffer always has room for the end of the string, and a file that   *)
(* is parsed was read to its end.                                          *)
RoomForEnd ==
  input.kind = "file" =>
    /\ len < cap
    /\ stage \in { "parsing", "entry", "malformed", "parsed" } => len = Len(input.text)

(* The pieces of the text between separators, first to last, that hold     *)
(* more than blanks and line ends.                                         *)
Pieces ==
  LET t == input.text
      Cuts == { 0, Len(t) + 1 } \cup { k \in DOMAIN t : t[k] \in Separators }
      End(a) == CHOOSE b \in Cuts : b > a /\ \A c \in Cuts : c > a => b <= c
      Piece(a) == SubSeq(t, a + 1, End(a) - 1)
      Starts == { a \in Cuts \ { Len(t) + 1 } : ~(ToSet(Piece(a)) \subseteq Trailing) }
  IN  [ k \in 1..Cardinality(Starts) |->
          Piece(CHOOSE a \in Starts : Cardinality({ b \in Starts : b < a }) = k - 1) ]

(* s is the word t with blanks around it. *)
Surrounds(s, t) ==
  /\ t # << >> => t[1] \notin Leading /\ t[Len(t)] \notin Trailing
  /\ \E a \in 0..(Len(s) - Len(t)) :
       /\ SubSeq(s, a + 1, a + Len(t)) = t
       /\ \A k \in 1..a : s[k] \in Leading
       /\ \A k \in (a + Len(t) + 1)..Len(s) : s[k] \in Trailing

(* The piece says that the table holds the rows of the name. *)
Says(piece, table, name) ==
  \E k \in DOMAIN piece :
    /\ piece[k] = "="
    /\ \A j \in 1..(k - 1) : piece[j] # "="
    /\ Surrounds(SubSeq(piece, 1, k - 1), table)
    /\ Surrounds(SubSeq(piece, k + 1, Len(piece)), name)

Words(piece) == { SubSeq(piece, a, b) : a, b \in DOMAIN piece } \ { << >> }

(* The map holds, in order, just what the pieces of the text say, and the  *)
(* text is rejected exactly when one of them says nothing.                 *)
ParsedAsWritten ==
  /\ stage = "parsed" =>
       /\ Len(map) = Len(Pieces)
       /\ \A k \in DOMAIN map :
            /\ Says(Pieces[k], map[k].table, map[k].name)
            /\ map[k].table # << >> /\ map[k].name # << >>
  /\ stage = "malformed" =>
       \E k \in DOMAIN Pieces : \A t, n \in Words(Pieces[k]) : ~Says(Pieces[k], t, n)

(* Every map is read, or complained of, and every label then resolved.     *)
Ends == <>(stage \in { "unreadable", "malformed" } \/ status # "running")
=============================================================================
