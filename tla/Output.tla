-------------------------------- MODULE Output --------------------------------
(***************************************************************************)
(* output_flag and output_result: the options of the command line, and the *)
(* answer written in one of the modes of the sqlite3 shell.                *)
(*                                                                         *)
(* Text is a sequence of characters; names, cells and separators are texts.*)
(* A cell has a type, and a text unless it is NULL.                        *)
(***************************************************************************)
EXTENDS Naturals, Sequences, SequencesExt

CONSTANTS
  Control,   \* the characters JSON writes as \u and four digits
  BytesOf    \* how many bytes a character takes, for those that take several

VARIABLES
  args,      \* the arguments still to be scanned
  options,   \* mode, header, colsep, rowsep
  result,    \* names and rows of the answer
  printed,   \* what is on stdout
  stage      \* "arguments", "usage", "query", or "answered"

outvars == << args, options, result, printed, stage >>

DQuote == "\""
Backslash == "\\"
Newline == "\n"

-----------------------------------------------------------------------------
(***************************************************************************)
(* output_flag: one argument.  csv and tabs set the column separator,      *)
(* ascii both; no other mode touches them.                                 *)
(***************************************************************************)
Default == [ mode |-> "list", header |-> TRUE, colsep |-> << "|" >>, rowsep |-> << Newline >> ]

Modes == { "list", "csv", "tabs", "ascii", "html", "json", "line",
           "column", "table", "box", "markdown" }

Flag(o, flag, value) ==
  CASE flag = "csv"  -> [ o EXCEPT !.mode = flag, !.colsep = << "," >> ]
    [] flag = "tabs" -> [ o EXCEPT !.mode = flag, !.colsep = << "\t" >> ]
    [] flag = "ascii" -> [ o EXCEPT !.mode = flag, !.colsep = << "US" >>, !.rowsep = << "RS" >> ]
    [] flag \in Modes \ { "csv", "tabs", "ascii" } -> [ o EXCEPT !.mode = flag ]
    [] flag = "header"    -> [ o EXCEPT !.header = TRUE ]
    [] flag = "noheader"  -> [ o EXCEPT !.header = FALSE ]
    [] flag = "separator" -> [ o EXCEPT !.colsep = value ]
    [] flag = "newline"   -> [ o EXCEPT !.rowsep = value ]

(* Of an argument that takes a value the next one is the value. *)
TakesValue(flag) == flag \in { "separator", "newline" }

Scan ==
  /\ stage = "arguments" /\ args # << >>
  /\ IF TakesValue(Head(args))
     THEN IF Len(args) = 1 THEN stage' = "usage" /\ UNCHANGED << args, options >>
          ELSE /\ options' = Flag(options, args[1], args[2])
               /\ args' = SubSeq(args, 3, Len(args))
               /\ UNCHANGED stage
     ELSE /\ options' = Flag(options, args[1], << >>)
          /\ args' = Tail(args)
          /\ UNCHANGED stage
  /\ UNCHANGED << result, printed >>

Scanned ==
  /\ stage = "arguments" /\ args = << >>
  /\ stage' = "query"
  /\ UNCHANGED << args, options, result, printed >>

-----------------------------------------------------------------------------
(***************************************************************************)
(* Text.                                                                   *)
(***************************************************************************)
Repeat(t, n) == FlattenSeq([ k \in 1..n |-> t ])

Each(Op(_), s) == [ k \in 1..Len(s) |-> Op(s[k]) ]

Joined(texts, sep) ==
  FlattenSeq([ k \in 1..Len(texts) |-> (IF k = 1 THEN << >> ELSE sep) \o texts[k] ])

Occurs(t, s) == \E k \in 0..Len(s) : IsPrefix(t, SubSeq(s, k + 1, Len(s)))

(* strlen counts bytes. *)
Bytes(s) ==
  FoldLeft(LAMBDA n, c : n + (IF c \in DOMAIN BytesOf THEN BytesOf[c] ELSE 1), 0, s)

Largest(S) == CHOOSE n \in S : \A m \in S : m <= n

(* NULL is the empty text. *)
Shown(cell) == IF cell.type = "null" THEN << >> ELSE cell.text

Row(rs, r) == Each(Shown, rs.rows[r])

Rows(rs) == [ r \in 1..Len(rs.rows) |-> Row(rs, r) ]

(* The header is a row where the mode and the options show it. *)
WithHeader(rs, o) == (IF o.header THEN << rs.names >> ELSE << >>) \o Rows(rs)

-----------------------------------------------------------------------------
(***************************************************************************)
(* list, ascii, tabs, csv, html, json, line.                               *)
(***************************************************************************)
(* Mutant: only the separator calls for quotes. *)
CsvField_SeparatorOnly(s, sep) ==
  IF Occurs(sep, s)
  THEN << DQuote >> \o FlattenSeq([ k \in 1..Len(s) |->
         IF s[k] = DQuote THEN << DQuote, DQuote >> ELSE << s[k] >> ]) \o << DQuote >>
  ELSE s

(* A NULL in csv is empty and unquoted, and so is the empty text. *)
CsvField(s, sep) ==
  IF \/ \E k \in DOMAIN s : s[k] \in { DQuote, "\r", Newline }
     \/ sep # << >> /\ Occurs(sep, s)
  THEN << DQuote >> \o FlattenSeq([ k \in 1..Len(s) |->
         IF s[k] = DQuote THEN << DQuote, DQuote >> ELSE << s[k] >> ]) \o << DQuote >>
  ELSE s

Separated(rows, o) ==
  FlattenSeq([ r \in 1..Len(rows) |-> Joined(rows[r], o.colsep) \o o.rowsep ])

Csv(rows, o) ==
  Separated([ r \in 1..Len(rows) |->
                [ c \in 1..Len(rows[r]) |-> CsvField(rows[r][c], o.colsep) ] ], o)

Entity ==
  [ c \in { "<", ">", "&", DQuote } |->
      CASE c = "<" -> << "&", "l", "t", ";" >>
        [] c = ">" -> << "&", "g", "t", ";" >>
        [] c = "&" -> << "&", "a", "m", "p", ";" >>
        [] OTHER   -> << "&", "q", "u", "o", "t", ";" >> ]

HtmlChar(c) == IF c \in DOMAIN Entity THEN Entity[c] ELSE << c >>

Element(tag, inner) ==
  << "<" >> \o tag \o << ">" >> \o inner \o << "<", "/" >> \o tag \o << ">", Newline >>

HtmlRow(row, tag) ==
  Element(<< "T", "R" >>,
          FlattenSeq([ c \in 1..Len(row) |->
            Element(tag, FlattenSeq(Each(HtmlChar, row[c]))) ]))

Html(rs, o) ==
  (IF o.header THEN HtmlRow(rs.names, << "T", "H" >>) ELSE << >>)
  \o FlattenSeq([ r \in 1..Len(rs.rows) |-> HtmlRow(Row(rs, r), << "T", "D" >>) ])

(* The letter of a short escape; quotes and backslashes stand for themselves. *)
Short ==
  [ c \in { DQuote, Backslash, Newline, "\r", "\t", "\f" } |->
      CASE c = Newline -> "n" [] c = "\r" -> "r" [] c = "\t" -> "t" [] c = "\f" -> "f"
        [] OTHER -> c ]

(* The four digits after \u are one character here, the character they name. *)
JsonChar(c) ==
  CASE c \in DOMAIN Short -> << Backslash, Short[c] >>
    [] c \in Control      -> << Backslash, "u", c >>
    [] OTHER              -> << c >>

JsonString(s) == << DQuote >> \o FlattenSeq(Each(JsonChar, s)) \o << DQuote >>

JsonValue(cell) ==
  CASE cell.type = "null"   -> << "n", "u", "l", "l" >>
    [] cell.type = "number" -> cell.text
    [] OTHER                -> JsonString(cell.text)

JsonObject(names, row) ==
  << "{" >> \o Joined([ c \in 1..Len(row) |->
      JsonString(names[c]) \o << ":" >> \o JsonValue(row[c]) ], << "," >>) \o << "}" >>

Json(rs) ==
  << "[" >> \o Joined([ r \in 1..Len(rs.rows) |-> JsonObject(rs.names, rs.rows[r]) ],
                      << ",", Newline >>) \o << "]", Newline >>

Line(rs) ==
  LET w == Largest({ 5 } \cup { Bytes(rs.names[c]) : c \in DOMAIN rs.names })
      Field(r, c) == Repeat(<< " " >>, w - Bytes(rs.names[c])) \o rs.names[c]
                     \o << " ", "=", " " >> \o Shown(rs.rows[r][c]) \o << Newline >>
  IN  Joined([ r \in 1..Len(rs.rows) |->
                 FlattenSeq([ c \in 1..Len(rs.names) |-> Field(r, c) ]) ], << Newline >>)

-----------------------------------------------------------------------------
(***************************************************************************)
(* column, table, box, markdown: every column as wide as its widest cell.  *)
(***************************************************************************)
ColumnWidths(rs) ==
  [ c \in 1..Len(rs.names) |->
      Largest({ Bytes(rs.names[c]) } \cup { Bytes(Shown(rs.rows[r][c])) : r \in DOMAIN rs.rows }) ]

(* Mutant: centred text has half the slack on either side. *)
Padded_Halves(s, w, center) ==
  LET slack == IF w > Bytes(s) THEN w - Bytes(s) ELSE 0
      left  == IF center THEN slack \div 2 ELSE 0
      right == IF center THEN slack \div 2 ELSE slack
  IN  Repeat(<< " " >>, left) \o s \o Repeat(<< " " >>, right)

Padded(s, w, center) ==
  LET slack == IF w > Bytes(s) THEN w - Bytes(s) ELSE 0
      left  == IF center THEN slack \div 2 ELSE 0
  IN  Repeat(<< " " >>, left) \o s \o Repeat(<< " " >>, slack - left)

ColumnRow(row, w) ==
  Joined([ c \in 1..Len(row) |-> Padded(row[c], w[c], FALSE) ], << " ", " " >>) \o << Newline >>

Column(rs, o, w) ==
  (IF o.header
   THEN ColumnRow(rs.names, w)
        \o ColumnRow([ c \in 1..Len(w) |-> Repeat(<< "-" >>, w[c]) ], w)
   ELSE << >>)
  \o FlattenSeq([ r \in 1..Len(rs.rows) |-> ColumnRow(Row(rs, r), w) ])

Rule(left, mid, right, hbar, w) ==
  << left >> \o Joined([ c \in 1..Len(w) |-> Repeat(<< hbar >>, w[c] + 2) ], << mid >>)
  \o << right, Newline >>

GridRow(vert, row, w, center) ==
  FlattenSeq([ c \in 1..Len(row) |->
    << vert, " " >> \o Padded(row[c], w[c], center) \o << " " >> ]) \o << vert, Newline >>

GridRows(vert, rs, w) ==
  FlattenSeq([ r \in 1..Len(rs.rows) |-> GridRow(vert, Row(rs, r), w, FALSE) ])

(* The corners and tees are those of the table, or of the box. *)
Boxed(rs, w, corner, vert, hbar) ==
  Rule(corner["tl"], corner["tm"], corner["tr"], hbar, w)
  \o GridRow(vert, rs.names, w, TRUE)
  \o Rule(corner["ml"], corner["mm"], corner["mr"], hbar, w)
  \o GridRows(vert, rs, w)
  \o Rule(corner["bl"], corner["bm"], corner["br"], hbar, w)

Corners == { "tl", "tm", "tr", "ml", "mm", "mr", "bl", "bm", "br" }

Markdown(rs, w) ==
  GridRow("|", rs.names, w, TRUE) \o Rule("|", "|", "|", "-", w) \o GridRows("|", rs, w)

-----------------------------------------------------------------------------
(* output_result.  An answer without rows prints nothing in any mode.      *)
Rendered(rs, o) ==
  LET w == ColumnWidths(rs)
  IN  IF rs.rows = << >> THEN << >>
      ELSE CASE o.mode = "csv"      -> Csv(WithHeader(rs, o), o)
             [] o.mode = "html"     -> Html(rs, o)
             [] o.mode = "json"     -> Json(rs)
             [] o.mode = "line"     -> Line(rs)
             [] o.mode = "column"   -> Column(rs, o, w)
             [] o.mode = "table"    -> Boxed(rs, w, [ k \in Corners |-> "+" ], "|", "-")
             [] o.mode = "box"      -> Boxed(rs, w, [ k \in Corners |-> k ], "vert", "hbar")
             [] o.mode = "markdown" -> Markdown(rs, w)
             [] OTHER               -> Separated(WithHeader(rs, o), o)

Render ==
  /\ stage = "query"
  /\ printed' = Rendered(result, options)
  /\ stage' = "answered"
  /\ UNCHANGED << args, options, result >>
=============================================================================
