----------------------------- MODULE OutputReader -----------------------------
(***************************************************************************)
(* How a program reads what output_result printed: separated text with or  *)
(* without the quotes of RFC 4180, HTML table rows, JSON objects.          *)
(* External to the repository.                                             *)
(***************************************************************************)
EXTENDS Output

(* Rows of fields, from text with one character between fields and one     *)
(* after each row.                                                         *)
ReadSeparated(chars, colsep, rowsep, quotes) ==
  LET Start == [ rows |-> << >>, row |-> << >>, field |-> << >>, mode |-> "start" ]
      Step(st, c) ==
        CASE st.mode = "quoted" /\ c = DQuote  -> [ st EXCEPT !.mode = "closing" ]
          [] st.mode = "quoted" /\ c # DQuote  -> [ st EXCEPT !.field = Append(@, c) ]
          [] st.mode = "closing" /\ c = DQuote ->
               [ st EXCEPT !.field = Append(@, c), !.mode = "quoted" ]
          [] st.mode = "start" /\ c = DQuote /\ quotes -> [ st EXCEPT !.mode = "quoted" ]
          [] st.mode # "quoted" /\ c = colsep ->
               [ st EXCEPT !.row = Append(@, st.field), !.field = << >>, !.mode = "start" ]
          [] st.mode # "quoted" /\ c = rowsep ->
               [ rows |-> Append(st.rows, Append(st.row, st.field)),
                 row |-> << >>, field |-> << >>, mode |-> "start" ]
          [] OTHER -> [ st EXCEPT !.field = Append(@, c), !.mode = "plain" ]
  IN  FoldLeft(Step, Start, chars).rows

(* Rows of cells, from <TR> and </TR>, <TD> and </TD>, <TH> and </TH>. *)
ReadHtml(chars) ==
  LET Start == [ rows |-> << >>, row |-> << >>, text |-> << >>, name |-> << >>, mode |-> "text" ]
      Close(st) ==
        CASE st.name = << "T", "R" >>      -> [ st EXCEPT !.row = << >> ]
          [] st.name = << "/", "T", "R" >> -> [ st EXCEPT !.rows = Append(@, st.row) ]
          [] st.name[1] = "/"              -> [ st EXCEPT !.row = Append(@, st.text) ]
          [] OTHER                         -> [ st EXCEPT !.text = << >> ]
      Named(name) == CHOOSE c \in DOMAIN Entity : Entity[c] = << "&" >> \o name \o << ";" >>
      Step(st, c) ==
        CASE st.mode = "text" /\ c = "<" -> [ st EXCEPT !.mode = "tag", !.name = << >> ]
          [] st.mode = "text" /\ c = "&" -> [ st EXCEPT !.mode = "entity", !.name = << >> ]
          [] st.mode = "tag" /\ c = ">"  -> [ Close(st) EXCEPT !.mode = "text" ]
          [] st.mode = "entity" /\ c = ";" ->
               [ st EXCEPT !.text = Append(@, Named(st.name)), !.mode = "text" ]
          [] st.mode = "text" -> [ st EXCEPT !.text = Append(@, c) ]
          [] OTHER            -> [ st EXCEPT !.name = Append(@, c) ]
  IN  FoldLeft(Step, Start, chars).rows

(* Rows of names with cells, from an array of objects. *)
ReadJson(chars) ==
  LET Empty == [ type |-> "number", text |-> << >> ]
      Start == [ rows |-> << >>, row |-> << >>, name |-> << >>, cell |-> Empty, mode |-> "array" ]
      Value(cell) == IF cell = [ type |-> "number", text |-> << "n", "u", "l", "l" >> ]
                     THEN [ type |-> "null", text |-> << >> ] ELSE cell
      Field(st) == << st.name, Value(st.cell) >>
      Char(st, c) == [ st EXCEPT !.cell.text = Append(@, c), !.mode = "string" ]
      Step(st, c) ==
        CASE st.mode = "escape" /\ c = "u" -> [ st EXCEPT !.mode = "unicode" ]
          [] st.mode = "escape" /\ c # "u" ->
               Char(st, CHOOSE d \in DOMAIN Short : Short[d] = c)
          [] st.mode = "unicode" -> Char(st, c)
          [] st.mode = "string" /\ c = Backslash -> [ st EXCEPT !.mode = "escape" ]
          [] st.mode = "string" /\ c = DQuote    -> [ st EXCEPT !.mode = "object" ]
          [] st.mode = "string" /\ c \notin { Backslash, DQuote } -> Char(st, c)
          [] st.mode = "object" /\ c = DQuote ->
               [ st EXCEPT !.cell = [ type |-> "text", text |-> << >> ], !.mode = "string" ]
          [] st.mode = "object" /\ c = ":" -> [ st EXCEPT !.name = st.cell.text, !.cell = Empty ]
          [] st.mode = "object" /\ c = "," -> [ st EXCEPT !.row = Append(@, Field(st)), !.cell = Empty ]
          [] st.mode = "object" /\ c = "}" ->
               [ st EXCEPT !.rows = Append(@, Append(st.row, Field(st))),
                           !.cell = Empty, !.mode = "array" ]
          [] st.mode = "array" /\ c = "{"  -> [ st EXCEPT !.row = << >>, !.mode = "object" ]
          [] st.mode = "array" /\ c # "{"  -> st
          [] OTHER -> [ st EXCEPT !.cell.text = Append(@, c) ]
  IN  FoldLeft(Step, Start, chars).rows
=============================================================================
