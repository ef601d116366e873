-------------------------------- MODULE Answer --------------------------------
(***************************************************************************)
(* The way of an answer through knit-graph: main scans the output options, *)
(* the RETURN clause and the condition are written into the statement, the *)
(* condition between SELECT and ORDER BY; the statement is executed and    *)
(* its answer rendered.  A query that is refused leaves nothing to render. *)
(***************************************************************************)
EXTENDS Condition, Return, OutputReader

CONSTANT Inputs   \* which conditions, command lines, RETURN clauses and rows go together

(* A query has a condition, and lists of items, of terms to sort by and of *)
(* variables.                                                              *)
ASSUME ClausesAssumption ==
  /\ { in.expr : in \in Inputs } \subseteq Conditions
  /\ \A in \in Inputs :
       \A s \in { in.clause.items, in.clause.order, in.binds } : s \in Seq(ToSet(s))

answervars == << vars, retvars, outvars >>

AnswerInit ==
  /\ \E in \in Inputs :
       /\ expr = in.expr /\ args = in.args
       /\ clause = in.clause /\ binds = in.binds /\ matched = in.matched
  /\ Start /\ ReturnStart
  /\ options = Default
  /\ result = [ names |-> << >>, rows |-> << >> ]
  /\ printed = << >>
  /\ stage = "arguments"

Arguments == (Scan \/ Scanned) /\ UNCHANGED << vars, retvars >>

ReturnClause == stage = "query" /\ Translation /\ UNCHANGED vars

Where == phase = "where" /\ Next /\ UNCHANGED << retvars, outvars >>

EndWhere ==
  /\ phase = "where" /\ status # "emitting"
  /\ IF status = "done" THEN To("order") ELSE Reject
  /\ UNCHANGED << vars, outvars >>

Executed == Execute /\ UNCHANGED vars

Rendering == phase = "executed" /\ Render /\ UNCHANGED << vars, retvars >>

AnswerNext ==
  Arguments \/ ReturnClause \/ Where \/ EndWhere \/ Executed \/ Rendering

AnswerSpec == AnswerInit /\ [][AnswerNext]_answervars

-----------------------------------------------------------------------------
(***************************************************************************)
(* Properties.                                                             *)
(***************************************************************************)
Fields == UNION { { row[c] : c \in DOMAIN row } : row \in ToSet(WithHeader(result, options)) }

Holding(field, S) == \E k \in DOMAIN field : field[k] \in S

(* Separators of one character, as the modes set them. *)
SingleSeparators ==
  /\ Len(options.colsep) = 1 /\ Len(options.rowsep) = 1
  /\ options.colsep # options.rowsep
  /\ options.colsep[1] \notin { DQuote, "\r", Newline }

(* What a reader of separated text finds in what was printed. *)
Found(quotes) ==
  ReadSeparated(printed, options.colsep[1], options.rowsep[1], quotes)

(* A query is refused exactly when its condition or something in its       *)
(* RETURN clause is outside of what is understood, wherever it is noticed. *)
RefusesExactly ==
  /\ phase = "translated" => Understood /\ status = "done"
  /\ phase = "rejected" => ~Understood \/ status = "failed"

(* An answer printed as json or html reads back as it was, cell by cell,   *)
(* for html up to NULL being empty.  As csv it does unless a row separator *)
(* of the user's stands in a field that nothing else puts into quotes; in  *)
(* the modes without quotes exactly when no field holds a separator.       *)
ReadsBack ==
  stage = "answered" /\ result.rows # << >> =>
    CASE options.mode = "json" ->
           ReadJson(printed) =
             [ r \in DOMAIN result.rows |-> [ c \in DOMAIN result.names |->
                 << result.names[c], result.rows[r][c] >> ] ]
      [] options.mode = "html" -> ReadHtml(printed) = WithHeader(result, options)
      [] options.mode = "csv" ->
           SingleSeparators =>
             (Found(TRUE) = WithHeader(result, options) <=>
                \A f \in Fields : Holding(f, { options.rowsep[1] }) =>
                  Holding(f, { DQuote, "\r", Newline, options.colsep[1] }))
      [] options.mode \in { "list", "tabs", "ascii" } ->
           SingleSeparators =>
             (Found(FALSE) = WithHeader(result, options) <=>
                \A f \in Fields : ~Holding(f, { options.colsep[1], options.rowsep[1] }))
      [] OTHER -> TRUE

(* In column, table, box and markdown mode all lines take as many bytes,   *)
(* a character of the frame counted as one, so the columns stand below     *)
(* each other; unless a line is broken by a cell.                          *)
GridAligned ==
  /\ stage = "answered" /\ result.rows # << >>
  /\ options.mode \in { "column", "table", "box", "markdown" }
  /\ \A f \in Fields \cup ToSet(result.names) : ~Holding(f, { Newline })
  => \A l, m \in ToSet(ReadSeparated(printed, "", Newline, FALSE)) : Bytes(l[1]) = Bytes(m[1])
=============================================================================
