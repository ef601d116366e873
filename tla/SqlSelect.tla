------------------------------ MODULE SqlSelect ------------------------------
(***************************************************************************)
(* What SQLite makes of the clauses around FROM and WHERE: the terms of    *)
(* SELECT, GROUP BY and ORDER BY, DISTINCT, LIMIT and OFFSET.  External to *)
(* the repository.                                                         *)
(*                                                                         *)
(* A row of the joined tables gives each alias its row, a row each column  *)
(* its cell.  The order in which SQLite meets the rows is not fixed, and   *)
(* neither is, of rows that come out equal, which one a term speaks of.    *)
(***************************************************************************)
EXTENDS Output, FiniteSets

CONSTANT Rank(_)   \* how cells are sorted

Cell(type, t) == [ type |-> type, text |-> t ]
Null == Cell("null", << >>)

ColumnTerm(alias, column)       == [ kind |-> "column", alias |-> alias, column |-> column ]
ObjectTerm(alias, columns)      == [ kind |-> "json_object", alias |-> alias, columns |-> columns ]
LiteralTerm(cell)               == [ kind |-> "literal", cell |-> cell ]
EqualTerm(left, right)          == [ kind |-> "equal", left |-> left, right |-> right ]
AggregateTerm(name, distinct, of) ==
  [ kind |-> "aggregate", name |-> name, distinct |-> distinct, of |-> of ]
NameTerm(name)                  == [ kind |-> "name", name |-> name ]

(* A statement: terms with names, and the clauses around them. *)
Statement(select, distinct, group, order, limit, offset) ==
  [ select |-> select, distinct |-> distinct, group |-> group,
    order |-> order, limit |-> limit, offset |-> offset ]

-----------------------------------------------------------------------------
(* json_object over columns. *)
ObjectOf(columns, row) ==
  Cell("text", JsonObject([ c \in DOMAIN columns |-> << columns[c] >> ],
                          [ c \in DOMAIN columns |-> row[columns[c]] ]))

NumberCell(n) == Cell("number", << ToString(n) >>)

Equality(c, d) ==
  IF Null \in { c, d } THEN Null ELSE NumberCell(IF c = d THEN 1 ELSE 0)

ValueOf(term, env) ==
  IF term.kind = "literal" THEN term.cell ELSE env[term.alias][term.column]

OfRow(term, env) ==
  CASE term.kind = "json_object" -> ObjectOf(term.columns, env[term.alias])
    [] term.kind = "equal"       -> Equality(ValueOf(term.left, env), ValueOf(term.right, env))
    [] OTHER                     -> ValueOf(term, env)

Present(cells) == SelectSeq(cells, LAMBDA c : c.type # "null")

Greatest(cells) ==
  IF cells = << >> THEN Null
  ELSE CHOOSE c \in ToSet(cells) : \A d \in ToSet(cells) : Rank(d) <= Rank(c)

(* The cells of a sequence without their repetitions. *)
Once(s) ==
  FoldLeft(LAMBDA seen, c : IF c \in ToSet(seen) THEN seen ELSE Append(seen, c), << >>, s)

(* count, max and json_group_array; only the last one sees NULL. *)
Aggregate(name, distinct, cells) ==
  LET seen == IF distinct THEN Once(cells) ELSE cells
  IN  CASE name = "count" -> NumberCell(Len(Present(seen)))
        [] name = "max"   -> Greatest(Present(seen))
        [] name = "json_group_array" ->
             Cell("text", << "[" >> \o Joined(Each(JsonValue, seen), << "," >>) \o << "]" >>)

OfGroup(term, rows) ==
  CASE term.kind = "aggregate" ->
         IF term.of = << >> THEN NumberCell(Len(rows))
         ELSE Aggregate(term.name, term.distinct,
                        [ k \in DOMAIN rows |-> OfRow(term.of[1], rows[k]) ])
    [] rows = << >> -> Null
    [] OTHER        -> OfRow(term, Head(rows))

-----------------------------------------------------------------------------
Arrangements(s) ==
  { [ k \in DOMAIN s |-> s[p[k]] ] : p \in Permutations(DOMAIN s) }

(* The rows of s by the value of Key, in the order they are met. *)
GroupedBy(Key(_), s) ==
  LET keys == Once([ k \in DOMAIN s |-> Key(s[k]) ])
  IN  [ k \in DOMAIN keys |-> SelectSeq(s, LAMBDA x : Key(x) = keys[k]) ]

Groups(st, scan) ==
  IF st.group # << >>
  THEN GroupedBy(LAMBDA env : [ k \in DOMAIN st.group |-> OfRow(st.group[k], env) ], scan)
  ELSE IF \E k \in DOMAIN st.select : st.select[k].term.kind = "aggregate" THEN << scan >>
  ELSE [ k \in DOMAIN scan |-> << scan[k] >> ]

(* A line of the answer and the rows it is made of. *)
Lines(st, scan) ==
  LET made == [ k \in DOMAIN Groups(st, scan) |->
                  LET rows == Groups(st, scan)[k]
                  IN  [ cells |-> [ c \in DOMAIN st.select |-> OfGroup(st.select[c].term, rows) ],
                        rows |-> rows ] ]
      alike == GroupedBy(LAMBDA line : line.cells, made)
  IN  IF ~st.distinct THEN made ELSE [ k \in DOMAIN alike |-> alike[k][1] ]

(* A name stands for the first column of the answer that bears it. *)
SortKey(st, line, sort) ==
  IF sort.term.kind = "name"
  THEN line.cells[SelectInSeq(st.select, LAMBDA x : x.name = sort.term.name)]
  ELSE OfGroup(sort.term, line.rows)

(* keys and others, compared term by term. *)
Precedes(keys, others, desc) ==
  \E i \in DOMAIN keys :
    /\ \A j \in 1..(i - 1) : Rank(keys[j]) = Rank(others[j])
    /\ IF desc[i] THEN Rank(keys[i]) > Rank(others[i]) ELSE Rank(keys[i]) < Rank(others[i])

Ordered(st, lines) ==
  LET Keys(line) == [ k \in DOMAIN st.order |-> SortKey(st, line, st.order[k]) ]
      desc == [ k \in DOMAIN st.order |-> st.order[k].desc ]
  IN  \A i, j \in DOMAIN lines : i < j => ~Precedes(Keys(lines[j]), Keys(lines[i]), desc)

(* A negative LIMIT is none. *)
Page(st, lines) ==
  LET last == IF st.limit < 0 \/ st.limit + st.offset > Len(lines) THEN Len(lines)
              ELSE st.limit + st.offset
  IN  SubSeq(lines, st.offset + 1, last)

(* The answers SQLite may give over the rows that FROM and WHERE left. *)
Results(st, matched) ==
  UNION { { [ k \in DOMAIN Page(st, a) |-> Page(st, a)[k].cells ] :
              a \in { x \in Arrangements(Lines(st, scan)) : Ordered(st, x) } } :
          scan \in Arrangements(matched) }
=============================================================================
