-------------------------------- MODULE Return --------------------------------
(***************************************************************************)
(* The RETURN clause of a query: check_return_shape, emit_select,          *)
(* emit_order_by, emit_group_by and emit_limit_offset.                     *)
(*                                                                         *)
(*   clause  [star, distinct, items, order, skip, limit]                   *)
(*   item    [expr, alias]         alias: a text, NoName if none           *)
(*   sort    [expr, desc]                                                  *)
(*   skip, limit  [given, int, n]  int: it is an integer literal           *)
(*   expr    [kind, var, key], [kind, func, star, distinct, args],         *)
(*           [kind, cell], or [kind, left, right]                          *)
(*                                                                         *)
(* SELECT is emitted before WHERE, ORDER BY and GROUP BY after it, all of  *)
(* them before FROM, whose joins are those of the nodes marked here.       *)
(***************************************************************************)
EXTENDS SqlSelect, Integers

CONSTANTS
  NoName,
  NoTable,   \* of a node without a label
  Columns    \* the tables of the catalog with their columns

VARIABLES
  clause,
  binds,      \* the variables of the pattern: var, table, is_node
  matched,    \* the rows FROM and WHERE leave
  phase,      \* "shape", "select", "where", "order", "group", "translated",
              \* "executed", or "rejected"
  next,       \* the item at hand
  sel, ord, grp,   \* what is emitted of each clause
  referenced  \* the nodes marked

retvars == << clause, binds, matched, phase, next, sel, ord, grp, referenced >>

given == << clause, binds, matched >>

ReturnStart ==
  /\ phase = "shape" /\ next = 1
  /\ sel = << >> /\ ord = << >> /\ grp = << >>
  /\ referenced = {}

-----------------------------------------------------------------------------
(***************************************************************************)
(* What is emitted for an expression, and why it may be refused.           *)
(***************************************************************************)
Bound(v) == \E b \in ToSet(binds) : b.var = v

(* The first bind of the name. *)
Bind(v) == binds[SelectInSeq(binds, LAMBDA b : b.var = v)]

EntityKnown(v)        == Bound(v) /\ Bind(v).table \in DOMAIN Columns
PropertyKnown(v, key) == EntityKnown(v) /\ key \in ToSet(Columns[Bind(v).table])

AggSqlName ==
  [ fn \in { "count", "sum", "avg", "min", "max", "collect" } |->
      IF fn = "collect" THEN "json_group_array" ELSE fn ]

ValueKnown(e) ==
  CASE e.kind = "PROPERTY" -> PropertyKnown(e.var, e.key)
    [] e.kind = "LITERAL"  -> TRUE
    [] OTHER               -> FALSE

(* An argument is emitted as an expression of WHERE, where neither entities *)
(* nor functions are known.  Of the expressions with parts, a comparison   *)
(* for equality stands for all.                                            *)
ArgumentKnown(e) ==
  IF e.kind = "CMP" THEN ValueKnown(e.left) /\ ValueKnown(e.right) ELSE ValueKnown(e)

(* All take one argument, and count a star. *)
AggKnown(e) ==
  /\ e.func \in DOMAIN AggSqlName
  /\ IF e.star THEN e.func = "count" ELSE Len(e.args) = 1 /\ ArgumentKnown(e.args[1])

Known(e) ==
  CASE e.kind = "PROPERTY" -> PropertyKnown(e.var, e.key)
    [] e.kind = "VARIABLE" -> EntityKnown(e.var)
    [] e.kind = "FUNC"     -> AggKnown(e)
    [] OTHER               -> FALSE

ValueTerm(e) == IF e.kind = "LITERAL" THEN LiteralTerm(e.cell) ELSE ColumnTerm(e.var, e.key)

ArgumentTerm(e) ==
  IF e.kind = "CMP" THEN EqualTerm(ValueTerm(e.left), ValueTerm(e.right)) ELSE ValueTerm(e)

TermOf(e) ==
  CASE e.kind = "PROPERTY" -> ValueTerm(e)
    [] e.kind = "VARIABLE" -> ObjectTerm(e.var, Columns[Bind(e.var).table])
    [] e.kind = "FUNC"     -> AggregateTerm(AggSqlName[e.func], e.distinct,
                                IF e.star THEN << >> ELSE << ArgumentTerm(e.args[1]) >>)

PartsOf(e) == IF e.kind = "CMP" THEN { e.left, e.right } ELSE { e }

(* The nodes an expression marks. *)
Marks(e) ==
  LET parts == IF e.kind = "FUNC" THEN UNION { PartsOf(a) : a \in ToSet(e.args) } ELSE { e }
      refs == { x \in parts : x.kind # "LITERAL" }
  IN  { v \in { x.var : x \in refs } : Bind(v).is_node }

(* A property is named by its column, an entity by its variable; SQLite    *)
(* names other columns by their text.                                      *)
NameOf(item) ==
  CASE item.alias # NoName         -> item.alias
    [] item.expr.kind = "VARIABLE" -> << item.expr.var >>
    [] item.expr.kind = "PROPERTY" -> << item.expr.key >>
    [] OTHER                       -> << item.expr.func, "(", ")" >>

-----------------------------------------------------------------------------
Reject == phase' = "rejected" /\ UNCHANGED << given, next, sel, ord, grp, referenced >>

To(ph) == phase' = ph /\ next' = 1 /\ UNCHANGED << given, sel, ord, grp, referenced >>

(* Mutant: SKIP may be any expression. *)
Shaped_SkipAny ==
  /\ ~clause.star
  /\ \A k \in DOMAIN clause.items :
       clause.items[k].expr.kind \in { "PROPERTY", "VARIABLE", "FUNC" }
  /\ clause.limit.given => clause.limit.int

Shaped ==
  /\ ~clause.star
  /\ \A k \in DOMAIN clause.items :
       clause.items[k].expr.kind \in { "PROPERTY", "VARIABLE", "FUNC" }
  /\ clause.skip.given => clause.skip.int
  /\ clause.limit.given => clause.limit.int

CheckShape ==
  /\ phase = "shape"
  /\ IF Shaped THEN To("select") ELSE Reject

Item == clause.items[next]

EmitItem ==
  /\ phase = "select" /\ next <= Len(clause.items)
  /\ IF ~Known(Item.expr) THEN Reject
     ELSE /\ sel' = Append(sel, [ term |-> TermOf(Item.expr), name |-> NameOf(Item) ])
          /\ referenced' = referenced \cup Marks(Item.expr)
          /\ next' = next + 1
          /\ UNCHANGED << given, phase, ord, grp >>

EndSelect == phase = "select" /\ next > Len(clause.items) /\ To("where")

(* A bare name is an alias of RETURN, one that was written. *)
HasAlias(v) == \E item \in ToSet(clause.items) : item.alias = << v >>

Sort == clause.order[next]

SortKnown ==
  CASE Sort.expr.kind = "VARIABLE" -> HasAlias(Sort.expr.var)
    [] Sort.expr.kind = "PROPERTY" -> Known(Sort.expr)
    [] OTHER -> FALSE

EmitSort ==
  /\ phase = "order" /\ next <= Len(clause.order)
  /\ IF ~SortKnown THEN Reject
     ELSE LET alias == Sort.expr.kind = "VARIABLE"
          IN  /\ ord' = Append(ord, [ desc |-> Sort.desc,
                  term |-> IF alias THEN NameTerm(<< Sort.expr.var >>) ELSE TermOf(Sort.expr) ])
              /\ referenced' = IF alias THEN referenced ELSE referenced \cup Marks(Sort.expr)
              /\ next' = next + 1
              /\ UNCHANGED << given, phase, sel, grp >>

EndOrder == phase = "order" /\ next > Len(clause.order) /\ To("group")

IsAggregate(item) == item.expr.kind = "FUNC" /\ item.expr.func \in DOMAIN AggSqlName

HasAggregate == \E k \in DOMAIN clause.items : IsAggregate(clause.items[k])

(* Mutant: whole entities are not grouped by. *)
Grouped_Columns(item) == HasAggregate /\ item.expr.kind = "PROPERTY"

Grouped(item) == HasAggregate /\ ~IsAggregate(item)

EmitGroup ==
  /\ phase = "group" /\ next <= Len(clause.items)
  /\ IF ~Grouped(Item) THEN grp' = grp /\ referenced' = referenced
     ELSE /\ grp' = Append(grp, TermOf(Item.expr))
          /\ referenced' = referenced \cup Marks(Item.expr)
  /\ next' = next + 1
  /\ UNCHANGED << given, phase, sel, ord >>

EndGroup == phase = "group" /\ next > Len(clause.items) /\ To("translated")

(* LIMIT -1 OFFSET n where there is only a SKIP. *)
Limit  == IF clause.limit.given THEN clause.limit.n ELSE 0 - 1
Offset == IF clause.skip.given THEN clause.skip.n ELSE 0

Translated == Statement(sel, clause.distinct, grp, ord, Limit, Offset)

(* exec_query: the names of the columns and all rows. *)
Execute ==
  /\ phase = "translated"
  /\ \E rows \in Results(Translated, matched) :
       result' = [ names |-> [ c \in DOMAIN sel |-> sel[c].name ], rows |-> rows ]
  /\ phase' = "executed"
  /\ UNCHANGED << given, next, sel, ord, grp, referenced, args, options, printed, stage >>

Translation ==
  /\ CheckShape \/ EmitItem \/ EndSelect \/ EmitSort \/ EndOrder \/ EmitGroup \/ EndGroup
  /\ UNCHANGED outvars

-----------------------------------------------------------------------------
(***************************************************************************)
(* What the clause means, stated on the clause alone.                      *)
(***************************************************************************)
Values(e, env) ==
  LET Value(x) == IF x.kind = "LITERAL" THEN x.cell ELSE env[x.var][x.key]
  IN  CASE e.kind = "VARIABLE" -> ObjectOf(Columns[Bind(e.var).table], env[e.var])
        [] e.kind = "CMP"      -> Equality(Value(e.left), Value(e.right))
        [] OTHER               -> Value(e)

KeyItems == { k \in DOMAIN clause.items : clause.items[k].expr.kind # "FUNC" }

(* Rows of one line: each row its own, or those that agree on all items    *)
(* that are no aggregates, which may be none or all of them.               *)
Classes(scan) ==
  IF \A k \in DOMAIN clause.items : k \in KeyItems THEN { {i} : i \in DOMAIN scan }
  ELSE IF KeyItems = {} THEN { DOMAIN scan }
  ELSE { { j \in DOMAIN scan : \A k \in KeyItems :
             Values(clause.items[k].expr, scan[i]) = Values(clause.items[k].expr, scan[j]) } :
           i \in DOMAIN scan }

LeastOf(S) == CHOOSE i \in S : \A j \in S : i <= j

Asked(e, scan, class) ==
  IF e.kind # "FUNC" THEN Values(e, scan[LeastOf(class)])
  ELSE IF e.star THEN NumberCell(Cardinality(class))
  ELSE LET members == SelectSeq([ i \in DOMAIN scan |-> i ], LAMBDA i : i \in class)
       IN  Aggregate(AggSqlName[e.func], e.distinct,
             [ k \in DOMAIN members |-> Values(e.args[1], scan[members[k]]) ])

LineOf(scan, class) == [ k \in DOMAIN clause.items |-> Asked(clause.items[k].expr, scan, class) ]

(* With DISTINCT one of the classes with the same line stands for all. *)
Chosen(scan) ==
  IF ~clause.distinct THEN Classes(scan)
  ELSE { c \in Classes(scan) : \A d \in Classes(scan) :
           d # c /\ LineOf(scan, d) = LineOf(scan, c) => LeastOf(c) < LeastOf(d) }

SortValue(sort, scan, class) ==
  IF sort.expr.kind = "PROPERTY"
  THEN IF class = {} THEN Null ELSE Values(sort.expr, scan[LeastOf(class)])
  ELSE LineOf(scan, class)[CHOOSE k \in DOMAIN clause.items :
                             clause.items[k].alias = << sort.expr.var >>]

InOrder(scan, classes) ==
  \A i, j \in DOMAIN classes : i < j =>
    \A k \in DOMAIN clause.order :
      LET V(c, m) == Rank(SortValue(clause.order[m], scan, c))
          a == classes[i]
          b == classes[j]
      IN  (\A m \in 1..(k - 1) : V(a, m) = V(b, m)) =>
            IF clause.order[k].desc THEN V(a, k) >= V(b, k) ELSE V(a, k) <= V(b, k)

Kept(lines) ==
  { k \in DOMAIN lines :
      /\ clause.skip.given => k > clause.skip.n
      /\ clause.limit.given => k <= clause.limit.n + Offset }

Allowed ==
  UNION { { [ k \in 1..Cardinality(Kept(a)) |-> LineOf(scan, a[k + Offset]) ] :
              a \in { x \in Arrangements(SetToSeq(Chosen(scan))) : InOrder(scan, x) } } :
          scan \in Arrangements(matched) }

(* All names of the answer differ. *)
NamesDiffer ==
  \A j, k \in DOMAIN clause.items :
    NameOf(clause.items[j]) = NameOf(clause.items[k]) => j = k

(* The nodes the statement speaks of. *)
Spoken ==
  LET terms == { s.term : s \in ToSet(sel) \cup ToSet(ord) } \cup ToSet(grp)
      inner == terms \cup UNION { ToSet(t.of) : t \in { u \in terms : u.kind = "aggregate" } }
      within == inner \cup UNION { { t.left, t.right } : t \in { u \in inner : u.kind = "equal" } }
  IN  { t.alias : t \in { u \in within : u.kind \in { "column", "json_object" } /\ Bind(u.alias).is_node } }

-----------------------------------------------------------------------------
(* The statement gives just the answers the clause allows, whatever the    *)
(* rows: grouped by all that is not an aggregate, each line once under     *)
(* DISTINCT, in the order asked for, from SKIP on and up to LIMIT.  And    *)
(* the tables it takes columns from are joined.                            *)
ReturnsAsAsked ==
  phase = "translated" =>
    /\ NamesDiffer => Results(Translated, matched) = Allowed
    /\ Spoken = referenced

(* What a RETURN clause may hold: columns and entities of the variables    *)
(* that have a table, aggregates of one such column or value or of a       *)
(* comparison of them, aliases to sort by, and numbers of rows.            *)
Refers(e) ==
  \E k \in DOMAIN binds :
    /\ binds[k].var = e.var
    /\ \A j \in 1..(k - 1) : binds[j].var # e.var
    /\ binds[k].table \in DOMAIN Columns
    /\ e.kind = "PROPERTY" => \E c \in ToSet(Columns[binds[k].table]) : c = e.key

OneColumn(e) == e.kind = "PROPERTY" /\ Refers(e)
OneValue(e) == OneColumn(e) \/ e.kind = "LITERAL"
WholeEntity(e) == e.kind = "VARIABLE" /\ Refers(e)

Aggregates(e) ==
  /\ e.kind = "FUNC" /\ e.func \in { "count", "sum", "avg", "min", "max", "collect" }
  /\ \/ e.star /\ e.func = "count"
     \/ ~e.star /\ Len(e.args) = 1 /\ (\A x \in PartsOf(e.args[1]) : OneValue(x))

Alias(e) == e.kind = "VARIABLE" /\ \E item \in ToSet(clause.items) : item.alias = << e.var >>

Understood ==
  /\ ~clause.star
  /\ \A x \in { clause.skip, clause.limit } : x.given => x.int
  /\ \A item \in ToSet(clause.items) : OneColumn(item.expr) \/ WholeEntity(item.expr) \/ Aggregates(item.expr)
  /\ \A s \in ToSet(clause.order) : OneColumn(s.expr) \/ Alias(s.expr)
=============================================================================
