------------------------------- MODULE MCReturn -------------------------------
(* RETURN clauses of up to two items, one term of ORDER BY or two, and any  *)
(* mix of DISTINCT, SKIP and LIMIT, over up to three rows of two nodes and  *)
(* a relationship; and clauses of which one part is outside of what is     *)
(* understood.                                                             *)
EXTENDS Return

Property(v, key) == [ kind |-> "PROPERTY", var |-> v, key |-> key ]
Variable(v)      == [ kind |-> "VARIABLE", var |-> v, key |-> "" ]
Seven            == [ kind |-> "LITERAL", cell |-> NumberCell(7) ]
Call(fn, star, distinct, as) ==
  [ kind |-> "FUNC", func |-> fn, star |-> star, distinct |-> distinct, args |-> as ]
Equal(left, right) == [ kind |-> "CMP", left |-> left, right |-> right ]
OfColumn(fn, distinct) == Call(fn, FALSE, distinct, << Property("a", "x") >>)

As(e, name) == [ expr |-> e, alias |-> name ]
By(e, desc) == [ expr |-> e, desc |-> desc ]
No    == [ given |-> FALSE, int |-> TRUE, n |-> 0 ]
Of(n) == [ given |-> TRUE, int |-> TRUE, n |-> n ]

MCClause(distinct, items, order, skip, limit) ==
  [ star |-> FALSE, distinct |-> distinct, items |-> items, order |-> order,
    skip |-> skip, limit |-> limit ]
Items(es) == [ k \in DOMAIN es |-> As(es[k], << << "p" >>, << "q" >> >>[k]) ]
Unnamed(es) == [ k \in DOMAIN es |-> As(es[k], NoName) ]
Only(es) == MCClause(FALSE, Unnamed(es), << >>, No, No)

-----------------------------------------------------------------------------
MCColumns == [ t \in { "f", "g", "edges" } |->
  CASE t = "f" -> << "x", "y" >> [] t = "g" -> << "x" >> [] t = "edges" -> << "t" >> ]

MCBinds ==
  << [ var |-> "a", table |-> "f", is_node |-> TRUE ],
     [ var |-> "b", table |-> "g", is_node |-> TRUE ],
     [ var |-> "n", table |-> NoTable, is_node |-> TRUE ],
     [ var |-> "r", table |-> "edges", is_node |-> FALSE ] >>

Env(x, y) ==
  [ v \in { "a", "b", "r" } |->
      CASE v = "a" -> [ c \in { "x", "y" } |-> IF c = "x" THEN x ELSE y ]
        [] v = "b" -> [ c \in { "x" } |-> y ]
        [] v = "r" -> [ c \in { "t" } |-> Cell("text", << "t" >>) ] ]

MCMatched ==
  LET n1 == NumberCell(1)
      n2 == NumberCell(2)
  IN  { << >>, << Env(n1, n2) >>,
        << Env(n1, n2), Env(n2, n1), Env(n1, n1) >>,
        << Env(n1, n1), Env(n1, n1), Env(n2, Null) >>,
        << Env(Null, n1), Env(Null, n2), Env(n1, n2) >> }

MCRank(cell) ==
  CASE cell.type = "null"   -> 0
    [] cell.type = "number" -> CHOOSE n \in 0..9 : cell.text = << ToString(n) >>
    [] OTHER                -> 10 + Len(cell.text)

-----------------------------------------------------------------------------
Good ==
  { Property("a", "x"), Property("b", "x"), Variable("a"), Variable("r"),
    Call("count", TRUE, FALSE, << >>), OfColumn("count", FALSE), OfColumn("count", TRUE),
    OfColumn("max", FALSE), OfColumn("collect", FALSE), OfColumn("collect", TRUE),
    Call("count", FALSE, FALSE, << Seven >>),
    Call("max", FALSE, FALSE, << Equal(Property("a", "x"), Property("b", "x")) >>) }

Bad ==
  { Property("c", "x"), Property("a", "z"), Property("n", "x"), Variable("c"), Variable("n"),
    Seven, Call("size", FALSE, FALSE, << Property("a", "x") >>), Call("sum", TRUE, FALSE, << >>),
    Call("count", FALSE, FALSE, << >>), Call("count", FALSE, FALSE, << Seven, Seven >>),
    Call("avg", FALSE, FALSE, << Variable("a") >>), Call("min", FALSE, FALSE, << Property("b", "y") >>),
    Call("count", FALSE, FALSE, << OfColumn("count", FALSE) >>), Equal(Seven, Seven),
    Call("max", FALSE, FALSE, << Equal(Seven, Variable("a")) >>) }

Projections ==
  { MCClause(d, items, << >>, No, No) : d \in BOOLEAN,
      items \in UNION { { Items(<< e >>), Items(<< e, Property("b", "x") >>),
                          Items(<< OfColumn("max", FALSE), e >>), Unnamed(<< e, Variable("r") >>) } :
                        e \in Good } }

Orders ==
  { << By(Variable("p"), FALSE) >>, << By(Property("a", "y"), TRUE) >>,
    << By(Variable("q"), TRUE), By(Property("a", "y"), FALSE) >> }

Paged ==
  { MCClause(d, Items(es), o, s, l) : d \in BOOLEAN, o \in Orders, s \in { No, Of(1) },
      l \in { No, Of(0), Of(1) },
      es \in { << Property("a", "x"), Property("b", "x") >>,
               << Call("count", TRUE, FALSE, << >>), Property("a", "x") >>,
               << Property("r", "t"), Variable("a") >> } }

Outside ==
  { Only(<< e >>) : e \in Bad } \cup { Only(<< Variable("a"), e >>) : e \in Bad }
  \cup { MCClause(FALSE, << As(Variable("a"), NoName), As(Property("a", "x"), << "p" >>) >>,
                  << By(Property("b", "x"), FALSE), By(e, FALSE) >>, No, No) :
           e \in { Variable("a"), Variable("p"), Variable("c"), Property("n", "x"),
                   Property("b", "y"), Seven, Call("count", TRUE, FALSE, << >>) } }
  \cup { [ Only(<< Variable("a") >>) EXCEPT !.star = TRUE ] }
  \cup { [ Only(<< Variable("a") >>) EXCEPT !.skip = [ Of(1) EXCEPT !.int = x ],
                                            !.limit = [ Of(1) EXCEPT !.int = y ] ] :
           x, y \in BOOLEAN }
  (* Two columns of the answer are named p, of which one is sorted by. *)
  \cup { MCClause(FALSE, << As(Property("a", "x"), << "p" >>), As(Property("b", "x"), << "p" >>) >>,
                  << By(Variable("p"), FALSE) >>, No, No) }

MCAsked ==
  (Projections \cup Paged) \X MCMatched
  \cup Outside \X { << Env(NumberCell(1), NumberCell(2)) >> }
=============================================================================
