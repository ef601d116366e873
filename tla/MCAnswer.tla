------------------------------- MODULE MCAnswer -------------------------------
(* Every condition with one answer in list mode, and one condition with    *)
(* answers of separators, quotes, line ends, markup and wide characters in *)
(* every mode and with options before and after the mode; and RETURN       *)
(* clauses, with a condition that is refused or not.                       *)
EXTENDS MCCondition, MCReturn, Answer

MCControl == { "US", "RS" }
MCBytesOf == [ c \in { "wide" } |-> 2 ]

Odd == { ",", "|", DQuote, Newline, "\r", "\t", "<", "&", Backslash, "US", "RS", "wide", "a" }
Texts == { << >> } \cup { << c >> : c \in Odd } \cup { << "a", c >> : c \in Odd }
         \cup { << DQuote, "," >>, << "&", "l", "t", ";" >>, << "n", "u", "l", "l" >>,
                << Backslash, DQuote >>, << "a", "a", "a", "a" >> }
Cells == { Cell("null", << >>), Cell("number", << "7" >>) } \cup { Cell("text", s) : s \in Texts }
Few == { Cell("null", << >>), Cell("text", << "a", "a", "a" >>), Cell("text", << DQuote, "," >>) }
Names == { << "n" >>, << "n", "," >>, << "n", "a", "m", "e", "s", "s" >> }

(* RETURN a.x AS n, and RETURN a.x AS n, a.y AS m. *)
Plain(names, rows) ==
  [ clause  |-> MCClause(FALSE, [ c \in DOMAIN names |->
                  As(Property("a", << "x", "y" >>[c]), names[c]) ], << >>, No, No),
    matched |-> [ r \in DOMAIN rows |-> Env(rows[r][1], rows[r][2]) ] ]

One == Plain(<< << "n" >> >>, << << NumberCell(7), Null >> >>)

MCAnswers ==
  { Plain(<< n >>, << << c, Null >> >>) : n \in Names, c \in Cells }
  \cup { Plain(<< << "n" >>, n >>, << << b, c >>, << d, b >> >>) :
           n \in Names, b \in Few, c \in Few, d \in Few }
  \cup { Plain(<< << "n" >> >>, << >>) }

MCCommandLines ==
  { << m >> : m \in Modes } \cup { << m, "noheader" >> : m \in Modes }
  \cup { << m, "separator", s >> : m \in { "list", "csv", "tabs" }, s \in { << "a" >>, << "<", "<" >> } }
  \cup { << "separator", << "a" >>, m >> : m \in { "list", "csv", "ascii" } }
  \cup { << "csv", "newline", << "," >> >>, << "newline", << "a" >>, "csv" >>, << "ascii", "csv" >>,
         << "noheader", "header" >>, << "csv", "separator" >>, << "newline" >> }

Input(e, a, clause_, matched_) ==
  [ expr |-> e, args |-> a, clause |-> clause_, binds |-> MCBinds, matched |-> matched_ ]

MCInputs ==
  { Input(e, << >>, One.clause, One.matched) : e \in MCConditions }
  \cup { Input(Prop, a, r.clause, r.matched) : a \in MCCommandLines, r \in MCAnswers }
  \cup { Input(Prop, << "json" >>, x[1], x[2]) : x \in MCAsked }
  \cup { Input(e, << >>, c, One.matched) : e \in Refusals, c \in Outside }
=============================================================================
