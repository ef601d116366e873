------------------------------ MODULE Condition ------------------------------
(***************************************************************************)
(* emit_expr: the tree of a WHERE condition written as SQL text.           *)
(*                                                                         *)
(* The recursion is a list of what is still to be written, tokens and      *)
(* trees; the text goes into an SqlBuf, which grows by doubling.  AND, OR  *)
(* and NOT write parentheses around themselves; the other operators write  *)
(* none, and a pair of parentheses of the query leaves no trace in its     *)
(* tree.                                                                   *)
(***************************************************************************)
EXTENDS SqlText

CONSTANTS
  Trees,        \* the trees the grammar makes, with all their parts
  Conditions,   \* those a WHERE holds
  Widths,       \* how many characters a token takes in the text
  Strings       \* strings a column may hold

VARIABLES
  expr,         \* the condition
  todo,         \* what is still to be written, in order
  text,         \* the tokens written
  len, cap,     \* of the buffer: bytes used, bytes allocated
  status        \* "emitting", "done", or "failed"

vars == << expr, todo, text, len, cap, status >>

Connectives == { "AND", "OR" }
Likes == { "STARTS_WITH", "ENDS_WITH", "CONTAINS" }

(* The trees of cypher_parser.y: each has the operands of its kind.        *)
ASSUME ConditionsAssumption ==
  /\ Conditions \cup UNION { ToSet(e.args) : e \in Trees } \subseteq Trees
  /\ \A e \in Trees :
       /\ e.args \in Seq(ToSet(e.args)) /\ e.chars \in Seq(ToSet(e.chars))
       /\ \/ e.kind \in Connectives \cup Likes /\ Len(e.args) = 2
          \/ e.kind = "CMP" /\ Len(e.args) = 2 /\ e.op \in DOMAIN Widths
          \/ e.kind \in { "NOT", "IS_NULL", "IS_NOT_NULL" } /\ Len(e.args) = 1
          \/ e.kind = "IN" /\ Len(e.args) > 1
          \/ e.kind \in { "VARIABLE", "FUNC" }
          \/ e.kind = "PROPERTY" /\ e.op \in DOMAIN Widths
          \/ e.kind = "LITERAL" /\ e.op \in { "STRING", "TRUE", "FALSE" } \cup DOMAIN Widths

(* Every token but a string literal has its width.                         *)
ASSUME TokensAssumption ==
  /\ Widths \in [ DOMAIN Widths -> Nat ]
  /\ { "(", ")", ",", "AND", "OR", "NOT", "IN", "IS", "IS NOT", "NULL", "LIKE",
       "ESCAPE", "1", "0" } \subseteq DOMAIN Widths

(* A string is a sequence of characters.                                   *)
ASSUME StringsAssumption == \A s \in Strings : s \in Seq(ToSet(s))

-----------------------------------------------------------------------------
(***************************************************************************)
(* What is written for a tree.                                             *)
(***************************************************************************)
(* Mutant: a quote is written as it is. *)
Quoted_Once(s) == << Quote >> \o s \o << Quote >>

Quoted(s) ==
  << Quote >> \o FlattenSeq([ k \in 1..Len(s) |->
      IF s[k] = Quote THEN << Quote, Quote >> ELSE << s[k] >> ]) \o << Quote >>

StringToken(s) == Node("TOKEN", "string", << >>, Quoted(s))

(* Mutant: the escape character itself is not escaped. *)
LikeEscaped_NotItself(c) == IF c \in { "%", "_" } THEN << Escape, c >> ELSE << c >>

LikeEscaped(c) == IF c \in { "%", "_", Escape } THEN << Escape, c >> ELSE << c >>

Pattern(kind, s) ==
  LET pre  == IF kind \in { "ENDS_WITH", "CONTAINS" } THEN << "%" >> ELSE << >>
      post == IF kind \in { "STARTS_WITH", "CONTAINS" } THEN << "%" >> ELSE << >>
  IN  pre \o FlattenSeq([ k \in 1..Len(s) |-> LikeEscaped(s[k]) ]) \o post

LiteralToken(e) ==
  CASE e.op = "STRING" -> StringToken(e.chars)
    [] e.op = "TRUE"   -> Token("1")
    [] e.op = "FALSE"  -> Token("0")
    [] OTHER           -> Token(e.op)

(* The elements of a list with commas between them. *)
Listed(args) ==
  FlattenSeq([ k \in 1..Len(args) |-> IF k = 1 THEN << args[k] >>
                                      ELSE << Token(","), args[k] >> ])

(* Mutant: no parentheses. *)
Enclosed_Not(ps) == ps

Enclosed(ps) == << Token("(") >> \o ps \o << Token(")") >>

Pieces(e) ==
  CASE e.kind \in Connectives -> Enclosed(<< e.args[1], Token(e.kind), e.args[2] >>)
    [] e.kind = "NOT"  -> Enclosed(<< Token("NOT"), e.args[1] >>)
    [] e.kind = "CMP"  -> << e.args[1], Token(e.op), e.args[2] >>
    [] e.kind = "IN"   -> << e.args[1], Token("IN"), Token("(") >>
                          \o Listed(Tail(e.args)) \o << Token(")") >>
    [] e.kind = "IS_NULL"     -> << e.args[1], Token("IS"), Token("NULL") >>
    [] e.kind = "IS_NOT_NULL" -> << e.args[1], Token("IS NOT"), Token("NULL") >>
    [] e.kind \in Likes -> << e.args[1], Token("LIKE"),
                              StringToken(Pattern(e.kind, e.args[2].chars)),
                              Token("ESCAPE"), StringToken(<< Escape >>) >>
    [] e.kind = "PROPERTY" -> << Token(e.op) >>
    [] e.kind = "LITERAL"  -> << LiteralToken(e) >>

(* A bare variable, a function, and a LIKE against anything but a string    *)
(* literal are refused; of a LIKE the right side is looked at first.       *)
Refused(e) ==
  \/ e.kind \in { "VARIABLE", "FUNC" }
  \/ e.kind \in Likes /\ ~ (e.args[2].kind = "LITERAL" /\ e.args[2].op = "STRING")

-----------------------------------------------------------------------------
(***************************************************************************)
(* The emission.                                                           *)
(***************************************************************************)
Start ==
  /\ todo = << expr >>
  /\ text = << >>
  /\ len = 0 /\ cap = 0
  /\ status = "emitting"

Init == expr \in Conditions /\ Start

Due == status = "emitting" /\ todo # << >>

Enter ==
  /\ Due /\ Head(todo).kind # "TOKEN" /\ ~Refused(Head(todo))
  /\ todo' = Pieces(Head(todo)) \o Tail(todo)
  /\ UNCHANGED << expr, text, len, cap, status >>

(* The caller frees the buffer and returns no statement. *)
Refuse ==
  /\ Due /\ Refused(Head(todo))
  /\ status' = "failed"
  /\ todo' = << >> /\ text' = << >> /\ len' = 0 /\ cap' = 0
  /\ UNCHANGED expr

Width(t) == IF t.op = "string" THEN Len(t.chars) ELSE Widths[t.op]

(* Mutant: no room is kept for the end of the string. *)
Needed_NoEnd(t) == len + Width(t)

(* reserve: the text, the new token and the end of the string. *)
Needed(t) == len + Width(t) + 1

Grow ==
  /\ Due /\ Head(todo).kind = "TOKEN" /\ Needed(Head(todo)) > cap
  /\ cap' = IF cap = 0 THEN 64 ELSE 2 * cap
  /\ UNCHANGED << expr, todo, text, len, status >>

Write ==
  /\ Due /\ Head(todo).kind = "TOKEN" /\ Needed(Head(todo)) <= cap
  /\ text' = Append(text, Head(todo))
  /\ len' = len + Width(Head(todo))
  /\ todo' = Tail(todo)
  /\ UNCHANGED << expr, cap, status >>

Detach ==
  /\ status = "emitting" /\ todo = << >>
  /\ status' = "done"
  /\ UNCHANGED << expr, todo, text, len, cap >>

Next == Enter \/ Refuse \/ Grow \/ Write \/ Detach

Spec == Init /\ [][Next]_vars

-----------------------------------------------------------------------------
(***************************************************************************)
(* Properties.                                                             *)
(***************************************************************************)
(* The buffer has room for the text and the end of the string at all times *)
(* once anything is written.                                               *)
BufferHoldsText == text # << >> => len < cap

(* The text of a STARTS WITH, ENDS WITH or CONTAINS ends in a LIKE whose   *)
(* pattern, read by SQLite, matches just the strings that do, whatever     *)
(* wildcards, escapes and quotes the literal holds: escaping, quoting and  *)
(* reading back work together.                                             *)
PatternsExact ==
  status = "done" /\ expr.kind \in Likes =>
    LET n == Len(text)
    IN  /\ text[n - 3] = Token("LIKE") /\ text[n - 1] = Token("ESCAPE")
        /\ Leaf(text[n]).chars = << Escape >>
        /\ \A s \in Strings :
             Matches(s, Leaf(text[n - 2]).chars) <=> Does(expr.kind, s, expr.args[2].chars)
=============================================================================
