-------------------------- MODULE ConditionMeaning --------------------------
(***************************************************************************)
(* What the text of a condition must say: SQLite reads the tree it was     *)
(* written from.                                                           *)
(***************************************************************************)
EXTENDS Condition, SqlReader

(* What the tree means as an SQL expression, whatever its text.            *)
RECURSIVE Meant(_)
Meant(e) ==
  LET a == [ k \in 1..Len(e.args) |-> Meant(e.args[k]) ]
  IN  CASE e.kind \in Connectives \cup {"NOT", "IN"} -> Operation(e.kind, a)
        [] e.kind = "CMP" -> Operation(e.op, a)
        [] e.kind = "IS_NULL" -> Operation("IS", << a[1], Token("NULL") >>)
        [] e.kind = "IS_NOT_NULL" -> Operation("IS NOT", << a[1], Token("NULL") >>)
        [] e.kind \in Likes ->
             Operation("LIKE", << a[1], StringValue(Pattern(e.kind, e.args[2].chars)),
                                  StringValue(<< Escape >>) >>)
        [] e.op = "STRING" -> StringValue(e.chars)
        [] e.kind = "LITERAL" -> LiteralToken(e)
        [] OTHER -> Token(e.op)

(* How tightly the text of a tree holds together: the connectives have     *)
(* their parentheses, leaves need none.                                    *)
Binding(e) ==
  CASE e.kind = "CMP" -> Level[e.op]
    [] e.kind \in Likes \cup { "IN", "IS_NULL", "IS_NOT_NULL" } -> Level["="]
    [] OTHER -> 9

(* The operators of a tree that nothing encloses on their left. *)
RECURSIVE LeftSpine(_)
LeftSpine(e) == IF Binding(e) = 9 THEN {9} ELSE {Binding(e)} \cup LeftSpine(e.args[1])

(* The operands that stand open to the left and to the right of an operator *)
(* hold together at least as tightly as it does, so they need no           *)
(* parentheses.  An IN closes with its list.                               *)
RECURSIVE Holds(_)
Holds(e) ==
  /\ \A k \in 1..Len(e.args) : Holds(e.args[k])
  /\ Binding(e) < 9 => e.args[1].kind = "IN" \/ Binding(e.args[1]) >= Binding(e)
  /\ e.kind = "CMP" => \A b \in LeftSpine(e.args[2]) : b > Binding(e)

(* SQLite reads the text of a condition as its tree exactly when no operand *)
(* of a comparison, an IN, an IS or a LIKE needs the parentheses the       *)
(* emission leaves out.  In particular every condition that nests only     *)
(* through AND, OR and NOT is read as it was meant.                        *)
ReadsAsHeld == status = "done" => (TreeOf(text) = Meant(expr) <=> Holds(expr))

(* What transform.h says of every condition: it is never silently          *)
(* translated to something else.                                           *)
ReadsAsMeant == status = "done" => TreeOf(text) = Meant(expr)
=============================================================================
