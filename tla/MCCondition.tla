----------------------------- MODULE MCCondition -----------------------------
(* Every condition of up to two levels of operators over a property and a  *)
(* number, one operator of each kind, and string operators against strings *)
(* of wildcards, escapes and quotes.                                       *)
EXTENDS ConditionMeaning

Prop == Node("PROPERTY", "p", << >>, << >>)
Number == Node("LITERAL", "7", << >>, << >>)
String(s) == Node("LITERAL", "STRING", << >>, s)

Characters == { "x", "%", "_", Escape, Quote }
MCStrings == UNION { [ 1..n -> Characters ] : n \in 0..2 }

Over(left, right) ==
  { Node(k, "", << l, r >>, << >>) : k \in Connectives, l \in left, r \in right }
  \cup { Node("CMP", c, << l, r >>, << >>) : c \in { "=", "<" }, l \in left, r \in right }
  \cup { Node("IN", "", << l, r >>, << >>) : l \in left, r \in right }
  \cup { Node("IN", "", << l, r, Number >>, << >>) : l \in left, r \in right }
  \cup { Node(k, "", << l >>, << >>) : k \in { "NOT", "IS_NULL", "IS_NOT_NULL" }, l \in left }
  \cup { Node(k, "", << l, String(<< "x" >>) >>, << >>) : k \in { "STARTS_WITH" }, l \in left }

Truths == { Node("LITERAL", "TRUE", << >>, << >>), Node("LITERAL", "FALSE", << >>, << >>) }
Leaves == { Prop, Number }
Refusals == { Node("FUNC", "f", << >>, << >>), Node("VARIABLE", "v", << >>, << >>),
              Node("CONTAINS", "", << Prop, Prop >>, << >>) }
Shallow == Leaves \cup Over({ Prop }, Leaves)
Chains == Over(Over({ Number }, { Prop }), { Number })

MCConditions ==
  { Prop } \cup Refusals
  \cup Over(Shallow \cup Refusals, Shallow \cup Refusals)
  \cup { Node("CMP", op, << c, Prop >>, << >>) : op \in { "<>", "<=" }, c \in Chains }
  \cup { Node("CMP", op, << Prop, c >>, << >>) : op \in { "=", ">" }, c \in Chains }
  \cup { Node(k, "", << Prop, String(s) >>, << >>) : k \in Likes, s \in MCStrings }
  \cup { Node("CMP", "=", << Prop, e >>, << >>) : e \in { String(s) : s \in MCStrings } \cup Truths }

(* They and their parts.  No tree is more than four levels high.           *)
WithParts(S) == S \cup UNION { ToSet(e.args) : e \in S }
MCTrees == WithParts(WithParts(WithParts(MCConditions)))

MCWidths ==
  [ op \in { "(", ")", "7", "1", "0", "p", "," } \cup DOMAIN Level \cup { "NULL", "NOT", "ESCAPE" } |->
      CASE op = "p" -> 24
        [] op \in { "(", ")", "7", "1", "0" } -> 1
        [] op = "," -> 2
        [] op \in { "=", "<", ">" } -> 3
        [] op \in { "OR", "<>", "<=", ">=", "IN", "NULL", "IS", "NOT" } -> 4
        [] op \in { "AND" } -> 5
        [] op \in { "LIKE" } -> 6
        [] OTHER -> 8 ]
=============================================================================
