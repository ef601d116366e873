------------------------------ MODULE SqlReader ------------------------------
(***************************************************************************)
(* How SQLite reads the text of a condition, by the precedence of its      *)
(* operators.  External to the repository.                                 *)
(***************************************************************************)
EXTENDS SqlText

-----------------------------------------------------------------------------
(* Operators by how tightly they bind; those of one level read from the    *)
(* left.  NOT binds weaker than all comparisons.                           *)
Level ==
  [ op \in { "OR", "AND", "=", "<>", "IS", "IS NOT", "IN", "LIKE", "<", ">", "<=", ">=" } |->
      CASE op = "OR" -> 1
        [] op = "AND" -> 2
        [] op \in { "=", "<>", "IS", "IS NOT", "IN", "LIKE" } -> 4
        [] OTHER -> 5 ]

NotLevel == 3

Operation(op, args) == Node("OPERATION", op, args, << >>)

Read(node, rest) == [ node |-> node, rest |-> rest ]

(* An expression whose operators bind at least as tightly as min; Rest is   *)
(* what follows it.                                                        *)
RECURSIVE Expression(_, _), Primary(_), Continue(_, _, _), List(_)
Expression(ts, min) ==
  LET left == Primary(ts) IN Continue(left.node, left.rest, min)

Primary(ts) ==
  CASE Head(ts).op = "(" ->
         LET r == Expression(Tail(ts), 1) IN Read(r.node, Tail(r.rest))
    [] Head(ts).op = "NOT" ->
         LET r == Expression(Tail(ts), NotLevel)
         IN  Read(Operation("NOT", << r.node >>), r.rest)
    [] OTHER -> Read(Leaf(Head(ts)), Tail(ts))

List(ts) ==
  LET r == Expression(ts, 1)
  IN  IF Head(r.rest).op = "," THEN LET l == List(Tail(r.rest))
                                    IN  Read(<< r.node >> \o l.node, l.rest)
      ELSE Read(<< r.node >>, Tail(r.rest))

Continue(left, ts, min) ==
  IF ts = << >> THEN Read(left, ts)
  ELSE LET op == Head(ts).op
       IN  IF op \notin DOMAIN Level THEN Read(left, ts)
           ELSE IF Level[op] < min THEN Read(left, ts)
           ELSE IF op = "IN"
                THEN LET l == List(Tail(Tail(ts)))
                     IN  Continue(Operation(op, << left >> \o l.node), l.rest, min)
           ELSE LET r == Expression(Tail(ts), Level[op] + 1)
                IN  IF op = "LIKE"
                    THEN LET x == Expression(Tail(r.rest), Level[op] + 1)
                         IN  Continue(Operation(op, << left, r.node, x.node >>), x.rest, min)
                    ELSE Continue(Operation(op, << left, r.node >>), r.rest, min)

TreeOf(ts) == Expression(ts, 1).node
=============================================================================
