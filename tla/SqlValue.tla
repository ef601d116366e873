------------------------------- MODULE SqlValue -------------------------------
(* SQL values, as far as the queries compare them.                         *)
CONSTANT NULL   \* the SQL NULL

(* SQL equality is not true when either side is NULL.                      *)
SqlEq(x, y) == x # NULL /\ y # NULL /\ x = y
=============================================================================
