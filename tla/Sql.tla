---------------------------------- MODULE Sql ----------------------------------
(***************************************************************************)
(* The SELECT statements the translator writes, and what SQLite makes of   *)
(* them: a FROM list of tables with aliases, each joined ON a conjunction  *)
(* of comparisons, and a WHERE.                                            *)
(*                                                                         *)
(* A database gives each table its set of rows; a row is a record.         *)
(***************************************************************************)
EXTENDS SqlValue, Naturals, Sequences, FiniteSets

(* Operands, and the comparisons of two operands.                          *)
Col(alias, column) == << "column", alias, column >>
Lit(value)         == << "literal", value >>
Eq(l, r)           == << "=", l, r >>
AtLeast(l, r)      == << ">=", l, r >>

(* A WHERE is a conjunction of clauses; a clause is a disjunction of       *)
(* conjunctions of comparisons.                                            *)
Require(atom) == {{atom}}

(* A member of the FROM list.                                              *)
FromItem(table, alias, on) == [ table |-> table, alias |-> alias, on |-> on ]

(* A row of the joined tables: one row of a table for each alias.          *)
Value(env, x) == IF x[1] = "column" THEN env[x[2]][x[3]] ELSE x[2]
Compares(env, a) ==
  LET l == Value(env, a[2])
      r == Value(env, a[3])
  IN  IF a[1] = "=" THEN SqlEq(l, r) ELSE l >= r

Holds(env, atoms) == \A a \in atoms : Compares(env, a)

RowWith(env, alias, row) ==
  [ x \in DOMAIN env \cup {alias} |-> IF x = alias THEN row ELSE env[x] ]

JoinItem(db, envs, item) ==
  { e \in { RowWith(env, item.alias, row) : env \in envs, row \in db[item.table] } :
      Holds(e, item.on) }

(* The members of FROM are joined one after the other.                     *)
JoinedRows(db, from) ==
  LET joined[n \in 0..Len(from)] ==
        IF n = 0 THEN {<< >>} ELSE JoinItem(db, joined[n - 1], from[n])
  IN  joined[Len(from)]

(* The rows of a statement, before its SELECT list projects them.          *)
Rows(db, from, where) ==
  { env \in JoinedRows(db, from) :
      \A clause \in where : \E atoms \in clause : Holds(env, atoms) }

-----------------------------------------------------------------------------
(* The aliases a set of atoms speaks of.                                   *)
AliasesOf(atoms) ==
  { x[2] : x \in { y \in UNION { {a[2], a[3]} : a \in atoms } : y[1] = "column" } }

Declares(from, n) == { from[i].alias : i \in 1..n }

(* SQLite accepts the statement: no alias is declared twice, an ON clause  *)
(* speaks of the aliases up to its own, WHERE and the rest of the          *)
(* statement of any of them.                                               *)
WellFormed(from, where, used) ==
  /\ Cardinality(Declares(from, Len(from))) = Len(from)
  /\ \A i \in 1..Len(from) : AliasesOf(from[i].on) \subseteq Declares(from, i)
  /\ AliasesOf(UNION UNION where) \cup used \subseteq Declares(from, Len(from))
=============================================================================
