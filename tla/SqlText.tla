------------------------------- MODULE SqlText -------------------------------
(***************************************************************************)
(* Trees of a condition and the text of one.  A text is a sequence of      *)
(* tokens, a token a node without arguments.  A node has a kind, an op     *)
(* (the spelling of an operator or of a leaf), its arguments, and the      *)
(* characters of a string.                                                 *)
(***************************************************************************)
EXTENDS Naturals, Sequences, SequencesExt

Node(kind, op, args, chars) == [ kind |-> kind, op |-> op, args |-> args, chars |-> chars ]

Token(op) == Node("TOKEN", op, << >>, << >>)

Quote  == "'"
Escape == "\\"

-----------------------------------------------------------------------------
(***************************************************************************)
(* How SQLite reads a string literal and a LIKE pattern.  External to the  *)
(* repository.                                                             *)
(***************************************************************************)
(* The characters of a quoted literal: the outer quotes go, two in a row   *)
(* are one.                                                                *)
Unquoted(s) ==
  LET rest[i \in 2..(Len(s) + 1)] ==
        IF i >= Len(s) THEN << >>
        ELSE IF s[i] = Quote THEN << Quote >> \o rest[i + 2]
        ELSE << s[i] >> \o rest[i + 1]
  IN  rest[2]

StringValue(s) == Node("VALUE", "string", << >>, s)

(* A leaf: a string literal stands for its value, other tokens for themselves. *)
Leaf(t) == IF t.op = "string" THEN StringValue(Unquoted(t.chars)) ELSE t

(* s LIKE p ESCAPE '\': where in s the pattern from j on may start.        *)
Matches(s, p) ==
  LET Is(i, c) == i <= Len(s) /\ s[i] = c
      from[j \in 1..(Len(p) + 1)] ==
        LET rest == from[j + 1]
        IN  IF j > Len(p) THEN { Len(s) + 1 }
            ELSE { i \in 1..(Len(s) + 1) :
                     CASE p[j] = "%" -> \E k \in rest : i <= k
                       [] p[j] = "_" -> i + 1 \in rest
                       [] p[j] = Escape -> j < Len(p) /\ Is(i, p[j + 1]) /\ i + 1 \in from[j + 2]
                       [] OTHER -> Is(i, p[j]) /\ i + 1 \in rest }
  IN  1 \in from[1]

-----------------------------------------------------------------------------
(* What the string operators mean: s starts with, ends with or contains lit. *)
Does(kind, s, lit) ==
  CASE kind = "STARTS_WITH" -> IsPrefix(lit, s)
    [] kind = "ENDS_WITH"   -> IsSuffix(lit, s)
    [] kind = "CONTAINS"    -> \E i \in 1..(Len(s) + 1) : IsPrefix(lit, SubSeq(s, i, Len(s)))
=============================================================================
