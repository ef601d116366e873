------------------------------- MODULE WalkText -------------------------------
(***************************************************************************)
(* The walk with its path column as the text it is: '/' || rowid || '/' of *)
(* the base member, path || rowid || '/' of the recursive one, and the     *)
(* guard path NOT LIKE '%/' || rowid || '/%' over it.                      *)
(*                                                                         *)
(* A row carries the sequence of rowids it stands for, as in Walk; text    *)
(* gives the column's characters.  The guard reads the characters alone.   *)
(***************************************************************************)
EXTENDS Walk

CONSTANTS
  Slash,      \* the delimiter
  Digit,      \* the digits
  Decimal     \* Decimal[e]: the digits of rowid e

(* A rowid is written in decimal: some digits, none of them the delimiter, *)
(* and different ones for different rowids.                                *)
ASSUME DecimalAssumption ==
  /\ Slash \notin Digit
  /\ Decimal \in [Rowid -> Seq(Digit) \ {<< >>}]
  /\ \A e, x \in Rowid : Decimal[e] = Decimal[x] => e = x

VARIABLE text   \* the path column of the rows made, by the path each stands for

textVars == << vars, text >>

(* t LIKE '%/' || d || '/%'.  Digits are no wildcards.  The mutant leaves   *)
(* the delimiters out of the pattern.                                      *)
Like_Bare(t, d) ==
  \E i \in 0..Len(t) :
    /\ i + Len(d) <= Len(t)
    /\ \A k \in 1..Len(d) : t[i + k] = d[k]

Like(t, d) ==
  \E i \in 1..Len(t) :
    /\ i + Len(d) + 1 <= Len(t)
    /\ t[i] = Slash
    /\ \A k \in 1..Len(d) : t[i + k] = d[k]
    /\ t[i + Len(d) + 1] = Slash

BaseText(e) == << Slash >> \o Decimal[e] \o << Slash >>

(* The mutant forgets to close the rowid it appends. *)
ExtendedText_Open(t, e) == t \o Decimal[e]

ExtendedText(t, e) == t \o Decimal[e] \o << Slash >>

(* The edges the recursive member joins to a row. *)
Joined(w) == { e \in Rowid : Joins(w, e) /\ ~ Like(text[w.path], Decimal[e]) }

TextInit ==
  /\ Init
  /\ text = [ p \in { r.path : r \in queue } |-> BaseText(p[1]) ]

TextTake(w) ==
  /\ walk' = walk \cup {w}
  /\ queue' = (queue \ {w}) \cup { ExtendedRow(w, e) : e \in Joined(w) }
  /\ text' = [ p \in DOMAIN text \cup { Append(w.path, e) : e \in Joined(w) } |->
                 IF p \in DOMAIN text THEN text[p]
                 ELSE ExtendedText(text[w.path], p[Len(p)]) ]
  /\ UNCHANGED << prov, hop >>

TextNext == \E w \in queue : TextTake(w)

TextSpec == TextInit /\ [][TextNext]_textVars

TextFairSpec == TextSpec /\ WF_textVars(TextNext)

-----------------------------------------------------------------------------
(* Looking for a rowid in the text of a path finds it exactly when the     *)
(* path uses that edge: /1/ is not found in /11/, nor across two rowids.   *)
(* The text grows over the rounds, and each round trusts all before it.    *)
GuardIsMembership ==
  \A w \in queue \cup walk, e \in Rowid :
    Like(text[w.path], Decimal[e]) <=> OnPath(w.path, e)

(* The walk over text takes the steps of the walk over sequences, and no   *)
(* others.                                                                 *)
ImplementsWalk == Spec

-----------------------------------------------------------------------------
(* The inductive invariant: that of the walk, and every row made has a     *)
(* text that closes with the delimiter and in which a rowid is found       *)
(* exactly when it is on the path.                                         *)
Character == Digit \cup {Slash}

TextOK(p) ==
  /\ text[p] \in Seq(Character) \ {<< >>}
  /\ text[p][Len(text[p])] = Slash
  /\ \A e \in Rowid : Like(text[p], Decimal[e]) <=> OnPath(p, e)

TextInv ==
  /\ DOMAIN text = { r.path : r \in queue \cup walk }
  /\ \A p \in DOMAIN text : TextOK(p)

TextIInv == IInv /\ TextInv
=============================================================================
