----------------------------- MODULE AnswerProofs -----------------------------
(***************************************************************************)
(* The way of an answer, for any conditions, RETURN clauses and tables:    *)
(* what is written fits its buffer, a query is refused exactly when it is  *)
(* outside of what is understood, and a LIKE matches what it was written   *)
(* for.                                                                    *)
(***************************************************************************)
EXTENDS Answer, WellFoundedInduction, TLAPS

-----------------------------------------------------------------------------
(***************************************************************************)
(* Sequences.                                                              *)
(***************************************************************************)
(* A set of numbers that is not empty has a least one.                     *)
LEMMA LeastNumber ==
  ASSUME NEW S \in SUBSET Nat, S # {}
  PROVE  \E k \in S : \A l \in S : k <= l
<1> DEFINE R == OpToRel(<, Nat)
<1>1. IsWellFoundedOn(R, Nat)
  BY NatLessThanWellFounded
<1>2. \A x, y \in Nat : x < y => << x, y >> \in R
  BY DEF OpToRel
<1>3. PICK k \in S : \A y \in S : ~(<< y, k >> \in R)
  <2> HIDE DEF R
  <2> QED
    BY <1>1, WFMin
<1>4. \A l \in S : ~(l < k)
  <2> HIDE DEF R
  <2> QED
    BY <1>2, <1>3
<1> QED
  BY <1>4

(* f joins the sequences in seqs, the first n of them.                     *)
Joins(f, seqs, n) ==
  f = [ i \in 1..n |-> IF i = 1 THEN seqs[i] ELSE f[i - 1] \o seqs[i] ]

(* There is such a function: of the lengths for which there were none, the *)
(* least would have one, made from that of the length before.              *)
LEMMA JoinExists ==
  ASSUME NEW seqs, NEW n \in Nat
  PROVE  \E f : Joins(f, seqs, n)
<1> DEFINE Missing == { m \in Nat : ~ \E f : Joins(f, seqs, m) }
<1>1. SUFFICES ASSUME Missing # {} PROVE FALSE
  OBVIOUS
<1>2. PICK m \in Missing : \A l \in Missing : m <= l
  <2>1. Missing \in SUBSET Nat
    OBVIOUS
  <2> HIDE DEF Missing
  <2> QED BY <1>1, <2>1, LeastNumber
<1>3. m \in Nat /\ ~ \E f : Joins(f, seqs, m)
  OBVIOUS
<1>4. CASE m = 0
  <2> DEFINE f == [ i \in 1..0 |-> seqs ]
  <2>1. Joins(f, seqs, 0)
    BY DEF Joins
  <2> QED BY <1>3, <1>4, <2>1
<1>5. CASE m # 0
  <2>1. m - 1 \in Nat /\ ~(m <= m - 1)
    BY <1>3, <1>5
  <2>2. PICK f : Joins(f, seqs, m - 1)
    BY <1>2, <2>1
  <2> DEFINE g == [ i \in 1..m |-> IF i = 1 THEN seqs[i]
                                   ELSE IF i = m THEN f[i - 1] \o seqs[i] ELSE f[i] ]
  <2>3. ASSUME NEW i \in 1..m, i # 1 PROVE g[i] = g[i - 1] \o seqs[i]
    <3>1. i - 1 \in 1..(m - 1) /\ i - 1 \in 1..m /\ i - 1 # m
      BY <1>3, <2>3
    <3>2. g[i - 1] = f[i - 1]
      BY <2>2, <3>1 DEF Joins
    <3>3. i # m => f[i] = f[i - 1] \o seqs[i]
      <4>1. i # m => i \in 1..(m - 1)
        BY <1>3
      <4>2. \A j \in 1..(m - 1) : f[j] = IF j = 1 THEN seqs[j] ELSE f[j - 1] \o seqs[j]
        BY <2>2 DEF Joins
      <4> HIDE DEF g
      <4> QED BY <2>3, <4>1, <4>2
    <3>4. \A j \in 1..m : j # 1 => g[j] = IF j = m THEN f[j - 1] \o seqs[j] ELSE f[j]
      OBVIOUS
    <3> HIDE DEF g
    <3> QED BY <2>3, <3>2, <3>3, <3>4
  <2>4. Joins(g, seqs, m)
    <3>1. ASSUME NEW i \in 1..m PROVE g[i] = IF i = 1 THEN seqs[i] ELSE g[i - 1] \o seqs[i]
      <4>1. CASE i = 1
        BY <4>1
      <4>2. CASE i # 1
        <5> HIDE DEF g
        <5> QED BY <2>3, <4>2
      <4> QED BY <4>1, <4>2
    <3>2. g = [ i \in 1..m |-> g[i] ]
      OBVIOUS
    <3> HIDE DEF g
    <3> QED BY <3>1, <3>2 DEF Joins
  <2> QED BY <1>3, <2>4
<1> QED BY <1>4, <1>5

(* Sequences over T, joined, are a sequence over T.                        *)
LEMMA FlatIsSequence ==
  ASSUME NEW T, NEW seqs \in Seq(Seq(T))
  PROVE  FlattenSeq(seqs) \in Seq(T)
<1>1. Len(seqs) \in Nat
  OBVIOUS
<1>2. CASE Len(seqs) = 0
  <2>1. seqs = << >>
    BY <1>2
  <2> QED BY <1>2, <2>1 DEF FlattenSeq
<1>3. CASE Len(seqs) # 0
  <2> DEFINE f == CHOOSE g : Joins(g, seqs, Len(seqs))
  <2>1. Joins(f, seqs, Len(seqs))
    BY <1>1, JoinExists
  <2>2. FlattenSeq(seqs) = f[Len(seqs)]
    BY <1>3 DEF FlattenSeq, Joins
  <2> HIDE DEF f
  <2> DEFINE Wrong == { i \in 1..Len(seqs) : f[i] \notin Seq(T) }
  <2>3. Wrong = {}
    <3>1. SUFFICES ASSUME Wrong # {} PROVE FALSE
      OBVIOUS
    <3>2. PICK k \in Wrong : \A l \in Wrong : k <= l
      <4>1. Wrong \in SUBSET Nat
        OBVIOUS
      <4> HIDE DEF Wrong
      <4> QED BY <3>1, <4>1, LeastNumber
    <3>3. k \in 1..Len(seqs) /\ seqs[k] \in Seq(T) /\ f[k] \notin Seq(T)
      OBVIOUS
    <3>4. k # 1 => k - 1 \in 1..Len(seqs) /\ f[k - 1] \in Seq(T)
      <4>1. k # 1 => k - 1 \in 1..Len(seqs) /\ ~(k <= k - 1)
        BY <1>1, <3>3
      <4> QED BY <3>2, <4>1
    <3>5. f[k] = IF k = 1 THEN seqs[k] ELSE f[k - 1] \o seqs[k]
      BY <2>1, <3>3 DEF Joins
    <3> QED BY <3>3, <3>4, <3>5
  <2> QED BY <1>1, <1>3, <2>2, <2>3
<1> QED BY <1>2, <1>3
-----------------------------------------------------------------------------
(***************************************************************************)
(* The buffer.                                                             *)
(***************************************************************************)
Letters == (UNION { ToSet(e.chars) : e \in Trees }) \cup { Quote, Escape, "%" }

Tokens == { Token(op) : op \in DOMAIN Widths }
          \cup { Node("TOKEN", "string", << >>, s) : s \in Seq(Letters) }

(* What is still to be written are trees of the grammar and tokens with a  *)
(* width, so that len and cap stay numbers.                                *)
BufferInv ==
  /\ expr \in Trees
  /\ todo \in Seq(Trees \cup Tokens)
  /\ len \in Nat /\ cap \in Nat
  /\ BufferHoldsText

(* A token has a width; a tree is no token.                                *)
LEMMA TokenOrTree ==
  /\ \A t \in Tokens : t.kind = "TOKEN" /\ Width(t) \in Nat
  /\ \A e \in Trees : e.kind # "TOKEN"
<1>1. ASSUME NEW t \in Tokens PROVE t.kind = "TOKEN" /\ Width(t) \in Nat
  <2>1. CASE \E op \in DOMAIN Widths : t = Token(op)
    <3>1. PICK op \in DOMAIN Widths : t = Token(op)
      BY <2>1
    <3>2. Widths[op] \in Nat /\ Len(<< >>) \in Nat
      BY TokensAssumption
    <3>3. t.kind = "TOKEN" /\ t.op = op /\ t.chars = << >>
      BY <3>1 DEF Token, Node
    <3> QED BY <3>2, <3>3 DEF Width
  <2>2. CASE \E s \in Seq(Letters) : t = Node("TOKEN", "string", << >>, s)
    <3>1. PICK s \in Seq(Letters) : t = Node("TOKEN", "string", << >>, s)
      BY <2>2
    <3>2. t.kind = "TOKEN" /\ t.op = "string" /\ t.chars = s
      BY <3>1 DEF Node
    <3> QED BY <3>2 DEF Width
  <2> QED BY <2>1, <2>2 DEF Tokens
<1>2. ASSUME NEW e \in Trees PROVE e.kind # "TOKEN"
  BY ConditionsAssumption DEF Connectives, Likes
<1> QED BY <1>1, <1>2

(* A literal in quotes, and a pattern, are sequences of characters.        *)
LEMMA LiteralIsText ==
  ASSUME NEW s \in Seq(Letters), NEW kind
  PROVE  Quoted(s) \in Seq(Letters) /\ Pattern(kind, s) \in Seq(Letters)
<1>1. Len(s) \in Nat /\ \A k \in 1..Len(s) : s[k] \in Letters
  OBVIOUS
<1>2. Quote \in Letters /\ Escape \in Letters /\ "%" \in Letters
  BY DEF Letters
<1>3. Quoted(s) \in Seq(Letters)
  <2> DEFINE parts == [ k \in 1..Len(s) |-> IF s[k] = Quote THEN << Quote, Quote >> ELSE << s[k] >> ]
  <2>1. parts \in Seq(Seq(Letters))
    BY <1>1, <1>2
  <2>2. FlattenSeq(parts) \in Seq(Letters)
    <3> HIDE DEF parts
    <3> QED BY <2>1, FlatIsSequence
  <2>3. << Quote >> \in Seq(Letters)
    BY <1>2
  <2>4. Quoted(s) = << Quote >> \o FlattenSeq(parts) \o << Quote >>
    BY DEF Quoted
  <2> HIDE DEF parts
  <2> QED BY <2>2, <2>3, <2>4
<1>4. Pattern(kind, s) \in Seq(Letters)
  <2> DEFINE pre == IF kind \in { "ENDS_WITH", "CONTAINS" } THEN << "%" >> ELSE << >>
             post == IF kind \in { "STARTS_WITH", "CONTAINS" } THEN << "%" >> ELSE << >>
             parts == [ k \in 1..Len(s) |-> LikeEscaped(s[k]) ]
  <2>1. pre \in Seq(Letters) /\ post \in Seq(Letters)
    BY <1>2
  <2>2. \A k \in 1..Len(s) : LikeEscaped(s[k]) \in Seq(Letters)
    <3> TAKE k \in 1..Len(s)
    <3>1. PICK c \in Letters : c = s[k]
      BY <1>1
    <3>2. << c >> \in Seq(Letters) /\ << Escape, c >> \in Seq(Letters)
      BY <1>2
    <3> QED BY <3>1, <3>2 DEF LikeEscaped
  <2>3. parts \in Seq(Seq(Letters))
    BY <1>1, <2>2
  <2>4. FlattenSeq(parts) \in Seq(Letters)
    <3> HIDE DEF parts
    <3> QED BY <2>3, FlatIsSequence
  <2>5. Pattern(kind, s) = pre \o FlattenSeq(parts) \o post
    BY DEF Pattern
  <2> HIDE DEF parts, pre, post
  <2> QED BY <2>1, <2>4, <2>5
<1> QED BY <1>3, <1>4

(* The list of an IN is trees and commas.                                  *)
LEMMA ListedIsWritable ==
  ASSUME NEW list \in Seq(Trees)
  PROVE  Listed(list) \in Seq(Trees \cup Tokens)
<1>1. Token(",") \in Tokens
  BY TokensAssumption DEF Tokens
<1>2. Len(list) \in Nat
  OBVIOUS
<1>3. \A k \in 1..Len(list) : list[k] \in Trees
  OBVIOUS
<1>4. ASSUME NEW k \in 1..Len(list)
      PROVE  << list[k] >> \in Seq(Trees \cup Tokens) /\ << Token(","), list[k] >> \in Seq(Trees \cup Tokens)
  <2>1. PICK x, y \in Trees \cup Tokens : x = list[k] /\ y = Token(",")
    BY <1>1, <1>3
  <2>2. << x >> \in Seq(Trees \cup Tokens) /\ << y, x >> \in Seq(Trees \cup Tokens)
    OBVIOUS
  <2> QED BY <2>1, <2>2
<1> DEFINE parts == [ k \in 1..Len(list) |-> IF k = 1 THEN << list[k] >> ELSE << Token(","), list[k] >> ]
<1>5. Listed(list) = FlattenSeq(parts)
  BY DEF Listed
<1>6. parts \in Seq(Seq(Trees \cup Tokens))
  <2>1. parts \in [ 1..Len(list) -> Seq(Trees \cup Tokens) ]
    BY <1>4
  <2> HIDE DEF parts
  <2> QED BY <1>2, <2>1
<1> HIDE DEF parts
<1> QED BY <1>5, <1>6, FlatIsSequence
(* What is written for a tree that is not refused is trees and tokens.     *)
LEMMA PiecesAreWritable ==
  ASSUME NEW e \in Trees, ~Refused(e)
  PROVE  Pieces(e) \in Seq(Trees \cup Tokens)
<1> DEFINE S == Trees \cup Tokens
<1>1. \A op \in DOMAIN Widths : Token(op) \in S
  BY DEF Tokens
<1>2. /\ Token("(") \in S /\ Token(")") \in S /\ Token("NOT") \in S
      /\ Token("AND") \in S /\ Token("OR") \in S
      /\ Token("IN") \in S /\ Token("IS") \in S /\ Token("IS NOT") \in S /\ Token("NULL") \in S
      /\ Token("LIKE") \in S /\ Token("ESCAPE") \in S /\ Token("1") \in S /\ Token("0") \in S
  BY <1>1, TokensAssumption
<1>3. \A s \in Seq(Letters) : StringToken(s) \in S
  <2> TAKE s \in Seq(Letters)
  <2>1. Quoted(s) \in Seq(Letters)
    BY LiteralIsText
  <2> QED BY <2>1 DEF StringToken, Tokens
<1>4. e.args \in Seq(Trees)
  <2>1. ToSet(e.args) \subseteq Trees /\ e.args \in Seq(ToSet(e.args))
    BY ConditionsAssumption
  <2> QED BY <2>1
<1>5. ASSUME NEW t \in Trees PROVE t.chars \in Seq(Letters)
  <2>1. ToSet(t.chars) \subseteq Letters /\ t.chars \in Seq(ToSet(t.chars))
    BY ConditionsAssumption DEF Letters
  <2> QED BY <2>1
<1>6. /\ e.kind \in Connectives \cup Likes \cup { "CMP" } => e.args[1] \in S /\ e.args[2] \in S
      /\ e.kind \in { "NOT", "IS_NULL", "IS_NOT_NULL", "IN" } => e.args[1] \in S
  BY <1>4, ConditionsAssumption DEF Connectives, Likes
<1>7. CASE e.kind \in Connectives
  <2>1. Token(e.kind) \in S
    BY <1>2, <1>7 DEF Connectives
  <2>2. PICK a, b, t, l, r \in S :
          a = e.args[1] /\ b = e.args[2] /\ t = Token(e.kind) /\ l = Token("(") /\ r = Token(")")
    BY <1>2, <1>6, <1>7, <2>1
  <2>3. Pieces(e) = << l >> \o << a, t, b >> \o << r >>
    BY <1>7, <2>2 DEF Pieces, Enclosed, Connectives, Likes
  <2> QED BY <2>3
<1>8. CASE e.kind = "NOT"
  <2>1. PICK a, t, l, r \in S :
          a = e.args[1] /\ t = Token("NOT") /\ l = Token("(") /\ r = Token(")")
    BY <1>2, <1>6, <1>8
  <2>2. Pieces(e) = << l >> \o << t, a >> \o << r >>
    BY <1>8, <2>1 DEF Pieces, Enclosed, Connectives, Likes
  <2> QED BY <2>2
<1>9. CASE e.kind = "CMP"
  <2>1. Token(e.op) \in S
    BY <1>1, <1>9, ConditionsAssumption DEF Connectives, Likes
  <2>2. PICK a, b, t \in S : a = e.args[1] /\ b = e.args[2] /\ t = Token(e.op)
    BY <1>6, <1>9, <2>1
  <2>3. Pieces(e) = << a, t, b >>
    BY <1>9, <2>2 DEF Pieces, Connectives, Likes
  <2> QED BY <2>3
<1>10. CASE e.kind = "IN"
  <2>1. Tail(e.args) \in Seq(Trees)
    BY <1>4, <1>10, ConditionsAssumption DEF Connectives, Likes
  <2>2. Listed(Tail(e.args)) \in Seq(S)
    BY <2>1, ListedIsWritable
  <2>3. PICK a, t, l, r \in S :
          a = e.args[1] /\ t = Token("IN") /\ l = Token("(") /\ r = Token(")")
    BY <1>2, <1>6, <1>10
  <2>4. Pieces(e) = << a, t, l >> \o Listed(Tail(e.args)) \o << r >>
    BY <1>10, <2>3 DEF Pieces, Connectives, Likes
  <2> QED BY <2>2, <2>4
<1>11. CASE e.kind \in { "IS_NULL", "IS_NOT_NULL" }
  <2>1. PICK a, t, u, n \in S :
          a = e.args[1] /\ t = Token("IS") /\ u = Token("IS NOT") /\ n = Token("NULL")
    BY <1>2, <1>6, <1>11
  <2>2. e.kind = "IS_NULL" => Pieces(e) = << a, t, n >>
    BY <2>1 DEF Pieces, Connectives, Likes
  <2>3. e.kind = "IS_NOT_NULL" => Pieces(e) = << a, u, n >>
    BY <2>1 DEF Pieces, Connectives, Likes
  <2>4. << a, t, n >> \in Seq(S) /\ << a, u, n >> \in Seq(S)
    OBVIOUS
  <2> QED BY <1>11, <2>2, <2>3, <2>4
<1>12. CASE e.kind \in Likes
  <2>1. e.args[2] \in Trees
    BY <1>4, <1>12, ConditionsAssumption DEF Connectives, Likes
  <2>2. Pattern(e.kind, e.args[2].chars) \in Seq(Letters)
    BY <1>5, <2>1, LiteralIsText
  <2>3. << Escape >> \in Seq(Letters)
    BY DEF Letters
  <2>4. PICK a, t, p, u, q \in S :
          /\ a = e.args[1] /\ t = Token("LIKE") /\ u = Token("ESCAPE")
          /\ p = StringToken(Pattern(e.kind, e.args[2].chars)) /\ q = StringToken(<< Escape >>)
    BY <1>2, <1>3, <1>6, <1>12, <2>2, <2>3
  <2>5. Pieces(e) = << a, t, p, u, q >>
    BY <1>12, <2>4 DEF Pieces, Connectives, Likes
  <2> QED BY <2>5
<1>13. CASE e.kind = "PROPERTY"
  <2>1. PICK t \in S : t = Token(e.op)
    BY <1>1, <1>13, ConditionsAssumption DEF Connectives, Likes
  <2>2. Pieces(e) = << t >>
    BY <1>13, <2>1 DEF Pieces, Connectives, Likes
  <2> QED BY <2>2
<1>14. CASE e.kind = "LITERAL"
  <2>1. LiteralToken(e) \in S
    <3>1. e.op \in { "STRING", "TRUE", "FALSE" } \cup DOMAIN Widths
      BY <1>14, ConditionsAssumption DEF Connectives, Likes
    <3>2. StringToken(e.chars) \in S
      BY <1>3, <1>5
    <3> QED BY <1>1, <1>2, <3>1, <3>2 DEF LiteralToken
  <2>2. PICK t \in S : t = LiteralToken(e)
    BY <2>1
  <2>3. Pieces(e) = << t >>
    BY <1>14, <2>2 DEF Pieces, Connectives, Likes
  <2> QED BY <2>3
<1>15. e.kind \notin { "VARIABLE", "FUNC" }
  BY DEF Refused
<1> QED
  BY <1>7, <1>8, <1>9, <1>10, <1>11, <1>12, <1>13, <1>14, <1>15, ConditionsAssumption
(* A step of the emission keeps it: a tree gives way to its pieces, and a  *)
(* token is written only where it leaves room for the end of the string.   *)
LEMMA EmissionKeeps == BufferInv /\ Next => BufferInv'
<1> SUFFICES ASSUME BufferInv, Next PROVE BufferInv'
  OBVIOUS
<1>1. /\ expr \in Trees /\ todo \in Seq(Trees \cup Tokens)
      /\ len \in Nat /\ cap \in Nat /\ (text # << >> => len < cap)
  BY DEF BufferInv, BufferHoldsText
<1>2. todo # << >> => Head(todo) \in Trees \cup Tokens /\ Tail(todo) \in Seq(Trees \cup Tokens)
  BY <1>1
<1>3. CASE Enter
  <2>1. Head(todo) \in Trees /\ ~Refused(Head(todo))
    BY <1>2, <1>3, TokenOrTree DEF Enter, Due
  <2>2. Pieces(Head(todo)) \in Seq(Trees \cup Tokens)
    BY <2>1, PiecesAreWritable
  <2>3. todo' \in Seq(Trees \cup Tokens)
    BY <1>2, <1>3, <2>2 DEF Enter, Due
  <2> QED BY <1>1, <1>3, <2>3 DEF Enter, BufferInv, BufferHoldsText
<1>4. CASE Refuse
  BY <1>1, <1>4 DEF Refuse, BufferInv, BufferHoldsText
<1>5. CASE Grow
  <2>1. cap' \in Nat /\ cap' > cap
    BY <1>1, <1>5 DEF Grow
  <2> QED BY <1>1, <1>5, <2>1 DEF Grow, BufferInv, BufferHoldsText
<1>6. CASE Write
  <2>1. Head(todo) \in Tokens
    BY <1>2, <1>6, TokenOrTree DEF Write, Due
  <2>2. PICK w \in Nat : w = Width(Head(todo))
    BY <2>1, TokenOrTree
  <2>3. len' = len + w /\ len + w + 1 <= cap /\ cap' = cap
    BY <1>6, <2>2 DEF Write, Needed
  <2>4. todo' \in Seq(Trees \cup Tokens) /\ expr' = expr
    BY <1>2, <1>6 DEF Write, Due
  <2> QED BY <1>1, <2>3, <2>4 DEF BufferInv, BufferHoldsText
<1>7. CASE Detach
  BY <1>1, <1>7 DEF Detach, BufferInv, BufferHoldsText
<1> QED BY <1>3, <1>4, <1>5, <1>6, <1>7 DEF Next

(* In every state of an answer that has anything written, the buffer has   *)
(* room for the text and the end of the string, whatever the condition and *)
(* the widths of its tokens.                                               *)
THEOREM TextFitsTheBuffer == AnswerSpec => []BufferHoldsText
<1>1. AnswerInit => BufferInv
  <2> SUFFICES ASSUME AnswerInit PROVE BufferInv
    OBVIOUS
  <2>1. expr \in Trees
    BY ClausesAssumption, ConditionsAssumption DEF AnswerInit
  <2> QED BY <2>1 DEF AnswerInit, Start, BufferInv, BufferHoldsText
<1>2. BufferInv /\ [AnswerNext]_answervars => BufferInv'
  <2> SUFFICES ASSUME BufferInv, [AnswerNext]_answervars PROVE BufferInv'
    OBVIOUS
  <2>1. Next \/ UNCHANGED vars
    BY DEF AnswerNext, Arguments, ReturnClause, Where, EndWhere, Executed, Rendering, answervars
  <2> QED BY <2>1, EmissionKeeps DEF BufferInv, BufferHoldsText, vars
<1>3. BufferInv => BufferHoldsText
  BY DEF BufferInv
<1> QED BY <1>1, <1>2, <1>3, PTL DEF AnswerSpec
-----------------------------------------------------------------------------
(***************************************************************************)
(* What a RETURN clause refers to.                                         *)
(***************************************************************************)
Lists ==
  /\ clause.items \in Seq(ToSet(clause.items))
  /\ clause.order \in Seq(ToSet(clause.order))
  /\ binds \in Seq(ToSet(binds))

(* find_bind finds the first of the name.                                  *)
LEMMA BindIsFirst ==
  ASSUME Lists, NEW v, NEW k \in DOMAIN binds, binds[k].var = v,
         \A j \in 1..(k - 1) : binds[j].var # v
  PROVE  Bound(v) /\ Bind(v) = binds[k]
<1>1. Len(binds) \in Nat /\ DOMAIN binds = 1..Len(binds) /\ k \in 1..Len(binds)
  BY DEF Lists
<1> DEFINE I == { i \in 1..Len(binds) : binds[i].var = v }
<1>2. k \in I /\ \A i \in I : k <= i
  <2>1. ASSUME NEW i \in I PROVE k <= i
    <3>1. i \in 1..Len(binds) /\ binds[i].var = v
      OBVIOUS
    <3>2. ~(i < k)
      <4>1. i < k => i \in 1..(k - 1)
        BY <1>1, <3>1
      <4> QED BY <3>1, <4>1
    <3> QED BY <1>1, <3>1, <3>2
  <2> QED BY <1>1, <2>1
<1>3. Min(I) = k
  <2>1. \A x \in I : (\A y \in I : x <= y) => x = k
    BY <1>1, <1>2
  <2> HIDE DEF I
  <2> QED BY <1>2, <2>1 DEF Min
<1>4. SelectInSeq(binds, LAMBDA b : b.var = v) = k
  <2>1. SelectInSeq(binds, LAMBDA b : b.var = v) = IF I # {} THEN Min(I) ELSE 0
    BY DEF SelectInSeq
  <2> HIDE DEF I
  <2> QED BY <1>2, <1>3, <2>1
<1>5. Bind(v) = binds[k]
  BY <1>4 DEF Bind
<1>6. Bound(v)
  BY DEF Bound, ToSet
<1> QED BY <1>5, <1>6

(* Of the binds of a name there is a first.                                *)
LEMMA FirstExists ==
  ASSUME Lists, NEW v, Bound(v)
  PROVE  \E k \in DOMAIN binds : binds[k].var = v /\ \A j \in 1..(k - 1) : binds[j].var # v
<1>1. Len(binds) \in Nat /\ DOMAIN binds = 1..Len(binds)
  BY DEF Lists
<1> DEFINE I == { i \in 1..Len(binds) : binds[i].var = v }
<1>2. I # {}
  BY <1>1 DEF Bound, ToSet
<1>3. PICK k \in I : \A i \in I : k <= i
  <2>1. I \in SUBSET Nat
    OBVIOUS
  <2> HIDE DEF I
  <2> QED BY <1>2, <2>1, LeastNumber
<1>4. k \in 1..Len(binds) /\ binds[k].var = v
  OBVIOUS
<1>5. ASSUME NEW j \in 1..(k - 1) PROVE binds[j].var # v
  <2>1. j \in 1..Len(binds) /\ ~(k <= j)
    BY <1>1, <1>4
  <2>2. j \notin I
    <3> HIDE DEF I
    <3> QED BY <1>3, <2>1
  <2> QED BY <2>1, <2>2
<1> QED BY <1>1, <1>4, <1>5

(* An entity or property is known exactly if the clause may refer to it.   *)
LEMMA ReferenceKnown ==
  ASSUME Lists, NEW e, e.kind \in { "PROPERTY", "VARIABLE" }
  PROVE  (IF e.kind = "PROPERTY" THEN PropertyKnown(e.var, e.key) ELSE EntityKnown(e.var))
           <=> Refers(e)
<1>1. CASE \E k \in DOMAIN binds : binds[k].var = e.var /\ \A j \in 1..(k - 1) : binds[j].var # e.var
  <2>1. PICK k \in DOMAIN binds : binds[k].var = e.var /\ \A j \in 1..(k - 1) : binds[j].var # e.var
    BY <1>1
  <2>2. Bound(e.var) /\ Bind(e.var) = binds[k]
    BY <2>1, BindIsFirst
  <2>3. ASSUME NEW l \in DOMAIN binds, binds[l].var = e.var, \A j \in 1..(l - 1) : binds[j].var # e.var
        PROVE  binds[l] = binds[k]
    BY <2>2, <2>3, BindIsFirst
  <2>4. Refers(e) <=> /\ binds[k].table \in DOMAIN Columns
                      /\ e.kind = "PROPERTY" => e.key \in ToSet(Columns[binds[k].table])
    BY <2>1, <2>3 DEF Refers
  <2> QED BY <2>2, <2>4 DEF PropertyKnown, EntityKnown
<1>2. CASE ~ \E k \in DOMAIN binds : binds[k].var = e.var /\ \A j \in 1..(k - 1) : binds[j].var # e.var
  <2>1. ~Refers(e)
    BY <1>2 DEF Refers
  <2>2. ~Bound(e.var)
    BY <1>2, FirstExists
  <2> QED BY <2>1, <2>2 DEF PropertyKnown, EntityKnown
<1> QED BY <1>1, <1>2

(* What emit_property, emit_entity and emit_agg accept are the columns,    *)
(* entities and aggregates of what is understood.                          *)
LEMMA KnownIsUnderstood ==
  ASSUME Lists, NEW e
  PROVE  /\ e.kind \in { "PROPERTY", "VARIABLE", "FUNC" } =>
              (Known(e) <=> OneColumn(e) \/ WholeEntity(e) \/ Aggregates(e))
         /\ e.kind = "PROPERTY" => (Known(e) <=> OneColumn(e))
<1>1. ASSUME NEW x PROVE ValueKnown(x) <=> OneValue(x)
  <2>1. x.kind = "PROPERTY" => (PropertyKnown(x.var, x.key) <=> Refers(x))
    BY ReferenceKnown
  <2> QED BY <2>1 DEF ValueKnown, OneValue, OneColumn
<1>2. ASSUME NEW x PROVE ArgumentKnown(x) <=> \A y \in PartsOf(x) : OneValue(y)
  BY <1>1 DEF ArgumentKnown, PartsOf
<1>3. e.kind = "FUNC" => (AggKnown(e) <=> Aggregates(e))
  <2>1. DOMAIN AggSqlName = { "count", "sum", "avg", "min", "max", "collect" }
    BY DEF AggSqlName
  <2>2. ArgumentKnown(e.args[1]) <=> \A y \in PartsOf(e.args[1]) : OneValue(y)
    BY <1>2
  <2> QED BY <2>1, <2>2 DEF AggKnown, Aggregates
<1>4. e.kind = "PROPERTY" => (PropertyKnown(e.var, e.key) <=> Refers(e))
  BY ReferenceKnown
<1>5. e.kind = "VARIABLE" => (EntityKnown(e.var) <=> Refers(e))
  BY ReferenceKnown
<1> QED BY <1>3, <1>4, <1>5 DEF Known, OneColumn, WholeEntity, Aggregates
-----------------------------------------------------------------------------
(***************************************************************************)
(* Refusal.                                                                *)
(***************************************************************************)
ItemUnderstood(k) ==
  LET e == clause.items[k].expr IN OneColumn(e) \/ WholeEntity(e) \/ Aggregates(e)

SortUnderstood(k) == LET e == clause.order[k].expr IN OneColumn(e) \/ Alias(e)

Later == { "where", "order", "group", "translated", "executed" }

(* The shape, the items and the terms that are behind the translation are  *)
(* understood, the condition is written once WHERE is behind it, and what  *)
(* was rejected was so for a reason.                                       *)
RefusalInv ==
  /\ Lists
  /\ phase \in { "shape", "select", "rejected" } \cup Later
  /\ next \in Nat \ {0} /\ status \in { "emitting", "done", "failed" }
  /\ phase \in { "select" } \cup Later => Shaped
  /\ phase = "select" =>
       \A k \in 1..Len(clause.items) : k < next => ItemUnderstood(k)
  /\ phase \in Later => \A k \in 1..Len(clause.items) : ItemUnderstood(k)
  /\ phase = "order" =>
       \A k \in 1..Len(clause.order) : k < next => SortUnderstood(k)
  /\ phase \in Later \ { "where", "order" } =>
       \A k \in 1..Len(clause.order) : SortUnderstood(k)
  /\ phase \in Later \ { "where" } => status = "done"
  /\ phase = "rejected" => ~Understood \/ status = "failed"

(* What the clause may hold, part by part.                                 *)
LEMMA UnderstoodParts ==
  ASSUME Lists
  PROVE  /\ Understood => Shaped
         /\ Understood => \A k \in 1..Len(clause.items) : ItemUnderstood(k)
         /\ Understood => \A k \in 1..Len(clause.order) : SortUnderstood(k)
         /\ /\ Shaped
            /\ \A k \in 1..Len(clause.items) : ItemUnderstood(k)
            /\ \A k \in 1..Len(clause.order) : SortUnderstood(k)
            => Understood
<1>1. /\ DOMAIN clause.items = 1..Len(clause.items)
      /\ DOMAIN clause.order = 1..Len(clause.order)
  BY DEF Lists
<1>2. (\A k \in 1..Len(clause.items) : ItemUnderstood(k)) <=>
        \A item \in ToSet(clause.items) :
          OneColumn(item.expr) \/ WholeEntity(item.expr) \/ Aggregates(item.expr)
  BY <1>1 DEF ToSet, ItemUnderstood
<1>3. (\A k \in 1..Len(clause.order) : SortUnderstood(k)) <=>
        \A s \in ToSet(clause.order) : OneColumn(s.expr) \/ Alias(s.expr)
  BY <1>1 DEF ToSet, SortUnderstood
<1>4. (\A x \in { clause.skip, clause.limit } : x.given => x.int) <=>
        (clause.skip.given => clause.skip.int) /\ (clause.limit.given => clause.limit.int)
  OBVIOUS
<1>5. (\A k \in 1..Len(clause.items) : ItemUnderstood(k)) =>
        \A k \in DOMAIN clause.items :
          clause.items[k].expr.kind \in { "PROPERTY", "VARIABLE", "FUNC" }
  BY <1>1 DEF ItemUnderstood, OneColumn, WholeEntity, Aggregates
<1> QED BY <1>2, <1>3, <1>4, <1>5 DEF Understood, Shaped

(* An item or a term is emitted exactly if it is understood.               *)
LEMMA EmittedIsUnderstood ==
  ASSUME Lists, Shaped
  PROVE  /\ \A k \in 1..Len(clause.items) : Known(clause.items[k].expr) <=> ItemUnderstood(k)
         /\ next \in 1..Len(clause.order) => (SortKnown <=> SortUnderstood(next))
<1>1. ASSUME NEW k \in 1..Len(clause.items)
      PROVE  Known(clause.items[k].expr) <=> ItemUnderstood(k)
  <2>1. clause.items[k].expr.kind \in { "PROPERTY", "VARIABLE", "FUNC" }
    BY DEF Lists, Shaped
  <2> QED BY <2>1, KnownIsUnderstood DEF ItemUnderstood
<1>2. SortKnown <=> SortUnderstood(next)
  <2>1. Sort.expr.kind = "PROPERTY" => (Known(Sort.expr) <=> OneColumn(Sort.expr))
    BY KnownIsUnderstood
  <2> QED BY <2>1 DEF SortKnown, SortUnderstood, Sort, HasAlias, Alias, OneColumn
<1> QED BY <1>1, <1>2

(* The constants of the clause fix what is understood.                     *)
LEMMA SameClause ==
  ASSUME UNCHANGED << clause, binds >>
  PROVE  /\ Lists' <=> Lists
         /\ Shaped' <=> Shaped
         /\ Understood' <=> Understood
         /\ \A k : (ItemUnderstood(k)' <=> ItemUnderstood(k)) /\ (SortUnderstood(k)' <=> SortUnderstood(k))
<1>1. ASSUME NEW e PROVE (Refers(e)' <=> Refers(e)) /\ (Alias(e)' <=> Alias(e))
  BY DEF Refers, Alias
<1>2. ASSUME NEW e PROVE /\ OneColumn(e)' <=> OneColumn(e)
                         /\ WholeEntity(e)' <=> WholeEntity(e)
                         /\ OneValue(e)' <=> OneValue(e)
  BY <1>1 DEF OneColumn, WholeEntity, OneValue
<1>3. ASSUME NEW e PROVE Aggregates(e)' <=> Aggregates(e)
  BY <1>2 DEF Aggregates
<1>4. Lists' <=> Lists
  BY DEF Lists
<1>5. Shaped' <=> Shaped
  BY DEF Shaped
<1>6. \A k : (ItemUnderstood(k)' <=> ItemUnderstood(k)) /\ (SortUnderstood(k)' <=> SortUnderstood(k))
  BY <1>1, <1>2, <1>3 DEF ItemUnderstood, SortUnderstood
<1>7. Understood' <=> Understood
  BY <1>1, <1>2, <1>3 DEF Understood
<1> QED BY <1>4, <1>5, <1>6, <1>7
(* Nothing is found out at first.                                          *)
LEMMA RefusalStarts == AnswerInit => RefusalInv
<1> SUFFICES ASSUME AnswerInit PROVE RefusalInv
  OBVIOUS
<1>1. PICK in \in Inputs : clause = in.clause /\ binds = in.binds
  BY DEF AnswerInit
<1>2. Lists
  BY <1>1, ClausesAssumption DEF Lists
<1>3. phase = "shape" /\ next = 1 /\ status = "emitting"
  BY DEF AnswerInit, ReturnStart, Start
<1> QED BY <1>2, <1>3 DEF RefusalInv, Later

(* A step that leaves the clause and keeps the place and the status.       *)
LEMMA RefusalStays ==
  ASSUME RefusalInv, UNCHANGED << clause, binds, phase, next >>,
         status' = status \/ (phase = "where" /\ status' \in { "emitting", "done", "failed" })
  PROVE  RefusalInv'
<1>1. /\ Lists' <=> Lists
      /\ Shaped' <=> Shaped
      /\ Understood' <=> Understood
      /\ \A k : (ItemUnderstood(k)' <=> ItemUnderstood(k)) /\ (SortUnderstood(k)' <=> SortUnderstood(k))
  BY SameClause
<1>2. /\ status' = status \/ phase = "where"
      /\ status' \in { "emitting", "done", "failed" }
  BY DEF RefusalInv
<1> QED BY <1>1, <1>2 DEF RefusalInv, Later

(* A step of the translation of the clause.                                *)
LEMMA ClauseStepKeeps ==
  ASSUME RefusalInv, Translation, UNCHANGED vars
  PROVE  RefusalInv'
<1>1. status' = status /\ clause' = clause /\ binds' = binds
  BY DEF Translation, CheckShape, EmitItem, EndSelect, EmitSort, EndOrder, EmitGroup, EndGroup,
         To, Reject, given, vars
<1>2. /\ Lists' <=> Lists
      /\ Shaped' <=> Shaped
      /\ Understood' <=> Understood
      /\ \A k : (ItemUnderstood(k)' <=> ItemUnderstood(k)) /\ (SortUnderstood(k)' <=> SortUnderstood(k))
  BY <1>1, SameClause
<1>3. /\ Lists /\ next \in Nat \ {0}
      /\ Len(clause.items) \in Nat /\ Len(clause.order) \in Nat
  BY DEF RefusalInv, Lists
<1>4. CASE CheckShape
  <2>1. CASE Shaped
    <3>1. phase = "shape" /\ phase' = "select" /\ next' = 1
      BY <1>4, <2>1 DEF CheckShape, To
    <3> QED BY <1>1, <1>2, <1>3, <2>1, <3>1 DEF RefusalInv, Later
  <2>2. CASE ~Shaped
    <3>1. phase' = "rejected" /\ next' = next
      BY <1>4, <2>2 DEF CheckShape, Reject
    <3>2. ~Understood
      BY <1>3, <2>2, UnderstoodParts
    <3> QED BY <1>1, <1>2, <1>3, <3>1, <3>2 DEF RefusalInv, Later
  <2> QED BY <2>1, <2>2
<1>5. CASE EmitItem
  <2>1. /\ phase = "select" /\ Shaped /\ next \in 1..Len(clause.items)
        /\ Known(Item.expr) <=> ItemUnderstood(next)
    <3>1. phase = "select" /\ next <= Len(clause.items)
      BY <1>5 DEF EmitItem
    <3>2. Shaped /\ next \in 1..Len(clause.items)
      BY <1>3, <3>1 DEF RefusalInv
    <3> QED BY <1>3, <3>1, <3>2, EmittedIsUnderstood DEF Item
  <2>2. CASE Known(Item.expr)
    <3>1. phase' = "select" /\ next' = next + 1
      BY <1>5, <2>1, <2>2 DEF EmitItem
    <3>2. \A k \in 1..Len(clause.items) : k < next + 1 => ItemUnderstood(k)
      <4>1. \A k \in 1..Len(clause.items) : k < next + 1 => k < next \/ k = next
        BY <1>3
      <4> QED BY <2>1, <2>2, <4>1 DEF RefusalInv
    <3> QED BY <1>1, <1>2, <1>3, <2>1, <3>1, <3>2 DEF RefusalInv, Later
  <2>3. CASE ~Known(Item.expr)
    <3>1. phase' = "rejected" /\ next' = next
      BY <1>5, <2>3 DEF EmitItem, Reject
    <3>2. ~Understood
      BY <1>3, <2>1, <2>3, UnderstoodParts
    <3> QED BY <1>1, <1>2, <1>3, <3>1, <3>2 DEF RefusalInv, Later
  <2> QED BY <2>2, <2>3
<1>6. CASE EndSelect
  <2>1. phase = "select" /\ phase' = "where" /\ next' = 1 /\ next > Len(clause.items)
    BY <1>6 DEF EndSelect, To
  <2>2. \A k \in 1..Len(clause.items) : ItemUnderstood(k)
    <3>1. \A k \in 1..Len(clause.items) : k < next
      BY <1>3, <2>1
    <3> QED BY <2>1, <3>1 DEF RefusalInv
  <2> QED BY <1>1, <1>2, <1>3, <2>1, <2>2 DEF RefusalInv, Later
<1>7. CASE EmitSort
  <2>1. /\ phase = "order" /\ Shaped /\ next \in 1..Len(clause.order)
        /\ SortKnown <=> SortUnderstood(next)
    <3>1. phase = "order" /\ next <= Len(clause.order)
      BY <1>7 DEF EmitSort
    <3>2. Shaped /\ next \in 1..Len(clause.order)
      BY <1>3, <3>1 DEF RefusalInv, Later
    <3> QED BY <1>3, <3>1, <3>2, EmittedIsUnderstood
  <2>2. CASE SortKnown
    <3>1. phase' = "order" /\ next' = next + 1
      BY <1>7, <2>1, <2>2 DEF EmitSort
    <3>2. \A k \in 1..Len(clause.order) : k < next + 1 => SortUnderstood(k)
      <4>1. \A k \in 1..Len(clause.order) : k < next + 1 => k < next \/ k = next
        BY <1>3
      <4> QED BY <2>1, <2>2, <4>1 DEF RefusalInv
    <3> QED BY <1>1, <1>2, <1>3, <2>1, <3>1, <3>2 DEF RefusalInv, Later
  <2>3. CASE ~SortKnown
    <3>1. phase' = "rejected" /\ next' = next
      BY <1>7, <2>3 DEF EmitSort, Reject
    <3>2. ~Understood
      BY <1>3, <2>1, <2>3, UnderstoodParts
    <3> QED BY <1>1, <1>2, <1>3, <3>1, <3>2 DEF RefusalInv, Later
  <2> QED BY <2>2, <2>3
<1>8. CASE EndOrder
  <2>1. phase = "order" /\ phase' = "group" /\ next' = 1 /\ next > Len(clause.order)
    BY <1>8 DEF EndOrder, To
  <2>2. \A k \in 1..Len(clause.order) : SortUnderstood(k)
    <3>1. \A k \in 1..Len(clause.order) : k < next
      BY <1>3, <2>1
    <3> QED BY <2>1, <3>1 DEF RefusalInv
  <2> QED BY <1>1, <1>2, <1>3, <2>1, <2>2 DEF RefusalInv, Later
<1>9. CASE EmitGroup
  <2>1. phase = "group" /\ phase' = "group" /\ next' = next + 1
    BY <1>9 DEF EmitGroup
  <2> QED BY <1>1, <1>2, <1>3, <2>1 DEF RefusalInv, Later
<1>10. CASE EndGroup
  <2>1. phase = "group" /\ phase' = "translated" /\ next' = 1
    BY <1>10 DEF EndGroup, To
  <2> QED BY <1>1, <1>2, <1>3, <2>1 DEF RefusalInv, Later
<1> QED BY <1>4, <1>5, <1>6, <1>7, <1>8, <1>9, <1>10 DEF Translation

(* A step of an answer keeps what was found out about its query.           *)
LEMMA RefusalKept == RefusalInv /\ [AnswerNext]_answervars => RefusalInv'
<1> SUFFICES ASSUME RefusalInv, [AnswerNext]_answervars PROVE RefusalInv'
  OBVIOUS
<1>1. CASE Arguments
  <2>1. UNCHANGED << clause, binds, phase, next, status >>
    BY <1>1 DEF Arguments, vars, retvars
  <2> QED BY <2>1, RefusalStays
<1>2. CASE ReturnClause
  BY <1>2, ClauseStepKeeps DEF ReturnClause
<1>3. CASE Where
  <2>1. UNCHANGED << clause, binds, phase, next >> /\ phase = "where" /\ Next
    BY <1>3 DEF Where, retvars
  <2>2. status' \in { "emitting", "done", "failed" }
    BY <2>1 DEF Next, Enter, Refuse, Grow, Write, Detach, Due, RefusalInv
  <2> QED BY <2>1, <2>2, RefusalStays
<1>4. CASE EndWhere
  <2>1. /\ phase = "where" /\ UNCHANGED << clause, binds, status >> /\ status # "emitting"
        /\ IF status = "done" THEN phase' = "order" /\ next' = 1
           ELSE phase' = "rejected" /\ next' = next
    BY <1>4 DEF EndWhere, To, Reject, given, vars
  <2>2. /\ Lists' <=> Lists
        /\ Shaped' <=> Shaped
        /\ Understood' <=> Understood
        /\ \A k : (ItemUnderstood(k)' <=> ItemUnderstood(k)) /\ (SortUnderstood(k)' <=> SortUnderstood(k))
    BY <2>1, SameClause
  <2>3. status # "done" => status = "failed"
    BY <2>1 DEF RefusalInv
  <2> QED BY <2>1, <2>2, <2>3 DEF RefusalInv, Later
<1>5. CASE Executed
  <2>1. /\ phase = "translated" /\ phase' = "executed"
        /\ UNCHANGED << clause, binds, next, status >>
    BY <1>5 DEF Executed, Execute, given, vars
  <2>2. /\ Lists' <=> Lists
        /\ Shaped' <=> Shaped
        /\ \A k : (ItemUnderstood(k)' <=> ItemUnderstood(k)) /\ (SortUnderstood(k)' <=> SortUnderstood(k))
    BY <2>1, SameClause
  <2> QED BY <2>1, <2>2 DEF RefusalInv, Later
<1>6. CASE Rendering
  <2>1. UNCHANGED << clause, binds, phase, next, status >>
    BY <1>6 DEF Rendering, vars, retvars
  <2> QED BY <2>1, RefusalStays
<1>7. CASE UNCHANGED answervars
  <2>1. UNCHANGED << clause, binds, phase, next, status >>
    BY <1>7 DEF answervars, vars, retvars
  <2> QED BY <2>1, RefusalStays
<1> QED BY <1>1, <1>2, <1>3, <1>4, <1>5, <1>6, <1>7 DEF AnswerNext

(* Whatever the catalog, the conditions and the RETURN clauses, a query    *)
(* that is translated is one that is understood, with its condition in the *)
(* statement, and one that is refused has a part outside of what is        *)
(* understood or a condition that could not be written.                    *)
THEOREM RefusalExact == AnswerSpec => []RefusesExactly
<1>1. AnswerInit => RefusalInv
  BY RefusalStarts
<1>2. RefusalInv /\ [AnswerNext]_answervars => RefusalInv'
  BY RefusalKept
<1>3. RefusalInv => RefusesExactly
  <2>1. ASSUME RefusalInv, phase = "translated" PROVE Understood /\ status = "done"
    BY <2>1, UnderstoodParts DEF RefusalInv, Later
  <2> QED BY <2>1 DEF RefusesExactly, RefusalInv
<1> QED BY <1>1, <1>2, <1>3, PTL DEF AnswerSpec
-----------------------------------------------------------------------------
(***************************************************************************)
(* What a pattern matches.                                                 *)
(***************************************************************************)
(* A position in joined sequences belongs to one of them: ends gives the   *)
(* lengths of what is joined so far.                                       *)
Ends(ends, seqs, flat) ==
  /\ ends \in [ 0..Len(seqs) -> Nat ]
  /\ ends[0] = 0 /\ ends[Len(seqs)] = Len(flat)
  /\ \A k \in 1..Len(seqs) :
       /\ ends[k] = ends[k - 1] + Len(seqs[k])
       /\ \A i \in 1..Len(seqs[k]) : flat[ends[k - 1] + i] = seqs[k][i]

(* Where the elements of two joined sequences stand.                       *)
LEMMA TwoJoined ==
  ASSUME NEW T, NEW a \in Seq(T), NEW b \in Seq(T)
  PROVE  /\ Len(a \o b) = Len(a) + Len(b) /\ Len(a) \in Nat /\ Len(b) \in Nat
         /\ \A i \in 1..Len(a) : (a \o b)[i] = a[i]
         /\ \A i \in 1..Len(b) : (a \o b)[Len(a) + i] = b[i]
  OBVIOUS

(* Joined sequences have such ends.                                        *)
LEMMA FlatEnds ==
  ASSUME NEW T, NEW seqs \in Seq(Seq(T))
  PROVE  \E ends : Ends(ends, seqs, FlattenSeq(seqs))
<1> DEFINE n == Len(seqs)
<1>1. n \in Nat /\ \A k \in 1..n : seqs[k] \in Seq(T)
  OBVIOUS
<1>2. CASE n = 0
  <2> DEFINE e == [ k \in 0..0 |-> 0 ]
  <2>1. seqs = << >> /\ FlattenSeq(seqs) = << >>
    BY <1>2 DEF FlattenSeq
  <2>2. Ends(e, seqs, FlattenSeq(seqs))
    BY <2>1 DEF Ends
  <2> QED BY <2>2
<1>3. CASE n # 0
  <2> DEFINE f == CHOOSE g : Joins(g, seqs, n)
  <2>1. Joins(f, seqs, n)
    BY <1>1, JoinExists
  <2>2. FlattenSeq(seqs) = f[n]
    BY <1>3 DEF FlattenSeq, Joins
  <2> HIDE DEF f
  <2>3. \A i \in 1..n : f[i] = IF i = 1 THEN seqs[i] ELSE f[i - 1] \o seqs[i]
    BY <2>1 DEF Joins
  <2> HIDE DEF n
  <2>4. \A i \in 1..n : f[i] \in Seq(T)
    <3> DEFINE Wrong == { i \in 1..n : f[i] \notin Seq(T) }
    <3>1. SUFFICES ASSUME Wrong # {} PROVE FALSE
      OBVIOUS
    <3>2. PICK k \in Wrong : \A l \in Wrong : k <= l
      <4>1. Wrong \in SUBSET Nat
        BY <1>1
      <4> HIDE DEF Wrong
      <4> QED BY <3>1, <4>1, LeastNumber
    <3>3. k # 1 => k - 1 \in 1..n /\ f[k - 1] \in Seq(T)
      <4>1. k # 1 => k - 1 \in 1..n /\ ~(k <= k - 1)
        BY <1>1
      <4> QED BY <3>2, <4>1
    <3>4. k \in 1..n /\ f[k] \notin Seq(T) /\ seqs[k] \in Seq(T)
      BY <1>1
    <3>5. k # 1 => f[k - 1] \o seqs[k] \in Seq(T)
      BY <3>3, <3>4
    <3>6. f[k] = IF k = 1 THEN seqs[k] ELSE f[k - 1] \o seqs[k]
      BY <2>3, <3>4
    <3> HIDE DEF Wrong
    <3> QED BY ONLY <3>4, <3>5, <3>6
  <2> DEFINE e == [ k \in 0..n |-> IF k = 0 THEN 0 ELSE Len(f[k]) ]
  <2>5. ASSUME NEW k \in 1..n
        PROVE  /\ e[k] = e[k - 1] + Len(seqs[k])
               /\ \A i \in 1..Len(seqs[k]) : e[k - 1] + i \in 1..Len(f[k]) /\ f[k][e[k - 1] + i] = seqs[k][i]
               /\ k # 1 => \A i \in 1..Len(f[k - 1]) : i \in 1..Len(f[k]) /\ f[k][i] = f[k - 1][i]
    <3>1. k - 1 \in 0..n /\ (k # 1 => k - 1 \in 1..n) /\ (k - 1 = 0 <=> k = 1)
      BY <1>1
    <3>2. e[k] = Len(f[k]) /\ e[k - 1] = IF k = 1 THEN 0 ELSE Len(f[k - 1])
      BY <1>1, <3>1
    <3> HIDE DEF e
    <3>3. CASE k = 1
      <4>1. f[k] = seqs[k] /\ Len(seqs[k]) \in Nat
        BY <1>1, <2>3, <3>3
      <4> QED BY ONLY <3>2, <3>3, <4>1
    <3>4. CASE k # 1
      <4>1. f[k - 1] \in Seq(T) /\ seqs[k] \in Seq(T) /\ f[k] = f[k - 1] \o seqs[k]
        BY <1>1, <2>3, <2>4, <3>1, <3>4
      <4>2. PICK a \in Seq(T), b \in Seq(T) : a = f[k - 1] /\ b = seqs[k] /\ f[k] = a \o b
        BY <4>1
      <4>3. PICK c : c = a \o b
        OBVIOUS
      <4>4. /\ Len(c) = Len(a) + Len(b) /\ Len(a) \in Nat /\ Len(b) \in Nat
            /\ \A i \in 1..Len(a) : c[i] = a[i]
            /\ \A i \in 1..Len(b) : c[Len(a) + i] = b[i]
        BY <4>3, TwoJoined
      <4>5. e[k] = Len(c) /\ e[k - 1] = Len(a) /\ f[k] = c /\ f[k - 1] = a /\ seqs[k] = b
        BY <3>2, <3>4, <4>2, <4>3
      <4> QED BY ONLY <3>4, <4>4, <4>5
    <3> QED BY <3>3, <3>4
  <2>6. e[0] = 0 /\ e[n] = Len(f[n]) /\ e \in [ 0..n -> Nat ]
    <3>1. \A k \in 1..n : Len(f[k]) \in Nat
      BY <2>4
    <3> QED BY ONLY <1>1, <1>3, <3>1
  <2> HIDE DEF e
  <2>7. \A k \in 1..n : \A i \in 1..Len(f[k]) : i \in 1..Len(f[n]) /\ f[n][i] = f[k][i]
    <3> DEFINE Keeps(m) == \A k \in 1..m : \A i \in 1..Len(f[k]) : i \in 1..Len(f[m]) /\ f[m][i] = f[k][i]
               Wrong == { m \in 1..n : ~ Keeps(m) }
    <3>1. SUFFICES ASSUME Wrong # {} PROVE FALSE
      <4>1. n \in 1..n
        BY ONLY <1>1, <1>3
      <4> HIDE DEF Keeps
      <4>2. ~(Wrong # {}) => Keeps(n)
        BY <4>1
      <4> QED BY <4>2 DEF Keeps
    <3>2. PICK m \in Wrong : \A l \in Wrong : m <= l
      <4>1. Wrong \in SUBSET Nat
        BY <1>1
      <4> HIDE DEF Wrong
      <4> QED BY <3>1, <4>1, LeastNumber
    <3>3. m \in 1..n /\ ~ Keeps(m)
      OBVIOUS
    <3>4. m # 1 => m - 1 \in 1..n /\ Keeps(m - 1)
      <4>1. m # 1 => m - 1 \in 1..n /\ ~(m <= m - 1)
        BY <1>1
      <4> HIDE DEF Keeps
      <4> QED BY <3>2, <4>1
    <3>5. ASSUME NEW k \in 1..m, NEW i \in 1..Len(f[k])
          PROVE  i \in 1..Len(f[m]) /\ f[m][i] = f[k][i]
      <4>1. CASE k = m
        BY <4>1
      <4>2. CASE k # m
        <5>1. m # 1 /\ k \in 1..(m - 1)
          BY <1>1, <3>3, <4>2
        <5>2. i \in 1..Len(f[m - 1]) /\ f[m - 1][i] = f[k][i]
          BY <3>4, <5>1
        <5> QED BY <2>5, <3>3, <5>1, <5>2
      <4> QED BY <4>1, <4>2
    <3> QED BY <3>3, <3>5
  <2>8. ASSUME NEW k \in 1..n, NEW i \in 1..Len(seqs[k]) PROVE f[n][e[k - 1] + i] = seqs[k][i]
    BY <2>5, <2>7
  <2>9. Ends(e, seqs, f[n])
    BY <2>5, <2>6, <2>8 DEF Ends, n
  <2> QED BY <2>2, <2>9
<1> QED BY <1>2, <1>3

(* What is left of a quoted literal from its character i on, when rest     *)
(* says what is left further on.                                           *)
Left(q, rest, i) ==
  IF i >= Len(q) THEN << >>
  ELSE IF q[i] = Quote THEN << Quote >> \o rest[i + 2]
  ELSE << q[i] >> \o rest[i + 1]

Reads(rest, q, first) == rest = [ i \in first..(Len(q) + 1) |-> Left(q, rest, i) ]

(* There is such a function from any position on: of the positions without *)
(* one, the last would have one, made from that of the next.               *)
LEMMA ReadingExists ==
  ASSUME NEW q, Len(q) \in Nat, NEW first \in 1..(Len(q) + 1)
  PROVE  \E rest : Reads(rest, q, first)
<1> DEFINE n == Len(q) + 1
           Missing == { d \in 0..n : n - d \in 1..n /\ ~ \E rest : Reads(rest, q, n - d) }
<1>1. SUFFICES ASSUME Missing # {} PROVE FALSE
  <2>1. n - first \in 0..n /\ n - (n - first) = first
    OBVIOUS
  <2>2. first \in 1..n
    OBVIOUS
  <2> HIDE DEF n
  <2> QED BY <2>1, <2>2
<1>2. PICK d \in Missing : \A l \in Missing : d <= l
  <2>1. Missing \in SUBSET Nat
    OBVIOUS
  <2> HIDE DEF Missing
  <2> QED BY <1>1, <2>1, LeastNumber
<1> DEFINE m == n - d
<1>3. d \in 0..n /\ m \in 1..n /\ ~ \E rest : Reads(rest, q, m)
  OBVIOUS
<1>4. \E f : \A i \in (m + 1)..n : f[i] = Left(q, f, i)
  <2>1. CASE d = 0
    <3>1. (m + 1)..n = {}
      BY <2>1
    <3> QED BY ONLY <3>1
  <2>2. CASE d # 0
    <3>1. d - 1 \in 0..n /\ n - (d - 1) = m + 1 /\ m + 1 \in 1..n /\ ~(d <= d - 1)
      BY <1>3, <2>2
    <3>2. \E rest : Reads(rest, q, m + 1)
      <4> HIDE DEF m, n
      <4> QED BY <1>2, <3>1
    <3> HIDE DEF m
    <3> QED BY <3>2 DEF Reads
  <2> QED BY <2>1, <2>2
<1>5. PICK f : \A i \in (m + 1)..n : f[i] = Left(q, f, i)
  BY <1>4
<1> DEFINE g == [ i \in m..n |-> IF i = m THEN Left(q, f, m) ELSE f[i] ]
<1>6. m \in Int /\ n \in Int /\ m <= n /\ n = Len(q) + 1
  BY <1>3
<1>7. ASSUME NEW i \in m..n PROVE g[i] = Left(q, g, i)
  <2>1. i < Len(q) => i + 1 \in (m + 1)..n /\ i + 2 \in (m + 1)..n
    BY <1>6
  <2>2. i # m => i \in (m + 1)..n
    BY <1>6
  <2>3. \A j \in (m + 1)..n : g[j] = f[j]
    BY <1>6
  <2>4. i \in Int /\ (~(i >= Len(q)) => i < Len(q))
    BY <1>6
  <2>5. Left(q, g, i) = Left(q, f, i)
    <3> HIDE DEF g, m, n
    <3> QED BY <2>1, <2>3, <2>4 DEF Left
  <2>6. g[i] = Left(q, f, i)
    <3>1. g[i] = IF i = m THEN Left(q, f, m) ELSE f[i]
      OBVIOUS
    <3> HIDE DEF g, m, n
    <3> QED BY <1>5, <2>2, <3>1
  <2> QED BY <2>5, <2>6
<1>8. g = [ i \in m..n |-> Left(q, g, i) ]
  <2> DEFINE h == [ i \in m..n |-> Left(q, g, i) ]
  <2>1. \A i \in m..n : g[i] = h[i]
    BY <1>7
  <2>2. DOMAIN g = DOMAIN h
    OBVIOUS
  <2> QED BY <2>1, <2>2, Zenon
<1> HIDE DEF g, m
<1> QED BY <1>3, <1>8 DEF Reads

(* Where in s the pattern p from its place j on may start, when from says  *)
(* it of the places further on.                                            *)
Is(s, i, c) == i <= Len(s) /\ s[i] = c

StartsAt(s, p, from, j) ==
  IF j > Len(p) THEN { Len(s) + 1 }
  ELSE { i \in 1..(Len(s) + 1) :
           CASE p[j] = "%" -> \E k \in from[j + 1] : i <= k
             [] p[j] = "_" -> i + 1 \in from[j + 1]
             [] p[j] = Escape -> j < Len(p) /\ Is(s, i, p[j + 1]) /\ i + 1 \in from[j + 2]
             [] OTHER -> Is(s, i, p[j]) /\ i + 1 \in from[j + 1] }

StartsFrom(from, s, p, first) == from = [ j \in first..(Len(p) + 1) |-> StartsAt(s, p, from, j) ]

(* There are such places, from any place of the pattern on, in the same    *)
(* way.                                                                    *)
LEMMA StartsExists ==
  ASSUME NEW s, NEW p, Len(p) \in Nat, NEW first \in 1..(Len(p) + 1)
  PROVE  \E from : StartsFrom(from, s, p, first)
<1> DEFINE n == Len(p) + 1
           Missing == { d \in 0..n : n - d \in 1..n /\ ~ \E from : StartsFrom(from, s, p, n - d) }
<1>1. SUFFICES ASSUME Missing # {} PROVE FALSE
  <2>1. n - first \in 0..n /\ n - (n - first) = first
    OBVIOUS
  <2>2. first \in 1..n
    OBVIOUS
  <2> HIDE DEF n
  <2> QED BY <2>1, <2>2
<1>2. PICK d \in Missing : \A l \in Missing : d <= l
  <2>1. Missing \in SUBSET Nat
    OBVIOUS
  <2> HIDE DEF Missing
  <2> QED BY <1>1, <2>1, LeastNumber
<1> DEFINE m == n - d
<1>3. d \in 0..n /\ m \in 1..n /\ ~ \E from : StartsFrom(from, s, p, m)
  OBVIOUS
<1>4. \E f : \A j \in (m + 1)..n : f[j] = StartsAt(s, p, f, j)
  <2>1. CASE d = 0
    <3>1. (m + 1)..n = {}
      BY <2>1
    <3> QED BY ONLY <3>1
  <2>2. CASE d # 0
    <3>1. d - 1 \in 0..n /\ n - (d - 1) = m + 1 /\ m + 1 \in 1..n /\ ~(d <= d - 1)
      BY <1>3, <2>2
    <3>2. \E from : StartsFrom(from, s, p, m + 1)
      <4> HIDE DEF m, n
      <4> QED BY <1>2, <3>1
    <3> HIDE DEF m
    <3> QED BY <3>2 DEF StartsFrom
  <2> QED BY <2>1, <2>2
<1>5. PICK f : \A j \in (m + 1)..n : f[j] = StartsAt(s, p, f, j)
  BY <1>4
<1> DEFINE g == [ j \in m..n |-> IF j = m THEN StartsAt(s, p, f, m) ELSE f[j] ]
<1>6. m \in Int /\ n \in Int /\ m <= n /\ n = Len(p) + 1
  BY <1>3
<1>7. ASSUME NEW j \in m..n PROVE g[j] = StartsAt(s, p, g, j)
  <2>1. /\ ~(j > Len(p)) => j + 1 \in (m + 1)..n
        /\ j < Len(p) => j + 2 \in (m + 1)..n
    BY <1>6
  <2>2. j # m => j \in (m + 1)..n
    BY <1>6
  <2>3. \A k \in (m + 1)..n : g[k] = f[k]
    BY <1>6
  <2>4. StartsAt(s, p, g, j) = StartsAt(s, p, f, j)
    <3> HIDE DEF g, m, n
    <3>1. ~(j > Len(p)) => g[j + 1] = f[j + 1]
      BY <2>1, <2>3
    <3>2. j < Len(p) => g[j + 2] = f[j + 2]
      BY <2>1, <2>3
    <3>3. CASE j > Len(p)
      BY <3>3 DEF StartsAt
    <3>4. CASE ~(j > Len(p)) /\ ~(j < Len(p))
      BY ONLY <3>4, <3>1 DEF StartsAt
    <3>5. CASE j < Len(p) /\ ~(j > Len(p))
      BY ONLY <3>5, <3>1, <3>2 DEF StartsAt
    <3> QED BY <3>3, <3>4, <3>5
  <2>5. g[j] = StartsAt(s, p, f, j)
    <3>1. g[j] = IF j = m THEN StartsAt(s, p, f, m) ELSE f[j]
      OBVIOUS
    <3> HIDE DEF g, m, n
    <3> QED BY <1>5, <2>2, <3>1
  <2> QED BY <2>4, <2>5
<1>8. g = [ j \in m..n |-> StartsAt(s, p, g, j) ]
  <2> DEFINE h == [ j \in m..n |-> StartsAt(s, p, g, j) ]
  <2>1. \A j \in m..n : g[j] = h[j]
    BY <1>7
  <2>2. DOMAIN g = DOMAIN h
    OBVIOUS
  <2> QED BY <2>1, <2>2, Zenon
<1> HIDE DEF g, m
<1> QED BY <1>3, <1>8 DEF StartsFrom

(* Matches asks whether the first place may start at the start of s.       *)
LEMMA MatchesByStarts ==
  ASSUME NEW s, NEW p, Len(p) \in Nat
  PROVE  \E from : /\ \A j \in 1..(Len(p) + 1) : from[j] = StartsAt(s, p, from, j)
                   /\ Matches(s, p) <=> 1 \in from[1]
<1> DEFINE f == CHOOSE from : StartsFrom(from, s, p, 1)
<1>1. StartsFrom(f, s, p, 1)
  <2>1. 1 \in 1..(Len(p) + 1)
    OBVIOUS
  <2>2. \E from : StartsFrom(from, s, p, 1)
    BY <2>1, StartsExists
  <2> QED BY <2>2
<1>2. Matches(s, p) <=> 1 \in f[1]
  BY DEF Matches, StartsFrom, StartsAt, Is
<1> HIDE DEF f
<1>3. \A j \in 1..(Len(p) + 1) : f[j] = StartsAt(s, p, f, j)
  BY <1>1 DEF StartsFrom
<1> QED BY <1>2, <1>3

(* Unquoted is what is left behind the first quote.                        *)
LEMMA UnquotedByReading ==
  ASSUME NEW q, Len(q) \in Nat, Len(q) >= 1
  PROVE  \E rest : /\ \A i \in 2..(Len(q) + 1) : rest[i] = Left(q, rest, i)
                   /\ Unquoted(q) = rest[2]
<1> DEFINE f == CHOOSE rest : Reads(rest, q, 2)
<1>1. Reads(f, q, 2)
  <2>1. 2 \in 1..(Len(q) + 1)
    OBVIOUS
  <2>2. \E rest : Reads(rest, q, 2)
    BY <2>1, ReadingExists
  <2> QED BY <2>2
<1>2. Unquoted(q) = f[2]
  BY DEF Unquoted, Reads, Left
<1> HIDE DEF f
<1>3. \A i \in 2..(Len(q) + 1) : f[i] = Left(q, f, i)
  BY <1>1 DEF Reads
<1> QED BY <1>2, <1>3

(* What is left of a sequence from k on starts with its k.                 *)
LEMMA FromHere ==
  ASSUME NEW T, NEW s \in Seq(T), NEW k \in 1..Len(s)
  PROVE  SubSeq(s, k, Len(s)) = << s[k] >> \o SubSeq(s, k + 1, Len(s))
  OBVIOUS

(* A quoted literal reads back as itself: from the first character of its  *)
(* k-th part on, what is left is the literal from k on.                    *)
LEMMA UnquotedIsLiteral ==
  ASSUME NEW s \in Seq(Letters)
  PROVE  Unquoted(Quoted(s)) = s
<1> DEFINE n == Len(s)
           parts == [ k \in 1..n |-> IF s[k] = Quote THEN << Quote, Quote >> ELSE << s[k] >> ]
           flat == FlattenSeq(parts)
           q == Quoted(s)
<1>1. n \in Nat /\ \A k \in 1..n : s[k] \in Letters
  OBVIOUS
<1>2. Quote \in Letters
  BY DEF Letters
<1>3. parts \in Seq(Seq(Letters)) /\ Len(parts) = n
  BY <1>1, <1>2
<1>4. \A k \in 1..n : IF s[k] = Quote
                      THEN Len(parts[k]) = 2 /\ parts[k][1] = Quote
                      ELSE Len(parts[k]) = 1 /\ parts[k][1] = s[k]
  OBVIOUS
<1> HIDE DEF parts
<1>5. flat \in Seq(Letters)
  BY <1>3, FlatIsSequence
<1>6. PICK ends : Ends(ends, parts, flat)
  BY <1>3, FlatEnds
<1>7. q = << Quote >> \o flat \o << Quote >>
  BY DEF Quoted, parts
<1> HIDE DEF flat, q
<1>8. PICK lf \in Nat : lf = Len(flat)
  BY <1>5
<1>9. /\ q \in Seq(Letters) /\ Len(q) = lf + 2
      /\ \A i \in 1..lf : q[i + 1] = flat[i]
  BY <1>2, <1>5, <1>7, <1>8
<1>10. /\ ends \in [ 0..n -> Nat ] /\ ends[0] = 0 /\ ends[n] = lf
       /\ \A k \in 1..n : /\ ends[k] = ends[k - 1] + Len(parts[k])
                          /\ \A i \in 1..Len(parts[k]) : flat[ends[k - 1] + i] = parts[k][i]
  BY <1>3, <1>6, <1>8 DEF Ends
<1> HIDE DEF n
<1>11. PICK rest : /\ \A i \in 2..(Len(q) + 1) : rest[i] = Left(q, rest, i)
                   /\ Unquoted(q) = rest[2]
  BY <1>9, UnquotedByReading
<1> DEFINE Right(k) == ends[k - 1] \in 0..lf /\ rest[2 + ends[k - 1]] = SubSeq(s, k, n)
<1>12. Right(n + 1)
  <2>1. SUFFICES ASSUME NEW k, k = n + 1 PROVE Right(k)
    BY Zenon
  <2>2. k - 1 = n
    BY <1>1, <2>1
  <2>3. 2 + lf \in 2..(Len(q) + 1) /\ 2 + lf >= Len(q)
    BY ONLY <1>9, lf \in Nat
  <2>4. Left(q, rest, 2 + lf) = << >>
    BY <2>3 DEF Left
  <2>5. rest[2 + lf] = << >>
    BY <1>11, <2>3, <2>4
  <2>6. SubSeq(s, k, n) = << >>
    BY <1>1, <2>1
  <2>7. lf \in 0..lf
    BY ONLY lf \in Nat
  <2>8. ends[k - 1] = lf
    BY <1>10, <2>2
  <2> QED BY <2>5, <2>6, <2>7, <2>8
<1>13. ASSUME NEW k \in 1..n, Right(k + 1) PROVE Right(k)
  <2>1. k - 1 \in 0..n /\ k \in 0..n /\ k + 1 - 1 = k
    BY <1>1
  <2>2. PICK a \in Nat, b \in Nat : a = ends[k - 1] /\ b = ends[k]
    BY <1>10, <2>1
  <2>3. b \in 0..lf /\ rest[2 + b] = SubSeq(s, k + 1, n)
    BY <1>13, <2>1, <2>2
  <2>4. SubSeq(s, k, n) = << s[k] >> \o SubSeq(s, k + 1, n)
    BY FromHere DEF n
  <2>5. PICK l \in {1, 2} : l = Len(parts[k])
    BY <1>4
  <2>6. b = a + l
    BY <1>10, <2>2, <2>5
  <2>7. a \in 0..lf /\ a + 1 \in 1..lf
    <3>1. b <= lf
      BY ONLY <2>3, b \in Nat, lf \in Nat
    <3> QED BY ONLY <2>6, <3>1, l \in {1, 2}, a \in Nat, b \in Nat, lf \in Nat
  <2>8. 2 + a \in 2..(Len(q) + 1) /\ ~(2 + a >= Len(q))
    <3>1. Len(q) = lf + 2
      BY <1>9
    <3> QED BY ONLY <2>7, <3>1, a \in Nat, lf \in Nat
  <2>9. q[2 + a] = parts[k][1]
    <3>1. 1 \in 1..Len(parts[k])
      <4>1. 1 \in 1..l
        BY ONLY l \in {1, 2}
      <4> QED BY ONLY <2>5, <4>1
    <3>2. flat[a + 1] = parts[k][1]
      BY <1>10, <2>2, <3>1
    <3>3. q[(a + 1) + 1] = flat[a + 1]
      BY <1>9, <2>7
    <3>4. (a + 1) + 1 = 2 + a
      BY ONLY a \in Nat
    <3> QED BY <3>2, <3>3, <3>4
  <2>10. rest[2 + a] = IF q[2 + a] = Quote THEN << Quote >> \o rest[2 + a + 2]
                       ELSE << q[2 + a] >> \o rest[2 + a + 1]
    <3>1. rest[2 + a] = Left(q, rest, 2 + a)
      BY <1>11, <2>8
    <3> QED BY <2>8, <3>1 DEF Left
  <2>11. rest[2 + a] = SubSeq(s, k, n)
    <3>1. CASE s[k] = Quote
      <4>1. l = 2
        BY <1>4, <2>5, <3>1
      <4>2. 2 + a + 2 = 2 + b
        BY ONLY <2>6, <4>1, a \in Nat, b \in Nat
      <4>3. q[2 + a] = Quote
        BY <1>4, <2>9, <3>1
      <4> QED BY ONLY <2>3, <2>4, <2>10, <3>1, <4>2, <4>3
    <3>2. CASE s[k] # Quote
      <4>1. l = 1
        BY <1>4, <2>5, <3>2
      <4>2. 2 + a + 1 = 2 + b
        BY ONLY <2>6, <4>1, a \in Nat, b \in Nat
      <4>3. q[2 + a] = s[k]
        BY <1>4, <2>9, <3>2
      <4> QED BY ONLY <2>3, <2>4, <2>10, <3>2, <4>2, <4>3
    <3> QED BY <3>1, <3>2
  <2> QED BY <2>2, <2>7, <2>11
<1>14. Right(1)
  <2> HIDE DEF Right
  <2> DEFINE Wrong == { d \in 0..n : ~ Right(n + 1 - d) }
  <2>1. Wrong = {} => Right(1)
    <3>1. n \in 0..n /\ n + 1 - n = 1
      BY <1>1
    <3> QED BY <3>1
  <2>2. SUFFICES ASSUME Wrong # {} PROVE FALSE
    BY <2>1
  <2>3. PICK d \in Wrong : \A l \in Wrong : d <= l
    <3>1. Wrong \in SUBSET Nat
      BY <1>1
    <3> HIDE DEF Wrong
    <3> QED BY <2>2, <3>1, LeastNumber
  <2>4. d \in 0..n /\ ~ Right(n + 1 - d)
    OBVIOUS
  <2>5. CASE d = 0
    <3>1. n + 1 - d = n + 1
      BY <1>1, <2>5
    <3> QED BY <1>12, <2>4, <3>1
  <2>6. CASE d # 0
    <3>1. d - 1 \in 0..n /\ ~(d <= d - 1) /\ n + 1 - d \in 1..n /\ n + 1 - (d - 1) = (n + 1 - d) + 1
      BY <1>1, <2>4, <2>6
    <3>2. Right((n + 1 - d) + 1)
      BY <2>3, <3>1
    <3> QED BY <1>13, <2>4, <3>1, <3>2
  <2> QED BY <2>5, <2>6
<1>15. rest[2] = SubSeq(s, 1, n)
  BY <1>10, <1>14
<1>16. SubSeq(s, 1, n) = s
  BY DEF n
<1> QED BY <1>11, <1>15, <1>16 DEF q

(* Where each character of a literal stands in its pattern: at[k] says     *)
(* where the k-th is, a wildcard behind its escape; after the last comes   *)
(* the % of a pattern that is open at its end.                             *)
Wild == { "%", "_", Escape }

OpenBefore(kind) == kind \in { "ENDS_WITH", "CONTAINS" }

OpenBehind(kind) == kind \in { "STARTS_WITH", "CONTAINS" }

Placed(at, p, kind, lit) ==
  /\ Len(p) \in Nat
  /\ \A k \in 1..(Len(lit) + 1) : at[k] \in 1..(Len(p) + 1)
  /\ IF OpenBefore(kind) THEN at[1] = 2 /\ p[1] = "%" ELSE at[1] = 1
  /\ IF OpenBehind(kind)
     THEN at[Len(lit) + 1] = Len(p) /\ p[Len(p)] = "%"
     ELSE at[Len(lit) + 1] = Len(p) + 1
  /\ \A k \in 1..Len(lit) :
       IF lit[k] \in Wild
       THEN at[k + 1] = at[k] + 2 /\ p[at[k]] = Escape /\ p[at[k] + 1] = lit[k]
       ELSE at[k + 1] = at[k] + 1 /\ p[at[k]] = lit[k]

(* Where the elements of three joined sequences stand.                     *)
LEMMA ThreeJoined ==
  ASSUME NEW T, NEW a \in Seq(T), NEW b \in Seq(T), NEW c \in Seq(T)
  PROVE  /\ Len(a \o b \o c) = Len(a) + Len(b) + Len(c)
         /\ \A i \in 1..Len(a) : (a \o b \o c)[i] = a[i]
         /\ \A i \in 1..Len(b) : (a \o b \o c)[Len(a) + i] = b[i]
         /\ \A i \in 1..Len(c) : (a \o b \o c)[Len(a) + Len(b) + i] = c[i]
<1> DEFINE d == a \o b
<1>1. /\ d \in Seq(T) /\ Len(d) = Len(a) + Len(b) /\ Len(a) \in Nat /\ Len(b) \in Nat
      /\ \A i \in 1..Len(a) : d[i] = a[i]
      /\ \A i \in 1..Len(b) : d[Len(a) + i] = b[i]
  OBVIOUS
<1> HIDE DEF d
<1>2. PICK f \in Seq(T) : f = d
  BY <1>1
<1>3. PICK e : e = f \o c
  OBVIOUS
<1>4. /\ Len(e) = Len(d) + Len(c) /\ Len(d) \in Nat /\ Len(c) \in Nat
      /\ \A i \in 1..Len(d) : e[i] = d[i]
      /\ \A i \in 1..Len(c) : e[Len(d) + i] = c[i]
  <2>1. /\ Len(e) = Len(f) + Len(c) /\ Len(f) \in Nat /\ Len(c) \in Nat
        /\ \A i \in 1..Len(f) : e[i] = f[i]
        /\ \A i \in 1..Len(c) : e[Len(f) + i] = c[i]
    BY <1>3, TwoJoined
  <2> QED BY <1>2, <2>1
<1>5. e = a \o b \o c
  BY <1>2, <1>3 DEF d
<1>6. /\ Len(e) = Len(a) + Len(b) + Len(c)
      /\ \A i \in 1..Len(a) : e[i] = a[i]
      /\ \A i \in 1..Len(b) : e[Len(a) + i] = b[i]
      /\ \A i \in 1..Len(c) : e[Len(a) + Len(b) + i] = c[i]
  BY ONLY <1>1, <1>4
<1> QED BY <1>5, <1>6

(* Every pattern places the characters of its literal so.                  *)
LEMMA PatternPlaced ==
  ASSUME NEW lit \in Seq(Letters), NEW kind
  PROVE  \E at : Placed(at, Pattern(kind, lit), kind, lit)
<1> DEFINE n == Len(lit)
           pre == IF OpenBefore(kind) THEN << "%" >> ELSE << >>
           post == IF OpenBehind(kind) THEN << "%" >> ELSE << >>
           parts == [ k \in 1..n |-> LikeEscaped(lit[k]) ]
           flat == FlattenSeq(parts)
           p == Pattern(kind, lit)
<1>1. n \in Nat /\ \A k \in 1..n : lit[k] \in Letters
  OBVIOUS
<1>2. Escape \in Letters /\ "%" \in Letters
  BY DEF Letters
<1>3. parts \in Seq(Seq(Letters)) /\ Len(parts) = n
  <2>1. \A k \in 1..n : LikeEscaped(lit[k]) \in Seq(Letters)
    <3> TAKE k \in 1..n
    <3>1. PICK c \in Letters : c = lit[k]
      BY <1>1
    <3>2. << c >> \in Seq(Letters) /\ << Escape, c >> \in Seq(Letters)
      BY <1>2
    <3> QED BY <3>1, <3>2 DEF LikeEscaped
  <2> QED BY <1>1, <2>1
<1>4. \A k \in 1..n : IF lit[k] \in Wild
                      THEN Len(parts[k]) = 2 /\ parts[k][1] = Escape /\ parts[k][2] = lit[k]
                      ELSE Len(parts[k]) = 1 /\ parts[k][1] = lit[k]
  BY DEF LikeEscaped, Wild
<1> HIDE DEF parts
<1>5. flat \in Seq(Letters)
  BY <1>3, FlatIsSequence
<1>6. PICK ends : Ends(ends, parts, flat)
  BY <1>3, FlatEnds
<1>7. p = pre \o flat \o post
  BY DEF Pattern, parts, OpenBefore, OpenBehind
<1> HIDE DEF flat, p
<1>8. PICK lf \in Nat : lf = Len(flat)
  BY <1>5
<1>9. pre \in Seq(Letters) /\ post \in Seq(Letters)
  BY <1>2
<1>10. PICK a \in {0, 1}, c \in {0, 1} : a = Len(pre) /\ c = Len(post)
  OBVIOUS
<1>11. /\ OpenBefore(kind) <=> a = 1
       /\ OpenBehind(kind) <=> c = 1
       /\ a = 1 => pre[1] = "%"
       /\ c = 1 => post[1] = "%"
  BY <1>10
<1> HIDE DEF pre, post
<1>12. /\ Len(p) = a + lf + c
       /\ \A i \in 1..a : p[i] = pre[i]
       /\ \A i \in 1..lf : p[a + i] = flat[i]
       /\ \A i \in 1..c : p[a + lf + i] = post[i]
  BY <1>5, <1>7, <1>8, <1>9, <1>10, ThreeJoined
<1>13. /\ ends \in [ 0..n -> Nat ] /\ ends[0] = 0 /\ ends[n] = lf
       /\ \A k \in 1..n : /\ ends[k] = ends[k - 1] + Len(parts[k])
                          /\ \A i \in 1..Len(parts[k]) : flat[ends[k - 1] + i] = parts[k][i]
  BY <1>3, <1>6, <1>8 DEF Ends
<1> HIDE DEF n
<1>14. \A k \in 0..n : ends[k] \in 0..lf
  <2> DEFINE Wrong == { d \in 0..n : ends[n - d] \notin 0..lf }
  <2>1. SUFFICES ASSUME Wrong # {} PROVE FALSE
    <3>1. \A k \in 0..n : n - k \in 0..n /\ n - (n - k) = k
      BY <1>1
    <3> QED BY <3>1
  <2>2. PICK d \in Wrong : \A l \in Wrong : d <= l
    <3>1. Wrong \in SUBSET Nat
      BY <1>1
    <3> HIDE DEF Wrong
    <3> QED BY <2>1, <3>1, LeastNumber
  <2>3. d \in 0..n /\ ends[n - d] \notin 0..lf
    OBVIOUS
  <2>4. d # 0
    <3>1. d = 0 => n - d = n
      BY <1>1
    <3>2. lf \in 0..lf
      OBVIOUS
    <3> QED BY <1>13, <2>3, <3>1, <3>2
  <2>5. PICK k \in 1..n : k = n - d + 1 /\ k - 1 = n - d /\ k = n - (d - 1)
    BY <1>1, <2>3, <2>4
  <2>6. d - 1 \in 0..n /\ ~(d <= d - 1)
    BY <1>1, <2>3, <2>4
  <2>7. ends[k] \in 0..lf
    BY <2>2, <2>5, <2>6
  <2>8. k - 1 \in 0..n /\ k \in 0..n
    BY <1>1
  <2>9. PICK x \in Nat, y \in Nat : x = ends[k - 1] /\ y = ends[k]
    BY <1>13, <2>8
  <2>10. PICK l \in {1, 2} : l = Len(parts[k])
    BY <1>4
  <2>11. y = x + l /\ y \in 0..lf
    BY <1>13, <2>7, <2>9, <2>10
  <2>12. x \in 0..lf
    BY ONLY <2>11, x \in Nat, y \in Nat, l \in {1, 2}, lf \in Nat
  <2> QED BY <2>3, <2>5, <2>9, <2>12
<1> DEFINE at == [ k \in 1..(n + 1) |-> a + ends[k - 1] + 1 ]
<1>15. ASSUME NEW k \in 1..n
       PROVE  IF lit[k] \in Wild
              THEN at[k + 1] = at[k] + 2 /\ p[at[k]] = Escape /\ p[at[k] + 1] = lit[k]
              ELSE at[k + 1] = at[k] + 1 /\ p[at[k]] = lit[k]
  <2>1. k - 1 \in 0..n /\ k \in 0..n /\ k + 1 \in 1..(n + 1) /\ k \in 1..(n + 1) /\ k + 1 - 1 = k
    BY <1>1
  <2>2. PICK x \in Nat, y \in Nat : x = ends[k - 1] /\ y = ends[k]
    BY <1>13, <2>1
  <2>3. at[k] = a + x + 1 /\ at[k + 1] = a + y + 1
    BY <2>1, <2>2
  <2>4. PICK l \in {1, 2} : l = Len(parts[k])
    BY <1>4
  <2>5. y = x + l /\ y \in 0..lf
    BY <1>13, <1>14, <2>1, <2>2, <2>4
  <2>6. ASSUME NEW i \in 1..l PROVE p[a + x + i] = parts[k][i]
    <3>1. flat[x + i] = parts[k][i]
      BY <1>13, <2>2, <2>4
    <3>2. x + i \in 1..lf /\ a + (x + i) = a + x + i
      BY ONLY <2>5, a \in {0, 1}, x \in Nat, y \in Nat, lf \in Nat, l \in {1, 2}, i \in 1..l
    <3>3. p[a + (x + i)] = flat[x + i]
      BY <1>12, <3>2
    <3> QED BY <3>1, <3>2, <3>3
  <2> HIDE DEF at
  <2>7. CASE lit[k] \in Wild
    <3>1. l = 2 /\ parts[k][1] = Escape /\ parts[k][2] = lit[k]
      BY <1>4, <2>4, <2>7
    <3>2. p[a + x + 1] = Escape /\ p[a + x + 2] = lit[k]
      BY <2>6, <3>1
    <3>3. at[k + 1] = at[k] + 2 /\ a + x + 2 = at[k] + 1
      BY ONLY <2>3, <2>5, <3>1, a \in {0, 1}, x \in Nat, y \in Nat
    <3> QED BY <2>3, <2>7, <3>2, <3>3
  <2>8. CASE lit[k] \notin Wild
    <3>1. l = 1 /\ parts[k][1] = lit[k]
      BY <1>4, <2>4, <2>8
    <3>2. p[a + x + 1] = lit[k]
      BY <2>6, <3>1
    <3>3. at[k + 1] = at[k] + 1
      BY ONLY <2>3, <2>5, <3>1, a \in {0, 1}, x \in Nat, y \in Nat
    <3> QED BY <2>3, <2>8, <3>2, <3>3
  <2> QED BY <2>7, <2>8
<1>16. \A k \in 1..(n + 1) : at[k] \in 1..(Len(p) + 1)
  <2> TAKE k \in 1..(n + 1)
  <2>1. k - 1 \in 0..n
    BY <1>1
  <2>2. PICK x \in 0..lf : x = ends[k - 1]
    BY <1>14, <2>1
  <2>3. at[k] = a + x + 1
    BY <2>2
  <2> HIDE DEF at
  <2> QED BY ONLY <1>12, <2>3, a \in {0, 1}, c \in {0, 1}, x \in 0..lf, lf \in Nat
<1>17. at[1] = a + 1 /\ at[n + 1] = a + lf + 1
  <2>1. PICK u \in 1..(n + 1), v \in 1..(n + 1) : u = 1 /\ v = n + 1
    BY <1>1
  <2>2. u - 1 = 0 /\ v - 1 = n
    BY <1>1, <2>1
  <2>3. at[u] = a + ends[u - 1] + 1 /\ at[v] = a + ends[v - 1] + 1
    OBVIOUS
  <2> HIDE DEF at
  <2>4. ends[u - 1] = 0 /\ ends[v - 1] = lf
    BY <1>13, <2>2
  <2>5. a + 0 + 1 = a + 1
    BY ONLY a \in {0, 1}
  <2> QED BY <2>1, <2>3, <2>4, <2>5
<1> HIDE DEF at
<1>18. Len(p) \in Nat
  BY ONLY <1>12, a \in {0, 1}, c \in {0, 1}, lf \in Nat
<1>19. IF OpenBefore(kind) THEN at[1] = 2 /\ p[1] = "%" ELSE at[1] = 1
  <2>1. CASE a = 1
    <3>1. p[1] = pre[1]
      BY <1>12, <2>1
    <3> QED BY <1>11, <1>17, <2>1, <3>1
  <2>2. CASE a = 0
    BY <1>11, <1>17, <2>2
  <2> QED BY <2>1, <2>2
<1>20. IF OpenBehind(kind) THEN at[n + 1] = Len(p) /\ p[Len(p)] = "%" ELSE at[n + 1] = Len(p) + 1
  <2>1. CASE c = 1
    <3>1. p[a + lf + 1] = post[1]
      BY <1>12, <2>1
    <3>2. Len(p) = a + lf + 1
      BY <1>12, <2>1
    <3> QED BY <1>11, <1>17, <2>1, <3>1, <3>2
  <2>2. CASE c = 0
    <3>1. Len(p) + 1 = a + lf + 1
      BY ONLY <1>12, <2>2, a \in {0, 1}, lf \in Nat
    <3> QED BY <1>11, <1>17, <2>2, <3>1
  <2> QED BY <2>1, <2>2
<1>21. Placed(at, p, kind, lit)
  BY <1>15, <1>16, <1>18, <1>19, <1>20 DEF Placed, n
<1> QED BY <1>21 DEF p

(* The literal from its k-th character on stands in s at i: before its end, *)
(* or just there when nothing may follow.                                  *)
Stands(s, lit, i, k, open) ==
  /\ IF open THEN i + (Len(lit) + 1 - k) <= Len(s) + 1 ELSE i + (Len(lit) + 1 - k) = Len(s) + 1
  /\ \A m \in k..Len(lit) : s[i + (m - k)] = lit[m]

(* A literal stands where its first character does, with the others behind. *)
LEMMA StandsNext ==
  ASSUME NEW s, Len(s) \in Nat, NEW lit, Len(lit) \in Nat, NEW open \in BOOLEAN,
         NEW k \in 1..Len(lit), NEW i \in 1..(Len(s) + 1)
  PROVE  Stands(s, lit, i, k, open) <=>
           i <= Len(s) /\ s[i] = lit[k] /\ i + 1 \in 1..(Len(s) + 1) /\ Stands(s, lit, i + 1, k + 1, open)
<1>1. PICK n \in Nat, z \in Nat : n = Len(lit) /\ z = Len(s)
  OBVIOUS
<1>2. k \in 1..n /\ i \in 1..(z + 1) /\ k \in Int /\ i \in Int
  BY <1>1
<1> DEFINE Room(j, l) == IF open THEN j + (n + 1 - l) <= z + 1 ELSE j + (n + 1 - l) = z + 1
           Same(j, l) == \A m \in l..n : s[j + (m - l)] = lit[m]
<1>3. /\ Stands(s, lit, i, k, open) <=> Room(i, k) /\ Same(i, k)
      /\ Stands(s, lit, i + 1, k + 1, open) <=> Room(i + 1, k + 1) /\ Same(i + 1, k + 1)
  BY <1>1 DEF Stands
<1>4. Room(i, k) <=> i <= z /\ i + 1 \in 1..(z + 1) /\ Room(i + 1, k + 1)
  <2>1. i + (n + 1 - k) = i + 1 + (n + 1 - (k + 1)) /\ n + 1 - k >= 1
    BY ONLY <1>2, n \in Nat, z \in Nat
  <2>2. Room(i, k) => i <= z /\ i + 1 \in 1..(z + 1)
    BY ONLY <1>2, <2>1, n \in Nat, z \in Nat
  <2> QED BY <2>1, <2>2
<1>5. Same(i, k) <=> s[i] = lit[k] /\ Same(i + 1, k + 1)
  <2>1. \A m \in (k + 1)..n : m \in k..n /\ i + (m - k) = i + 1 + (m - (k + 1))
    BY ONLY <1>2, n \in Nat
  <2>2. \A m \in k..n : m = k \/ m \in (k + 1)..n
    BY ONLY <1>2, n \in Nat
  <2>3. k \in k..n /\ i + (k - k) = i
    BY ONLY <1>2, n \in Nat
  <2> QED BY <2>1, <2>2, <2>3
<1> HIDE DEF Room, Same
<1> QED BY <1>1, <1>3, <1>4, <1>5

(* Prefixes, and what they say of a sequence within another one.           *)
LEMMA PrefixByElements ==
  ASSUME NEW T, NEW a \in Seq(T), NEW b \in Seq(T)
  PROVE  IsPrefix(a, b) <=> Len(a) <= Len(b) /\ \A m \in 1..Len(a) : a[m] = b[m]
<1>1. PICK x \in Nat, y \in Nat : x = Len(a) /\ y = Len(b)
  OBVIOUS
<1>2. CASE x <= y
  <2>1. /\ SubSeq(a, 1, x) \in Seq(T) /\ Len(SubSeq(a, 1, x)) = x
        /\ \A m \in 1..x : SubSeq(a, 1, x)[m] = a[m]
    BY <1>1
  <2>2. /\ SubSeq(b, 1, x) \in Seq(T) /\ Len(SubSeq(b, 1, x)) = x
        /\ \A m \in 1..x : SubSeq(b, 1, x)[m] = b[m]
    BY <1>1, <1>2
  <2>3. SubSeq(a, 1, x) = SubSeq(b, 1, x) <=> \A m \in 1..x : a[m] = b[m]
    <3>1. PICK c \in Seq(T), d \in Seq(T) : c = SubSeq(a, 1, x) /\ d = SubSeq(b, 1, x)
      BY <2>1, <2>2
    <3>2. c = d <=> \A m \in 1..x : c[m] = d[m]
      BY <2>1, <2>2, <3>1
    <3> QED BY ONLY <2>1, <2>2, <3>1, <3>2
  <2> QED BY <1>1, <1>2, <2>3 DEF IsPrefix
<1>3. CASE ~(x <= y)
  BY <1>1, <1>3 DEF IsPrefix
<1> QED BY <1>2, <1>3

(* A prefix of what follows in s stands there.                             *)
LEMMA PrefixStands ==
  ASSUME NEW T, NEW s \in Seq(T), NEW lit \in Seq(T), NEW i \in 1..(Len(s) + 1)
  PROVE  IsPrefix(lit, SubSeq(s, i, Len(s))) <=> Stands(s, lit, i, 1, TRUE)
<1>1. PICK n \in Nat, z \in Nat : n = Len(lit) /\ z = Len(s)
  OBVIOUS
<1>2. PICK t \in Seq(T) : t = SubSeq(s, i, Len(s))
  <2>1. Len(SubSeq(s, i, z)) = z + 1 - i /\ DOMAIN SubSeq(s, i, z) = 1..(z + 1 - i)
    BY <1>1
  <2>2. ASSUME NEW m \in 1..(z + 1 - i) PROVE SubSeq(s, i, z)[m] \in T
    <3>1. i + m - 1 \in 1..z
      BY <1>1
    <3>2. SubSeq(s, i, z)[m] = s[i + m - 1]
      BY <1>1
    <3> QED BY <1>1, <3>1, <3>2
  <2>3. SubSeq(s, i, z) = [ m \in 1..(z + 1 - i) |-> SubSeq(s, i, z)[m] ]
    BY <1>1
  <2>4. z + 1 - i \in Nat
    BY <1>1
  <2>5. SubSeq(s, i, z) \in Seq(T)
    <3>1. [ m \in 1..(z + 1 - i) |-> SubSeq(s, i, z)[m] ] \in [ 1..(z + 1 - i) -> T ]
      BY <2>2
    <3>2. PICK f : f = SubSeq(s, i, z)
      OBVIOUS
    <3>3. PICK l \in Nat : l = z + 1 - i
      BY <2>4
    <3>4. l = z + 1 - i /\ f = SubSeq(s, i, z)
      BY <3>2, <3>3
    <3>5. f \in [ 1..l -> T ]
      BY <2>3, <3>1, <3>4, Zenon
    <3>6. f \in Seq(T)
      BY ONLY <3>5, l \in Nat
    <3> QED BY ONLY <3>4, <3>6, Zenon
  <2> QED BY <1>1, <2>5
<1>3. Len(t) = z + 1 - i /\ \A m \in 1..Len(t) : t[m] = s[i + (m - 1)]
  <2>1. i \in Nat /\ Len(SubSeq(s, i, z)) = z + 1 - i
    BY <1>1
  <2>2. \A m \in 1..(z + 1 - i) : SubSeq(s, i, z)[m] = s[i + m - 1]
    BY <1>1
  <2>3. \A m \in 1..(z + 1 - i) : i + m - 1 = i + (m - 1)
    BY ONLY <2>1, z \in Nat
  <2>4. t = SubSeq(s, i, z)
    BY <1>1, <1>2
  <2> QED BY ONLY <2>1, <2>2, <2>3, <2>4
<1>4. i \in 1..(z + 1)
  BY <1>1
<1>5. IsPrefix(lit, t) <=> n <= Len(t) /\ \A m \in 1..n : lit[m] = t[m]
  BY <1>1, PrefixByElements
<1>6. n <= Len(t) <=> i + (n + 1 - 1) <= z + 1
  BY ONLY <1>3, <1>4, n \in Nat, z \in Nat
<1>7. n <= Len(t) => \A m \in 1..n : t[m] = s[i + (m - 1)]
  <2>1. n <= Len(t) => \A m \in 1..n : m \in 1..Len(t)
    BY ONLY <1>3, <1>4, n \in Nat, z \in Nat
  <2> QED BY <1>3, <2>1
<1> QED BY <1>1, <1>2, <1>5, <1>6, <1>7 DEF Stands

(* A suffix stands where just its length is left.                          *)
LEMMA SuffixStands ==
  ASSUME NEW T, NEW s \in Seq(T), NEW lit \in Seq(T)
  PROVE  IsSuffix(lit, s) <=> \E i \in 1..(Len(s) + 1) : Stands(s, lit, i, 1, FALSE)
<1>1. PICK n \in Nat, z \in Nat : n = Len(lit) /\ z = Len(s)
  OBVIOUS
<1>2. /\ Reverse(lit) \in Seq(T) /\ Len(Reverse(lit)) = n
      /\ \A m \in 1..n : Reverse(lit)[m] = lit[n - m + 1]
  BY <1>1 DEF Reverse
<1>3. /\ Reverse(s) \in Seq(T) /\ Len(Reverse(s)) = z
      /\ \A m \in 1..z : Reverse(s)[m] = s[z - m + 1]
  BY <1>1 DEF Reverse
<1>4. PICK a \in Seq(T), b \in Seq(T) : a = Reverse(lit) /\ b = Reverse(s)
  BY <1>2, <1>3
<1>5. /\ Len(a) = n /\ \A m \in 1..n : a[m] = lit[n - m + 1]
      /\ Len(b) = z /\ \A m \in 1..z : b[m] = s[z - m + 1]
  BY <1>2, <1>3, <1>4, Zenon
<1>6. IsSuffix(lit, s) <=> n <= z /\ \A m \in 1..n : a[m] = b[m]
  <2>1. IsPrefix(a, b) <=> n <= z /\ \A m \in 1..n : a[m] = b[m]
    <3>1. IsPrefix(a, b) <=> Len(a) <= Len(b) /\ \A m \in 1..Len(a) : a[m] = b[m]
      BY PrefixByElements
    <3> QED BY <1>5, <3>1, Zenon
  <2> QED BY <1>4, <2>1 DEF IsSuffix
<1>7. CASE n <= z
  <2>1. PICK i \in 1..(z + 1) : i = z + 1 - n
    BY <1>7
  <2>2. \A m \in 1..n : /\ n - m + 1 \in 1..n
                        /\ m \in 1..z /\ z - m + 1 = i + (n - m + 1 - 1) /\ n - (n - m + 1) + 1 = m
    BY ONLY <1>7, <2>1, n \in Nat, z \in Nat
  <2>3. \A m \in 1..n : a[m] = b[m] <=> lit[n - m + 1] = s[i + (n - m + 1 - 1)]
    <3> TAKE m \in 1..n
    <3>1. a[m] = lit[n - m + 1]
      BY <1>5
    <3>2. b[m] = s[z - m + 1]
      BY <1>5, <2>2
    <3>3. z - m + 1 = i + (n - m + 1 - 1)
      BY <2>2
    <3>4. PICK x, y : x = z - m + 1 /\ y = i + (n - m + 1 - 1)
      OBVIOUS
    <3>5. x = y
      BY <3>3, <3>4
    <3> QED BY <3>1, <3>2, <3>4, <3>5, Zenon
  <2>4. (\A m \in 1..n : a[m] = b[m]) <=> \A m \in 1..n : s[i + (m - 1)] = lit[m]
    <3>1. ASSUME \A m \in 1..n : s[i + (m - 1)] = lit[m], NEW m \in 1..n PROVE a[m] = b[m]
      <4>1. s[i + (n - m + 1 - 1)] = lit[n - m + 1]
        BY <2>2, <3>1
      <4> QED BY <2>3, <4>1
    <3>2. ASSUME \A m \in 1..n : a[m] = b[m], NEW m \in 1..n PROVE s[i + (m - 1)] = lit[m]
      <4>1. PICK l \in 1..n : l = n - m + 1 /\ n - l + 1 = m
        BY <2>2
      <4>2. lit[n - l + 1] = s[i + (n - l + 1 - 1)]
        BY <2>3, <3>2
      <4> QED BY <4>1, <4>2
    <3> QED BY <3>1, <3>2
  <2>5. i + (n + 1 - 1) = z + 1
    BY ONLY <2>1, n \in Nat, z \in Nat
  <2>6. \A j \in 1..(z + 1) : j + (n + 1 - 1) = z + 1 => j = i
    BY ONLY <2>1, n \in Nat, z \in Nat
  <2> QED BY <1>1, <1>6, <1>7, <2>4, <2>5, <2>6 DEF Stands
<1>8. CASE ~(n <= z)
  <2>1. \A j \in 1..(z + 1) : j + (n + 1 - 1) # z + 1
    BY ONLY <1>8, n \in Nat, z \in Nat
  <2> QED BY <1>1, <1>6, <1>8, <2>1 DEF Stands
<1> QED BY <1>7, <1>8

(* The pattern of a literal matches the strings the literal stands in: at  *)
(* the start, or anywhere if the pattern is open before it.                *)
LEMMA PatternStands ==
  ASSUME NEW s, Len(s) \in Nat, NEW lit \in Seq(Letters), NEW kind \in Likes
  PROVE  Matches(s, Pattern(kind, lit)) <=>
           IF OpenBefore(kind)
           THEN \E i \in 1..(Len(s) + 1) : Stands(s, lit, i, 1, OpenBehind(kind))
           ELSE Stands(s, lit, 1, 1, OpenBehind(kind))
<1>1. PICK n \in Nat, z \in Nat : n = Len(lit) /\ z = Len(s)
  OBVIOUS
<1>2. PICK p : p = Pattern(kind, lit)
  OBVIOUS
<1>3. PICK at : Placed(at, p, kind, lit)
  BY <1>2, PatternPlaced
<1>4. PICK pl \in Nat : pl = Len(p)
  BY <1>3 DEF Placed
<1>5. /\ \A k \in 1..(n + 1) : at[k] \in 1..(pl + 1)
      /\ IF OpenBefore(kind) THEN at[1] = 2 /\ p[1] = "%" ELSE at[1] = 1
      /\ IF OpenBehind(kind) THEN at[n + 1] = pl /\ p[pl] = "%" ELSE at[n + 1] = pl + 1
      /\ \A k \in 1..n :
           IF lit[k] \in Wild
           THEN at[k + 1] = at[k] + 2 /\ p[at[k]] = Escape /\ p[at[k] + 1] = lit[k]
           ELSE at[k + 1] = at[k] + 1 /\ p[at[k]] = lit[k]
  BY <1>1, <1>3, <1>4 DEF Placed
<1>6. PICK from : /\ \A j \in 1..(pl + 1) : from[j] = StartsAt(s, p, from, j)
                  /\ Matches(s, p) <=> 1 \in from[1]
  BY <1>4, MatchesByStarts
<1>7. PICK open \in BOOLEAN : open = OpenBehind(kind)
  <2>1. OpenBehind(kind) \in BOOLEAN
    BY DEF OpenBehind
  <2> QED BY <2>1, Zenon
<1>8. "%" # "_" /\ "%" # Escape /\ "_" # Escape
  BY DEF Escape
<1>9. \A j \in 1..(pl + 1) :
        from[j] = IF j = pl + 1 THEN { z + 1 }
                  ELSE { i \in 1..(z + 1) :
                    CASE p[j] = "%" -> \E k \in from[j + 1] : i <= k
                      [] p[j] = "_" -> i + 1 \in from[j + 1]
                      [] p[j] = Escape -> j < pl /\ Is(s, i, p[j + 1]) /\ i + 1 \in from[j + 2]
                      [] OTHER -> Is(s, i, p[j]) /\ i + 1 \in from[j + 1] }
  <2> TAKE j \in 1..(pl + 1)
  <2>1. j > pl <=> j = pl + 1
    BY ONLY pl \in Nat, j \in 1..(pl + 1)
  <2>2. from[j] = StartsAt(s, p, from, j)
    BY <1>6
  <2> QED BY ONLY <1>1, <1>4, <2>1, <2>2 DEF StartsAt
<1>10. ASSUME NEW j \in 1..(pl + 1), j # pl + 1, p[j] = "%"
       PROVE  from[j] = { i \in 1..(z + 1) : \E k \in from[j + 1] : i <= k }
  <2>1. from[j] = { i \in 1..(z + 1) :
                    CASE p[j] = "%" -> \E k \in from[j + 1] : i <= k
                      [] p[j] = "_" -> i + 1 \in from[j + 1]
                      [] p[j] = Escape -> j < pl /\ Is(s, i, p[j + 1]) /\ i + 1 \in from[j + 2]
                      [] OTHER -> Is(s, i, p[j]) /\ i + 1 \in from[j + 1] }
    BY <1>9, <1>10, Zenon
  <2> QED BY ONLY <1>8, <1>10, <2>1
<1>11. from[pl + 1] = { z + 1 }
  <2>1. pl + 1 \in 1..(pl + 1)
    BY ONLY pl \in Nat
  <2> QED BY <1>9, <2>1, Zenon
<1> DEFINE Right(k) == \A i : i \in from[at[k]] <=> i \in 1..(z + 1) /\ Stands(s, lit, i, k, open)
<1>12. Right(n + 1)
  <2>1. SUFFICES ASSUME NEW k, k = n + 1 PROVE Right(k)
    BY Zenon
  <2>2. \A i \in 1..(z + 1) : i + (n + 1 - k) = i
    BY ONLY <2>1, n \in Nat, z \in Nat
  <2>3. k..n = {} /\ k \in 1..(n + 1)
    BY ONLY <2>1, n \in Nat
  <2>4. ASSUME NEW i \in 1..(z + 1)
        PROVE  Stands(s, lit, i, k, open) <=> IF open THEN i <= z + 1 ELSE i = z + 1
    BY ONLY <1>1, <2>2, <2>3 DEF Stands
  <2>5. \A i \in 1..(z + 1) : i <= z + 1
    BY ONLY z \in Nat
  <2>6. CASE open
    <3>1. at[k] = pl /\ p[pl] = "%" /\ pl \in 1..(pl + 1) /\ pl # pl + 1
      BY <1>5, <1>7, <2>1, <2>3, <2>6
    <3>2. from[pl] = { i \in 1..(z + 1) : \E l \in from[pl + 1] : i <= l }
      BY <1>10, <3>1, Zenon
    <3> QED BY ONLY <1>11, <2>4, <2>5, <2>6, <3>1, <3>2
  <2>7. CASE ~ open
    <3>1. at[k] = pl + 1 /\ pl + 1 \in 1..(pl + 1)
      BY <1>5, <1>7, <2>1, <2>3, <2>7
    <3>2. z + 1 \in 1..(z + 1)
      BY ONLY z \in Nat
    <3> QED BY ONLY <1>11, <2>4, <2>7, <3>1, <3>2
  <2> QED BY <2>6, <2>7
<1>13. ASSUME NEW k \in 1..n, Right(k + 1) PROVE Right(k)
  <2>1. k \in 1..(n + 1) /\ k + 1 \in 1..(n + 1)
    BY ONLY n \in Nat, k \in 1..n
  <2>2. PICK j \in 1..(pl + 1) : j = at[k]
    BY <1>5, <2>1
  <2>3. at[k + 1] \in 1..(pl + 1)
    BY <1>5, <2>1
  <2>4. \A i : i \in from[at[k + 1]] <=> i \in 1..(z + 1) /\ Stands(s, lit, i, k + 1, open)
    BY <1>13
  <2>5. \A i \in 1..(z + 1) :
          Stands(s, lit, i, k, open) <=> Is(s, i, lit[k]) /\ i + 1 \in from[at[k + 1]]
    <3> TAKE i \in 1..(z + 1)
    <3>1. Stands(s, lit, i, k, open) <=>
            i <= z /\ s[i] = lit[k] /\ i + 1 \in 1..(z + 1) /\ Stands(s, lit, i + 1, k + 1, open)
      BY <1>1, StandsNext
    <3> QED BY ONLY <1>1, <2>4, <3>1 DEF Is
  <2>6. from[j] = { i \in 1..(z + 1) : Is(s, i, lit[k]) /\ i + 1 \in from[at[k + 1]] }
    <3>1. CASE lit[k] \in Wild
      <4>1. at[k + 1] = j + 2 /\ p[j] = Escape /\ p[j + 1] = lit[k]
        BY <1>5, <2>2, <3>1
      <4>2. j # pl + 1 /\ j < pl
        BY ONLY <2>3, <4>1, pl \in Nat, j \in 1..(pl + 1)
      <4>3. from[j] = { i \in 1..(z + 1) : j < pl /\ Is(s, i, p[j + 1]) /\ i + 1 \in from[j + 2] }
        BY <1>8, <1>9, <4>1, <4>2
      <4> QED BY ONLY <4>1, <4>2, <4>3
    <3>2. CASE lit[k] \notin Wild
      <4>1. at[k + 1] = j + 1 /\ p[j] = lit[k]
        BY <1>5, <2>2, <3>2
      <4>2. j # pl + 1
        BY ONLY <2>3, <4>1, pl \in Nat, j \in 1..(pl + 1)
      <4>3. p[j] # "%" /\ p[j] # "_" /\ p[j] # Escape
        BY <3>2, <4>1 DEF Wild
      <4>4. from[j] = { i \in 1..(z + 1) : Is(s, i, p[j]) /\ i + 1 \in from[j + 1] }
        BY <1>9, <4>2, <4>3
      <4> QED BY ONLY <4>1, <4>4
    <3> QED BY <3>1, <3>2
  <2> QED BY ONLY <2>2, <2>5, <2>6
<1>14. Right(1)
  <2> HIDE DEF Right
  <2> DEFINE Wrong == { d \in 0..n : ~ Right(n + 1 - d) }
  <2>1. Wrong = {} => Right(1)
    <3>1. n \in 0..n /\ n + 1 - n = 1
      OBVIOUS
    <3> QED BY <3>1
  <2>2. SUFFICES ASSUME Wrong # {} PROVE FALSE
    BY <2>1
  <2>3. PICK d \in Wrong : \A l \in Wrong : d <= l
    <3>1. Wrong \in SUBSET Nat
      OBVIOUS
    <3> HIDE DEF Wrong
    <3> QED BY <2>2, <3>1, LeastNumber
  <2>4. d \in 0..n /\ ~ Right(n + 1 - d)
    OBVIOUS
  <2>5. CASE d = 0
    <3>1. n + 1 - d = n + 1
      BY <2>5
    <3> QED BY <1>12, <2>4, <3>1
  <2>6. CASE d # 0
    <3>1. d - 1 \in 0..n /\ ~(d <= d - 1) /\ n + 1 - d \in 1..n /\ n + 1 - (d - 1) = (n + 1 - d) + 1
      BY <2>4, <2>6
    <3>2. Right((n + 1 - d) + 1)
      BY <2>3, <3>1
    <3> QED BY <1>13, <2>4, <3>1, <3>2
  <2> QED BY <2>5, <2>6
<1>15. \A i : i \in from[at[1]] <=> i \in 1..(z + 1) /\ Stands(s, lit, i, 1, open)
  BY <1>14
<1> HIDE DEF Right
<1>16. 1 \in 1..(z + 1) /\ 1 \in 1..(n + 1) /\ 1 \in 1..(pl + 1)
  OBVIOUS
<1>17. CASE OpenBefore(kind)
  <2>1. at[1] = 2 /\ p[1] = "%" /\ 2 \in 1..(pl + 1)
    BY <1>5, <1>16, <1>17
  <2>2. 1 # pl + 1 /\ 1 + 1 = 2
    BY ONLY <2>1, pl \in Nat
  <2>3. from[1] = { i \in 1..(z + 1) : \E l \in from[2] : i <= l }
    BY <1>16, <1>10, <2>1, <2>2
  <2>4. 1 \in from[1] <=> \E l \in from[2] : 1 <= l
    BY ONLY <1>16, <2>3
  <2>5. \A l \in 1..(z + 1) : 1 <= l
    OBVIOUS
  <2>6. 1 \in from[1] <=> \E l \in 1..(z + 1) : Stands(s, lit, l, 1, open)
    BY ONLY <1>15, <2>1, <2>4, <2>5
  <2> QED BY <1>1, <1>2, <1>6, <1>7, <1>17, <2>6
<1>18. CASE ~ OpenBefore(kind)
  <2>1. 1 \in from[1] <=> Stands(s, lit, 1, 1, open)
    BY <1>5, <1>15, <1>16, <1>18
  <2> QED BY <1>2, <1>6, <1>7, <1>18, <2>1
<1> QED BY <1>17, <1>18

(* What SQLite reads of the pattern knit-graph writes for STARTS WITH, ENDS *)
(* WITH or CONTAINS matches just the strings that do, whatever wildcards,  *)
(* escapes and quotes the string and the literal hold: escaping, quoting   *)
(* and reading back work together.                                         *)
THEOREM PatternTokenExact ==
  ASSUME NEW U, NEW s \in Seq(U), NEW lit \in Seq(Letters), NEW kind \in Likes
  PROVE  Matches(s, Leaf(StringToken(Pattern(kind, lit))).chars) <=> Does(kind, s, lit)
<1>1. Leaf(StringToken(Pattern(kind, lit))).chars = Pattern(kind, lit)
  <2>1. PICK p \in Seq(Letters) : p = Pattern(kind, lit)
    BY LiteralIsText
  <2>2. Unquoted(Quoted(p)) = p
    BY UnquotedIsLiteral
  <2>3. Leaf(StringToken(p)).chars = Unquoted(Quoted(p))
    BY DEF Leaf, StringToken, StringValue, Node
  <2> QED BY <2>1, <2>2, <2>3
<1> DEFINE T == Letters \cup U
<1>2. s \in Seq(T) /\ lit \in Seq(T)
  OBVIOUS
<1> HIDE DEF T
<1>3. \A i \in 1..(Len(s) + 1) : IsPrefix(lit, SubSeq(s, i, Len(s))) <=> Stands(s, lit, i, 1, TRUE)
  BY <1>2, PrefixStands
<1>4. IsPrefix(lit, s) <=> Stands(s, lit, 1, 1, TRUE)
  <2>1. 1 \in 1..(Len(s) + 1) /\ SubSeq(s, 1, Len(s)) = s
    OBVIOUS
  <2> QED BY <1>3, <2>1
<1>5. IsSuffix(lit, s) <=> \E i \in 1..(Len(s) + 1) : Stands(s, lit, i, 1, FALSE)
  BY <1>2, SuffixStands
<1>6. Matches(s, Pattern(kind, lit)) <=>
        IF OpenBefore(kind)
        THEN \E i \in 1..(Len(s) + 1) : Stands(s, lit, i, 1, OpenBehind(kind))
        ELSE Stands(s, lit, 1, 1, OpenBehind(kind))
  <2>1. Len(s) \in Nat
    OBVIOUS
  <2> QED BY <2>1, PatternStands
<1>7. CASE kind = "STARTS_WITH"
  <2>1. OpenBehind(kind) = TRUE /\ ~ OpenBefore(kind) /\ (Does(kind, s, lit) <=> IsPrefix(lit, s))
    BY <1>7 DEF OpenBefore, OpenBehind, Does
  <2> QED BY <1>1, <1>4, <1>6, <2>1, Zenon
<1>8. CASE kind = "ENDS_WITH"
  <2>1. OpenBehind(kind) = FALSE /\ OpenBefore(kind) /\ (Does(kind, s, lit) <=> IsSuffix(lit, s))
    BY <1>8 DEF OpenBefore, OpenBehind, Does
  <2> QED BY <1>1, <1>5, <1>6, <2>1, Zenon
<1>9. CASE kind = "CONTAINS"
  <2>1. OpenBehind(kind) = TRUE /\ OpenBefore(kind)
        /\ (Does(kind, s, lit) <=> \E i \in 1..(Len(s) + 1) : IsPrefix(lit, SubSeq(s, i, Len(s))))
    BY <1>9 DEF OpenBefore, OpenBehind, Does
  <2> QED BY <1>1, <1>3, <1>6, <2>1, Zenon
<1> QED BY <1>7, <1>8, <1>9 DEF Likes

(* What the text of a condition with a string operator ends in.            *)
Closing(e) ==
  << Token("LIKE"), StringToken(Pattern(e.kind, e.args[2].chars)),
     Token("ESCAPE"), StringToken(<< Escape >>) >>

EndsIn(ts, last) ==
  Len(ts) >= 4 /\ \A m \in 1..4 : ts[Len(ts) - 4 + m] = last[m]

(* What is written and what is still to be written end so from the moment  *)
(* the condition has given way to its pieces.                              *)
LikeInv ==
  /\ BufferInv
  /\ text \in Seq(Trees \cup Tokens)
  /\ status = "done" => todo = << >>
  /\ status # "failed" /\ expr.kind \in Likes =>
       (text = << >> /\ todo = << expr >>) \/ EndsIn(text \o todo, Closing(expr))

(* Writing a token moves it from what is still to be written to the text.  *)
LEMMA MovedToken ==
  ASSUME NEW T, NEW a \in Seq(T), NEW b \in Seq(T), b # << >>
  PROVE  Append(a, Head(b)) \in Seq(T) /\ Append(a, Head(b)) \o Tail(b) = a \o b
  OBVIOUS

(* What does not stand among the last four may give way to anything.       *)
LEMMA EndStays ==
  ASSUME NEW T, NEW a \in Seq(T), NEW b \in Seq(T), NEW c \in Seq(T), b # << >>,
         NEW last, EndsIn(a \o b, last), \A m \in 1..4 : Head(b) # last[m]
  PROVE  EndsIn(a \o (c \o Tail(b)), last)
<1>1. PICK x \in Nat, y \in Nat, z \in Nat : x = Len(a) /\ y = Len(b) /\ z = Len(c)
  OBVIOUS
<1>2. y >= 1 /\ Head(b) = b[1]
  BY <1>1
<1>3. PICK t \in Seq(T) : t = Tail(b)
  <2>1. Tail(b) \in Seq(T)
    OBVIOUS
  <2> QED BY <2>1, Zenon
<1>4. Len(t) = y - 1 /\ \A m \in 1..(y - 1) : t[m] = b[m + 1]
  BY <1>1, <1>2, <1>3
<1>5. PICK w \in Seq(T) : w = a \o b
  <2>1. a \o b \in Seq(T)
    BY ONLY a \in Seq(T), b \in Seq(T)
  <2> QED BY <2>1, Zenon
<1>6. Len(w) = x + y /\ \A m \in 1..y : w[x + m] = b[m]
  <2>1. /\ Len(a \o b) = Len(a) + Len(b)
        /\ \A m \in 1..Len(b) : (a \o b)[Len(a) + m] = b[m]
    BY TwoJoined
  <2> QED BY <1>1, <1>5, <2>1, Zenon
<1>7. PICK d \in Seq(T) : d = c \o t
  <2>1. c \o t \in Seq(T)
    BY ONLY c \in Seq(T), t \in Seq(T)
  <2> QED BY <2>1, Zenon
<1>8. Len(d) = z + (y - 1) /\ \A m \in 1..(y - 1) : d[z + m] = t[m]
  <2>1. /\ Len(c \o t) = Len(c) + Len(t)
        /\ \A m \in 1..Len(t) : (c \o t)[Len(c) + m] = t[m]
    BY ONLY c \in Seq(T), t \in Seq(T), TwoJoined
  <2> QED BY <1>1, <1>4, <1>7, <2>1, Zenon
<1>9. PICK v \in Seq(T) : v = a \o d
  <2>1. a \o d \in Seq(T)
    BY ONLY a \in Seq(T), d \in Seq(T)
  <2> QED BY <2>1, Zenon
<1>10. Len(v) = x + (z + (y - 1)) /\ \A m \in 1..(z + (y - 1)) : v[x + m] = d[m]
  <2>1. /\ Len(a \o d) = Len(a) + Len(d)
        /\ \A m \in 1..Len(d) : (a \o d)[Len(a) + m] = d[m]
    BY ONLY a \in Seq(T), d \in Seq(T), TwoJoined
  <2> QED BY <1>1, <1>8, <1>9, <2>1, Zenon
<1>11. Len(w) >= 4 /\ \A m \in 1..4 : w[Len(w) - 4 + m] = last[m]
  BY <1>5 DEF EndsIn
<1>12. y >= 5
  <2>1. SUFFICES ASSUME y < 5 PROVE FALSE
    OBVIOUS
  <2>2. PICK m \in 1..4 : m = 5 - y
    BY ONLY <1>2, <2>1, y \in Nat
  <2>3. Len(w) - 4 + m = x + 1
    BY ONLY <1>6, <2>2, x \in Nat, y \in Nat
  <2>4. w[x + 1] = b[1]
    <3>1. 1 \in 1..y
      BY ONLY <1>2, y \in Nat
    <3> QED BY <1>6, <3>1
  <2> QED BY <1>2, <1>11, <2>3, <2>4
<1>13. ASSUME NEW m \in 1..4 PROVE v[Len(v) - 4 + m] = last[m]
  <2>1. PICK j \in 1..(y - 1) : j = y - 5 + m
    BY ONLY <1>12, y \in Nat, m \in 1..4
  <2>2. /\ j + 1 \in 1..y /\ z + j \in 1..(z + (y - 1))
        /\ Len(v) - 4 + m = x + (z + j) /\ Len(w) - 4 + m = x + (j + 1)
    BY ONLY <1>6, <1>10, <2>1, x \in Nat, y \in Nat, z \in Nat, m \in 1..4
  <2>3. v[x + (z + j)] = d[z + j]
    BY <1>10, <2>2
  <2>4. d[z + j] = t[j] /\ t[j] = b[j + 1]
    BY <1>4, <1>8
  <2>5. w[x + (j + 1)] = b[j + 1]
    BY <1>6, <2>2
  <2> QED BY <1>11, <2>2, <2>3, <2>4, <2>5
<1>14. Len(v) >= 4
  BY ONLY <1>10, <1>12, x \in Nat, y \in Nat, z \in Nat
<1> QED BY <1>3, <1>7, <1>9, <1>13, <1>14 DEF EndsIn

(* A condition with a string operator gives way to pieces that end so.     *)
LEMMA LikeCloses ==
  ASSUME NEW e \in Trees, e.kind \in Likes, ~Refused(e)
  PROVE  EndsIn(Pieces(e), Closing(e))
<1>1. PICK a, l, p, u, q :
        /\ a = e.args[1] /\ l = Token("LIKE") /\ u = Token("ESCAPE")
        /\ p = StringToken(Pattern(e.kind, e.args[2].chars)) /\ q = StringToken(<< Escape >>)
  OBVIOUS
<1>2. Pieces(e) = << a, l, p, u, q >>
  BY <1>1 DEF Pieces, Connectives, Likes
<1>3. Closing(e) = << l, p, u, q >>
  BY <1>1 DEF Closing
<1>4. EndsIn(<< a, l, p, u, q >>, << l, p, u, q >>)
  BY DEF EndsIn
<1> QED BY <1>2, <1>3, <1>4

(* A step of the emission keeps it: only a tree gives way to its pieces,   *)
(* and none stands in the end.                                             *)
LEMMA LikeKept == LikeInv /\ Next => LikeInv'
<1> SUFFICES ASSUME LikeInv, Next PROVE LikeInv'
  OBVIOUS
<1> DEFINE S == Trees \cup Tokens
<1>1. BufferInv'
  BY EmissionKeeps DEF LikeInv
<1>2. /\ expr \in Trees /\ todo \in Seq(S) /\ text \in Seq(S)
      /\ status = "emitting" /\ expr' = expr
      /\ expr.kind \in Likes => (text = << >> /\ todo = << expr >>) \/ EndsIn(text \o todo, Closing(expr))
  BY DEF LikeInv, BufferInv, Next, Enter, Refuse, Grow, Write, Detach, Due
<1>3. CASE Enter
  <2>1. /\ todo # << >> /\ Head(todo).kind # "TOKEN" /\ ~Refused(Head(todo))
        /\ todo' = Pieces(Head(todo)) \o Tail(todo) /\ text' = text /\ status' = "emitting"
    BY <1>2, <1>3 DEF Enter, Due
  <2>2. Head(todo) \in Trees
    <3>1. Head(todo) \in S
      BY <1>2, <2>1
    <3> QED BY <2>1, <3>1, TokenOrTree
  <2>3. Pieces(Head(todo)) \in Seq(S)
    BY <2>1, <2>2, PiecesAreWritable
  <2>4. ASSUME expr.kind \in Likes PROVE EndsIn(text' \o todo', Closing(expr))
    <3>1. CASE todo = << expr >> /\ text = << >>
      <4>1. Head(todo) = expr /\ Tail(todo) = << >>
        BY <3>1
      <4>2. PICK c \in Seq(S) : c = Pieces(expr)
        BY <2>3, <4>1
      <4>3. << >> \o (c \o << >>) = c
        OBVIOUS
      <4>4. text' \o todo' = Pieces(expr)
        BY <2>1, <3>1, <4>1, <4>2, <4>3, Zenon
      <4> QED BY <1>2, <2>1, <2>4, <4>1, <4>4, LikeCloses
    <3>2. CASE EndsIn(text \o todo, Closing(expr))
      <4>1. \A m \in 1..4 : Closing(expr)[m].kind = "TOKEN"
        <5>1. PICK l, p, u, q : /\ l = Token("LIKE") /\ u = Token("ESCAPE")
                                /\ p = StringToken(Pattern(expr.kind, expr.args[2].chars))
                                /\ q = StringToken(<< Escape >>)
          OBVIOUS
        <5>2. Closing(expr) = << l, p, u, q >>
          BY <5>1 DEF Closing
        <5>3. l.kind = "TOKEN" /\ p.kind = "TOKEN" /\ u.kind = "TOKEN" /\ q.kind = "TOKEN"
          BY <5>1 DEF Token, StringToken, Node
        <5>4. \A m \in 1..4 : << l, p, u, q >>[m] \in { l, p, u, q }
          OBVIOUS
        <5> QED BY <5>2, <5>3, <5>4
      <4>2. \A m \in 1..4 : Head(todo) # Closing(expr)[m]
        BY <2>1, <4>1
      <4>3. EndsIn(text \o (Pieces(Head(todo)) \o Tail(todo)), Closing(expr))
        BY <1>2, <2>1, <2>3, <3>2, <4>2, EndStays
      <4> QED BY <2>1, <4>3
    <3> QED BY <1>2, <2>4, <3>1, <3>2
  <2> QED BY <1>1, <1>2, <2>1, <2>4 DEF LikeInv
<1>4. CASE Refuse
  BY <1>1, <1>4 DEF Refuse, LikeInv
<1>5. CASE Grow
  BY <1>1, <1>2, <1>5 DEF Grow, LikeInv
<1>6. CASE Write
  <2>1. /\ todo # << >> /\ Head(todo).kind = "TOKEN"
        /\ text' = Append(text, Head(todo)) /\ todo' = Tail(todo) /\ status' = "emitting"
    BY <1>2, <1>6 DEF Write, Due
  <2>2. text' \in Seq(S) /\ text' \o todo' = text \o todo
    BY <1>2, <2>1, MovedToken
  <2>3. todo # << expr >>
    <3>1. Head(<< expr >>) = expr
      OBVIOUS
    <3> QED BY <1>2, <2>1, <3>1, TokenOrTree
  <2> QED BY <1>1, <1>2, <2>1, <2>2, <2>3 DEF LikeInv
<1>7. CASE Detach
  BY <1>1, <1>2, <1>7 DEF Detach, LikeInv
<1> QED BY <1>3, <1>4, <1>5, <1>6, <1>7 DEF Next

(* Once the text is whole, its end is there to read.                       *)
LEMMA LikeReads == LikeInv => PatternsExact
<1> SUFFICES ASSUME LikeInv, status = "done", expr.kind \in Likes
             PROVE  PatternsExact
  BY DEF PatternsExact
<1>1. /\ expr \in Trees /\ text \in Seq(Trees \cup Tokens) /\ todo = << >>
      /\ (text = << >> /\ todo = << expr >>) \/ EndsIn(text \o todo, Closing(expr))
  BY DEF LikeInv, BufferInv
<1>2. EndsIn(text, Closing(expr))
  <2>1. << expr >> # << >>
    OBVIOUS
  <2>2. text \o << >> = text
    BY <1>1
  <2> QED BY <1>1, <2>1, <2>2
<1>3. PICK l, p, u, q : /\ l = Token("LIKE") /\ u = Token("ESCAPE")
                        /\ p = StringToken(Pattern(expr.kind, expr.args[2].chars))
                        /\ q = StringToken(<< Escape >>)
  OBVIOUS
<1>4. Closing(expr) = << l, p, u, q >>
  BY <1>3 DEF Closing
<1>5. PICK n \in Nat : n = Len(text)
  BY <1>1
<1>6. text[n - 3] = l /\ text[n - 2] = p /\ text[n - 1] = u /\ text[n] = q
  <2>1. \A m \in 1..4 : text[n - 4 + m] = << l, p, u, q >>[m]
    BY <1>2, <1>4, <1>5 DEF EndsIn
  <2>2. n - 4 + 1 = n - 3 /\ n - 4 + 2 = n - 2 /\ n - 4 + 3 = n - 1 /\ n - 4 + 4 = n
    OBVIOUS
  <2>3. text[n - 4 + 1] = l /\ text[n - 4 + 2] = p /\ text[n - 4 + 3] = u /\ text[n - 4 + 4] = q
    BY <2>1
  <2> QED BY <2>2, <2>3, Zenon
<1>7. expr.args[2].chars \in Seq(Letters)
  <2>1. expr.args[2] \in Trees
    BY <1>1, ConditionsAssumption DEF Connectives, Likes
  <2>2. expr.args[2].chars \in Seq(ToSet(expr.args[2].chars))
        /\ ToSet(expr.args[2].chars) \subseteq Letters
    BY <2>1, ConditionsAssumption DEF Letters
  <2> QED BY <2>2
<1>8. Leaf(q).chars = << Escape >>
  <2>1. PICK e \in Seq(Letters) : e = << Escape >>
    <3>1. Escape \in Letters
      BY DEF Letters
    <3>2. << Escape >> \in Seq(Letters)
      BY <3>1
    <3> QED BY <3>2, Zenon
  <2>2. Unquoted(Quoted(e)) = e
    BY UnquotedIsLiteral
  <2>3. Leaf(StringToken(e)).chars = Unquoted(Quoted(e))
    BY DEF Leaf, StringToken, StringValue, Node
  <2> QED BY <1>3, <2>1, <2>2, <2>3
<1>9. ASSUME NEW s \in Strings
      PROVE  Matches(s, Leaf(p).chars) <=> Does(expr.kind, s, expr.args[2].chars)
  <2>1. s \in Seq(ToSet(s))
    BY StringsAssumption
  <2>2. \A lit \in Seq(Letters) :
          Matches(s, Leaf(StringToken(Pattern(expr.kind, lit))).chars) <=> Does(expr.kind, s, lit)
    BY <2>1, PatternTokenExact
  <2> QED BY <1>3, <1>7, <2>2
<1> QED BY <1>3, <1>5, <1>6, <1>8, <1>9 DEF PatternsExact

(* In every answer whose condition is a STARTS WITH, ENDS WITH or CONTAINS,  *)
(* the LIKE in the text matches just the strings that start with, end with *)
(* or contain the literal, whatever characters both are made of.           *)
THEOREM PatternExact == AnswerSpec => []PatternsExact
<1>1. AnswerInit => LikeInv
  <2> SUFFICES ASSUME AnswerInit PROVE LikeInv
    OBVIOUS
  <2>1. BufferInv
    <3>1. expr \in Trees
      BY ClausesAssumption, ConditionsAssumption DEF AnswerInit
    <3> QED BY <3>1 DEF AnswerInit, Start, BufferInv, BufferHoldsText
  <2> QED BY <2>1 DEF AnswerInit, Start, LikeInv
<1>2. LikeInv /\ [AnswerNext]_answervars => LikeInv'
  <2> SUFFICES ASSUME LikeInv, [AnswerNext]_answervars PROVE LikeInv'
    OBVIOUS
  <2>1. Next \/ UNCHANGED vars
    BY DEF AnswerNext, Arguments, ReturnClause, Where, EndWhere, Executed, Rendering, answervars
  <2> QED BY <2>1, LikeKept DEF LikeInv, BufferInv, BufferHoldsText, vars
<1> QED BY <1>1, <1>2, LikeReads, PTL DEF AnswerSpec
=============================================================================
