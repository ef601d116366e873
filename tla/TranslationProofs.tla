-------------------------- MODULE TranslationProofs --------------------------
(***************************************************************************)
(* The statements returned, for any queries, maps, catalog and databases:  *)
(* SQLite accepts them, and their rows are what the pattern means.         *)
(*                                                                         *)
(* First what FROM declares, engine by engine, and that WHERE and RETURN   *)
(* speak of nothing else.  Then the rows: a row of the joined tables is a  *)
(* function of the aliases FROM declares, so it is known by the rows it    *)
(* gives to edges and slots.  What FROM and WHERE ask of these is what the *)
(* pattern asks of its relationships and nodes, where every end is tied to *)
(* the first edge of its node, the anchor of the node's slot.              *)
(***************************************************************************)
EXTENDS TransformProofs

-----------------------------------------------------------------------------
(***************************************************************************)
(* Lists of the members of FROM.                                           *)
(***************************************************************************)
(* A loop over the indexes in S comes to each of them once.                *)
LEMMA InOrderIs ==
  ASSUME NEW n \in Nat, NEW S \in SUBSET (1..n)
  PROVE  LET s == InOrder(S)
         IN  /\ Len(s) \in Nat
             /\ \A k \in 1..Len(s) : s[k] \in S
             /\ \A i \in S : \E k \in 1..Len(s) : s[k] = i
             /\ \A k, l \in 1..Len(s) : s[k] = s[l] => k = l
<1> DEFINE m == Cardinality(S)
           Below(i) == { j \in S : j < i }
<1>1. IsFiniteSet(S) /\ m \in Nat
  <2>1. IsFiniteSet(1..n)
    BY FS_Interval
  <2> QED BY <2>1, FS_Subset, FS_CardinalityType
<1>2. ASSUME NEW i \in S
      PROVE  IsFiniteSet(Below(i)) /\ Cardinality(Below(i)) \in Nat /\ Rank(S, i) = Cardinality(Below(i)) + 1
  BY <1>1, FS_Subset, FS_CardinalityType DEF Rank
<1>3. ASSUME NEW i \in S PROVE Rank(S, i) \in 1..m
  <2>1. Below(i) \in SUBSET S /\ Below(i) # S
    OBVIOUS
  <2> HIDE DEF Below
  <2>2. Cardinality(Below(i)) <= m /\ m # Cardinality(Below(i))
    BY <1>1, <2>1, FS_Subset
  <2> HIDE DEF m
  <2> QED BY <1>1, <1>2, <2>2
<1>4. ASSUME NEW i \in S, NEW j \in S, i < j PROVE Rank(S, i) # Rank(S, j)
  <2>1. Below(i) \in SUBSET Below(j) /\ Below(i) # Below(j)
    <3>1. i \in Below(j) /\ i \notin Below(i)
      BY <1>4
    <3>2. \A k \in Below(i) : k \in Below(j)
      BY <1>4
    <3> QED BY <3>1, <3>2
  <2> HIDE DEF Below
  <2>2. Cardinality(Below(i)) # Cardinality(Below(j))
    BY <1>2, <2>1, FS_Subset
  <2> QED BY <1>2, <2>2
<1>5. \A i, j \in S : Rank(S, i) = Rank(S, j) => i = j
  BY <1>4
<1>6. \A k \in 1..m : \E i \in S : Rank(S, i) = k
  <2> DEFINE T == 1..m
             g == [ i \in S |-> Rank(S, i) ]
  <2>0. g \in [S -> T] /\ \A i \in S : g[i] = Rank(S, i)
    BY <1>3
  <2>1. PICK f \in [S -> T] : \A i \in S : f[i] = Rank(S, i)
    <3> HIDE DEF g, T
    <3> QED BY <2>0
  <2>2. IsFiniteSet(T) /\ Cardinality(S) = Cardinality(T)
    BY <1>1, FS_Interval
  <2>3. \A x, y \in S : f[x] = f[y] => x = y
    BY <1>5, <2>1
  <2> HIDE DEF T, m
  <2>4. { f[i] : i \in S } = T
    <3>1. f \in [S -> T] /\ IsFiniteSet(T) /\ Cardinality(S) = Cardinality(T)
      BY <2>2
    <3> HIDE <2>1
    <3> QED BY <2>3, <3>1, OneToOneOnto
  <2>5. \A k \in T : \E i \in S : f[i] = k
    BY <2>4
  <2> QED BY <2>1, <2>5 DEF T
<1> DEFINE s == InOrder(S)
<1>7. Len(s) = m
  BY <1>1 DEF InOrder
<1>8. ASSUME NEW k \in 1..m PROVE s[k] \in S /\ Rank(S, s[k]) = k
  BY <1>6 DEF InOrder
<1> HIDE DEF s, m
<1>9. ASSUME NEW i \in S PROVE \E k \in 1..m : s[k] = i
  BY <1>3, <1>5, <1>8
<1> QED BY <1>1, <1>7, <1>8, <1>9 DEF s

(* Members are listed; no alias is declared twice; an ON clause speaks of  *)
(* the aliases up to its own.                                              *)
List(f)     == f \in Seq({ f[i] : i \in 1..Len(f) })
Distinct(f) == \A i, j \in 1..Len(f) : f[i].alias = f[j].alias => i = j
Ordered(f)  == \A i \in 1..Len(f) : AliasesOf(f[i].on) \subseteq Declares(f, i)

Declared(f) == Declares(f, Len(f))

(* The fields of a member of FROM.                                         *)
LEMMA ItemIs ==
  ASSUME NEW table, NEW alias, NEW on
  PROVE  LET item == FromItem(table, alias, on)
         IN  item.table = table /\ item.alias = alias /\ item.on = on
BY DEF FromItem

(* A sequence is a list of its own members.                                *)
LEMMA Listed ==
  ASSUME NEW S, NEW f \in Seq(S)
  PROVE  List(f) /\ Len(f) \in Nat
BY DEF List

(* A list is a sequence over every set its members are in.                 *)
LEMMA ListOf ==
  ASSUME NEW f, List(f), NEW S, \A i \in 1..Len(f) : f[i] \in S
  PROVE  f \in Seq(S)
BY DEF List

(* A function of 1..n is a list.                                           *)
LEMMA Enumerated ==
  ASSUME NEW n \in Nat, NEW f, f = [ i \in 1..n |-> f[i] ]
  PROVE  List(f) /\ Len(f) = n
BY DEF List

(* A list after a list: its length, and where the members of each stand.   *)
LEMMA Concatenated ==
  ASSUME NEW a, NEW b, List(a), List(b)
  PROVE  /\ List(a \o b) /\ Len(a) \in Nat /\ Len(b) \in Nat
         /\ Len(a \o b) = Len(a) + Len(b)
         /\ \A i \in 1..Len(a) : (a \o b)[i] = a[i]
         /\ \A i \in 1..Len(b) : (a \o b)[Len(a) + i] = b[i]
<1> DEFINE A == { a[i] : i \in 1..Len(a) }
           B == { b[i] : i \in 1..Len(b) }
           S == A \cup B
<1>1. a \in Seq(A) /\ b \in Seq(B)
  BY DEF List
<1> HIDE DEF A, B
<1>2. a \in Seq(S) /\ b \in Seq(S)
  <2>1. \A i \in 1..Len(a) : a[i] \in S
    BY <1>1
  <2>2. \A i \in 1..Len(b) : b[i] \in S
    BY <1>1
  <2> HIDE DEF S
  <2> QED BY <2>1, <2>2, ListOf
<1> HIDE DEF S
<1>3. a \o b \in Seq(S)
  BY <1>2
<1>4. List(a \o b)
  BY <1>3, Listed
<1> QED BY <1>2, <1>4

(* FROM declares as many aliases as it has members when no two share one.  *)
LEMMA OneDeclarationEach ==
  ASSUME NEW f, List(f), Distinct(f)
  PROVE  Cardinality(Declared(f)) = Len(f)
<1> DEFINE n == Len(f)
           T == Declared(f)
           g == [ i \in 1..n |-> f[i].alias ]
<1>1. n \in Nat /\ IsFiniteSet(1..n) /\ Cardinality(1..n) = n
  <2>1. n \in Nat
    BY DEF List
  <2> QED BY <2>1, FS_Interval
<1>2. g \in [1..n -> T] /\ (\A t \in T : \E i \in 1..n : g[i] = t)
  BY DEF Declared, Declares
<1>3. \A x, y \in 1..n : g[x] = g[y] => x = y
  BY DEF Distinct
<1> HIDE DEF g, n, T
<1>4. Cardinality(T) = Cardinality(1..n)
  BY <1>1, <1>2, <1>3, OneToOneImage
<1> QED BY <1>1, <1>4 DEF n, T

(* A list is followed by members whose ON clauses speak of the list and of *)
(* themselves.                                                             *)
IsJoin(f, a, b) ==
  /\ List(f) /\ Distinct(f) /\ Ordered(f)
  /\ Declared(f) = Declared(a) \cup Declared(b)
  /\ \A i \in 1..Len(f) : \/ \E k \in 1..Len(a) : f[i] = a[k]
                          \/ \E k \in 1..Len(b) : f[i] = b[k]

(* Such a list has each alias once, and declares what the two declare.     *)
LEMMA Joined ==
  ASSUME NEW a, NEW b, List(a), List(b), Distinct(a), Distinct(b), Ordered(a),
         \A i \in 1..Len(a), j \in 1..Len(b) : a[i].alias # b[j].alias,
         \A j \in 1..Len(b) : AliasesOf(b[j].on) \subseteq Declared(a) \cup { b[j].alias }
  PROVE  IsJoin(a \o b, a, b)
<1> DEFINE f == a \o b
<1>0. f = a \o b
  OBVIOUS
<1> HIDE DEF f
<1> DEFINE n == Len(a)
           m == Len(b)
<1>1. /\ Len(f) = n + m /\ n \in Nat /\ m \in Nat /\ List(f)
      /\ \A i \in 1..n : f[i] = a[i]
      /\ \A i \in 1..m : f[n + i] = b[i]
  <2>1. List(a) /\ List(b) /\ f = a \o b
    BY <1>0
  <2> QED BY ONLY <2>1, Concatenated
<1> HIDE DEF n, m
<1>2. ASSUME NEW i \in 1..Len(f), i \notin 1..n
      PROVE  i - n \in 1..m /\ i = n + (i - n) /\ f[i] = b[i - n]
  <2>1. i - n \in 1..m /\ i = n + (i - n)
    BY <1>1, <1>2
  <2> QED BY <1>1, <2>1
<1>3. Distinct(f)
  <2> SUFFICES ASSUME NEW i \in 1..Len(f), NEW j \in 1..Len(f), f[i].alias = f[j].alias
               PROVE  i = j
    BY DEF Distinct
  <2>1. CASE i \in 1..n /\ j \in 1..n
    BY <1>1, <2>1 DEF Distinct, n
  <2>2. CASE i \in 1..n /\ j \notin 1..n
    BY <1>1, <1>2, <2>2 DEF n, m
  <2>3. CASE i \notin 1..n /\ j \in 1..n
    BY <1>1, <1>2, <2>3 DEF n, m
  <2>4. CASE i \notin 1..n /\ j \notin 1..n
    <3>1. /\ i - n \in 1..m /\ i = n + (i - n) /\ f[i] = b[i - n]
          /\ j - n \in 1..m /\ j = n + (j - n) /\ f[j] = b[j - n]
      BY <1>2, <2>4
    <3>2. i - n = j - n
      BY <3>1 DEF Distinct, m
    <3> QED BY <3>1, <3>2
  <2> QED BY <2>1, <2>2, <2>3, <2>4
<1>4. \A k \in 1..n : Declares(f, k) = Declares(a, k)
  <2> TAKE k \in 1..n
  <2>1. \A i \in 1..k : i \in 1..n /\ f[i] = a[i]
    BY <1>1
  <2>2. \A x : x \in Declares(f, k) <=> x \in Declares(a, k)
    BY <2>1 DEF Declares
  <2> QED BY <2>2
<1>5. \A k \in 1..Len(f) : k \notin 1..n => Declared(a) \subseteq Declares(f, k)
  <2> SUFFICES ASSUME NEW k \in 1..Len(f), k \notin 1..n, NEW i \in 1..n
               PROVE  a[i].alias \in Declares(f, k)
    BY DEF Declared, Declares, n
  <2>1. i \in 1..k /\ f[i] = a[i]
    BY <1>1
  <2> QED BY <2>1 DEF Declares
<1>6. Ordered(f)
  <2> SUFFICES ASSUME NEW i \in 1..Len(f) PROVE AliasesOf(f[i].on) \subseteq Declares(f, i)
    BY DEF Ordered
  <2>1. CASE i \in 1..n
    BY <1>1, <1>4, <2>1 DEF Ordered, n
  <2>2. CASE i \notin 1..n
    <3>1. AliasesOf(f[i].on) \subseteq Declared(a) \cup { f[i].alias }
      BY <1>2, <2>2 DEF m
    <3>2. i \in 1..i
      BY <1>1
    <3>3. f[i].alias \in Declares(f, i)
      BY <3>2 DEF Declares
    <3> QED BY <1>5, <2>2, <3>1, <3>3
  <2> QED BY <2>1, <2>2
<1>7. Declared(f) = Declared(a) \cup Declared(b)
  <2>1. \A x \in Declared(f) : x \in Declared(a) \cup Declared(b)
    <3> SUFFICES ASSUME NEW i \in 1..Len(f) PROVE f[i].alias \in Declared(a) \cup Declared(b)
      BY DEF Declared, Declares
    <3>1. CASE i \in 1..n
      BY <1>1, <3>1 DEF Declared, Declares, n
    <3>2. CASE i \notin 1..n
      BY <1>2, <3>2 DEF Declared, Declares, m
    <3> QED BY <3>1, <3>2
  <2>2. \A x \in Declared(a) : x \in Declared(f)
    <3>1. \A i \in 1..n : i \in 1..Len(f)
      BY <1>1
    <3> QED BY <1>1, <3>1 DEF Declared, Declares, n
  <2>3. \A x \in Declared(b) : x \in Declared(f)
    <3> SUFFICES ASSUME NEW i \in 1..m PROVE b[i].alias \in Declared(f)
      BY DEF Declared, Declares, m
    <3>1. n + i \in 1..Len(f) /\ f[n + i] = b[i]
      BY <1>1
    <3> QED BY <3>1 DEF Declared, Declares
  <2> QED BY <2>1, <2>2, <2>3
<1>8. \A i \in 1..Len(f) : \/ \E k \in 1..n : f[i] = a[k]
                           \/ \E k \in 1..m : f[i] = b[k]
  BY <1>1, <1>2
<1>9. IsJoin(f, a, b)
  BY <1>1, <1>3, <1>6, <1>7, <1>8 DEF IsJoin, n, m
<1> QED BY <1>0, <1>9

(* A loop over some slots makes a list of them.                            *)
Filing(S, item) == [ k \in 1..Len(InOrder(S)) |-> item[InOrder(S)[k]] ]

Files(b, S, item) ==
  /\ List(b) /\ Distinct(b)
  /\ \A k \in 1..Len(b) : \E i \in S : b[k] = item[i]
  /\ \A i \in S : \E k \in 1..Len(b) : b[k] = item[i]

(* When the members made have different aliases, none of them is lost.     *)
LEMMA Filed ==
  ASSUME NEW n \in Nat, NEW S \in SUBSET (1..n), NEW item,
         \A i, j \in S : item[i].alias = item[j].alias => i = j
  PROVE  Files(Filing(S, item), S, item)
<1> DEFINE b == Filing(S, item)
<1> DEFINE s == InOrder(S)
<1>1. /\ Len(s) \in Nat
      /\ \A k \in 1..Len(s) : s[k] \in S
      /\ \A i \in S : \E k \in 1..Len(s) : s[k] = i
      /\ \A k, l \in 1..Len(s) : s[k] = s[l] => k = l
  BY InOrderIs
<1>2. b = [ k \in 1..Len(s) |-> item[s[k]] ]
  BY DEF Filing
<1> HIDE DEF s, b
<1>3. Len(b) = Len(s) /\ List(b) /\ \A k \in 1..Len(s) : b[k] = item[s[k]]
  BY <1>1, <1>2 DEF List
<1>4. Distinct(b)
  <2> SUFFICES ASSUME NEW k \in 1..Len(b), NEW l \in 1..Len(b), b[k].alias = b[l].alias
               PROVE  k = l
    BY DEF Distinct
  <2>1. s[k] \in S /\ s[l] \in S /\ b[k] = item[s[k]] /\ b[l] = item[s[l]]
    BY <1>1, <1>3
  <2>2. s[k] = s[l]
    BY <2>1
  <2> QED BY <1>1, <1>3, <2>2
<1>5. \A k \in 1..Len(b) : \E i \in S : b[k] = item[i]
  BY <1>1, <1>3
<1>6. ASSUME NEW i \in S PROVE \E k \in 1..Len(b) : b[k] = item[i]
  <2>1. PICK k \in 1..Len(s) : s[k] = i
    BY <1>1
  <2>2. b[k] = item[i] /\ k \in 1..Len(b)
    BY <1>3, <2>1
  <2> QED BY <2>2
<1> QED BY <1>3, <1>4, <1>5, <1>6 DEF Files, b

(* Atoms, and the aliases they speak of.                                   *)
Speaks(a, D) == \A y \in {a[2], a[3]} : y[1] = "column" => y[2] \in D

(* Atoms that speak of the aliases in D only name no other alias.          *)
LEMMA SpokenOf ==
  ASSUME NEW atoms, NEW D, \A a \in atoms : Speaks(a, D)
  PROVE  AliasesOf(atoms) \subseteq D
BY DEF AliasesOf, Speaks

(* The three forms of atom the engines write.                              *)
LEMMA AtomsSpeak ==
  ASSUME NEW D, NEW x \in D, NEW c
  PROVE  /\ \A v : Speaks(Eq(Col(x, c), Lit(v)), D)
         /\ \A v : Speaks(AtLeast(Col(x, c), Lit(v)), D)
         /\ \A y \in D : \A d : Speaks(Eq(Col(x, c), Col(y, d)), D)
BY DEF Speaks, Eq, AtLeast, Col, Lit

(* What is left to show of a statement, part by part.                      *)
LEMMA WellFormedIf ==
  ASSUME NEW f, List(f), Distinct(f), Ordered(f), NEW w, NEW used,
         \A a \in UNION UNION w : Speaks(a, Declared(f)), used \subseteq Declared(f)
  PROVE  WellFormed(f, w, used)
<1>1. AliasesOf(UNION UNION w) \subseteq Declared(f)
  BY SpokenOf
<1>2. Cardinality(Declared(f)) = Len(f)
  BY OneDeclarationEach
<1> QED BY <1>1, <1>2 DEF WellFormed, Ordered, Declared

-----------------------------------------------------------------------------
(***************************************************************************)
(* The aliases of slots and edges, the slots marked, and what FROM and     *)
(* WHERE are built from.                                                   *)
(***************************************************************************)
EdgeAlias(e) ==
  IF edges[e].var # Anon THEN edges[e].var
  ELSE IF Len(edges) = 1 THEN << "r", 1 >> ELSE << "_e", e >>

IsLone(i) == engine = "general" /\ slots[i].anchor_edge = 0

SlotAlias(i) ==
  IF IsLone(i) /\ slots[i].var = Anon THEN << "_n", i >> ELSE slots[i].var

Plain(s) == s.alias = s.var /\ ~s.referenced

(* The edge of a hop leads from the slot of its source to that of its      *)
(* target.                                                                 *)
Directed ==
  /\ edges[1].src # edges[1].tgt
  /\ edges[1].src = EndOf(query, TheHop, FALSE)[2] + 1
  /\ edges[1].tgt = EndOf(query, TheHop, TRUE)[2] + 1

Aliases ==
  Live =>
    /\ engine # "general" => Directed
    /\ engine # "general" \/ pc \notin { "collect", "resolve", "name" } =>
         \A e \in 1..Len(edges) : edges[e].alias = EdgeAlias(e)
    /\ pc \in { "collect", "resolve", "name", "check" } =>
         \A i \in 1..Len(slots) : Plain(slots[i])
    /\ pc \in { "emit", "where", "done" } =>
         \A i \in 1..Len(slots) :
           /\ slots[i].alias = SlotAlias(i)
           /\ engine = "general" => slots[i].is_lone = IsLone(i)

(* A slot is marked only for a reference to its variable that was emitted, *)
(* a variable which is bound to this slot and has columns; every reference *)
(* emitted has marked one or is to a relationship.                         *)
Bound(i) ==
  /\ slots[i].var # Anon /\ slots[i].label # NoLabel
  /\ i \in NodesNamed(slots[i].var)
  /\ \A j \in NodesNamed(slots[i].var) : i <= j

Marked(v) ==
  v # Anon /\ (EdgesNamed(v) # {} \/ \E i \in NodesNamed(v) : slots[i].referenced)

Asked(i) == \E k \in 1..emitted : query.uses[k].var = slots[i].var

Marks ==
  Live =>
    /\ \A i \in 1..Len(slots) : slots[i].referenced => Bound(i) /\ Asked(i)
    /\ \A k \in 1..emitted : Marked(query.uses[k].var)

Built ==
  /\ pc = "where" => engine = "general" /\ from = FromItems
  /\ pc = "done" =>
       /\ engine = "general" => from = FromItems /\ where = PatternClauses
       /\ engine = "undirected" => from = UndirectedItems /\ where = UndirectedClauses
       /\ engine = "varlen" => from = VarlenItems /\ where = VarlenClauses

Shaped == Aliases /\ Marks /\ Built

(* While the pattern is collected slots have the aliases written and none  *)
(* is marked.                                                              *)
LEMMA PlainShaped ==
  ASSUME engine' = "general", pc' \in { "collect", "resolve", "name" }, emitted' = 0,
         \A i \in 1..Len(slots') : Plain(slots'[i])
  PROVE  Shaped'
<1>1. Aliases'
  BY DEF Aliases, Plain
<1>2. Marks'
  BY DEF Marks, Plain
<1>3. Built'
  BY DEF Built
<1> QED BY <1>1, <1>2, <1>3 DEF Shaped

(* A rejection leaves nothing to describe.                                 *)
LEMMA FailShaped ==
  ASSUME NEW reason, Fail(reason)
  PROVE  Shaped'
BY DEF Fail, Shaped, Aliases, Marks, Built, Live

(* A new slot is plain, and giving a slot a label keeps it so.             *)
LEMMA MergedPlain ==
  ASSUME NEW ss, Listing(ss, SlotFields), \A i \in 1..Len(ss) : Plain(ss[i]), NEW o
  PROVE  \A i \in 1..Len(Merged(ss, o)) : Plain(Merged(ss, o)[i])
<1> DEFINE mm == Merged(ss, o)
           k  == SlotIndex(ss, o)
           l  == LabelOf(NodeAt(query, o))
<1>1. Len(ss) \in Nat /\ DOMAIN ss = 1..Len(ss) /\ \A i \in 1..Len(ss) : DOMAIN ss[i] = SlotFields
  BY DEF Listing
<1>2. CASE k = 0
  <2>1. mm = Append(ss, NewSlot(o))
    BY <1>2 DEF Merged
  <2>2. DOMAIN NewSlot(o) = SlotFields /\ Plain(NewSlot(o))
    BY DEF NewSlot, SlotFields, Plain
  <2>3. /\ Len(mm) = Len(ss) + 1
        /\ mm[Len(ss) + 1] = NewSlot(o)
        /\ \A i \in 1..Len(ss) : mm[i] = ss[i]
    BY <2>1, <2>2, Appended
  <2> HIDE DEF mm
  <2>4. \A i \in 1..Len(mm) : i \in 1..Len(ss) \/ i = Len(ss) + 1
    BY <1>1, <2>3
  <2> QED BY <2>2, <2>3, <2>4 DEF mm
<1>3. CASE k # 0 /\ l = NoLabel
  <2>1. mm = ss
    BY <1>3 DEF Merged
  <2> QED BY <2>1
<1>4. CASE k # 0 /\ l # NoLabel
  <2>1. mm = [ ss EXCEPT ![k] = [ ss[k] EXCEPT !.label = l ] ]
    BY <1>4 DEF Merged
  <2> HIDE DEF k, l, mm
  <2>2. Len(mm) = Len(ss)
    BY <1>1, <2>1
  <2>3. \A i \in 1..Len(ss) : mm[i] = ss[i] \/ mm[i] = [ ss[i] EXCEPT !.label = l ]
    BY <1>1, <2>1
  <2>4. \A i \in 1..Len(ss) : Plain([ ss[i] EXCEPT !.label = l ])
    BY <1>1 DEF SlotFields, Plain
  <2> QED BY <2>2, <2>3, <2>4 DEF mm
<1> QED BY <1>2, <1>3, <1>4

(* Anchoring a slot to an edge keeps it plain.                             *)
LEMMA AnchoredPlain ==
  ASSUME NEW ss, Listing(ss, SlotFields), \A i \in 1..Len(ss) : Plain(ss[i]),
         NEW k, NEW e, NEW b
  PROVE  \A i \in 1..Len(Anchored(ss, k, e, b)) : Plain(Anchored(ss, k, e, b)[i])
<1> DEFINE tt == Anchored(ss, k, e, b)
           x(i) == [ ss[i] EXCEPT !.anchor_edge = e, !.anchor_target = b ]
<1>1. Len(ss) \in Nat /\ DOMAIN ss = 1..Len(ss) /\ \A i \in 1..Len(ss) : DOMAIN ss[i] = SlotFields
  BY DEF Listing
<1>2. CASE ss[k].anchor_edge # 0
  <2>1. tt = ss
    BY <1>2 DEF Anchored
  <2> QED BY <2>1
<1>3. CASE ss[k].anchor_edge = 0
  <2>1. tt = [ ss EXCEPT ![k].anchor_edge = e, ![k].anchor_target = b ]
    BY <1>3 DEF Anchored
  <2> HIDE DEF tt
  <2>2. Len(tt) = Len(ss)
    BY <1>1, <2>1
  <2>3. \A i \in 1..Len(ss) : tt[i] = ss[i] \/ tt[i] = x(i)
    BY <1>1, <2>1
  <2>4. \A i \in 1..Len(ss) : Plain(x(i))
    BY <1>1 DEF SlotFields, Plain
  <2> QED BY <2>2, <2>3, <2>4 DEF tt
<1> QED BY <1>2, <1>3

(* Collecting the pattern and resolving its labels leaves every slot       *)
(* plain.                                                                  *)
LEMMA CollectShaped ==
  ASSUME TInv, Checked, Shaped, engine = "general",
         CollectPattern \/ ResolveLabels
  PROVE  Shaped'
<1>1. CASE \E reason : Fail(reason)
  BY <1>1, FailShaped
<1>2. CASE ~\E reason : Fail(reason)
  <2>1. /\ pc \in { "collect", "resolve" } /\ Live
        /\ Listing(slots, SlotFields)
    BY DEF CollectPattern, CollectStart, CollectSegment, EndPath, EndCollect, ResolveLabels,
           Collecting, Live, TInv, Ranges
  <2>2. emitted = 0 /\ \A i \in 1..Len(slots) : Plain(slots[i])
    BY <2>1 DEF Shaped, Aliases, Checked, UsesChecked
  <2>3. CASE CollectStart
    <3>1. slots' = Merged(slots, at) /\ UNCHANGED << query, map, engine, pc, emitted >>
      BY <1>2, <2>3 DEF CollectStart
    <3>2. \A i \in 1..Len(slots') : Plain(slots'[i])
      BY <2>1, <2>2, <3>1, MergedPlain
    <3> QED BY <2>1, <2>2, <3>1, <3>2, PlainShaped
  <2>4. CASE CollectSegment
    <3>1. PICK mm, j, e, b, k, c :
            /\ mm = Merged(slots, at) /\ j \in 1..Len(mm) /\ e # 0
            /\ slots' = Anchored(Anchored(mm, j, e, b), k, e, c)
            /\ UNCHANGED << query, map, engine, pc, emitted >>
      <4> DEFINE rel == RelAt(query, at)
                 mm  == Merged(slots, at)
                 cur == SlotIndex(mm, at)
                 src == IF rel.dir = "left" THEN cur ELSE prev
                 tgt == IF rel.dir = "left" THEN prev ELSE cur
                 ei  == Len(edges) + 1
      <4>1. /\ slots' = Anchored(Anchored(mm, src, ei, FALSE), tgt, ei, TRUE)
            /\ UNCHANGED << query, map, engine, pc, emitted >>
        BY <1>2, <2>4 DEF CollectSegment
      <4>2. src \in 1..Len(mm) /\ Len(edges) \in Nat
        <5>1. ~\E reason : reason # "none" /\ Fail(reason)
          BY <1>2
        <5> HIDE DEF mm, cur, src, tgt, ei
        <5> QED BY <2>4, <5>1, SegmentIs DEF mm, cur, src, tgt, ei
      <4>3. ei # 0
        BY <4>2
      <4> HIDE DEF mm, cur, src, tgt, ei
      <4> QED BY <4>1, <4>2, <4>3 DEF mm
    <3>2. Listing(mm, SlotFields) /\ \A i \in 1..Len(mm) : Plain(mm[i])
      BY <2>1, <2>2, <3>1, MergedIs, MergedPlain
    <3> DEFINE nn == Anchored(mm, j, e, b)
    <3>3. Listing(nn, SlotFields)
      BY <3>1, <3>2, AnchoredIs
    <3>4. \A i \in 1..Len(nn) : Plain(nn[i])
      BY <3>2, AnchoredPlain
    <3> HIDE DEF nn
    <3>5. \A i \in 1..Len(slots') : Plain(slots'[i])
      <4>1. slots' = Anchored(nn, k, e, c)
        BY <3>1 DEF nn
      <4> QED BY <3>3, <3>4, <4>1, AnchoredPlain
    <3> QED BY <2>1, <2>2, <3>1, <3>5, PlainShaped
  <2>5. CASE EndPath \/ EndCollect
    <3>1. /\ slots' = slots /\ emitted' = emitted /\ engine' = engine
          /\ pc' \in { "collect", "resolve" }
      BY <2>1, <2>5 DEF EndPath, EndCollect, Goto
    <3> QED BY <2>2, <3>1, PlainShaped
  <2>6. CASE ResolveLabels
    <3>1. /\ slots' = [ i \in 1..Len(slots) |-> Resolved(slots[i]) ]
          /\ emitted' = emitted /\ engine' = engine /\ pc' = "name"
      BY <1>2, <2>6 DEF ResolveLabels, Goto
    <3>2. Len(slots') = Len(slots) /\ \A i \in 1..Len(slots) : slots'[i] = Resolved(slots[i])
      BY <2>1, <3>1 DEF Listing
    <3>3. \A i \in 1..Len(slots) : Plain(Resolved(slots[i]))
      BY <2>1, <2>2 DEF Resolved, Plain, Listing, SlotFields
    <3> QED BY <2>2, <3>1, <3>2, <3>3, PlainShaped
  <2> QED BY <2>3, <2>4, <2>5, <2>6 DEF CollectPattern
<1> QED BY <1>1, <1>2

(* An edge takes its variable for an alias, or one made up from its index. *)
LEMMA NameEdgesShaped ==
  ASSUME TInv, Checked, Shaped, engine = "general", NameEdges
  PROVE  Shaped'
<1> DEFINE named(e) ==
      [ edges[e] EXCEPT !.alias =
          IF edges[e].var # Anon THEN edges[e].var
          ELSE IF Len(edges) = 1 THEN << "r", 1 >> ELSE << "_e", e >> ]
<1>1. /\ pc = "name" /\ pc' = "check" /\ engine' = engine /\ slots' = slots /\ emitted' = emitted
      /\ edges' = [ e \in 1..Len(edges) |-> named(e) ]
  BY DEF NameEdges, Goto
<1>2. Live /\ Len(edges) \in Nat /\ \A e \in 1..Len(edges) : DOMAIN edges[e] = EdgeFields
  BY <1>1 DEF Live, TInv, Ranges, Listing
<1>3. emitted = 0 /\ \A i \in 1..Len(slots) : Plain(slots[i])
  BY <1>1, <1>2 DEF Shaped, Aliases, Checked, UsesChecked
<1>4. Len(edges') = Len(edges) /\ \A e \in 1..Len(edges) : edges'[e] = named(e)
  <2> HIDE DEF named
  <2> QED BY <1>1, <1>2
<1>5. \A e \in 1..Len(edges) :
        named(e).var = edges[e].var /\ named(e).alias = EdgeAlias(e)
  BY <1>2 DEF EdgeFields, EdgeAlias
<1> HIDE DEF named
<1>6. \A e \in 1..Len(edges) : edges'[e].alias = EdgeAlias(e)'
  BY <1>4, <1>5 DEF EdgeAlias
<1>7. Aliases'
  BY <1>1, <1>3, <1>4, <1>6 DEF Aliases, Plain
<1>8. Marks' /\ Built'
  BY <1>1, <1>3 DEF Marks, Built, Plain
<1> QED BY <1>7, <1>8 DEF Shaped

(* A slot on no edge becomes a lone one, with an alias made up if it has   *)
(* none.                                                                   *)
LEMMA CheckSlotsShaped ==
  ASSUME TInv, Checked, Shaped, engine = "general", CheckSlots
  PROVE  Shaped'
<1> DEFINE lone(i) == slots[i].anchor_edge = 0
           new(i)  == [ slots[i] EXCEPT !.is_lone = lone(i),
                          !.alias = IF lone(i) /\ @ = Anon THEN << "_n", i >> ELSE @ ]
<1>1. CASE \E reason : Fail(reason)
  BY <1>1, FailShaped
<1>2. CASE ~\E reason : Fail(reason)
  <2>1. /\ pc = "check" /\ pc' = "emit" /\ engine' = engine /\ edges' = edges /\ emitted' = emitted
        /\ slots' = [ i \in 1..Len(slots) |-> new(i) ]
    BY <1>2 DEF CheckSlots, Goto
  <2>2. Live /\ Len(slots) \in Nat /\ \A i \in 1..Len(slots) : DOMAIN slots[i] = SlotFields
    <3>1. Listing(slots, SlotFields)
      BY ONLY TInv DEF TInv, Ranges
    <3>2. Len(slots) \in Nat /\ \A i \in 1..Len(slots) : DOMAIN slots[i] = SlotFields
      BY ONLY <3>1 DEF Listing
    <3>3. Live
      BY <2>1 DEF Live
    <3> QED BY <3>2, <3>3
  <2>3. /\ emitted = 0 /\ \A i \in 1..Len(slots) : Plain(slots[i])
        /\ \A e \in 1..Len(edges) : edges[e].alias = EdgeAlias(e)
    BY <2>1, <2>2 DEF Shaped, Aliases, Checked, UsesChecked
  <2>4. Len(slots') = Len(slots) /\ \A i \in 1..Len(slots) : slots'[i] = new(i)
    <3> HIDE DEF new
    <3> QED BY <2>1, <2>2
  <2>5. \A i \in 1..Len(slots) :
          /\ new(i).var = slots[i].var /\ new(i).anchor_edge = slots[i].anchor_edge
          /\ new(i).is_lone = lone(i) /\ ~new(i).referenced
          /\ new(i).alias = IF lone(i) /\ slots[i].var = Anon THEN << "_n", i >> ELSE slots[i].var
    BY <2>2, <2>3 DEF SlotFields, Plain
  <2> HIDE DEF new
  <2>6. \A i \in 1..Len(slots) :
          slots'[i].alias = SlotAlias(i)' /\ slots'[i].is_lone = IsLone(i)'
    BY <2>1, <2>4, <2>5 DEF SlotAlias, IsLone
  <2>7. \A e \in 1..Len(edges) : edges'[e].alias = EdgeAlias(e)'
    BY <2>1, <2>3 DEF EdgeAlias
  <2>8. Aliases'
    BY <2>1, <2>4, <2>6, <2>7 DEF Aliases
  <2>9. \A i \in 1..Len(slots') : ~slots'[i].referenced
    BY <2>4, <2>5
  <2>10. emitted' = 0
    BY <2>1, <2>3
  <2>11. Marks'
    BY <2>9, <2>10 DEF Marks
  <2>12. Built'
    BY <2>1 DEF Built
  <2> QED BY <2>8, <2>11, <2>12 DEF Shaped
<1> QED BY <1>1, <1>2

(* A reference marks the slot that binds its name.                         *)
LEMMA EmitReferenceShaped ==
  ASSUME TInv, Checked, Shaped, engine # "none", EmitReference
  PROVE  Shaped'
<1>0. PICK use : use = query.uses[emitted + 1]
  OBVIOUS
<1> PICK v, named, k : v = use.var /\ named = NodesNamed(v) /\ k = Least(named)
  OBVIOUS
<1>1. /\ pc = "emit" /\ emitted < Len(query.uses) /\ Live /\ query \in Queries
      /\ Len(query.uses) \in Nat /\ emitted \in 0..Len(query.uses)
      /\ Listing(slots, SlotFields)
  BY QueriesAssumption DEF EmitReference, Live, TInv, Places, Ranges
<1>2. /\ Len(slots) \in Nat /\ DOMAIN slots = 1..Len(slots)
      /\ \A i \in 1..Len(slots) : DOMAIN slots[i] = SlotFields
  BY <1>1 DEF Listing
<1>3. CASE BindError(use) # "none"
  <2>1. Fail(BindError(use))
    BY <1>0, <1>3 DEF EmitReference
  <2> QED BY <2>1, FailShaped
<1>4. CASE BindError(use) = "none"
  <2>1. /\ slots' = IF named = {} THEN slots ELSE [ slots EXCEPT ![k].referenced = TRUE ]
        /\ pc' = "emit" /\ emitted' = emitted + 1 /\ query' = query
        /\ engine' = engine /\ edges' = edges
    BY <1>0, <1>1, <1>4 DEF EmitReference
  <2>2. v # Anon
    <3>1. emitted + 1 \in 1..Len(query.uses)
      BY <1>1
    <3> QED BY <1>0, <1>1, <3>1, WrittenAssumption
  <2>3. /\ named \cup EdgesNamed(v) # {}
        /\ named # {} => slots[k].label # NoLabel
    BY <1>4 DEF BindError
  <2>4. named # {} => k \in named /\ \A j \in named : k <= j
    <3>1. named \subseteq 1..Len(slots)
      BY DEF NodesNamed
    <3>2. named # {} => \E i \in named : \A j \in named : i <= j
      BY <1>2, <3>1, LeastIndex
    <3> QED BY <3>2 DEF Least
  <2>5. \A i \in named : i \in 1..Len(slots) /\ slots[i].var = v
    BY DEF NodesNamed
  <2>6. /\ Len(slots') = Len(slots)
        /\ \A i \in 1..Len(slots) :
             slots'[i] = IF i = k /\ named # {} THEN [ slots[i] EXCEPT !.referenced = TRUE ]
                         ELSE slots[i]
    <3>1. CASE named = {}
      BY <2>1, <3>1
    <3>2. CASE named # {}
      <4>1. slots' = [ slots EXCEPT ![k] = [ slots[k] EXCEPT !.referenced = TRUE ] ]
        BY <2>1, <3>2
      <4>2. k \in 1..Len(slots)
        BY <2>4, <2>5, <3>2
      <4>3. Len(slots') = Len(slots)
        BY ONLY <1>2, <4>1
      <4>4. \A i \in 1..Len(slots) :
              slots'[i] = IF i = k THEN [ slots[i] EXCEPT !.referenced = TRUE ] ELSE slots[i]
        BY ONLY <1>2, <4>1, <4>2
      <4> QED BY <3>2, <4>3, <4>4
    <3> QED BY <3>1, <3>2
  <2>7. \A i \in 1..Len(slots) :
          /\ slots'[i].var = slots[i].var /\ slots'[i].alias = slots[i].alias
          /\ slots'[i].label = slots[i].label /\ slots'[i].is_lone = slots[i].is_lone
          /\ slots'[i].anchor_edge = slots[i].anchor_edge
          /\ slots[i].referenced => slots'[i].referenced
          /\ i = k /\ named # {} => slots'[i].referenced
          /\ slots'[i].referenced => slots[i].referenced \/ (i = k /\ named # {})
    BY <1>2, <2>6 DEF SlotFields
  <2>8. /\ \A w : NodesNamed(w)' = NodesNamed(w)
        /\ \A w : EdgesNamed(w)' = EdgesNamed(w)
    BY <2>1, <2>6, <2>7 DEF NodesNamed, EdgesNamed
  <2>9. Aliases'
    <3>1. /\ engine # "general" => Directed
          /\ \A e \in 1..Len(edges) : edges[e].alias = EdgeAlias(e)
          /\ \A i \in 1..Len(slots) :
               /\ slots[i].alias = SlotAlias(i)
               /\ engine = "general" => slots[i].is_lone = IsLone(i)
      BY <1>1 DEF Shaped, Aliases
    <3>2. \A e : EdgeAlias(e)' = EdgeAlias(e)
      BY <2>1 DEF EdgeAlias
    <3>3. \A i \in 1..Len(slots) : SlotAlias(i)' = SlotAlias(i) /\ IsLone(i)' = IsLone(i)
      BY <2>1, <2>7 DEF SlotAlias, IsLone
    <3>4. \A i \in 1..Len(slots') :
            /\ slots'[i].alias = SlotAlias(i)'
            /\ engine' = "general" => slots'[i].is_lone = IsLone(i)'
      BY <2>1, <2>6, <2>7, <3>1, <3>3
    <3> QED BY <2>1, <3>1, <3>2, <3>4 DEF Aliases, Directed
  <2>10. /\ \A i \in 1..Len(slots) : slots[i].referenced => Bound(i) /\ Asked(i)
         /\ \A n \in 1..emitted : Marked(query.uses[n].var)
    BY <1>1 DEF Shaped, Marks
  <2>11. \A i \in 1..Len(slots) : Bound(i) => Bound(i)'
    BY <2>7, <2>8 DEF Bound
  <2>12. named # {} => Bound(k)'
    BY <2>2, <2>3, <2>4, <2>5, <2>7, <2>8 DEF Bound
  <2>13. \A i \in 1..Len(slots') : slots'[i].referenced => Bound(i)' /\ Asked(i)'
    <3>1. \A i \in 1..Len(slots) : Asked(i) => Asked(i)'
      BY <1>1, <2>1, <2>7 DEF Asked
    <3>2. named # {} => Asked(k)'
      <4>1. emitted + 1 \in 1..(emitted + 1)
        BY <1>1
      <4> QED BY <1>0, <2>1, <2>4, <2>5, <2>7, <4>1 DEF Asked
    <3> QED BY <2>6, <2>7, <2>10, <2>11, <2>12, <3>1, <3>2
  <2>14. \A w : Marked(w) => Marked(w)'
    <3>1. \A w : \A i \in NodesNamed(w) : i \in 1..Len(slots)
      BY DEF NodesNamed
    <3> QED BY <2>7, <2>8, <3>1 DEF Marked
  <2>15. Marked(v)'
    BY <2>2, <2>3, <2>4, <2>5, <2>7, <2>8 DEF Marked
  <2>16. \A n \in 1..(emitted + 1) : \E w : w = query.uses[n].var /\ Marked(w)'
    <3>1. \A n \in 1..(emitted + 1) : n \in 1..emitted \/ n = emitted + 1
      BY <1>1
    <3>2. \A n \in 1..emitted : \E w : w = query.uses[n].var /\ Marked(w)'
      BY <2>10, <2>14
    <3>3. \E w : w = query.uses[emitted + 1].var /\ Marked(w)'
      BY <1>0, <2>15
    <3> QED BY <3>1, <3>2, <3>3
  <2>17. Marks'
    BY <2>1, <2>13, <2>16 DEF Marks, Marked
  <2>18. Built'
    BY <2>1 DEF Built
  <2> QED BY <2>9, <2>17, <2>18 DEF Shaped
<1> QED BY <1>3, <1>4

(* From the references on, only FROM and WHERE are left to build.          *)
LEMMA OnwardShaped ==
  ASSUME Shaped, pc \in { "emit", "where" }, NEW phase \in { "where", "done" }, Onward(phase),
         Built'
  PROVE  Shaped'
<1>1. /\ Live /\ pc' \in { "where", "done" } /\ query' = query /\ engine' = engine
      /\ slots' = slots /\ edges' = edges /\ emitted' = emitted
  BY DEF Onward, Goto, Live
<1>2. Aliases'
  BY <1>1 DEF Shaped, Aliases, Directed, EdgeAlias, SlotAlias, IsLone
<1>3. Marks'
  BY <1>1 DEF Shaped, Marks, Asked, Bound, Marked, NodesNamed, EdgesNamed
<1> QED BY <1>2, <1>3 DEF Shaped

(* FROM is built from the slots as they are marked by then.                *)
LEMMA EmitFromShaped ==
  ASSUME Shaped, engine = "general", EmitFrom
  PROVE  Shaped'
<1>1. /\ pc = "emit" /\ pc' = "where" /\ Onward("where") /\ from' = FromItems
      /\ engine' = engine /\ slots' = slots /\ edges' = edges
  BY DEF EmitFrom, AllEmitted, Onward, Goto
<1>2. FromItems' = FromItems
  BY <1>1 DEF FromItems, EdgeItems, LoneItems, NodeItems, EdgeItem, LoneItem, NodeItem, Tie,
              AnchorId, AnchorName
<1>3. Built'
  BY <1>1, <1>2 DEF Built
<1> QED BY <1>1, <1>3, OnwardShaped

(* WHERE is built last, and FROM stays as it was built.                    *)
LEMMA EmitWhereShaped ==
  ASSUME Shaped, engine = "general", EmitWhere
  PROVE  Shaped'
<1>1. CASE Fail("relationship property")
  BY <1>1, FailShaped
<1>2. CASE ~Fail("relationship property")
  <2>1. /\ pc = "where" /\ pc' = "done" /\ Onward("done") /\ where' = PatternClauses
        /\ engine' = engine /\ slots' = slots /\ edges' = edges /\ from' = from
    BY <1>2 DEF EmitWhere, Onward, Goto
  <2>2. FromItems' = FromItems
    BY <2>1 DEF FromItems, EdgeItems, LoneItems, NodeItems, EdgeItem, LoneItem, NodeItem, Tie,
                AnchorId, AnchorName
  <2>3. PatternClauses' = PatternClauses
    BY <2>1 DEF PatternClauses, TypeClauses, NameClauses, PropClauses, EndSlot
  <2>4. from = FromItems
    BY <2>1 DEF Shaped, Built
  <2>5. Built'
    BY <2>1, <2>2, <2>3, <2>4 DEF Built
  <2> QED BY <2>1, <2>5, OnwardShaped
<1> QED BY <1>1, <1>2

(* The engines for a hop build FROM and WHERE in one step.                 *)
LEMMA EmitHopShaped ==
  ASSUME Shaped, \/ engine = "undirected" /\ EmitUndirected
                 \/ engine = "varlen" /\ EmitVarlen
  PROVE  Shaped'
<1>1. CASE Fail("relationship property")
  BY <1>1, FailShaped
<1>2. CASE engine = "undirected" /\ ~Fail("relationship property")
  <2>1. /\ pc = "emit" /\ pc' = "done" /\ Onward("done")
        /\ from' = UndirectedItems /\ where' = UndirectedClauses
        /\ engine' = engine /\ slots' = slots /\ edges' = edges
    BY <1>2 DEF EmitUndirected, AllEmitted, Onward, Goto
  <2>2. UndirectedItems' = UndirectedItems
    BY <2>1 DEF UndirectedItems, PeerItems, PeerItem
  <2>3. UndirectedClauses' = UndirectedClauses
    BY <2>1 DEF UndirectedClauses, TypeClauses, OrientClauses, Orientation, OrientSide,
                PropClauses
  <2>4. Built'
    BY <1>2, <2>1, <2>2, <2>3 DEF Built
  <2> QED BY <2>1, <2>4, OnwardShaped
<1>3. CASE engine = "varlen" /\ ~Fail("relationship property")
  <2>1. /\ pc = "emit" /\ pc' = "done" /\ Onward("done")
        /\ from' = VarlenItems /\ where' = VarlenClauses
        /\ engine' = engine /\ slots' = slots /\ edges' = edges /\ query' = query
    BY <1>3 DEF EmitVarlen, AllEmitted, Onward, Goto
  <2>2. VarlenItems' = VarlenItems
    BY <2>1 DEF VarlenItems, EndItems, EndItem, WalkEnds
  <2>3. VarlenClauses' = VarlenClauses
    BY <2>1 DEF VarlenClauses, EndClause, WalkEnds, LowerBound, Star
  <2>4. Built'
    BY <1>3, <2>1, <2>2, <2>3 DEF Built
  <2> QED BY <2>1, <2>4, OnwardShaped
<1> QED BY <1>1, <1>2, <1>3

(* Nothing is built when an engine takes over.                             *)
LEMMA DispatchShaped ==
  ASSUME TInv, Checked, Dispatch
  PROVE  Shaped'
<1>1. CASE \E reason : Fail(reason)
  BY <1>1, FailShaped
<1>2. CASE ~\E reason : Fail(reason)
  <2>1. Choose("varlen", "hop") \/ Choose("undirected", "hop") \/ Choose("general", "collect")
    BY <1>2 DEF Dispatch
  <2>2. CASE Choose("general", "collect")
    <3>1. slots = << >> /\ emitted = 0
      BY DEF Dispatch, TInv, Places, Checked, UsesChecked
    <3>2. /\ engine' = "general" /\ pc' = "collect" /\ emitted' = 0
          /\ \A i \in 1..Len(slots') : Plain(slots'[i])
      BY <2>2, <3>1 DEF Choose
    <3> QED BY <3>2, PlainShaped
  <2>3. CASE Choose("varlen", "hop") \/ Choose("undirected", "hop")
    BY <2>3 DEF Choose, Shaped, Aliases, Marks, Built, Live
  <2> QED BY <2>1, <2>2, <2>3
<1> QED BY <1>1, <1>2

(* The two ends of a hop have two slots.                                   *)
LEMMA OpenHopShaped ==
  ASSUME TInv, Checked, engine \in { "undirected", "varlen" }, pc = "hop",
         NEW src \in 1..2, NEW tgt \in 1..2, src # tgt, OpenHop(src, tgt),
         src = EndOf(query, TheHop, FALSE)[2] + 1, tgt = EndOf(query, TheHop, TRUE)[2] + 1
  PROVE  Shaped'
<1> DEFINE new == NewEdge(RelAt(query, TheHop), src, tgt)
           x   == [ new EXCEPT !.alias = IF @ = Anon THEN << "r", 1 >> ELSE @ ]
<1>1. /\ x.src = src /\ x.tgt = tgt
      /\ x.alias = IF x.var # Anon THEN x.var ELSE << "r", 1 >>
  BY DEF NewEdge
<1>2. /\ slots' = << NewSlot(Left), NewSlot(Right) >> /\ edges' = << x >>
      /\ pc' = "resolve" /\ engine' = engine /\ emitted' = emitted /\ query' = query
  BY DEF OpenHop, Goto
<1>3. emitted = 0
  BY DEF Checked, UsesChecked
<1> HIDE DEF x
<1>4. Len(edges') = 1 /\ edges'[1] = x /\ \A i \in 1..1 : i = 1
  BY <1>2
<1>5. \A i \in 1..Len(slots') : Plain(slots'[i])
  <2>1. \A o : Plain(NewSlot(o))
    BY DEF Plain, NewSlot
  <2>2. Len(slots') = 2 /\ \A i \in 1..2 : slots'[i] = NewSlot(Left) \/ slots'[i] = NewSlot(Right)
    BY <1>2
  <2> QED BY <2>1, <2>2
<1>6. \A e \in 1..Len(edges') : edges'[e].alias = EdgeAlias(e)'
  BY <1>1, <1>4 DEF EdgeAlias
<1>7. Aliases'
  <2>1. Directed'
    BY <1>1, <1>2, <1>4 DEF Directed, EndOf, RelAt
  <2> QED BY <1>2, <1>5, <1>6, <2>1 DEF Aliases
<1>8. Marks'
  BY <1>2, <1>3, <1>5 DEF Marks, Plain
<1>9. Built'
  BY <1>2 DEF Built
<1> QED BY <1>7, <1>8, <1>9 DEF Shaped

(* A hop the undirected engine opens does not point to the left.           *)
LEMMA UndirectedDir ==
  ASSUME TInv, Checked, pc = "hop", engine = "undirected"
  PROVE  RelAt(query, TheHop).dir # "left"
<1>1. SingleHop /\ HasUndirected
  BY DEF Checked, Dispatched
<1> QED BY <1>1 DEF SingleHop, HasUndirected

(* A hop begins with its two slots and its edge, plain and named.          *)
LEMMA OpenShaped ==
  ASSUME TInv, Checked,
         \/ engine = "undirected" /\ OpenUndirected
         \/ engine = "varlen" /\ OpenVarlen
  PROVE  Shaped'
<1>1. pc = "hop"
  BY DEF OpenUndirected, OpenVarlen
<1>2. CASE \E reason : Fail(reason)
  BY <1>2, FailShaped
<1>3. CASE ~\E reason : Fail(reason)
  <2> DEFINE left == RelAt(query, TheHop).dir = "left"
  <2> PICK src, tgt : /\ src = IF left THEN 2 ELSE 1
                      /\ tgt = IF left THEN 1 ELSE 2
    OBVIOUS
  <2>1. OpenHop(src, tgt)
    <3>1. CASE engine = "undirected" /\ OpenUndirected
      BY <1>1, <1>3, <3>1, UndirectedDir DEF OpenUndirected
    <3>2. CASE engine = "varlen" /\ OpenVarlen
      BY <1>3, <3>2 DEF OpenVarlen
    <3> QED BY <3>1, <3>2
  <2>2. src = EndOf(query, TheHop, FALSE)[2] + 1 /\ tgt = EndOf(query, TheHop, TRUE)[2] + 1
    BY DEF EndOf, TheHop
  <2>3. /\ engine \in { "undirected", "varlen" }
        /\ src \in 1..2 /\ tgt \in 1..2 /\ src # tgt
    OBVIOUS
  <2> QED BY ONLY TInv, Checked, <1>1, <2>1, <2>2, <2>3, OpenHopShaped
<1> QED BY <1>2, <1>3

(* The nodes of a hop keep their variables for aliases.                    *)
LEMMA ResolveHopShaped ==
  ASSUME TInv, Checked, Shaped, engine \in { "undirected", "varlen" }, ResolveHop
  PROVE  Shaped'
<1>1. CASE Fail("ambiguous label") \/ Fail("unknown table")
  BY <1>1, FailShaped
<1>2. CASE ~(Fail("ambiguous label") \/ Fail("unknown table"))
  <2>1. /\ slots' = [ i \in 1..2 |-> Resolved(slots[i]) ]
        /\ pc = "resolve" /\ pc' = "emit" /\ engine' = engine /\ query' = query
        /\ edges' = edges /\ emitted' = emitted
    BY <1>2 DEF ResolveHop, Goto
  <2>2. Live /\ Len(slots) = 2 /\ \A i \in 1..2 : DOMAIN slots[i] = SlotFields
    BY <2>1 DEF Live, TInv, Places, Ranges, Listing
  <2>3. /\ emitted = 0 /\ \A i \in 1..2 : Plain(slots[i])
        /\ Directed
        /\ \A e \in 1..Len(edges) : edges[e].alias = EdgeAlias(e)
    BY <2>1, <2>2 DEF Shaped, Aliases, Checked, UsesChecked
  <2>4. Len(slots') = 2 /\ \A i \in 1..2 : slots'[i] = Resolved(slots[i])
    BY <2>1
  <2>5. \A i \in 1..2 : Plain(Resolved(slots[i]))
    BY <2>2, <2>3 DEF Resolved, Plain, SlotFields
  <2>6. \A i \in 1..2 : slots'[i].alias = SlotAlias(i)'
    BY <2>1, <2>4, <2>5 DEF SlotAlias, IsLone, Plain
  <2>7. \A e \in 1..Len(edges) : edges'[e].alias = EdgeAlias(e)'
    BY <2>1, <2>3 DEF EdgeAlias
  <2>8. Aliases'
    BY <2>1, <2>3, <2>4, <2>6, <2>7 DEF Aliases, Directed
  <2>9. Marks'
    BY <2>1, <2>3, <2>4, <2>5 DEF Marks, Plain
  <2>10. Built'
    BY <2>1 DEF Built
  <2> QED BY <2>8, <2>9, <2>10 DEF Shaped
<1> QED BY <1>1, <1>2

(* Every step keeps aliases, marks, FROM and WHERE as described.           *)
THEOREM ShapedInductive == TInv /\ Checked /\ Shaped /\ [Next]_vars => Shaped'
<1> SUFFICES ASSUME TInv, Checked, Shaped, [Next]_vars PROVE Shaped'
  OBVIOUS
<1>1. CASE Dispatch
  BY <1>1, DispatchShaped
<1>2. CASE TranslateGeneral
  <2>1. engine = "general"
    BY <1>2 DEF TranslateGeneral
  <2>2. CASE CollectPattern \/ ResolveLabels
    BY <2>1, <2>2, CollectShaped
  <2>3. CASE NameEdges
    BY <2>1, <2>3, NameEdgesShaped
  <2>4. CASE CheckSlots
    BY <2>1, <2>4, CheckSlotsShaped
  <2>5. CASE EmitReference
    BY <2>1, <2>5, EmitReferenceShaped
  <2>6. CASE EmitFrom
    BY <2>1, <2>6, EmitFromShaped
  <2>7. CASE EmitWhere
    BY <2>1, <2>7, EmitWhereShaped
  <2> QED BY <1>2, <2>2, <2>3, <2>4, <2>5, <2>6, <2>7 DEF TranslateGeneral
<1>3. CASE TranslateUndirected \/ TranslateVarlen
  <2>1. engine \in { "undirected", "varlen" }
    BY <1>3 DEF TranslateUndirected, TranslateVarlen
  <2>2. CASE \/ engine = "undirected" /\ OpenUndirected
             \/ engine = "varlen" /\ OpenVarlen
    BY <2>2, OpenShaped
  <2>3. CASE ResolveHop
    BY <2>1, <2>3, ResolveHopShaped
  <2>4. CASE EmitReference
    BY <2>1, <2>4, EmitReferenceShaped
  <2>5. CASE \/ engine = "undirected" /\ EmitUndirected
             \/ engine = "varlen" /\ EmitVarlen
    BY <2>5, EmitHopShaped
  <2> QED BY <1>3, <2>2, <2>3, <2>4, <2>5 DEF TranslateUndirected, TranslateVarlen
<1>4. CASE UNCHANGED vars
  <2>1. UNCHANGED << query, map, engine, pc, at, prev, slots, edges, emitted, from, where, err >>
    BY <1>4 DEF vars
  <2>2. Live' <=> Live
    BY <2>1 DEF Live
  <2>3. Aliases'
    BY <2>1, <2>2 DEF Shaped, Aliases, Directed, EdgeAlias, SlotAlias, IsLone, Plain
  <2>4. Marks'
    BY <2>1, <2>2 DEF Shaped, Marks, Asked, Bound, Marked, NodesNamed, EdgesNamed
  <2>5. FromItems' = FromItems
    BY <2>1 DEF FromItems, EdgeItems, LoneItems, NodeItems, EdgeItem, LoneItem, NodeItem, Tie,
                AnchorId, AnchorName
  <2>6. PatternClauses' = PatternClauses
    BY <2>1 DEF PatternClauses, TypeClauses, NameClauses, PropClauses, EndSlot
  <2>7. UndirectedItems' = UndirectedItems
    BY <2>1 DEF UndirectedItems, PeerItems, PeerItem
  <2>8. UndirectedClauses' = UndirectedClauses
    BY <2>1 DEF UndirectedClauses, TypeClauses, OrientClauses, Orientation, OrientSide,
                PropClauses
  <2>9. VarlenItems' = VarlenItems
    BY <2>1 DEF VarlenItems, EndItems, EndItem, WalkEnds
  <2>10. VarlenClauses' = VarlenClauses
    BY <2>1 DEF VarlenClauses, EndClause, WalkEnds, LowerBound, Star
  <2>11. Built'
    BY <2>1, <2>5, <2>6, <2>7, <2>8, <2>9, <2>10 DEF Shaped, Built
  <2> QED BY <2>3, <2>4, <2>11 DEF Shaped
<1> QED BY <1>1, <1>2, <1>3, <1>4 DEF Next

-----------------------------------------------------------------------------
(***************************************************************************)
(* The statement returned.                                                 *)
(***************************************************************************)
(* The state a statement is returned in.                                   *)
Finished == TInv /\ Checked /\ Shaped /\ DistinctVariables /\ pc = "done"

(* What a finished translation has: every edge and slot has the alias of   *)
(* its index, and every reference a slot marked for it.                    *)
LEMMA FinishedIs ==
  ASSUME Finished
  PROVE  /\ Live /\ query \in Queries /\ Len(slots) \in Nat /\ Len(edges) \in Nat
         /\ engine \in { "general", "undirected", "varlen" }
         /\ \A e \in 1..Len(edges) :
              /\ edges[e].alias = EdgeAlias(e)
              /\ edges[e].src \in 1..Len(slots) /\ edges[e].tgt \in 1..Len(slots)
         /\ \A i \in 1..Len(slots) :
              /\ slots[i].alias = SlotAlias(i) /\ ~UnknownTable(slots[i])
              /\ slots[i].referenced => Bound(i) /\ Asked(i)
         /\ engine = "general" =>
              \A i \in 1..Len(slots) :
                /\ slots[i].is_lone = IsLone(i)
                /\ slots[i].anchor_edge \in 0..Len(edges)
                /\ slots[i].anchor_edge = 0 => slots[i].label # NoLabel
         /\ engine # "general" =>
              Len(slots) = 2 /\ Len(edges) = 1 /\ Directed
         /\ \A n \in 1..Len(query.uses) : Marked(query.uses[n].var)
<1>1. Live
  BY DEF Finished, Live
<1>2. engine \in { "general", "undirected", "varlen" }
  BY <1>1, Engines DEF Finished
<1>3. /\ query \in Queries /\ Len(slots) \in Nat /\ Len(edges) \in Nat
      /\ \A e \in 1..Len(edges) : edges[e].src \in 1..Len(slots) /\ edges[e].tgt \in 1..Len(slots)
      /\ \A i \in 1..Len(slots) : slots[i].anchor_edge \in 0..Len(edges)
  <2>1. Places /\ Ranges
    BY DEF Finished, TInv
  <2>2. query \in Queries
    BY <2>1 DEF Places
  <2>3. Listing(slots, SlotFields) /\ Listing(edges, EdgeFields)
    BY <2>1 DEF Ranges
  <2>4. Len(slots) \in Nat /\ Len(edges) \in Nat
    BY ONLY <2>3 DEF Listing
  <2>5. /\ \A e \in 1..Len(edges) : edges[e].src \in 1..Len(slots) /\ edges[e].tgt \in 1..Len(slots)
        /\ \A i \in 1..Len(slots) : slots[i].anchor_edge \in 0..Len(edges)
    BY <2>1 DEF Ranges
  <2> QED BY <2>2, <2>4, <2>5
<1>4. /\ engine # "general" => Directed
      /\ \A e \in 1..Len(edges) : edges[e].alias = EdgeAlias(e)
      /\ \A i \in 1..Len(slots) :
           /\ slots[i].alias = SlotAlias(i)
           /\ engine = "general" => slots[i].is_lone = IsLone(i)
  BY <1>1 DEF Finished, Shaped, Aliases
<1>5. \A i \in 1..Len(slots) :
        /\ ~UnknownTable(slots[i])
        /\ engine = "general" /\ slots[i].anchor_edge = 0 => slots[i].label # NoLabel
  BY DEF Finished, Checked, TablesKnown
<1>6. emitted = Len(query.uses)
  BY DEF Finished, Checked, UsesChecked
<1>7. /\ \A i \in 1..Len(slots) : slots[i].referenced => Bound(i) /\ Asked(i)
      /\ \A n \in 1..Len(query.uses) : Marked(query.uses[n].var)
  BY <1>1, <1>6 DEF Finished, Shaped, Marks
<1>8. engine # "general" => Len(slots) = 2 /\ Len(edges) = 1
  BY <1>1, <1>2 DEF Finished, TInv, Places, Checked, Mirrored
<1> QED BY <1>1, <1>2, <1>3, <1>4, <1>5, <1>7, <1>8

(* No two edges have one alias.                                            *)
LEMMA EdgeAliasesDiffer ==
  ASSUME DistinctVariables, NEW e \in 1..Len(edges), NEW f \in 1..Len(edges),
         EdgeAlias(e) = EdgeAlias(f)
  PROVE  e = f
<1> DEFINE gen(i) == IF Len(edges) = 1 THEN << "r", 1 >> ELSE << "_e", i >>
<1>1. \A i \in 1..Len(edges) : gen(i) \in Generated
  BY DEF Generated
<1>2. gen(e) = gen(f) => e = f
  BY ONLY e \in 1..Len(edges), f \in 1..Len(edges)
<1>3. /\ EdgeAlias(e) = IF edges[e].var # Anon THEN edges[e].var ELSE gen(e)
      /\ EdgeAlias(f) = IF edges[f].var # Anon THEN edges[f].var ELSE gen(f)
  BY DEF EdgeAlias
<1> HIDE DEF gen
<1>4. CASE edges[e].var # Anon /\ edges[f].var # Anon
  <2>1. EdgesNamed(edges[e].var) = {e} /\ f \in EdgesNamed(edges[e].var)
    BY <1>3, <1>4 DEF DistinctVariables, EdgesNamed
  <2> QED BY <2>1
<1>5. edges[e].var \notin Generated /\ edges[f].var \notin Generated
  BY DEF DistinctVariables
<1> QED BY <1>1, <1>2, <1>3, <1>4, <1>5

(* An edge and a slot have different aliases.                              *)
LEMMA EdgeSlotDiffer ==
  ASSUME DistinctVariables, NEW e \in 1..Len(edges), NEW i \in 1..Len(slots)
  PROVE  EdgeAlias(e) # SlotAlias(i)
<1> DEFINE gen == IF Len(edges) = 1 THEN << "r", 1 >> ELSE << "_e", e >>
           n   == << "_n", i >>
<1>1. gen \in Generated /\ n \in Generated
  BY DEF Generated
<1>2. gen # n
  OBVIOUS
<1>3. EdgeAlias(e) = IF edges[e].var # Anon THEN edges[e].var ELSE gen
  BY DEF EdgeAlias
<1>4. SlotAlias(i) = n \/ SlotAlias(i) = slots[i].var
  BY DEF SlotAlias
<1>5. edges[e].var \notin Generated /\ slots[i].var \notin Generated
  BY DEF DistinctVariables
<1>6. edges[e].var # Anon => edges[e].var # slots[i].var
  BY DEF DistinctVariables, NodesNamed
<1> HIDE DEF gen, n
<1> QED BY <1>1, <1>2, <1>3, <1>4, <1>5, <1>6

(* The slots the general engine may declare.                               *)
Declarable(i) == IsLone(i) \/ slots[i].var # Anon

(* No two slots the general engine declares have one alias: a variable has *)
(* one slot.                                                               *)
LEMMA SlotAliasesDiffer ==
  ASSUME Finished, engine = "general",
         NEW i \in 1..Len(slots), NEW j \in 1..Len(slots), Declarable(i), Declarable(j),
         SlotAlias(i) = SlotAlias(j)
  PROVE  i = j
<1>1. Live /\ Len(slots) \in Nat /\ Owned /\ DistinctVariables
  BY FinishedIs DEF Finished, Checked
<1>2. \A k \in {i, j} :
        SlotAlias(k) = IF slots[k].var # Anon THEN slots[k].var ELSE << "_n", k >>
  BY DEF SlotAlias, Declarable
<1>3. \A k \in {i, j} : slots[k].var \notin Generated /\ << "_n", k >> \in Generated
  BY <1>1 DEF DistinctVariables, Generated
<1>4. CASE slots[i].var # Anon /\ slots[j].var # Anon
  <2> DEFINE a == slots[i].np
             b == slots[j].np
  <2>1. /\ SlotIndex(slots, a) = i /\ NodeAt(query, a).var = slots[i].var
        /\ SlotIndex(slots, b) = j /\ NodeAt(query, b).var = slots[j].var
    BY <1>1 DEF Owned, Place
  <2>2. SameNode(query, a, b)
    BY <1>2, <1>4, <2>1 DEF SameNode
  <2> HIDE DEF a, b
  <2>3. SlotIndex(slots, a) # 0 /\ SlotIndex(slots, b) # 0
    BY <1>1, <2>1
  <2>4. SlotIndex(slots, a) = SlotIndex(slots, b)
    BY <1>1, <2>2, <2>3, SameSlot
  <2> QED BY <2>1, <2>4
<1>5. << "_n", i >> = << "_n", j >> => i = j
  OBVIOUS
<1> QED BY <1>2, <1>3, <1>4, <1>5

(* A variable is bound to one slot.                                        *)
LEMMA BoundOnce ==
  ASSUME NEW i \in 1..Len(slots), NEW j \in 1..Len(slots), Len(slots) \in Nat,
         Bound(i), Bound(j), SlotAlias(i) = SlotAlias(j)
  PROVE  i = j
<1>1. SlotAlias(i) = slots[i].var /\ SlotAlias(j) = slots[j].var
  BY DEF SlotAlias, Bound
<1>2. i <= j /\ j <= i
  BY <1>1 DEF Bound
<1> QED BY <1>2

(* Two slots that are marked have different aliases.                       *)
LEMMA MarkedOnce ==
  ASSUME Finished
  PROVE  \A i, j \in 1..Len(slots) :
           slots[i].referenced /\ slots[j].referenced /\ slots[i].alias = slots[j].alias => i = j
<1>1. /\ Len(slots) \in Nat
      /\ \A i \in 1..Len(slots) : slots[i].alias = SlotAlias(i) /\ (slots[i].referenced => Bound(i))
  BY FinishedIs
<1> QED BY <1>1, BoundOnce

(* A clause of one atom speaks of what the atom speaks of.                 *)
LEMMA RequiredSpeak ==
  ASSUME NEW w, NEW D, \A c \in w : \E a : c = Require(a) /\ Speaks(a, D)
  PROVE  \A a \in UNION UNION w : Speaks(a, D)
BY DEF Require

(* The clauses on an edge speak of its alias.                              *)
LEMMA EdgeClausesSpeak ==
  ASSUME NEW e, NEW D, e.alias \in D
  PROVE  \A c \in TypeClauses(e) \cup NameClauses(e) \cup PropClauses(e) :
           \E a : c = Require(a) /\ Speaks(a, D)
<1>1. \A c, v : Speaks(Eq(Col(e.alias, c), Lit(v)), D)
  BY AtomsSpeak
<1> QED BY <1>1 DEF TypeClauses, NameClauses, PropClauses

-----------------------------------------------------------------------------
(***************************************************************************)
(* The statement of the general engine.                                    *)
(***************************************************************************)
(* The edges come first; an edge is tied to edges up to itself.            *)
LEMMA EdgeItemsAre ==
  ASSUME Finished, engine = "general"
  PROVE  /\ List(EdgeItems) /\ Distinct(EdgeItems) /\ Ordered(EdgeItems)
         /\ Len(EdgeItems) = Len(edges)
         /\ \A e \in 1..Len(edges) :
              EdgeItems[e].alias = EdgeAlias(e) /\ EdgeItems[e].table = EdgeTable
<1>1. /\ Len(edges) \in Nat /\ Len(slots) \in Nat /\ DistinctVariables
      /\ \A e \in 1..Len(edges) :
           /\ edges[e].alias = EdgeAlias(e)
           /\ edges[e].src \in 1..Len(slots) /\ edges[e].tgt \in 1..Len(slots)
      /\ \A i \in 1..Len(slots) : slots[i].anchor_edge \in 0..Len(edges)
  BY FinishedIs DEF Finished
<1>2. /\ Len(EdgeItems) = Len(edges) /\ List(EdgeItems)
      /\ \A e \in 1..Len(edges) : EdgeItems[e] = EdgeItem(e)
  <2>1. EdgeItems = [ e \in 1..Len(edges) |-> EdgeItem(e) ]
    BY DEF EdgeItems
  <2>2. EdgeItems = [ e \in 1..Len(edges) |-> EdgeItems[e] ]
    BY <2>1
  <2> QED BY <1>1, <2>1, <2>2, Enumerated
<1> DEFINE on(e) == IF e = 1 THEN {}
                    ELSE Tie(e, edges[e].src, FALSE) \cup Tie(e, edges[e].tgt, TRUE)
<1>3. \A e \in 1..Len(edges) :
        /\ EdgeItems[e].alias = EdgeAlias(e) /\ EdgeItems[e].table = EdgeTable
        /\ EdgeItems[e].on = on(e)
  <2>1. \A e : EdgeItem(e) = FromItem(EdgeTable, edges[e].alias, on(e))
    BY DEF EdgeItem
  <2> HIDE DEF on
  <2>2. \A e : /\ EdgeItem(e).table = EdgeTable /\ EdgeItem(e).alias = edges[e].alias
                /\ EdgeItem(e).on = on(e)
    BY <2>1, ItemIs
  <2> QED BY <1>1, <1>2, <2>2
<1> HIDE DEF on
<1>4. Distinct(EdgeItems)
  BY <1>1, <1>2, <1>3, EdgeAliasesDiffer DEF Distinct
<1>5. ASSUME NEW e \in 1..Len(edges)
      PROVE  AliasesOf(EdgeItems[e].on) \subseteq Declares(EdgeItems, e)
  <2> DEFINE D == Declares(EdgeItems, e)
  <2>1. \A f \in 1..Len(edges) : f <= e => edges[f].alias \in D
    <3> TAKE f \in 1..Len(edges)
    <3> HAVE f <= e
    <3>1. f \in 1..e /\ EdgeItems[f].alias = edges[f].alias
      BY <1>1, <1>3
    <3> QED BY <3>1 DEF Declares
  <2> HIDE DEF D
  <2>2. ASSUME NEW sl \in 1..Len(slots), sl \in { edges[e].src, edges[e].tgt }, NEW b,
               NEW a \in Tie(e, sl, b)
        PROVE  Speaks(a, D)
    <3>1. slots[sl].anchor_edge \in 1..Len(edges) /\ slots[sl].anchor_edge <= e
      <4>1. AnchorsFirst
        BY DEF Finished, TInv
      <4>2. e \in { f \in 1..Len(edges) : sl \in { edges[f].src, edges[f].tgt } }
        BY <2>2
      <4> QED BY <4>1, <4>2 DEF AnchorsFirst
    <3>2. edges[slots[sl].anchor_edge].alias \in D /\ edges[e].alias \in D
      <4>1. e <= e
        BY <1>1
      <4> QED BY <2>1, <3>1, <4>1
    <3>3. a \in { Eq(Col(edges[e].alias, IdCol(b)), AnchorId(slots[sl])),
                  Eq(Col(edges[e].alias, NameCol(b)), AnchorName(slots[sl])) }
      BY <2>2 DEF Tie
    <3> QED BY <3>2, <3>3, AtomsSpeak DEF AnchorId, AnchorName
  <2>3. \A a \in EdgeItems[e].on : Speaks(a, D)
    <3>1. EdgeItems[e].on = on(e)
      BY <1>3
    <3>2. \A a \in Tie(e, edges[e].src, FALSE) : Speaks(a, D)
      BY <1>1, <2>2
    <3>3. \A a \in Tie(e, edges[e].tgt, TRUE) : Speaks(a, D)
      BY <1>1, <2>2
    <3> QED BY <3>1, <3>2, <3>3 DEF on
  <2> QED BY <2>3, SpokenOf DEF D
<1> QED BY <1>2, <1>3, <1>4, <1>5 DEF Ordered

(* Then the lone nodes, once each.                                         *)
LEMMA LoneItemsAre ==
  ASSUME Finished, engine = "general"
  PROVE  /\ List(LoneItems) /\ Distinct(LoneItems)
         /\ \A k \in 1..Len(LoneItems) : \E i \in 1..Len(slots) :
              IsLone(i) /\ LoneItems[k] = LoneItem(slots[i])
         /\ \A i \in 1..Len(slots) : IsLone(i) =>
              \E k \in 1..Len(LoneItems) :
                LoneItems[k] = LoneItem(slots[i]) /\ LoneItems[k].alias = SlotAlias(i)
<1> DEFINE S == { i \in 1..Len(slots) : slots[i].is_lone }
           item == [ i \in 1..Len(slots) |-> LoneItem(slots[i]) ]
<1>1. /\ Len(slots) \in Nat /\ S \in SUBSET (1..Len(slots))
      /\ \A i \in 1..Len(slots) : slots[i].is_lone = IsLone(i) /\ slots[i].alias = SlotAlias(i)
  BY FinishedIs
<1>2. \A i \in 1..Len(slots) : item[i] = LoneItem(slots[i]) /\ item[i].alias = SlotAlias(i)
  BY <1>1, ItemIs DEF LoneItem
<1>3. LoneItems = Filing(S, item)
  <2>1. \A k \in 1..Len(InOrder(S)) : InOrder(S)[k] \in 1..Len(slots)
    BY <1>1, InOrderIs
  <2>2. LoneItems = [ k \in 1..Len(InOrder(S)) |-> LoneItem(slots[InOrder(S)[k]]) ]
    BY DEF LoneItems
  <2> HIDE DEF S, item
  <2> QED BY <1>2, <2>1, <2>2 DEF Filing
<1>4. \A i \in 1..Len(slots) : i \in S <=> IsLone(i)
  BY <1>1
<1> HIDE DEF S, item
<1>5. \A i, j \in S : item[i].alias = item[j].alias => i = j
  BY <1>1, <1>2, <1>4, SlotAliasesDiffer DEF Declarable
<1>6. Files(LoneItems, S, item)
  BY <1>1, <1>3, <1>5, Filed
<1>7. \A i \in S : i \in 1..Len(slots)
  BY <1>1
<1>8. ASSUME NEW k \in 1..Len(LoneItems)
      PROVE  \E i \in 1..Len(slots) : i \in S /\ LoneItems[k] = LoneItem(slots[i])
  <2>1. PICK i \in S : LoneItems[k] = item[i]
    BY <1>6 DEF Files
  <2> QED BY <1>2, <1>7, <2>1
<1>9. ASSUME NEW i \in 1..Len(slots), i \in S
      PROVE  \E k \in 1..Len(LoneItems) :
               LoneItems[k] = LoneItem(slots[i]) /\ LoneItems[k].alias = SlotAlias(i)
  <2>1. PICK k \in 1..Len(LoneItems) : LoneItems[k] = item[i]
    BY <1>6, <1>9 DEF Files
  <2> QED BY <1>2, <2>1
<1>10. List(LoneItems) /\ Distinct(LoneItems)
  BY <1>6 DEF Files
<1> QED BY <1>4, <1>8, <1>9, <1>10

(* Last the tables of the nodes marked, once each.                         *)
LEMMA NodeItemsAre ==
  ASSUME Finished, engine = "general"
  PROVE  /\ List(NodeItems) /\ Distinct(NodeItems)
         /\ \A k \in 1..Len(NodeItems) : \E i \in 1..Len(slots) :
              ~IsLone(i) /\ slots[i].referenced /\ NodeItems[k] = NodeItem(slots[i])
         /\ \A i \in 1..Len(slots) : ~IsLone(i) /\ slots[i].referenced =>
              \E k \in 1..Len(NodeItems) :
                NodeItems[k] = NodeItem(slots[i]) /\ NodeItems[k].alias = SlotAlias(i)
<1> DEFINE S == { i \in 1..Len(slots) : ~slots[i].is_lone /\ slots[i].referenced }
           item == [ i \in 1..Len(slots) |-> NodeItem(slots[i]) ]
<1>1. /\ Len(slots) \in Nat /\ S \in SUBSET (1..Len(slots))
      /\ \A i \in 1..Len(slots) :
           /\ slots[i].is_lone = IsLone(i) /\ slots[i].alias = SlotAlias(i)
           /\ slots[i].referenced => Bound(i)
  BY FinishedIs
<1>2. \A i \in 1..Len(slots) : item[i] = NodeItem(slots[i]) /\ item[i].alias = SlotAlias(i)
  BY <1>1, ItemIs DEF NodeItem
<1>3. NodeItems = Filing(S, item)
  <2>1. \A k \in 1..Len(InOrder(S)) : InOrder(S)[k] \in 1..Len(slots)
    BY <1>1, InOrderIs
  <2>2. NodeItems = [ k \in 1..Len(InOrder(S)) |-> NodeItem(slots[InOrder(S)[k]]) ]
    BY DEF NodeItems
  <2> HIDE DEF S, item
  <2> QED BY <1>2, <2>1, <2>2 DEF Filing
<1>4. \A i \in 1..Len(slots) : i \in S <=> ~IsLone(i) /\ slots[i].referenced
  BY <1>1
<1> HIDE DEF S, item
<1>5. \A i, j \in S : item[i].alias = item[j].alias => i = j
  BY <1>1, <1>2, <1>4, BoundOnce
<1>6. Files(NodeItems, S, item)
  BY <1>1, <1>3, <1>5, Filed
<1>7. \A i \in S : i \in 1..Len(slots)
  BY <1>1
<1>8. ASSUME NEW k \in 1..Len(NodeItems)
      PROVE  \E i \in 1..Len(slots) : i \in S /\ NodeItems[k] = NodeItem(slots[i])
  <2>1. PICK i \in S : NodeItems[k] = item[i]
    BY <1>6 DEF Files
  <2> QED BY <1>2, <1>7, <2>1
<1>9. ASSUME NEW i \in 1..Len(slots), i \in S
      PROVE  \E k \in 1..Len(NodeItems) :
               NodeItems[k] = NodeItem(slots[i]) /\ NodeItems[k].alias = SlotAlias(i)
  <2>1. PICK k \in 1..Len(NodeItems) : NodeItems[k] = item[i]
    BY <1>6, <1>9 DEF Files
  <2> QED BY <1>2, <2>1
<1>10. List(NodeItems) /\ Distinct(NodeItems)
  BY <1>6 DEF Files
<1> QED BY <1>4, <1>8, <1>9, <1>10

(* Together they declare the edges, the lone nodes and the nodes marked.   *)
LEMMA GeneralFrom ==
  ASSUME Finished, engine = "general"
  PROVE  /\ List(FromItems) /\ Distinct(FromItems) /\ Ordered(FromItems)
         /\ \A e \in 1..Len(edges) : EdgeAlias(e) \in Declared(FromItems)
         /\ \A i \in 1..Len(slots) :
              IsLone(i) \/ slots[i].referenced => SlotAlias(i) \in Declared(FromItems)
         /\ \A k \in 1..Len(FromItems) : FromItems[k].table \in Catalog \cup { EdgeTable }
<1>1. /\ List(EdgeItems) /\ Distinct(EdgeItems) /\ Ordered(EdgeItems)
      /\ Len(EdgeItems) = Len(edges)
      /\ \A e \in 1..Len(edges) :
           EdgeItems[e].alias = EdgeAlias(e) /\ EdgeItems[e].table = EdgeTable
  BY EdgeItemsAre
<1>2. /\ List(LoneItems) /\ Distinct(LoneItems)
      /\ \A k \in 1..Len(LoneItems) : \E i \in 1..Len(slots) :
           IsLone(i) /\ LoneItems[k] = LoneItem(slots[i])
      /\ \A i \in 1..Len(slots) : IsLone(i) =>
           \E k \in 1..Len(LoneItems) : LoneItems[k].alias = SlotAlias(i)
  BY LoneItemsAre
<1>3. /\ List(NodeItems) /\ Distinct(NodeItems)
      /\ \A k \in 1..Len(NodeItems) : \E i \in 1..Len(slots) :
           ~IsLone(i) /\ slots[i].referenced /\ NodeItems[k] = NodeItem(slots[i])
      /\ \A i \in 1..Len(slots) : ~IsLone(i) /\ slots[i].referenced =>
           \E k \in 1..Len(NodeItems) : NodeItems[k].alias = SlotAlias(i)
  BY NodeItemsAre
<1>4. /\ DistinctVariables /\ Len(slots) \in Nat
      /\ \A e \in 1..Len(edges) : edges[e].alias = EdgeAlias(e)
      /\ \A i \in 1..Len(slots) :
           /\ slots[i].alias = SlotAlias(i) /\ ~UnknownTable(slots[i])
           /\ slots[i].referenced => Bound(i)
           /\ slots[i].anchor_edge \in 0..Len(edges)
           /\ slots[i].anchor_edge = 0 => slots[i].label # NoLabel
  BY FinishedIs DEF Finished
<1>5. /\ \A s : /\ LoneItem(s).table = s.label /\ LoneItem(s).alias = s.alias
                /\ LoneItem(s).on = {}
      /\ \A s : /\ NodeItem(s).table = s.label /\ NodeItem(s).alias = s.alias
                /\ NodeItem(s).on = { Eq(Col(s.alias, "id"), AnchorId(s)) }
  BY ItemIs DEF LoneItem, NodeItem
<1> DEFINE a == EdgeItems
           b == LoneItems
           c == NodeItems
<1>6. IsJoin(a \o b, a, b)
  <2>1. ASSUME NEW e \in 1..Len(a), NEW k \in 1..Len(b) PROVE a[e].alias # b[k].alias
    <3>1. PICK i \in 1..Len(slots) : b[k] = LoneItem(slots[i])
      BY <1>2
    <3>2. b[k].alias = SlotAlias(i) /\ a[e].alias = EdgeAlias(e) /\ e \in 1..Len(edges)
      BY <1>1, <1>4, <1>5, <3>1
    <3> QED BY <1>4, <3>2, EdgeSlotDiffer
  <2>2. \A k \in 1..Len(b) : AliasesOf(b[k].on) \subseteq Declared(a) \cup { b[k].alias }
    BY <1>2, <1>5, SpokenOf
  <2> QED BY <1>1, <1>2, <2>1, <2>2, Joined
<1>7. \A e \in 1..Len(edges) : EdgeAlias(e) \in Declared(a)
  BY <1>1 DEF Declared, Declares
<1>8. \A i \in 1..Len(slots) : IsLone(i) => SlotAlias(i) \in Declared(b)
  BY <1>2 DEF Declared, Declares
<1>9. \A i \in 1..Len(slots) : ~IsLone(i) /\ slots[i].referenced => SlotAlias(i) \in Declared(c)
  BY <1>3 DEF Declared, Declares
<1> DEFINE ab == a \o b
<1>10. IsJoin(ab, a, b) /\ FromItems = ab \o c
  BY <1>6 DEF FromItems
<1> HIDE DEF ab
<1>11. IsJoin(ab \o c, ab, c)
  <2>1. ASSUME NEW l \in 1..Len(ab), NEW k \in 1..Len(c) PROVE ab[l].alias # c[k].alias
    <3>1. PICK i \in 1..Len(slots) :
            ~IsLone(i) /\ slots[i].referenced /\ c[k] = NodeItem(slots[i])
      BY <1>3
    <3>2. c[k].alias = SlotAlias(i) /\ Declarable(i)
      BY <1>4, <1>5, <3>1 DEF Declarable, Bound
    <3>3. CASE \E e \in 1..Len(a) : ab[l] = a[e]
      <4>1. PICK e \in 1..Len(edges) : ab[l].alias = EdgeAlias(e)
        BY <1>1, <3>3
      <4> QED BY <1>4, <3>2, <4>1, EdgeSlotDiffer
    <3>4. CASE \E m \in 1..Len(b) : ab[l] = b[m]
      <4>1. PICK j \in 1..Len(slots) : IsLone(j) /\ ab[l] = LoneItem(slots[j])
        BY <1>2, <3>4
      <4>2. ab[l].alias = SlotAlias(j) /\ Declarable(j) /\ i # j
        BY <1>4, <1>5, <3>1, <4>1 DEF Declarable
      <4> QED BY <3>2, <4>2, SlotAliasesDiffer
    <3> QED BY <1>10, <3>3, <3>4 DEF IsJoin
  <2>2. ASSUME NEW k \in 1..Len(c)
        PROVE  AliasesOf(c[k].on) \subseteq Declared(ab) \cup { c[k].alias }
    <3> DEFINE D == Declared(ab) \cup { c[k].alias }
    <3>1. PICK i \in 1..Len(slots) : ~IsLone(i) /\ c[k] = NodeItem(slots[i])
      BY <1>3
    <3>2. slots[i].anchor_edge \in 1..Len(edges)
      BY <1>4, <3>1 DEF IsLone
    <3>3. edges[slots[i].anchor_edge].alias \in Declared(ab)
      BY <1>4, <1>7, <1>10, <3>2 DEF IsJoin
    <3>4. slots[i].alias \in D /\ edges[slots[i].anchor_edge].alias \in D
      BY <1>5, <3>1, <3>3
    <3> HIDE DEF D
    <3>5. \A x \in c[k].on : Speaks(x, D)
      <4>1. Speaks(Eq(Col(slots[i].alias, "id"), AnchorId(slots[i])), D)
        BY <3>4, AtomsSpeak DEF AnchorId
      <4>2. c[k].on = { Eq(Col(slots[i].alias, "id"), AnchorId(slots[i])) }
        BY <1>5, <3>1
      <4> QED BY <4>1, <4>2
    <3> QED BY <3>5, SpokenOf DEF D
  <2>3. List(ab) /\ Distinct(ab) /\ Ordered(ab)
    BY <1>10 DEF IsJoin
  <2>4. List(c) /\ Distinct(c)
    BY <1>3
  <2> HIDE DEF c
  <2> QED BY <2>1, <2>2, <2>3, <2>4, Joined
<1>12. IsJoin(FromItems, ab, c)
  BY <1>10, <1>11
<1>13. Declared(FromItems) = Declared(a) \cup Declared(b) \cup Declared(c)
  BY <1>10, <1>12 DEF IsJoin
<1>14. ASSUME NEW k \in 1..Len(FromItems) PROVE FromItems[k].table \in Catalog \cup { EdgeTable }
  <2>1. CASE \E l \in 1..Len(a) : FromItems[k] = a[l]
    BY <1>1, <2>1
  <2>2. CASE \E l \in 1..Len(b) : FromItems[k] = b[l]
    <3>1. PICK i \in 1..Len(slots) : IsLone(i) /\ FromItems[k] = LoneItem(slots[i])
      BY <1>2, <2>2
    <3> QED BY <1>4, <1>5, <3>1 DEF IsLone, UnknownTable
  <2>3. CASE \E l \in 1..Len(c) : FromItems[k] = c[l]
    <3>1. PICK i \in 1..Len(slots) : slots[i].referenced /\ FromItems[k] = NodeItem(slots[i])
      BY <1>3, <2>3
    <3>2. slots[i].label # NoLabel
      BY <1>4, <3>1 DEF Bound
    <3>3. FromItems[k].table = slots[i].label
      BY <1>5, <3>1
    <3> QED BY <1>4, <3>2, <3>3 DEF UnknownTable
  <2> QED BY <1>10, <1>12, <2>1, <2>2, <2>3 DEF IsJoin
<1>15. List(FromItems) /\ Distinct(FromItems) /\ Ordered(FromItems)
  BY <1>12 DEF IsJoin
<1> HIDE DEF a, b, c
<1> QED BY <1>7, <1>8, <1>9, <1>13, <1>14, <1>15

(* References are to what is declared.                                     *)
LEMMA UsedDeclared ==
  ASSUME Finished, NEW D,
         \A e \in 1..Len(edges) : EdgeAlias(e) \in D,
         \A i \in 1..Len(slots) : slots[i].referenced => SlotAlias(i) \in D
  PROVE  { query.uses[n].var : n \in 1..Len(query.uses) } \subseteq D
<1> SUFFICES ASSUME NEW n \in 1..Len(query.uses), NEW v, v = query.uses[n].var PROVE v \in D
  OBVIOUS
<1>1. Marked(v)
  BY FinishedIs
<1>2. CASE EdgesNamed(v) # {}
  <2>1. PICK e \in 1..Len(edges) : edges[e].var = v
    BY <1>2 DEF EdgesNamed
  <2> QED BY <1>1, <2>1 DEF Marked, EdgeAlias
<1>3. CASE \E i \in NodesNamed(v) : slots[i].referenced
  <2>1. PICK i \in 1..Len(slots) : slots[i].var = v /\ slots[i].referenced
    BY <1>3 DEF NodesNamed
  <2> QED BY <1>1, <2>1 DEF Marked, SlotAlias
<1> QED BY <1>1, <1>2, <1>3 DEF Marked

(* SQLite accepts the statement of the general engine.                     *)
LEMMA GeneralAccepted ==
  ASSUME Finished, engine = "general"
  PROVE  /\ WellFormed(from, where, { query.uses[n].var : n \in 1..Len(query.uses) })
         /\ \A k \in 1..Len(from) : from[k].table \in Catalog \cup { EdgeTable }
<1> DEFINE D == Declared(FromItems)
<1>1. /\ List(FromItems) /\ Distinct(FromItems) /\ Ordered(FromItems)
      /\ \A e \in 1..Len(edges) : EdgeAlias(e) \in D
      /\ \A i \in 1..Len(slots) : IsLone(i) \/ slots[i].referenced => SlotAlias(i) \in D
      /\ \A k \in 1..Len(FromItems) : FromItems[k].table \in Catalog \cup { EdgeTable }
  BY GeneralFrom
<1>2. from = FromItems /\ where = PatternClauses
  BY DEF Finished, Shaped, Built
<1>3. \A e \in 1..Len(edges) : edges[e].alias \in D
  BY <1>1, FinishedIs
<1> HIDE DEF D
<1>4. \A x \in where : \E a : x = Require(a) /\ Speaks(a, D)
  <2> SUFFICES ASSUME NEW x \in where PROVE \E a : x = Require(a) /\ Speaks(a, D)
    OBVIOUS
  <2>1. PICK e \in 1..Len(edges) :
          x \in TypeClauses(edges[e]) \cup NameClauses(edges[e]) \cup PropClauses(edges[e])
    BY <1>2 DEF PatternClauses
  <2> QED BY <1>3, <2>1, EdgeClausesSpeak
<1>5. \A a \in UNION UNION where : Speaks(a, D)
  BY <1>4, RequiredSpeak
<1>6. { query.uses[n].var : n \in 1..Len(query.uses) } \subseteq D
  BY <1>1, UsedDeclared
<1>7. WellFormed(FromItems, where, { query.uses[n].var : n \in 1..Len(query.uses) })
  BY <1>1, <1>5, <1>6, WellFormedIf DEF D
<1> QED BY <1>1, <1>2, <1>7

-----------------------------------------------------------------------------
(***************************************************************************)
(* The statements of the engines for a hop: the edge, or the table         *)
(* expression, and then the nodes marked.                                  *)
(***************************************************************************)
(* FROM of a hop, whose nodes are looked at in the order place gives them. *)
LEMMA HopFrom ==
  ASSUME Finished, engine # "general", NEW table \in { EdgeTable, WalkTable },
         NEW b, NEW S \in SUBSET (1..2), NEW place, NEW item, b = Filing(S, item),
         \A k \in 1..2 : place[k] \in 1..2,
         \A k, l \in 1..2 : place[k] = place[l] => k = l,
         \A i \in 1..2 : \E k \in 1..2 : place[k] = i,
         \A k \in 1..2 : k \in S <=> slots[place[k]].referenced,
         \A k \in 1..2 :
           /\ item[k].table = slots[place[k]].label /\ item[k].alias = slots[place[k]].alias
           /\ AliasesOf(item[k].on) \subseteq { edges[1].alias, slots[place[k]].alias }
  PROVE  LET f == << FromItem(table, edges[1].alias, {}) >> \o b
         IN  /\ List(f) /\ Distinct(f) /\ Ordered(f)
             /\ edges[1].alias \in Declared(f)
             /\ \A i \in 1..2 : slots[i].referenced => slots[i].alias \in Declared(f)
             /\ \A k \in 1..Len(f) : f[k].table \in Catalog \cup { EdgeTable, WalkTable }
<1> DEFINE x == FromItem(table, edges[1].alias, {})
           a == << x >>
           f == a \o b
<1>1. /\ Len(slots) = 2 /\ Len(edges) = 1 /\ DistinctVariables
      /\ edges[1].alias = EdgeAlias(1)
      /\ \A i \in 1..2 :
           /\ slots[i].alias = SlotAlias(i) /\ ~UnknownTable(slots[i])
           /\ slots[i].referenced => Bound(i)
  <2>1. 1 \in 1..1
    OBVIOUS
  <2> QED BY <2>1, FinishedIs DEF Finished
<1>2. x.table = table /\ x.alias = edges[1].alias /\ x.on = {}
  BY ItemIs
<1> HIDE DEF x
<1>3. List(a) /\ Len(a) = 1 /\ a[1] = x /\ \A i \in 1..1 : i = 1
  BY DEF List
<1> HIDE DEF a
<1>4. Distinct(a) /\ Ordered(a) /\ Declared(a) = { edges[1].alias }
  <2>1. AliasesOf({}) = {}
    BY DEF AliasesOf
  <2> QED BY <1>2, <1>3, <2>1 DEF Distinct, Ordered, Declared, Declares
<1>5. \A i, j \in S : item[i].alias = item[j].alias => i = j
  <2> SUFFICES ASSUME NEW i \in S, NEW j \in S, item[i].alias = item[j].alias PROVE i = j
    OBVIOUS
  <2>1. PICK p, q \in 1..2 : p = place[i] /\ q = place[j]
    OBVIOUS
  <2>2. slots[p].referenced /\ slots[q].referenced /\ slots[p].alias = slots[q].alias
    BY <2>1
  <2>3. \A k, l \in 1..2 :
          slots[k].referenced /\ slots[l].referenced /\ slots[k].alias = slots[l].alias => k = l
    BY ONLY Finished, <1>1, MarkedOnce
  <2>4. p = q
    BY ONLY <2>2, <2>3, p \in 1..2, q \in 1..2
  <2>5. place[i] = place[j] /\ i \in 1..2 /\ j \in 1..2
    <3> HIDE DEF f
    <3>1. i \in 1..2 /\ j \in 1..2
      BY ONLY i \in S, j \in S, S \in SUBSET (1..2), Zenon
    <3> QED BY ONLY <2>1, <2>4, <3>1, Zenon
  <2> QED
    BY ONLY <2>5, \A k, l \in 1..2 : place[k] = place[l] => k = l, Zenon
<1>6. Files(b, S, item)
  <2>1. 2 \in Nat
    OBVIOUS
  <2> QED BY <1>5, <2>1, Filed
<1>7. ASSUME NEW k \in 1..Len(b)
      PROVE  \E i \in 1..2 : /\ slots[i].referenced
                             /\ b[k].table = slots[i].label /\ b[k].alias = slots[i].alias
                             /\ AliasesOf(b[k].on) \subseteq { edges[1].alias, slots[i].alias }
  <2>1. PICK l \in S : b[k] = item[l]
    BY <1>6 DEF Files
  <2>2. PICK i \in 1..2 : i = place[l]
    OBVIOUS
  <2> QED BY <2>1, <2>2
<1>8. List(b) /\ Distinct(b)
  BY <1>6 DEF Files
<1>9. \A i \in 1..2 : slots[i].referenced => slots[i].alias \in Declared(b)
  <2> SUFFICES ASSUME NEW i \in 1..2, slots[i].referenced PROVE slots[i].alias \in Declared(b)
    OBVIOUS
  <2>1. PICK l \in S : place[l] = i
    OBVIOUS
  <2>2. PICK k \in 1..Len(b) : b[k] = item[l]
    BY <1>6 DEF Files
  <2>3. b[k].alias = slots[i].alias
    BY <2>1, <2>2
  <2> QED BY <2>3 DEF Declared, Declares
<1>10. IsJoin(f, a, b)
  <2>1. ASSUME NEW e \in 1..Len(a), NEW k \in 1..Len(b) PROVE a[e].alias # b[k].alias
    <3>1. PICK i \in 1..Len(slots) : b[k].alias = SlotAlias(i)
      BY <1>1, <1>7
    <3>2. a[e].alias = EdgeAlias(1) /\ 1 \in 1..Len(edges)
      BY <1>1, <1>2, <1>3
    <3> QED BY <1>1, <3>1, <3>2, EdgeSlotDiffer
  <2>2. \A k \in 1..Len(b) : AliasesOf(b[k].on) \subseteq Declared(a) \cup { b[k].alias }
    BY <1>4, <1>7
  <2>3. List(a)
    BY <1>3
  <2> QED BY ONLY <1>4, <1>8, <2>1, <2>2, <2>3, Joined
<1> HIDE DEF f
<1>11. Declared(f) = { edges[1].alias } \cup Declared(b)
  BY <1>4, <1>10 DEF IsJoin
<1>12. ASSUME NEW k \in 1..Len(f) PROVE f[k].table \in Catalog \cup { EdgeTable, WalkTable }
  <2>1. CASE \E l \in 1..Len(a) : f[k] = a[l]
    BY <1>2, <1>3, <2>1
  <2>2. CASE \E l \in 1..Len(b) : f[k] = b[l]
    <3>1. PICK i \in 1..2 : slots[i].referenced /\ f[k].table = slots[i].label
      BY <1>7, <2>2
    <3>2. slots[i].label # NoLabel
      BY <1>1, <3>1 DEF Bound
    <3> QED BY <1>1, <3>1, <3>2 DEF UnknownTable
  <2> QED BY <1>10, <2>1, <2>2 DEF IsJoin
<1>13. List(f) /\ Distinct(f) /\ Ordered(f)
  BY <1>10 DEF IsJoin
<1> QED BY <1>9, <1>11, <1>12, <1>13 DEF f, a, x

(* The nodes marked, in the order place gives them, and the list of their  *)
(* tables.                                                                 *)
MarkedAt(place) == { k \in 1..2 : slots[place[k]].referenced }

HopList(b, place, item) ==
  /\ b = Filing(MarkedAt(place), item)
  /\ \A k \in 1..2 : place[k] \in 1..2
  /\ \A k, l \in 1..2 : place[k] = place[l] => k = l
  /\ \A i \in 1..2 : \E k \in 1..2 : place[k] = i
  /\ \A k \in 1..2 :
       /\ item[k].table = slots[place[k]].label /\ item[k].alias = slots[place[k]].alias
       /\ AliasesOf(item[k].on) \subseteq { edges[1].alias, slots[place[k]].alias }

(* FROM is the edge and such a list.                                       *)
LEMMA HopListFrom ==
  ASSUME Finished, engine # "general", NEW table \in { EdgeTable, WalkTable },
         NEW b, NEW place, NEW item, HopList(b, place, item)
  PROVE  LET f == << FromItem(table, edges[1].alias, {}) >> \o b
         IN  /\ List(f) /\ Distinct(f) /\ Ordered(f)
             /\ edges[1].alias \in Declared(f)
             /\ \A i \in 1..2 : slots[i].referenced => slots[i].alias \in Declared(f)
             /\ \A k \in 1..Len(f) : f[k].table \in Catalog \cup { EdgeTable, WalkTable }
<1> DEFINE S == MarkedAt(place)
<1>1. S \in SUBSET (1..2) /\ \A k \in 1..2 : k \in S <=> slots[place[k]].referenced
  BY DEF MarkedAt
<1> HIDE DEF S
<1>2. /\ b = Filing(S, item)
      /\ \A k \in 1..2 : place[k] \in 1..2
      /\ \A k, l \in 1..2 : place[k] = place[l] => k = l
      /\ \A i \in 1..2 : \E k \in 1..2 : place[k] = i
      /\ \A k \in 1..2 :
           /\ item[k].table = slots[place[k]].label /\ item[k].alias = slots[place[k]].alias
           /\ AliasesOf(item[k].on) \subseteq { edges[1].alias, slots[place[k]].alias }
  BY DEF HopList, S
<1> QED BY <1>1, <1>2, HopFrom

(* The undirected engine lists the left node and then the right one.       *)
LeftFirst == [ k \in 1..2 |-> k ]
PeerFile  == [ k \in 1..2 |-> PeerItem(slots[k]) ]

(* So its list is one.                                                     *)
LEMMA PeersListed ==
  ASSUME Finished, engine = "undirected"
  PROVE  /\ HopList(PeerItems, LeftFirst, PeerFile)
         /\ \A k \in 1..2 : LeftFirst[k] = k /\ PeerFile[k].on = {}
<1> DEFINE S == MarkedAt(LeftFirst)
<1>1. \A k \in 1..2 : LeftFirst[k] = k /\ PeerFile[k] = PeerItem(slots[k])
  BY DEF LeftFirst, PeerFile
<1>2. S = { i \in 1..Len(slots) : slots[i].referenced } /\ S \in SUBSET (1..2)
  BY <1>1, FinishedIs DEF MarkedAt
<1>3. PeerItems = Filing(S, PeerFile)
  <2>1. \A k \in 1..Len(InOrder(S)) : InOrder(S)[k] \in 1..2
    <3>1. 2 \in Nat
      OBVIOUS
    <3> QED BY <1>2, <3>1, InOrderIs
  <2>2. PeerItems = [ k \in 1..Len(InOrder(S)) |-> PeerItem(slots[InOrder(S)[k]]) ]
    BY <1>2 DEF PeerItems
  <2> HIDE DEF S
  <2> QED BY <1>1, <2>1, <2>2 DEF Filing
<1>4. /\ \A k \in 1..2 : LeftFirst[k] \in 1..2
      /\ \A k, l \in 1..2 : LeftFirst[k] = LeftFirst[l] => k = l
      /\ \A i \in 1..2 : \E k \in 1..2 : LeftFirst[k] = i
  BY <1>1
<1>5. \A k \in 1..2 :
        /\ PeerFile[k].table = slots[k].label /\ PeerFile[k].alias = slots[k].alias
        /\ PeerFile[k].on = {}
  <2>1. \A s : PeerItem(s).table = s.label /\ PeerItem(s).alias = s.alias /\ PeerItem(s).on = {}
    BY ItemIs DEF PeerItem
  <2> QED BY <1>1, <2>1
<1>6. AliasesOf({}) = {}
  BY DEF AliasesOf
<1> QED BY <1>1, <1>3, <1>4, <1>5, <1>6 DEF HopList

(* The engine for variable length lists the source and then the target.    *)
EndFile == [ k \in 1..2 |-> EndItem(k) ]

(* So its list is one, too.                                                *)
LEMMA EndsListed ==
  ASSUME Finished, engine = "varlen"
  PROVE  /\ HopList(EndItems, WalkEnds, EndFile)
         /\ \A k \in 1..2 : EndFile[k] = EndItem(k)
<1> DEFINE S == MarkedAt(WalkEnds)
<1>1. \A k \in 1..2 : EndFile[k] = EndItem(k)
  BY DEF EndFile
<1>2. /\ edges[1].src \in 1..2 /\ edges[1].tgt \in 1..2 /\ edges[1].src # edges[1].tgt
      /\ WalkEnds[1] = edges[1].src /\ WalkEnds[2] = edges[1].tgt
  <2>1. 1 \in 1..1
    OBVIOUS
  <2>2. edges[1].src # edges[1].tgt
    BY FinishedIs DEF Directed
  <2>3. WalkEnds[1] = edges[1].src /\ WalkEnds[2] = edges[1].tgt
    BY DEF WalkEnds
  <2> QED BY <2>1, <2>2, <2>3, FinishedIs
<1>3. S \in SUBSET (1..2) /\ S = { k \in 1..2 : slots[WalkEnds[k]].referenced }
  BY DEF MarkedAt
<1>4. EndItems = Filing(S, EndFile)
  <2>1. \A k \in 1..Len(InOrder(S)) : InOrder(S)[k] \in 1..2
    <3>1. 2 \in Nat
      OBVIOUS
    <3> QED BY <1>3, <3>1, InOrderIs
  <2>2. EndItems = [ k \in 1..Len(InOrder(S)) |-> EndItem(InOrder(S)[k]) ]
    BY <1>3 DEF EndItems
  <2> HIDE DEF S
  <2> QED BY <1>1, <2>1, <2>2 DEF Filing
<1>5. /\ \A k \in 1..2 : WalkEnds[k] \in 1..2
      /\ \A k, l \in 1..2 : WalkEnds[k] = WalkEnds[l] => k = l
      /\ \A i \in 1..2 : \E k \in 1..2 : WalkEnds[k] = i
  <2>1. \A k \in 1..2 : k = 1 \/ k = 2
    OBVIOUS
  <2> QED BY <1>2, <2>1
<1>6. ASSUME NEW k \in 1..2
      PROVE  /\ EndFile[k].table = slots[WalkEnds[k]].label
             /\ EndFile[k].alias = slots[WalkEnds[k]].alias
             /\ AliasesOf(EndFile[k].on) \subseteq { edges[1].alias, slots[WalkEnds[k]].alias }
  <2> DEFINE s  == slots[WalkEnds[k]]
             on == { Eq(Col(s.alias, "id"), Col(edges[1].alias, IdCol(k = 2))) }
             E  == { edges[1].alias, s.alias }
  <2>1. EndFile[k] = FromItem(s.label, s.alias, on)
    BY <1>1 DEF EndItem
  <2>2. s.alias \in E /\ edges[1].alias \in E
    OBVIOUS
  <2>3. AliasesOf(on) \subseteq E
    <3> HIDE DEF s, E
    <3>1. Speaks(Eq(Col(s.alias, "id"), Col(edges[1].alias, IdCol(k = 2))), E)
      BY <2>2, AtomsSpeak
    <3> QED BY <3>1, SpokenOf
  <2> HIDE DEF on
  <2>4. EndFile[k].table = s.label /\ EndFile[k].alias = s.alias /\ EndFile[k].on = on
    BY <2>1, ItemIs
  <2> QED BY <2>3, <2>4
<1> QED BY <1>1, <1>4, <1>5, <1>6 DEF HopList

(* The two orientations speak of the relationship and of the nodes marked. *)
LEMMA UndirectedAccepted ==
  ASSUME Finished, engine = "undirected"
  PROVE  /\ WellFormed(from, where, { query.uses[n].var : n \in 1..Len(query.uses) })
         /\ \A k \in 1..Len(from) : from[k].table \in Catalog \cup { EdgeTable, WalkTable }
<1> DEFINE D == Declared(UndirectedItems)
<1>1. from = UndirectedItems /\ where = UndirectedClauses /\ Len(slots) = 2 /\ Len(edges) = 1
      /\ edges[1].alias = EdgeAlias(1) /\ \A i \in 1..2 : slots[i].alias = SlotAlias(i)
      /\ \A e \in 1..1 : e = 1
  <2>1. 1 \in 1..1 /\ \A e \in 1..1 : e = 1
    OBVIOUS
  <2> QED BY <2>1, FinishedIs DEF Finished, Shaped, Built
<1>2. /\ List(UndirectedItems) /\ Distinct(UndirectedItems) /\ Ordered(UndirectedItems)
      /\ edges[1].alias \in D
      /\ \A i \in 1..2 : slots[i].referenced => slots[i].alias \in D
      /\ \A k \in 1..Len(UndirectedItems) :
           UndirectedItems[k].table \in Catalog \cup { EdgeTable, WalkTable }
  BY PeersListed, HopListFrom DEF UndirectedItems
<1> HIDE DEF D
<1>3. \A i \in 1..2 : \A b : \A x \in OrientSide(slots[i], b) : Speaks(x, D)
  <2> SUFFICES ASSUME NEW i \in 1..2, NEW b, NEW x \in OrientSide(slots[i], b)
               PROVE  Speaks(x, D)
    OBVIOUS
  <2>1. CASE slots[i].referenced /\ x = Eq(Col(edges[1].alias, IdCol(b)), Col(slots[i].alias, "id"))
    BY <1>2, <2>1, AtomsSpeak
  <2>2. CASE x = Eq(Col(edges[1].alias, NameCol(b)), Lit(slots[i].name))
    BY <1>2, <2>2, AtomsSpeak
  <2> QED BY <2>1, <2>2 DEF OrientSide
<1>4. \A x \in UNION UNION OrientClauses : Speaks(x, D)
  <2>1. \A b : \A x \in Orientation(b) : Speaks(x, D)
    BY <1>3 DEF Orientation
  <2>2. CASE OrientClauses = {}
    BY <2>2
  <2>3. CASE OrientClauses = { { Orientation(FALSE), Orientation(TRUE) } }
    <3> DEFINE O(b) == Orientation(b)
    <3>1. OrientClauses = { { O(FALSE), O(TRUE) } }
      BY <2>3
    <3> HIDE DEF O
    <3>2. UNION UNION OrientClauses = O(FALSE) \cup O(TRUE)
      BY <3>1
    <3> QED BY <2>1, <3>2 DEF O
  <2> QED BY <2>2, <2>3 DEF OrientClauses
<1>5. \A x \in UNION UNION (TypeClauses(edges[1]) \cup PropClauses(edges[1])) : Speaks(x, D)
  <2>1. \A x \in TypeClauses(edges[1]) \cup PropClauses(edges[1]) :
          \E a : x = Require(a) /\ Speaks(a, D)
    BY <1>2, EdgeClausesSpeak
  <2> QED BY <2>1, RequiredSpeak
<1>6. \A x \in UNION UNION where : Speaks(x, D)
  BY <1>1, <1>4, <1>5 DEF UndirectedClauses
<1>7. { query.uses[n].var : n \in 1..Len(query.uses) } \subseteq D
  BY <1>1, <1>2, UsedDeclared
<1>8. WellFormed(UndirectedItems, where, { query.uses[n].var : n \in 1..Len(query.uses) })
  BY <1>2, <1>6, <1>7, WellFormedIf DEF D
<1> QED BY <1>1, <1>2, <1>8

(* The walk is joined to the nodes marked, from its first node and from    *)
(* its last.                                                               *)
LEMMA VarlenAccepted ==
  ASSUME Finished, engine = "varlen"
  PROVE  /\ WellFormed(from, where, { query.uses[n].var : n \in 1..Len(query.uses) })
         /\ \A k \in 1..Len(from) : from[k].table \in Catalog \cup { EdgeTable, WalkTable }
<1> DEFINE D == Declared(VarlenItems)
<1>1. from = VarlenItems /\ where = VarlenClauses /\ Len(slots) = 2 /\ Len(edges) = 1
      /\ edges[1].alias = EdgeAlias(1) /\ \A i \in 1..2 : slots[i].alias = SlotAlias(i)
      /\ \A e \in 1..1 : e = 1
  <2>1. 1 \in 1..1 /\ \A e \in 1..1 : e = 1
    OBVIOUS
  <2> QED BY <2>1, FinishedIs DEF Finished, Shaped, Built
<1>2. /\ List(VarlenItems) /\ Distinct(VarlenItems) /\ Ordered(VarlenItems)
      /\ edges[1].alias \in D
      /\ \A i \in 1..2 : slots[i].referenced => slots[i].alias \in D
      /\ \A k \in 1..Len(VarlenItems) :
           VarlenItems[k].table \in Catalog \cup { EdgeTable, WalkTable }
  BY EndsListed, HopListFrom DEF VarlenItems
<1> HIDE DEF D
<1>3. \A x \in where : \E a : x = Require(a) /\ Speaks(a, D)
  <2>1. \A c, v : /\ Speaks(Eq(Col(edges[1].alias, c), Lit(v)), D)
                  /\ Speaks(AtLeast(Col(edges[1].alias, c), Lit(v)), D)
    BY <1>2, AtomsSpeak
  <2> QED BY <1>1, <2>1 DEF VarlenClauses, EndClause
<1>4. \A a \in UNION UNION where : Speaks(a, D)
  BY <1>3, RequiredSpeak
<1>5. { query.uses[n].var : n \in 1..Len(query.uses) } \subseteq D
  BY <1>1, <1>2, UsedDeclared
<1>6. WellFormed(VarlenItems, where, { query.uses[n].var : n \in 1..Len(query.uses) })
  BY <1>2, <1>4, <1>5, WellFormedIf DEF D
<1> QED BY <1>1, <1>2, <1>6

(* SQLite accepts every statement returned: each alias is declared once    *)
(* and before it is used, and each table exists.                           *)
THEOREM StatementAccepted == Spec => []StatementWellFormed
<1>1. Init => Shaped
  BY DEF Init, Shaped, Aliases, Marks, Built, Live
<1>2. TInv /\ Checked /\ Shaped /\ [Next]_vars => (TInv /\ Checked /\ Shaped)'
  BY Inductive, CheckedInductive, ShapedInductive
<1>3. Init => TInv /\ Checked /\ Shaped
  BY <1>1, Initially, CheckedInitially
<1>4. TInv /\ Checked /\ Shaped => StatementWellFormed
  <2> SUFFICES ASSUME Finished
               PROVE  /\ WellFormed(from, where, { query.uses[i].var : i \in 1..Len(query.uses) })
                      /\ \A i \in 1..Len(from) : from[i].table \in Catalog \cup { EdgeTable, WalkTable }
    BY DEF Finished, StatementWellFormed
  <2>1. engine \in { "general", "undirected", "varlen" }
    BY FinishedIs
  <2> QED BY <2>1, GeneralAccepted, UndirectedAccepted, VarlenAccepted
<1>5. Spec => [](TInv /\ Checked /\ Shaped)
  BY <1>2, <1>3, PTL DEF Spec
<1> QED BY <1>4, <1>5, PTL

-----------------------------------------------------------------------------
(***************************************************************************)
(* The rows of a FROM list.                                                *)
(***************************************************************************)
(* A row of the first n members: one row of each one's table, for which    *)
(* its ON clause holds.                                                    *)
Fitting(db, f, n, env) ==
  /\ env = [ a \in Declares(f, n) |-> env[a] ]
  /\ \A i \in 1..n : env[f[i].alias] \in db[f[i].table] /\ Holds(env, f[i].on)

(* Atoms hold or not whatever the aliases they do not speak of stand for.  *)
LEMMA HoldsAgree ==
  ASSUME NEW D, NEW atoms, AliasesOf(atoms) \subseteq D,
         NEW d, NEW e, \A x \in D : d[x] = e[x]
  PROVE  Holds(d, atoms) <=> Holds(e, atoms)
<1>1. ASSUME NEW a \in atoms PROVE Value(d, a[2]) = Value(e, a[2]) /\ Value(d, a[3]) = Value(e, a[3])
  <2>1. \A y \in { a[2], a[3] } : y[1] = "column" => y[2] \in D
    BY DEF AliasesOf
  <2>2. \A y \in { a[2], a[3] } : Value(d, y) = Value(e, y)
    BY <2>1 DEF Value
  <2> QED BY <2>2
<1>2. ASSUME NEW a \in atoms PROVE Compares(d, a) <=> Compares(e, a)
  BY <1>1 DEF Compares
<1> QED BY <1>2 DEF Holds

(* The aliases of one more member.                                         *)
LEMMA DeclaresNext ==
  ASSUME NEW f, Distinct(f), NEW n \in Nat, n + 1 \in 1..Len(f), Len(f) \in Nat
  PROVE  /\ Declares(f, n + 1) = Declares(f, n) \cup { f[n + 1].alias }
         /\ f[n + 1].alias \notin Declares(f, n)
         /\ \A i \in 1..n : i \in 1..Len(f) /\ i # n + 1 /\ f[i].alias \in Declares(f, n)
<1>1. \A i \in 1..n : i \in 1..Len(f) /\ i # n + 1
  OBVIOUS
<1>2. \A i : i \in 1..(n + 1) <=> i \in 1..n \/ i = n + 1
  OBVIOUS
<1>3. Declares(f, n + 1) = Declares(f, n) \cup { f[n + 1].alias }
  BY <1>2 DEF Declares
<1>4. f[n + 1].alias \notin Declares(f, n)
  BY <1>1 DEF Declares, Distinct
<1> QED BY <1>1, <1>3, <1>4 DEF Declares

(* An earlier member declares no more than a later one.                    *)
LEMMA DeclaresGrow ==
  ASSUME NEW f, NEW n \in Nat, NEW i \in 1..n
  PROVE  Declares(f, i) \subseteq Declares(f, n)
<1>1. \A k \in 1..i : k \in 1..n
  OBVIOUS
<1> QED BY <1>1 DEF Declares

(* Joining the next member.                                                *)
LEMMA JoinNext ==
  ASSUME NEW db, NEW f, List(f), Distinct(f), Ordered(f),
         NEW n \in Nat, n + 1 \in 1..Len(f),
         NEW S, \A d : d \in S <=> Fitting(db, f, n, d), NEW e
  PROVE  e \in JoinItem(db, S, f[n + 1]) <=> Fitting(db, f, n + 1, e)
<1> DEFINE item == f[n + 1]
           x == item.alias
           D == Declares(f, n)
<1>1. /\ Declares(f, n + 1) = D \cup { x } /\ x \notin D
      /\ \A i \in 1..n : i \in 1..Len(f) /\ i # n + 1 /\ f[i].alias \in D
      /\ Len(f) \in Nat
  <2>1. Len(f) \in Nat
    BY DEF List
  <2> QED BY <2>1, DeclaresNext
<1>2. \A i : i \in 1..(n + 1) <=> i \in 1..n \/ i = n + 1
  OBVIOUS
<1>3. ASSUME NEW d, NEW g, \A a \in D : d[a] = g[a], NEW i \in 1..n
      PROVE  d[f[i].alias] = g[f[i].alias] /\ (Holds(d, f[i].on) <=> Holds(g, f[i].on))
  <2>1. AliasesOf(f[i].on) \subseteq D
    BY <1>1, DeclaresGrow DEF Ordered
  <2>2. Holds(d, f[i].on) <=> Holds(g, f[i].on)
    BY <1>3, <2>1, HoldsAgree
  <2> QED BY <1>1, <1>3, <2>2
<1> HIDE DEF D, x
<1>4. ASSUME e \in JoinItem(db, S, item) PROVE Fitting(db, f, n + 1, e)
  <2>1. PICK d \in S, row \in db[item.table] : e = RowWith(d, x, row) /\ Holds(e, item.on)
    BY <1>4 DEF JoinItem, x
  <2>2. /\ d = [ a \in D |-> d[a] ]
        /\ \A i \in 1..n : d[f[i].alias] \in db[f[i].table] /\ Holds(d, f[i].on)
    BY <2>1 DEF Fitting, D
  <2>3. DOMAIN d = D
    BY <2>2
  <2>4. e = [ a \in D \cup { x } |-> IF a = x THEN row ELSE d[a] ]
    BY <2>1, <2>3 DEF RowWith
  <2>5. e[x] = row /\ \A a \in D : d[a] = e[a]
    BY <1>1, <2>4
  <2>6. e = [ a \in D \cup { x } |-> e[a] ]
    BY <2>4
  <2>7. \A i \in 1..n : e[f[i].alias] \in db[f[i].table] /\ Holds(e, f[i].on)
    <3> SUFFICES ASSUME NEW i \in 1..n PROVE e[f[i].alias] \in db[f[i].table] /\ Holds(e, f[i].on)
      OBVIOUS
    <3>1. d[f[i].alias] = e[f[i].alias] /\ (Holds(d, f[i].on) <=> Holds(e, f[i].on))
      BY <1>3, <2>5
    <3> QED BY <2>2, <3>1
  <2>8. e[item.alias] \in db[item.table] /\ Holds(e, item.on)
    BY <2>1, <2>5 DEF x
  <2>9. \A i \in 1..(n + 1) : e[f[i].alias] \in db[f[i].table] /\ Holds(e, f[i].on)
    <3> SUFFICES ASSUME NEW i \in 1..(n + 1)
                 PROVE  e[f[i].alias] \in db[f[i].table] /\ Holds(e, f[i].on)
      OBVIOUS
    <3>1. CASE i \in 1..n
      BY <2>7, <3>1
    <3>2. CASE i = n + 1
      BY <2>8, <3>2
    <3> QED BY <1>2, <3>1, <3>2
  <2>10. e = [ a \in Declares(f, n + 1) |-> e[a] ]
    BY <1>1, <2>6
  <2> QED BY ONLY <2>9, <2>10 DEF Fitting
<1>5. ASSUME Fitting(db, f, n + 1, e) PROVE e \in JoinItem(db, S, item)
  <2> DEFINE d == [ a \in D |-> e[a] ]
  <2>1. /\ e = [ a \in D \cup { x } |-> e[a] ]
        /\ \A i \in 1..(n + 1) : e[f[i].alias] \in db[f[i].table] /\ Holds(e, f[i].on)
    BY <1>1, <1>5 DEF Fitting
  <2>2. \A a \in D : e[a] = d[a]
    OBVIOUS
  <2>3. d = [ a \in D |-> d[a] ]
    OBVIOUS
  <2>4. e = RowWith(d, x, e[x])
    <3>1. RowWith(d, x, e[x]) = [ a \in D \cup { x } |-> IF a = x THEN e[x] ELSE d[a] ]
      BY DEF RowWith
    <3> QED BY <2>1, <2>2, <3>1
  <2> HIDE DEF d
  <2>5. \A i \in 1..n : d[f[i].alias] \in db[f[i].table] /\ Holds(d, f[i].on)
    <3> SUFFICES ASSUME NEW i \in 1..n PROVE d[f[i].alias] \in db[f[i].table] /\ Holds(d, f[i].on)
      OBVIOUS
    <3>1. i \in 1..(n + 1)
      OBVIOUS
    <3>2. e[f[i].alias] \in db[f[i].table] /\ Holds(e, f[i].on)
      BY <2>1, <3>1
    <3>3. e[f[i].alias] = d[f[i].alias] /\ (Holds(e, f[i].on) <=> Holds(d, f[i].on))
      BY <1>3, <2>2
    <3> QED BY <3>2, <3>3
  <2>6. d \in S
    BY <2>3, <2>5 DEF Fitting, D
  <2>7. e[x] \in db[item.table] /\ Holds(e, item.on)
    BY <1>2, <2>1 DEF x
  <2> QED BY <2>4, <2>6, <2>7 DEF JoinItem, x
<1> QED BY <1>4, <1>5

(* The rows of the lists of the first n members, n by n.                   *)
JoinsBy(g, db, f, n) ==
  g = [ k \in 0..n |-> IF k = 0 THEN { << >> } ELSE JoinItem(db, g[k - 1], f[k]) ]

(* There are such rows: of the lengths for which there were none, the      *)
(* least would have some, made from those of the length before.            *)
LEMMA JoinsExist ==
  ASSUME NEW db, NEW f, NEW m \in Nat
  PROVE  \E g : JoinsBy(g, db, f, m)
<1> DEFINE Missing == { n \in 1..m : ~ \E g : JoinsBy(g, db, f, n) }
<1>1. \E g : JoinsBy(g, db, f, 0)
  <2> DEFINE g == [ k \in 0..0 |-> { << >> } ]
  <2>1. \A k \in 0..0 : k = 0
    OBVIOUS
  <2>2. JoinsBy(g, db, f, 0)
    BY <2>1 DEF JoinsBy
  <2> QED BY <2>2
<1>2. SUFFICES ASSUME Missing # {} PROVE FALSE
  BY <1>1
<1>3. PICK n \in Missing : \A l \in Missing : n <= l
  <2>1. Missing \in SUBSET (1..m)
    OBVIOUS
  <2> HIDE DEF Missing
  <2> QED BY <1>2, <2>1, LeastIndex
<1>4. n \in 1..m /\ ~ \E g : JoinsBy(g, db, f, n)
  OBVIOUS
<1>5. PICK g : JoinsBy(g, db, f, n - 1)
  <2>1. n - 1 = 0 \/ n - 1 \in 1..m
    BY <1>4
  <2>2. n - 1 \notin Missing
    <3> HIDE DEF Missing
    <3>1. ~(n <= n - 1)
      BY <1>4
    <3> QED BY <1>3, <3>1
  <2> QED BY <1>1, <2>1, <2>2
<1> HIDE DEF Missing
<1> DEFINE h == [ k \in 0..n |-> IF k = n THEN JoinItem(db, g[n - 1], f[n]) ELSE g[k] ]
<1>6. ASSUME NEW k \in 0..n
      PROVE  h[k] = IF k = 0 THEN { << >> } ELSE JoinItem(db, h[k - 1], f[k])
  <2>1. \A j \in 0..(n - 1) :
          /\ j \in 0..n /\ j # n
          /\ g[j] = IF j = 0 THEN { << >> } ELSE JoinItem(db, g[j - 1], f[j])
    <3>1. g = [ j \in 0..(n - 1) |-> IF j = 0 THEN { << >> } ELSE JoinItem(db, g[j - 1], f[j]) ]
      BY <1>5 DEF JoinsBy
    <3>2. \A j \in 0..(n - 1) : j \in 0..n /\ j # n
      BY <1>4
    <3> HIDE DEF h
    <3> QED BY ONLY <3>1, <3>2
  <2>2. \A j \in 0..(n - 1) : h[j] = g[j]
    BY <2>1
  <2>3. k = 0 \/ k - 1 \in 0..(n - 1)
    BY <1>4
  <2>4. k = n \/ k \in 0..(n - 1)
    BY <1>4
  <2>5. h[n] = JoinItem(db, g[n - 1], f[n]) /\ n # 0
    BY <1>4
  <2> HIDE DEF h
  <2>6. CASE k = n
    <3>1. h[k - 1] = g[n - 1]
      BY <2>2, <2>3, <2>5, <2>6
    <3> QED BY <2>5, <2>6, <3>1
  <2>7. CASE k \in 0..(n - 1)
    <3>1. h[k] = IF k = 0 THEN { << >> } ELSE JoinItem(db, g[k - 1], f[k])
      BY <2>1, <2>2, <2>7
    <3>2. k # 0 => h[k - 1] = g[k - 1]
      BY <2>2, <2>3
    <3> QED BY <3>1, <3>2
  <2> QED BY <2>4, <2>6, <2>7
<1>7. h = [ k \in 0..n |-> h[k] ]
  OBVIOUS
<1> HIDE DEF h
<1>8. JoinsBy(h, db, f, n)
  BY <1>6, <1>7 DEF JoinsBy
<1> QED BY <1>4, <1>8

(* What the joined members of a list are: the rows that fit them all.      *)
LEMMA JoinedRowsAre ==
  ASSUME NEW db, NEW f, List(f), Distinct(f), Ordered(f)
  PROVE  \A e : e \in JoinedRows(db, f) <=> Fitting(db, f, Len(f), e)
<1> DEFINE g == CHOOSE h : JoinsBy(h, db, f, Len(f))
           Wrong == { n \in 1..Len(f) : ~ \A e : e \in g[n] <=> Fitting(db, f, n, e) }
<1>0. Len(f) \in Nat
  BY DEF List
<1>1. JoinsBy(g, db, f, Len(f))
  BY <1>0, JoinsExist
<1>2. JoinedRows(db, f) = g[Len(f)]
  BY DEF JoinedRows, JoinsBy
<1> HIDE DEF g
<1>3. \A n \in 0..Len(f) : g[n] = IF n = 0 THEN { << >> } ELSE JoinItem(db, g[n - 1], f[n])
  BY <1>1 DEF JoinsBy
<1>4. \A e : e \in g[0] <=> Fitting(db, f, 0, e)
  <2> TAKE e
  <2>1. e \in g[0] <=> e = << >>
    BY <1>0, <1>3
  <2>2. Declares(f, 0) = {} /\ 1..0 = {}
    BY DEF Declares
  <2>3. [ a \in {} |-> e[a] ] = << >>
    OBVIOUS
  <2> QED BY <2>1, <2>2, <2>3 DEF Fitting
<1>5. ASSUME Wrong # {} PROVE FALSE
  <2>1. PICK n \in Wrong : \A l \in Wrong : n <= l
    <3>1. Wrong \in SUBSET (1..Len(f))
      OBVIOUS
    <3> HIDE DEF Wrong
    <3> QED BY <1>0, <1>5, <3>1, LeastIndex
  <2>2. n \in 1..Len(f) /\ ~ \A e : e \in g[n] <=> Fitting(db, f, n, e)
    OBVIOUS
  <2> PICK k : k = n - 1
    OBVIOUS
  <2>3. k \in Nat /\ k + 1 = n /\ k + 1 \in 1..Len(f) /\ (k = 0 \/ k \in 1..Len(f)) /\ ~(n <= k)
    BY <1>0, <2>2
  <2>4. \A e : e \in g[k] <=> Fitting(db, f, k, e)
    BY <1>4, <2>1, <2>3
  <2>5. g[n] = JoinItem(db, g[k], f[k + 1])
    BY <1>0, <1>3, <2>2, <2>3
  <2> HIDE DEF Wrong
  <2>6. \A e : e \in JoinItem(db, g[k], f[k + 1]) <=> Fitting(db, f, k + 1, e)
    BY <2>3, <2>4, JoinNext
  <2> QED BY <2>2, <2>3, <2>5, <2>6
<1>6. \A e : e \in g[Len(f)] <=> Fitting(db, f, Len(f), e)
  <2>1. Len(f) = 0 \/ Len(f) \in 1..Len(f)
    BY <1>0
  <2> QED BY <1>4, <1>5, <2>1
<1> QED BY <1>2, <1>6

-----------------------------------------------------------------------------
(***************************************************************************)
(* What members of FROM and atoms ask of a row.                            *)
(***************************************************************************)
(* The row of a member is one of its table, and its ON clause holds.       *)
ItemFits(db, env, item) == env[item.alias] \in db[item.table] /\ Holds(env, item.on)

(* A list of two parts asks what its parts ask.                            *)
LEMMA BothFit ==
  ASSUME NEW a, NEW b, List(a), List(b), NEW db, NEW env
  PROVE  (\A k \in 1..Len(a \o b) : ItemFits(db, env, (a \o b)[k])) <=>
           /\ \A k \in 1..Len(a) : ItemFits(db, env, a[k])
           /\ \A k \in 1..Len(b) : ItemFits(db, env, b[k])
<1> DEFINE f == a \o b
<1>1. /\ Len(a) \in Nat /\ Len(b) \in Nat /\ Len(f) = Len(a) + Len(b)
      /\ \A i \in 1..Len(a) : f[i] = a[i]
      /\ \A i \in 1..Len(b) : f[Len(a) + i] = b[i]
  BY Concatenated
<1> HIDE DEF f
<1>2. ASSUME \A k \in 1..Len(f) : ItemFits(db, env, f[k])
      PROVE  /\ \A k \in 1..Len(a) : ItemFits(db, env, a[k])
             /\ \A k \in 1..Len(b) : ItemFits(db, env, b[k])
  <2>1. \A k \in 1..Len(a) : k \in 1..Len(f)
    BY <1>1
  <2>2. \A k \in 1..Len(b) : Len(a) + k \in 1..Len(f)
    BY <1>1
  <2> QED BY <1>1, <1>2, <2>1, <2>2
<1>3. ASSUME \A k \in 1..Len(a) : ItemFits(db, env, a[k]),
             \A k \in 1..Len(b) : ItemFits(db, env, b[k]),
             NEW k \in 1..Len(f)
      PROVE  ItemFits(db, env, f[k])
  <2>1. CASE k \in 1..Len(a)
    BY <1>1, <1>3, <2>1
  <2>2. CASE k \notin 1..Len(a)
    <3>1. PICK m \in 1..Len(b) : k = Len(a) + m
      <4>1. k - Len(a) \in 1..Len(b) /\ k = Len(a) + (k - Len(a))
        BY <1>1, <2>2
      <4> QED BY <4>1
    <3> QED BY <1>1, <1>3, <3>1
  <2> QED BY <2>1, <2>2
<1> QED BY <1>2, <1>3 DEF f

(* The comparisons the translator writes.                                  *)
LEMMA AtomsCompare ==
  ASSUME NEW env, NEW x, NEW c
  PROVE  /\ \A v : Compares(env, Eq(Col(x, c), Lit(v))) <=> SqlEq(env[x][c], v)
         /\ \A v : Compares(env, AtLeast(Col(x, c), Lit(v))) <=> env[x][c] >= v
         /\ \A y, d : Compares(env, Eq(Col(x, c), Col(y, d))) <=> SqlEq(env[x][c], env[y][d])
<1>1. \A y, d : Value(env, Col(y, d)) = env[y][d]
  BY DEF Value, Col
<1>2. \A v : Value(env, Lit(v)) = v
  BY DEF Value, Lit
<1>3. \A l, r : /\ Eq(l, r)[1] = "=" /\ Eq(l, r)[2] = l /\ Eq(l, r)[3] = r
                /\ AtLeast(l, r)[1] # "=" /\ AtLeast(l, r)[2] = l /\ AtLeast(l, r)[3] = r
  BY DEF Eq, AtLeast
<1> QED BY <1>1, <1>2, <1>3 DEF Compares

(* Nothing is asked by no atoms, and each atom by itself.                  *)
LEMMA HoldsOf ==
  ASSUME NEW env
  PROVE  /\ Holds(env, {})
         /\ \A a : Holds(env, { a }) <=> Compares(env, a)
         /\ \A a, b : Holds(env, { a, b }) <=> Compares(env, a) /\ Compares(env, b)
         /\ \A S, T : Holds(env, S \cup T) <=> Holds(env, S) /\ Holds(env, T)
  BY DEF Holds

(* A clause that requires an atom.                                         *)
LEMMA RequireHolds ==
  ASSUME NEW env, NEW a
  PROVE  (\E atoms \in Require(a) : Holds(env, atoms)) <=> Compares(env, a)
  BY HoldsOf DEF Require

-----------------------------------------------------------------------------
(***************************************************************************)
(* The rows of a statement, by the edges and the slots.                    *)
(***************************************************************************)
(* The slots whose table is joined.                                        *)
Present(i) == IsLone(i) \/ slots[i].referenced

(* No two of them have an alias in common.                                 *)
LEMMA PresentOnce ==
  ASSUME Finished, NEW i \in 1..Len(slots), NEW j \in 1..Len(slots),
         Present(i), Present(j), slots[i].alias = slots[j].alias
  PROVE  i = j
<1>1. \A k \in 1..Len(slots) :
        slots[k].alias = SlotAlias(k) /\ (slots[k].referenced => Bound(k))
  BY FinishedIs
<1>2. CASE engine = "general"
  <2>1. Declarable(i) /\ Declarable(j)
    BY <1>1 DEF Present, Declarable, Bound
  <2> QED BY <1>1, <1>2, <2>1, SlotAliasesDiffer
<1>3. CASE engine # "general"
  <2>1. slots[i].referenced /\ slots[j].referenced
    BY <1>3 DEF Present, IsLone
  <2> QED BY <2>1, MarkedOnce
<1> QED BY <1>2, <1>3

(* A row with the declared aliases, for any rows of the edges and slots.   *)
Spread(env, R, S) ==
  /\ env = [ a \in Declared(from) |-> env[a] ]
  /\ \A e \in 1..Len(edges) : env[edges[e].alias] = R[e]
  /\ \A i \in 1..Len(slots) : Present(i) => env[slots[i].alias] = S[i]

DeclaresAll ==
  Declared(from) = { edges[e].alias : e \in 1..Len(edges) }
                   \cup { slots[i].alias : i \in { k \in 1..Len(slots) : Present(k) } }

(* Any choice of rows is spread over the aliases by one row of the join.   *)
LEMMA SpreadExists ==
  ASSUME Finished, DeclaresAll, NEW R, NEW S
  PROVE  \E env : Spread(env, R, S)
<1> DEFINE D == Declared(from)
           Edge(a) == \E e \in 1..Len(edges) : edges[e].alias = a
           env == [ a \in D |->
                      IF Edge(a) THEN R[CHOOSE e \in 1..Len(edges) : edges[e].alias = a]
                      ELSE S[CHOOSE i \in 1..Len(slots) : Present(i) /\ slots[i].alias = a] ]
<1>1. /\ DistinctVariables
      /\ \A e \in 1..Len(edges) : edges[e].alias = EdgeAlias(e)
      /\ \A i \in 1..Len(slots) : slots[i].alias = SlotAlias(i)
  BY FinishedIs DEF Finished
<1>2. ASSUME NEW e \in 1..Len(edges) PROVE env[edges[e].alias] = R[e]
  <2>1. edges[e].alias \in D /\ Edge(edges[e].alias)
    BY DEF DeclaresAll
  <2>2. \A f \in 1..Len(edges) : edges[f].alias = edges[e].alias => f = e
    BY <1>1, EdgeAliasesDiffer
  <2>3. (CHOOSE f \in 1..Len(edges) : edges[f].alias = edges[e].alias) = e
    BY <2>2
  <2> QED BY <2>1, <2>3
<1>3. ASSUME NEW i \in 1..Len(slots), Present(i) PROVE env[slots[i].alias] = S[i]
  <2>1. slots[i].alias \in D
    BY <1>3 DEF DeclaresAll
  <2>2. ~Edge(slots[i].alias)
    BY <1>1, EdgeSlotDiffer
  <2>3. \A j \in 1..Len(slots) : Present(j) /\ slots[j].alias = slots[i].alias => j = i
    BY <1>3, PresentOnce
  <2>4. (CHOOSE j \in 1..Len(slots) : Present(j) /\ slots[j].alias = slots[i].alias) = i
    BY <1>3, <2>3
  <2> QED BY <2>1, <2>2, <2>4
<1>4. env = [ a \in D |-> env[a] ]
  OBVIOUS
<1> HIDE DEF env
<1> QED BY <1>2, <1>3, <1>4 DEF Spread

(* A row is known by the rows of the edges and of the slots.               *)
LEMMA SpreadOnce ==
  ASSUME DeclaresAll, NEW x, NEW y,
         x = [ a \in Declared(from) |-> x[a] ], y = [ a \in Declared(from) |-> y[a] ],
         \A e \in 1..Len(edges) : x[edges[e].alias] = y[edges[e].alias],
         \A i \in 1..Len(slots) : Present(i) => x[slots[i].alias] = y[slots[i].alias]
  PROVE  x = y
<1>1. \A a \in Declared(from) : x[a] = y[a]
  BY DEF DeclaresAll
<1> QED BY <1>1

(* Rows of a statement whose FROM list has its aliases in order.           *)
LEMMA RowsAre ==
  ASSUME NEW db, NEW f, NEW w, List(f), Distinct(f), Ordered(f), NEW env
  PROVE  env \in Rows(db, f, w) <=>
           /\ env = [ a \in Declared(f) |-> env[a] ]
           /\ \A k \in 1..Len(f) : ItemFits(db, env, f[k])
           /\ \A c \in w : \E atoms \in c : Holds(env, atoms)
<1>1. env \in JoinedRows(db, f) <=> Fitting(db, f, Len(f), env)
  BY JoinedRowsAre
<1> QED BY <1>1 DEF Rows, Fitting, ItemFits, Declared

-----------------------------------------------------------------------------
(***************************************************************************)
(* The rows of the general engine's statement.                             *)
(***************************************************************************)
(* The row env gives an edge or a slot, and the end of an edge tied to its *)
(* slot's anchor.                                                          *)
EdgeRow(env, e) == env[edges[e].alias]
SlotRow(env, i) == env[slots[i].alias]

AnchorRow(env, i) == EdgeRow(env, slots[i].anchor_edge)

Tied(env, e, i, b) ==
  slots[i].anchor_edge # e =>
    SamePeer(EdgeRow(env, e), b, AnchorRow(env, i), slots[i].anchor_target)

(* What WHERE asks of an edge.                                             *)
Typed(env, e) ==
  /\ \A k \in 1..Len(edges[e].types) : SqlEq(EdgeRow(env, e).edge_type, edges[e].types[k])
  /\ \A k \in 1..Len(edges[e].props) :
       SqlEq(EdgeRow(env, e)[edges[e].props[k].key], edges[e].props[k].value)

Named(env, e) ==
  \A b \in BOOLEAN : LET n == EndSlot(edges[e], b).name
                     IN  n # NoLabel => SqlEq(EdgeRow(env, e)[NameCol(b)], n)

Arranged(db, env) ==
  /\ \A e \in 1..Len(edges) :
       /\ EdgeRow(env, e) \in db[EdgeTable]
       /\ Tied(env, e, edges[e].src, FALSE) /\ Tied(env, e, edges[e].tgt, TRUE)
       /\ Typed(env, e) /\ Named(env, e)
  /\ \A i \in 1..Len(slots) :
       /\ Present(i) => SlotRow(env, i) \in db[slots[i].label]
       /\ ~IsLone(i) /\ slots[i].referenced =>
            SqlEq(SlotRow(env, i).id, AnchorRow(env, i)[IdCol(slots[i].anchor_target)])

(* The clauses for types and properties.                                   *)
LEMMA TypedClauses ==
  ASSUME NEW env, NEW e
  PROVE  (\A c \in TypeClauses(edges[e]) \cup PropClauses(edges[e]) :
            \E atoms \in c : Holds(env, atoms))
         <=> Typed(env, e)
<1> DEFINE H(c) == \E atoms \in c : Holds(env, atoms)
           d == edges[e]
<1>1. \A c : \A v : H(Require(Eq(Col(d.alias, c), Lit(v)))) <=> SqlEq(env[d.alias][c], v)
  BY RequireHolds, AtomsCompare
<1> HIDE DEF H
<1>2. (\A c \in TypeClauses(d) : H(c)) <=>
        \A k \in 1..Len(d.types) : SqlEq(env[d.alias].edge_type, d.types[k])
  <2>1. \A k \in 1..Len(d.types) :
          H(Require(Eq(Col(d.alias, "edge_type"), Lit(d.types[k])))) <=>
            SqlEq(env[d.alias].edge_type, d.types[k])
    BY <1>1
  <2> QED BY <2>1, Zenon DEF TypeClauses
<1>3. (\A c \in PropClauses(d) : H(c)) <=>
        \A k \in 1..Len(d.props) : SqlEq(env[d.alias][d.props[k].key], d.props[k].value)
  <2>1. \A k \in 1..Len(d.props) :
          H(Require(Eq(Col(d.alias, d.props[k].key), Lit(d.props[k].value)))) <=>
            SqlEq(env[d.alias][d.props[k].key], d.props[k].value)
    BY <1>1
  <2> QED BY <2>1, Zenon DEF PropClauses
<1>4. Typed(env, e) <=> (\A c \in TypeClauses(d) : H(c)) /\ (\A c \in PropClauses(d) : H(c))
  BY <1>2, <1>3, Zenon DEF Typed, EdgeRow
<1>5. (\A c \in TypeClauses(d) \cup PropClauses(d) : H(c)) <=> Typed(env, e)
  BY <1>4
<1> QED BY <1>5 DEF H

(* The clauses of an edge: its type, its properties and the names of its   *)
(* ends.                                                                   *)
LEMMA ClausesOfEdge ==
  ASSUME NEW env, NEW e
  PROVE  (\A c \in TypeClauses(edges[e]) \cup NameClauses(edges[e]) \cup PropClauses(edges[e]) :
            \E atoms \in c : Holds(env, atoms))
         <=> Typed(env, e) /\ Named(env, e)
<1> DEFINE H(c) == \E atoms \in c : Holds(env, atoms)
           d == edges[e]
<1>1. \A c : \A v : H(Require(Eq(Col(d.alias, c), Lit(v)))) <=> SqlEq(env[d.alias][c], v)
  BY RequireHolds, AtomsCompare
<1>2. (\A c \in TypeClauses(d) \cup PropClauses(d) : H(c)) <=> Typed(env, e)
  BY TypedClauses
<1> HIDE DEF H
<1>3. (\A c \in NameClauses(d) : H(c)) <=> Named(env, e)
  <2>1. \A b \in BOOLEAN :
          H(Require(Eq(Col(d.alias, NameCol(b)), Lit(EndSlot(d, b).name)))) <=>
            SqlEq(env[d.alias][NameCol(b)], EndSlot(d, b).name)
    BY <1>1
  <2>2. (\A c \in NameClauses(d) : H(c)) <=>
          \A b \in { x \in BOOLEAN : EndSlot(d, x).name # NoLabel } :
            H(Require(Eq(Col(d.alias, NameCol(b)), Lit(EndSlot(d, b).name))))
    BY Zenon DEF NameClauses
  <2> QED BY <2>1, <2>2, Zenon DEF Named, EdgeRow
<1>4. (\A c \in TypeClauses(d) \cup NameClauses(d) \cup PropClauses(d) : H(c)) <=>
        Typed(env, e) /\ Named(env, e)
  BY <1>2, <1>3
<1> QED BY <1>4 DEF H

(* The members of FROM: what edges, lone nodes and marked nodes ask.       *)
LEMMA TieHolds ==
  ASSUME NEW env, NEW e, NEW i, NEW b
  PROVE  Holds(env, Tie(e, i, b)) <=> Tied(env, e, i, b)
<1>1. CASE slots[i].anchor_edge = e
  <2>1. Tie(e, i, b) = {}
    BY <1>1 DEF Tie
  <2> QED BY <1>1, <2>1, HoldsOf DEF Tied
<1>2. CASE slots[i].anchor_edge # e
  <2> DEFINE x == Eq(Col(edges[e].alias, IdCol(b)), AnchorId(slots[i]))
             y == Eq(Col(edges[e].alias, NameCol(b)), AnchorName(slots[i]))
  <2>1. Tie(e, i, b) = { x, y }
    BY <1>2 DEF Tie
  <2>2. /\ Compares(env, x) <=> SqlEq(EdgeRow(env, e)[IdCol(b)],
                                      AnchorRow(env, i)[IdCol(slots[i].anchor_target)])
        /\ Compares(env, y) <=> SqlEq(EdgeRow(env, e)[NameCol(b)],
                                      AnchorRow(env, i)[NameCol(slots[i].anchor_target)])
    BY AtomsCompare DEF AnchorId, AnchorName, EdgeRow, AnchorRow
  <2> HIDE DEF x, y
  <2>3. Holds(env, Tie(e, i, b)) <=> Compares(env, x) /\ Compares(env, y)
    BY <2>1, HoldsOf
  <2> QED BY <1>2, <2>2, <2>3 DEF Tied, SamePeer
<1> QED BY <1>1, <1>2

(* An edge of FROM is a row of the edge table, tied at both ends.          *)
LEMMA EdgeItemFits ==
  ASSUME Finished, engine = "general", NEW db, NEW env, NEW e \in 1..Len(edges)
  PROVE  ItemFits(db, env, EdgeItems[e]) <=>
           /\ EdgeRow(env, e) \in db[EdgeTable]
           /\ Tied(env, e, edges[e].src, FALSE) /\ Tied(env, e, edges[e].tgt, TRUE)
<1> DEFINE on == IF e = 1 THEN {}
                 ELSE Tie(e, edges[e].src, FALSE) \cup Tie(e, edges[e].tgt, TRUE)
<1>1. EdgeItems[e] = FromItem(EdgeTable, edges[e].alias, on)
  BY DEF EdgeItems, EdgeItem
<1>2. Holds(env, on) <=> Tied(env, e, edges[e].src, FALSE) /\ Tied(env, e, edges[e].tgt, TRUE)
  <2>1. CASE e # 1
    <3>1. PICK S, T : S = Tie(e, edges[e].src, FALSE) /\ T = Tie(e, edges[e].tgt, TRUE)
      OBVIOUS
    <3>2. on = S \cup T
      BY <2>1, <3>1
    <3>3. /\ Holds(env, S) <=> Tied(env, e, edges[e].src, FALSE)
          /\ Holds(env, T) <=> Tied(env, e, edges[e].tgt, TRUE)
      BY <3>1, TieHolds
    <3> HIDE DEF on
    <3>4. Holds(env, S \cup T) <=> Holds(env, S) /\ Holds(env, T)
      BY HoldsOf
    <3> QED BY <3>2, <3>3, <3>4
  <2>2. CASE e = 1
    <3>1. ASSUME NEW i \in 1..Len(slots), i \in { edges[e].src, edges[e].tgt }
          PROVE  slots[i].anchor_edge = e
      <4>1. AnchorsFirst
        BY DEF Finished, TInv
      <4>2. e \in { f \in 1..Len(edges) : i \in { edges[f].src, edges[f].tgt } }
        BY <3>1
      <4>3. slots[i].anchor_edge \in 1..Len(edges) /\ slots[i].anchor_edge <= e
        BY <4>1, <4>2 DEF AnchorsFirst
      <4>4. Len(edges) \in Nat
        BY FinishedIs
      <4> QED BY <2>2, <4>3, <4>4
    <3>2. edges[e].src \in 1..Len(slots) /\ edges[e].tgt \in 1..Len(slots)
      BY FinishedIs
    <3>3. slots[edges[e].src].anchor_edge = e /\ slots[edges[e].tgt].anchor_edge = e
      BY <3>1, <3>2
    <3>4. on = {}
      BY <2>2
    <3> HIDE DEF on
    <3> QED BY <3>3, <3>4, HoldsOf DEF Tied
  <2> QED BY <2>1, <2>2
<1> HIDE DEF on
<1>3. /\ EdgeItems[e].alias = edges[e].alias /\ EdgeItems[e].table = EdgeTable
      /\ EdgeItems[e].on = on
  BY <1>1, ItemIs
<1> QED BY <1>2, <1>3 DEF ItemFits, EdgeRow

(* A node of FROM is a row of its table, with the id its anchor has.       *)
LEMMA SlotItemsFit ==
  ASSUME NEW db, NEW env, NEW i
  PROVE  /\ ItemFits(db, env, LoneItem(slots[i])) <=> SlotRow(env, i) \in db[slots[i].label]
         /\ ItemFits(db, env, NodeItem(slots[i])) <=>
              /\ SlotRow(env, i) \in db[slots[i].label]
              /\ SqlEq(SlotRow(env, i).id, AnchorRow(env, i)[IdCol(slots[i].anchor_target)])
<1> DEFINE x == Eq(Col(slots[i].alias, "id"), AnchorId(slots[i]))
<1>1. Compares(env, x) <=>
        SqlEq(SlotRow(env, i).id, AnchorRow(env, i)[IdCol(slots[i].anchor_target)])
  BY AtomsCompare DEF AnchorId, SlotRow, AnchorRow, EdgeRow
<1>2. LET s == slots[i]
      IN  /\ LoneItem(s).table = s.label /\ LoneItem(s).alias = s.alias
          /\ LoneItem(s).on = {}
          /\ NodeItem(s).table = s.label /\ NodeItem(s).alias = s.alias
          /\ NodeItem(s).on = { x }
  BY ItemIs DEF LoneItem, NodeItem
<1> HIDE DEF x
<1>3. Holds(env, {}) /\ (Holds(env, { x }) <=> Compares(env, x))
  BY HoldsOf
<1> QED BY <1>1, <1>2, <1>3 DEF ItemFits, SlotRow

(* What FROM declares.                                                     *)
LEMMA GeneralDeclares ==
  ASSUME Finished, engine = "general"
  PROVE  DeclaresAll
<1>1. /\ List(FromItems) /\ from = FromItems
      /\ \A e \in 1..Len(edges) : edges[e].alias \in Declared(FromItems)
      /\ \A i \in 1..Len(slots) : Present(i) => slots[i].alias \in Declared(FromItems)
  BY GeneralFrom, FinishedIs DEF Present, Finished, Shaped, Built
<1>2. ASSUME NEW a \in Declared(from)
      PROVE  \/ \E e \in 1..Len(edges) : edges[e].alias = a
             \/ \E i \in 1..Len(slots) : Present(i) /\ slots[i].alias = a
  <2>1. PICK k \in 1..Len(FromItems) : a = FromItems[k].alias
    BY <1>1 DEF Declared, Declares
  <2>2. List(EdgeItems) /\ List(LoneItems) /\ List(NodeItems)
    BY EdgeItemsAre, LoneItemsAre, NodeItemsAre
  <2> DEFINE ab == EdgeItems \o LoneItems
  <2>3. /\ List(ab) /\ Len(EdgeItems) \in Nat /\ Len(LoneItems) \in Nat
        /\ Len(ab) = Len(EdgeItems) + Len(LoneItems)
        /\ \A m \in 1..Len(EdgeItems) : ab[m] = EdgeItems[m]
        /\ \A m \in 1..Len(LoneItems) : ab[Len(EdgeItems) + m] = LoneItems[m]
    BY <2>2, Concatenated
  <2> HIDE DEF ab
  <2>4. FromItems = ab \o NodeItems
    BY DEF FromItems, ab
  <2>5. /\ Len(NodeItems) \in Nat
        /\ Len(FromItems) = Len(ab) + Len(NodeItems)
        /\ \A m \in 1..Len(ab) : FromItems[m] = ab[m]
        /\ \A m \in 1..Len(NodeItems) : FromItems[Len(ab) + m] = NodeItems[m]
    <3> DEFINE f == ab \o NodeItems
    <3>1. /\ Len(NodeItems) \in Nat
          /\ Len(f) = Len(ab) + Len(NodeItems)
          /\ \A m \in 1..Len(ab) : f[m] = ab[m]
          /\ \A m \in 1..Len(NodeItems) : f[Len(ab) + m] = NodeItems[m]
      BY <2>2, <2>3, Concatenated
    <3>2. FromItems = f
      BY <2>4
    <3> HIDE DEF f
    <3> QED BY <3>1, <3>2
  <2>6. \/ k \in 1..Len(EdgeItems) /\ k \in 1..Len(ab)
        \/ \E m \in 1..Len(LoneItems) : k = Len(EdgeItems) + m /\ k \in 1..Len(ab)
        \/ \E m \in 1..Len(NodeItems) : k = Len(ab) + m
    <3>1. CASE k <= Len(EdgeItems)
      BY <2>3, <2>5, <3>1
    <3>2. CASE k > Len(EdgeItems) /\ k <= Len(ab)
      <4>1. k - Len(EdgeItems) \in 1..Len(LoneItems) /\ k = Len(EdgeItems) + (k - Len(EdgeItems))
            /\ k \in 1..Len(ab)
        BY <2>3, <2>5, <3>2
      <4> QED BY <4>1
    <3>3. CASE k > Len(ab)
      <4>1. k - Len(ab) \in 1..Len(NodeItems) /\ k = Len(ab) + (k - Len(ab))
        BY <2>3, <2>5, <3>3
      <4> QED BY <4>1
    <3> QED BY <2>3, <2>5, <3>1, <3>2, <3>3
  <2>7. CASE \E m \in 1..Len(EdgeItems) : FromItems[k] = EdgeItems[m]
    <3>1. PICK m \in 1..Len(edges) : FromItems[k].alias = edges[m].alias
      BY <2>7, EdgeItemsAre, FinishedIs
    <3> QED BY <2>1, <3>1
  <2>8. CASE \E m \in 1..Len(LoneItems) : FromItems[k] = LoneItems[m]
    <3>1. PICK i \in 1..Len(slots) : IsLone(i) /\ FromItems[k] = LoneItem(slots[i])
      BY <2>8, LoneItemsAre
    <3>2. FromItems[k].alias = slots[i].alias
      BY <3>1, ItemIs DEF LoneItem
    <3> QED BY <2>1, <3>1, <3>2 DEF Present
  <2>9. CASE \E m \in 1..Len(NodeItems) : FromItems[k] = NodeItems[m]
    <3>1. PICK i \in 1..Len(slots) : slots[i].referenced /\ FromItems[k] = NodeItem(slots[i])
      BY <2>9, NodeItemsAre
    <3>2. FromItems[k].alias = slots[i].alias
      BY <3>1, ItemIs DEF NodeItem
    <3> QED BY <2>1, <3>1, <3>2 DEF Present
  <2> QED BY <2>3, <2>5, <2>6, <2>7, <2>8, <2>9
<1>3. \A a : a \in Declared(from) <=>
               a \in { edges[e].alias : e \in 1..Len(edges) }
                     \cup { slots[i].alias : i \in { k \in 1..Len(slots) : Present(k) } }
  BY <1>1, <1>2
<1> QED BY <1>3 DEF DeclaresAll

(* The rows are those that arrange edges and slots.                        *)
LEMMA GeneralRows ==
  ASSUME Finished, engine = "general", NEW db, NEW env
  PROVE  env \in ResultRows(db) <=>
           env = [ a \in Declared(from) |-> env[a] ] /\ Arranged(db, env)
<1>1. from = FromItems /\ where = PatternClauses /\ Visible(db) = db
  BY DEF Finished, Shaped, Built, Visible
<1>2. /\ List(EdgeItems) /\ List(LoneItems) /\ List(NodeItems)
      /\ List(FromItems) /\ Distinct(FromItems) /\ Ordered(FromItems)
      /\ List(EdgeItems \o LoneItems) /\ Len(EdgeItems) = Len(edges)
  BY EdgeItemsAre, LoneItemsAre, NodeItemsAre, GeneralFrom, Concatenated
<1>3. env \in ResultRows(db) <=>
        /\ env = [ a \in Declared(from) |-> env[a] ]
        /\ \A k \in 1..Len(FromItems) : ItemFits(db, env, FromItems[k])
        /\ \A c \in PatternClauses : \E atoms \in c : Holds(env, atoms)
  BY <1>1, <1>2, RowsAre DEF ResultRows
<1>4. (\A k \in 1..Len(FromItems) : ItemFits(db, env, FromItems[k])) <=>
        /\ \A k \in 1..Len(EdgeItems) : ItemFits(db, env, EdgeItems[k])
        /\ \A k \in 1..Len(LoneItems) : ItemFits(db, env, LoneItems[k])
        /\ \A k \in 1..Len(NodeItems) : ItemFits(db, env, NodeItems[k])
  <2> DEFINE ab == EdgeItems \o LoneItems
  <2>1. (\A k \in 1..Len(ab) : ItemFits(db, env, ab[k])) <=>
          /\ \A k \in 1..Len(EdgeItems) : ItemFits(db, env, EdgeItems[k])
          /\ \A k \in 1..Len(LoneItems) : ItemFits(db, env, LoneItems[k])
    BY <1>2, BothFit
  <2>2. List(ab) /\ FromItems = ab \o NodeItems
    BY <1>2 DEF FromItems
  <2> HIDE DEF ab
  <2>3. (\A k \in 1..Len(ab \o NodeItems) : ItemFits(db, env, (ab \o NodeItems)[k])) <=>
          /\ \A k \in 1..Len(ab) : ItemFits(db, env, ab[k])
          /\ \A k \in 1..Len(NodeItems) : ItemFits(db, env, NodeItems[k])
    BY <1>2, <2>2, BothFit
  <2> QED BY <2>1, <2>2, <2>3
<1>5. (\A k \in 1..Len(LoneItems) : ItemFits(db, env, LoneItems[k])) <=>
        \A i \in 1..Len(slots) : IsLone(i) => ItemFits(db, env, LoneItem(slots[i]))
  BY LoneItemsAre
<1>6. (\A k \in 1..Len(NodeItems) : ItemFits(db, env, NodeItems[k])) <=>
        \A i \in 1..Len(slots) :
          ~IsLone(i) /\ slots[i].referenced => ItemFits(db, env, NodeItem(slots[i]))
  BY NodeItemsAre
<1>7. (\A c \in PatternClauses : \E atoms \in c : Holds(env, atoms)) <=>
        \A e \in 1..Len(edges) : Typed(env, e) /\ Named(env, e)
  <2> DEFINE H(c) == \E atoms \in c : Holds(env, atoms)
             C(e) == TypeClauses(edges[e]) \cup NameClauses(edges[e]) \cup PropClauses(edges[e])
  <2>1. (\A c \in PatternClauses : H(c)) <=> \A e \in 1..Len(edges) : \A c \in C(e) : H(c)
    <3> HIDE DEF H, C
    <3>1. PatternClauses = UNION { C(e) : e \in 1..Len(edges) }
      BY DEF PatternClauses, C
    <3> QED BY <3>1
  <2>2. \A e \in 1..Len(edges) : (\A c \in C(e) : H(c)) <=> Typed(env, e) /\ Named(env, e)
    BY ClausesOfEdge
  <2> QED BY <2>1, <2>2
<1> QED
  BY <1>2, <1>3, <1>4, <1>5, <1>6, <1>7, EdgeItemFits, SlotItemsFit DEF Arranged, Present

-----------------------------------------------------------------------------
(***************************************************************************)
(* The slots and edges of a finished translation, in the terms of the      *)
(* query.                                                                  *)
(***************************************************************************)
(* Every node has a slot of its variable, and every slot a node.           *)
LEMMA AllPlaced ==
  ASSUME Finished
  PROVE  /\ Gathered = Occurrences(query) /\ Connected = Relationships(query)
         /\ Live /\ Checked /\ TInv /\ query \in Queries /\ map \in Maps
         /\ \A o \in Occurrences(query) :
              Place(o) \in 1..Len(slots) /\ slots[Place(o)].var = NodeAt(query, o).var
         /\ \A i \in 1..Len(slots) : \E o \in Occurrences(query) : Place(o) = i
<1>1. TInv /\ Checked /\ Live /\ pc # "collect" /\ query \in Queries
  BY FinishedIs DEF Finished
<1>2. Gathered = Occurrences(query) /\ Connected = Relationships(query)
  BY <1>1, AllGathered DEF Checked
<1>3. \A o \in Gathered : Place(o) \in 1..Len(slots) /\ slots[Place(o)].var = NodeAt(query, o).var
  BY <1>1, PlaceHas DEF Checked
<1>4. \A i \in 1..Len(slots) : \E o \in Gathered : Place(o) = i
  BY <1>1 DEF Checked, Owned
<1> QED BY <1>1, <1>2, <1>3, <1>4 DEF Checked

(* The table of a node is that of its only label, if it has one.           *)
LEMMA TableIs ==
  ASSUME NEW o, NEW l, LabelsOf(query, o) = { l } \ { NoLabel }
  PROVE  TableOf(query, map, o) = Resolve(map, l)
<1>1. CASE l = NoLabel
  <2>1. LabelsOf(query, o) = {}
    BY <1>1
  <2> QED BY <1>1, <2>1 DEF TableOf
<1>2. CASE l # NoLabel
  <2>1. LabelsOf(query, o) = { l }
    BY <1>2
  <2>2. (CHOOSE m \in LabelsOf(query, o) : TRUE) = l /\ LabelsOf(query, o) # {}
    BY <2>1
  <2> QED BY <2>2 DEF TableOf
<1> QED BY <1>1, <1>2

(* A slot has the label its node's label is resolved to.                   *)
LEMMA SlotTable ==
  ASSUME Finished, Sound, NEW o \in Occurrences(query), NEW i, i = Place(o)
  PROVE  /\ slots[i].label = TableOf(query, map, o).table
         /\ slots[i].name = TableOf(query, map, o).name
<1>1. /\ TInv /\ Live /\ Checked /\ Gathered = Occurrences(query) /\ i \in 1..Len(slots)
      /\ pc = "done"
  BY AllPlaced DEF Finished
<1>2. PICK l : Original(i, l) /\ Reads(slots[i], l)
  BY <1>1 DEF Checked, Labels
<1>3. LabelsOf(query, o) = { l } \ { NoLabel }
  BY <1>1, <1>2, LabelsAre DEF Checked
<1> QED BY <1>2, <1>3, TableIs DEF Reads

(* A slot marked is one whose columns are used.                            *)
LEMMA MarkedUsed ==
  ASSUME Finished, NEW o \in Occurrences(query), NEW i, i = Place(o), slots[i].referenced
  PROVE  Used(query, o)
<1>1. i \in 1..Len(slots) /\ slots[i].var = NodeAt(query, o).var
  BY AllPlaced
<1>2. PICK k \in 1..emitted : query.uses[k].var = slots[i].var
  BY <1>1, FinishedIs DEF Asked
<1>3. emitted = Len(query.uses)
  BY DEF Finished, Checked, UsesChecked
<1> QED BY <1>1, <1>2, <1>3 DEF Used

(* A node whose columns are used has a slot of its variable that is marked.*)
LEMMA UsedMarked ==
  ASSUME Finished, NEW o \in Occurrences(query), Used(query, o)
  PROVE  \E i \in 1..Len(slots) :
           /\ slots[i].referenced /\ slots[i].alias = NodeAt(query, o).var
           /\ slots[i].var = NodeAt(query, o).var /\ slots[i].var # Anon
<1>1. PICK n \in 1..Len(query.uses) : query.uses[n].var = NodeAt(query, o).var
  BY DEF Used
<1> DEFINE v == NodeAt(query, o).var
<1>2. Marked(v)
  BY <1>1, FinishedIs
<1>3. Place(o) \in NodesNamed(v)
  BY AllPlaced DEF NodesNamed
<1>4. EdgesNamed(v) = {}
  <2>1. SUFFICES ASSUME NEW e \in EdgesNamed(v) PROVE FALSE
    OBVIOUS
  <2>2. e \in 1..Len(edges) /\ edges[e].var = v
    BY <2>1 DEF EdgesNamed
  <2>3. DistinctVariables /\ v # Anon
    BY <1>2 DEF Finished, Marked
  <2>4. NodesNamed(v) = {}
    BY <2>2, <2>3 DEF DistinctVariables
  <2> QED BY <1>3, <2>4
<1>5. PICK i \in 1..Len(slots) : slots[i].var = v /\ slots[i].referenced
  BY <1>2, <1>4 DEF Marked, NodesNamed
<1>6. slots[i].alias = v
  BY <1>2, <1>5, FinishedIs DEF SlotAlias, Marked
<1> QED BY <1>2, <1>5, <1>6 DEF Marked

(* If the slots are the nodes of the query, it is the node's own slot.     *)
LEMMA UsedAtPlace ==
  ASSUME Finished, Sound, NEW o \in Occurrences(query), NEW i, i = Place(o), Used(query, o)
  PROVE  slots[i].referenced /\ slots[i].alias = NodeAt(query, o).var
<1>1. PICK j \in 1..Len(slots) :
        /\ slots[j].referenced /\ slots[j].alias = NodeAt(query, o).var
        /\ slots[j].var = NodeAt(query, o).var /\ slots[j].var # Anon
  BY UsedMarked
<1>2. PICK x \in Occurrences(query) : Place(x) = j
  BY AllPlaced
<1>3. SameNode(query, x, o)
  BY <1>1, <1>2, AllPlaced DEF SameNode
<1>4. x \in Gathered /\ o \in Gathered /\ TInv /\ Live /\ Dispatched
  BY AllPlaced DEF Checked
<1>5. Place(x) = Place(o)
  BY <1>3, <1>4, SamePlace
<1> QED BY <1>1, <1>2, <1>5

(* What a slot says of its node, even if another slot says more.           *)
LEMMA SlotReads ==
  ASSUME Finished, Sound \/ Understood, NEW o \in Occurrences(query), NEW i, i = Place(o)
  PROVE  /\ slots[i].name # NoLabel => slots[i].name = TableOf(query, map, o).name
         /\ slots[i].referenced =>
              Used(query, o) /\ slots[i].label = TableOf(query, map, o).table
<1>1. slots[i].referenced => Used(query, o)
  BY MarkedUsed
<1>2. CASE Sound
  BY <1>1, <1>2, SlotTable
<1>3. CASE ~Sound
  <2>1. /\ TInv /\ Live /\ Checked /\ Gathered = Occurrences(query) /\ i \in 1..Len(slots)
        /\ pc = "done" /\ query \in Queries /\ map \in Maps /\ engine # "general"
    BY <1>3, AllPlaced DEF Finished, Sound
  <2>2. PICK l : Original(i, l) /\ Reads(slots[i], l)
    BY <2>1 DEF Checked, Labels
  <2>3. ASSUME l # NoLabel PROVE TableOf(query, map, o) = Resolve(map, l)
    <3>1. PICK x \in Occurrences(query) : Place(x) = i /\ Written(x) = l
      BY <2>1, <2>2, <2>3 DEF Original
    <3>2. x = o
      <4>1. SingleHop
        BY <2>1, HopSlots DEF Checked
      <4>2. \A y \in Occurrences(query) : y[2] + 1 \in 1..2
        BY <2>1, <4>1, HopPattern
      <4>3. x[2] = o[2]
        <5>1. x[2] + 1 = o[2] + 1
          BY <2>1, <3>1 DEF Place
        <5>2. x[2] \in Nat /\ o[2] \in Nat
          BY <2>1, OccurrencesArePairs
        <5> QED BY <5>1, <5>2
      <4> QED BY <2>1, <4>1, <4>3, HopPattern
    <3>3. l \in LabelsOf(query, o)
      <4>1. SameNode(query, o, o)
        BY DEF SameNode
      <4> QED BY <2>1, <2>3, <3>1, <3>2, <4>1, WrittenIs
    <3>4. Cardinality(LabelsOf(query, o)) <= 1
      BY <1>3 DEF Understood, NodeUnderstood
    <3>5. \A m \in LabelsOf(query, o) : m = l
      BY <2>1, <3>3, <3>4, TwoLabels
    <3>6. LabelsOf(query, o) = { l } \ { NoLabel }
      BY <2>3, <3>3, <3>5
    <3> QED BY <3>6, TableIs
  <2>4. slots[i].name # NoLabel => l # NoLabel
    BY <2>2 DEF Reads, Resolve, Entry
  <2>5. slots[i].label # NoLabel => l # NoLabel
    BY <2>1, <2>2, ResolveKeepsLabels DEF Reads
  <2>6. slots[i].referenced => slots[i].label # NoLabel
    BY <2>1, FinishedIs DEF Bound
  <2> QED BY <1>1, <2>2, <2>3, <2>4, <2>5, <2>6 DEF Reads
<1> QED BY <1>2, <1>3

(* A slot whose table is joined has a table of the catalog.                *)
LEMMA PresentTable ==
  ASSUME Finished, NEW i \in 1..Len(slots), Present(i)
  PROVE  slots[i].label \in Catalog
<1>1. slots[i].label # NoLabel
  BY FinishedIs DEF Present, IsLone, Bound
<1>2. ~UnknownTable(slots[i])
  BY FinishedIs
<1> QED BY <1>1, <1>2 DEF UnknownTable

(* An edge is what its relationship is written as.                         *)
LEMMA EdgeIs ==
  ASSUME Finished, NEW r \in Relationships(query)
  PROVE  /\ EdgeOf(r) \in 1..Len(edges)
         /\ edges[EdgeOf(r)].types = RelAt(query, r).types
         /\ edges[EdgeOf(r)].props = RelAt(query, r).props
         /\ Len(RelAt(query, r).types) <= 1
<1>1. /\ r \in Connected /\ TInv /\ Live /\ Mirrored
  BY AllPlaced DEF Checked
<1> QED BY <1>1, EdgePlace DEF Mirrored, Drawn

-----------------------------------------------------------------------------
(***************************************************************************)
(* Relationships, their numbers and their ends.                            *)
(***************************************************************************)
(* The ends of a relationship are nodes of the pattern.                    *)
LEMMA EndsOccur ==
  ASSUME NEW q \in Queries, NEW r \in Relationships(q), NEW b
  PROVE  EndOf(q, r, b) \in Occurrences(q)
<1>1. PICK p, s \in Nat : r = << p, s >> /\ p \in 1..Len(q.paths) /\ s \in 0..Len(q.paths[p].segs)
  BY OccurrencesArePairs DEF Relationships
<1>2. s > 0
  BY <1>1 DEF Relationships
<1>3. Len(q.paths[p].segs) \in Nat
  BY <1>1, QueriesAssumption
<1>4. s - 1 \in Nat /\ s - 1 \in 0..Len(q.paths[p].segs)
  BY <1>1, <1>2, <1>3
<1>5. << r[1], r[2] - 1 >> \in Occurrences(q)
  BY <1>1, <1>4, OccurrencesArePairs
<1>6. r \in Occurrences(q)
  BY DEF Relationships
<1> QED BY <1>5, <1>6 DEF EndOf

(* Of two places one is before the other.                                  *)
LEMMA BeforeOrders ==
  ASSUME NEW q \in Queries, NEW x \in Occurrences(q), NEW y \in Occurrences(q)
  PROVE  /\ ~Before(x, x)
         /\ x = y \/ Before(x, y) \/ Before(y, x)
         /\ ~(Before(x, y) /\ Before(y, x))
         /\ \A z \in Occurrences(q) : Before(x, y) /\ Before(y, z) => Before(x, z)
<1>1. \A z \in Occurrences(q) : \E p, s \in Nat : z = << p, s >>
  BY OccurrencesArePairs
<1>2. PICK p, s \in Nat : x = << p, s >>
  BY <1>1
<1>3. PICK u, v \in Nat : y = << u, v >>
  BY <1>1
<1>4. ASSUME NEW z \in Occurrences(q), Before(x, y), Before(y, z) PROVE Before(x, z)
  <2>1. PICK m, n \in Nat : z = << m, n >>
    BY <1>1
  <2>2. (p < u \/ (p = u /\ s < v)) /\ (u < m \/ (u = m /\ v < n))
    BY <1>2, <1>3, <1>4, <2>1 DEF Before
  <2>3. p < m \/ (p = m /\ s < n)
    BY <2>2
  <2> QED BY <1>2, <2>1, <2>3 DEF Before
<1>5. ~Before(x, x)
  BY <1>2 DEF Before
<1>6. x = y \/ Before(x, y) \/ Before(y, x)
  BY <1>2, <1>3 DEF Before
<1>7. ~(Before(x, y) /\ Before(y, x))
  BY <1>2, <1>3 DEF Before
<1> QED BY <1>4, <1>5, <1>6, <1>7

(* Relationships are numbered in the order they are written.               *)
LEMMA NumbersGrow ==
  ASSUME query \in Queries, NEW r \in Relationships(query), NEW s \in Relationships(query),
         Before(s, r)
  PROVE  Number(s) \in Nat /\ Number(r) \in Nat /\ Number(s) < Number(r)
<1> DEFINE S(x) == { y \in Relationships(query) : y = x \/ Before(y, x) }
<1>1. \A x \in Relationships(query) : x \in Occurrences(query)
  BY DEF Relationships
<1>2. IsFiniteSet(S(r)) /\ IsFiniteSet(S(s))
  <2>1. IsFiniteSet(Occurrences(query))
    BY OccurrencesFinite
  <2>2. S(r) \in SUBSET Occurrences(query) /\ S(s) \in SUBSET Occurrences(query)
    BY <1>1
  <2> HIDE DEF S
  <2> QED BY <2>1, <2>2, FS_Subset
<1>3. r \notin S(s) /\ S(s) \cup { r } \subseteq S(r)
  <2>1. \A y \in Relationships(query) : Before(y, s) => Before(y, r)
    BY <1>1, BeforeOrders
  <2>2. ~Before(r, s) /\ r # s
    BY <1>1, BeforeOrders
  <2> QED BY <2>1, <2>2
<1>4. Number(r) = Cardinality(S(r)) /\ Number(s) = Cardinality(S(s))
  BY DEF Number
<1> HIDE DEF S
<1>5. Cardinality(S(s) \cup { r }) = Cardinality(S(s)) + 1
  BY <1>2, <1>3, FS_AddElement
<1>6. Cardinality(S(s) \cup { r }) <= Cardinality(S(r))
  BY <1>2, <1>3, FS_Subset
<1>7. Cardinality(S(s)) \in Nat /\ Cardinality(S(r)) \in Nat
  BY <1>2, FS_CardinalityType
<1> QED BY <1>4, <1>5, <1>6, <1>7

(* Edges are the relationships in their order, and connect the slots of    *)
(* their ends.                                                             *)
LEMMA Numbers ==
  ASSUME Finished, engine = "general"
  PROVE  /\ \A r \in Relationships(query) :
              /\ Number(r) \in 1..Len(edges)
              /\ edges[Number(r)].src = Place(EndOf(query, r, FALSE))
              /\ edges[Number(r)].tgt = Place(EndOf(query, r, TRUE))
         /\ \A r, s \in Relationships(query) : Number(r) = Number(s) => r = s
         /\ \A e \in 1..Len(edges) : \E r \in Relationships(query) : Number(r) = e
<1>1. TInv /\ Live /\ Checked /\ Connected = Relationships(query) /\ query \in Queries
  BY AllPlaced
<1>2. \A r \in Relationships(query) : EdgeOf(r) = Number(r) /\ EdgeOf(r) \in 1..Len(edges)
  BY EdgeIs DEF EdgeOf
<1>3. \A r \in Relationships(query) : r \in Done
  BY <1>1 DEF Connected, Done
<1>4. \A r \in Relationships(query) :
        /\ edges[Number(r)].src = SlotIndex(slots, EndOf(query, r, FALSE))
        /\ edges[Number(r)].tgt = SlotIndex(slots, EndOf(query, r, TRUE))
  BY <1>1, <1>3 DEF TInv, Numbered
<1>5. \A o : Place(o) = SlotIndex(slots, o)
  BY DEF Place
<1>6. ASSUME NEW r \in Relationships(query), NEW s \in Relationships(query), Number(r) = Number(s)
      PROVE  r = s
  <2>1. r \in Occurrences(query) /\ s \in Occurrences(query)
    BY DEF Relationships
  <2>2. r = s \/ Before(r, s) \/ Before(s, r)
    BY <1>1, <2>1, BeforeOrders
  <2> QED BY <1>1, <1>6, <2>2, NumbersGrow
<1>7. \A e \in 1..Len(edges) : \E r \in Relationships(query) : Number(r) = e
  BY <1>1 DEF Checked, Mirrored, EdgeOf
<1> QED BY <1>2, <1>4, <1>5, <1>6, <1>7

(* The slot at an end of a relationship.                                   *)
LEMMA EndPlaces ==
  ASSUME Finished, engine = "general", NEW r \in Relationships(query), NEW b \in BOOLEAN
  PROVE  /\ Place(EndOf(query, r, b)) \in 1..Len(slots)
         /\ Place(EndOf(query, r, b)) = IF b THEN edges[Number(r)].tgt ELSE edges[Number(r)].src
         /\ EndSlot(edges[Number(r)], b) = slots[Place(EndOf(query, r, b))]
<1>1. EndOf(query, r, b) \in Occurrences(query)
  BY AllPlaced, EndsOccur
<1>2. Place(EndOf(query, r, b)) = IF b THEN edges[Number(r)].tgt ELSE edges[Number(r)].src
  <2>1. CASE b = TRUE
    BY <2>1, Numbers
  <2>2. CASE b = FALSE
    BY <2>2, Numbers
  <2> QED BY <2>1, <2>2
<1> QED BY <1>1, <1>2, AllPlaced DEF EndSlot

(* A slot on an edge has its anchor among the ends of relationships: at    *)
(* the first relationship that leads to it or from it.                     *)
AnchorEnd(i, x) ==
  /\ x \in Ends(query) /\ Place(EndOf(query, x[1], x[2])) = i
  /\ slots[i].anchor_edge = Number(x[1]) /\ slots[i].anchor_target = x[2]
  /\ \A y \in Ends(query) :
       Place(EndOf(query, y[1], y[2])) = i => Number(x[1]) <= Number(y[1])

(* Only lone nodes are without one.                                        *)
LEMMA Anchor ==
  ASSUME Finished, engine = "general", NEW i \in 1..Len(slots)
  PROVE  /\ ~IsLone(i) => \E x : AnchorEnd(i, x)
         /\ IsLone(i) => \A y \in Ends(query) : Place(EndOf(query, y[1], y[2])) # i
<1> DEFINE a == slots[i].anchor_edge
           on == { e \in 1..Len(edges) : i \in {edges[e].src, edges[e].tgt} }
<1>1. IF on = {} THEN a = 0
      ELSE a \in on /\ (\A e \in on : a <= e) /\ slots[i].anchor_target = (edges[a].src # i)
  BY DEF Finished, TInv, AnchorsFirst
<1>2. \A y \in Ends(query) : /\ y[1] \in Relationships(query) /\ y[2] \in BOOLEAN
                             /\ Number(y[1]) \in 1..Len(edges)
  BY Numbers DEF Ends
<1>3. ASSUME NEW y \in Ends(query), Place(EndOf(query, y[1], y[2])) = i
      PROVE  Number(y[1]) \in on
  <2>1. i = edges[Number(y[1])].tgt \/ i = edges[Number(y[1])].src
    BY <1>2, <1>3, EndPlaces
  <2> QED BY <1>2, <2>1
<1>4. IsLone(i) <=> a = 0
  BY DEF IsLone
<1>5. 0 \notin on
  OBVIOUS
<1>6. ASSUME ~IsLone(i) PROVE \E x : AnchorEnd(i, x)
  <2>1. a \in on /\ (\A e \in on : a <= e) /\ slots[i].anchor_target = (edges[a].src # i)
    BY <1>1, <1>4, <1>6
  <2>2. PICK r \in Relationships(query) : Number(r) = a
    BY <2>1, Numbers
  <2>3. PICK b \in BOOLEAN : b = (edges[a].src # i)
    OBVIOUS
  <2>4. Place(EndOf(query, r, b)) = i
    <3>1. Place(EndOf(query, r, b)) = IF b THEN edges[a].tgt ELSE edges[a].src
      BY <2>2, EndPlaces
    <3>2. i = edges[a].tgt \/ i = edges[a].src
      BY <2>1
    <3> QED BY <2>3, <3>1, <3>2
  <2> DEFINE x == << r, b >>
  <2>5. x \in Ends(query) /\ x[1] = r /\ x[2] = b
    BY DEF Ends
  <2> HIDE DEF on, x
  <2>6. \A y \in Ends(query) : Place(EndOf(query, y[1], y[2])) = i => Number(r) <= Number(y[1])
    BY <1>3, <2>1, <2>2
  <2>7. AnchorEnd(i, x)
    BY <2>1, <2>2, <2>3, <2>4, <2>5, <2>6 DEF AnchorEnd
  <2> QED BY <2>7
<1>7. ASSUME IsLone(i), NEW y \in Ends(query) PROVE Place(EndOf(query, y[1], y[2])) # i
  <2> HIDE DEF on
  <2> QED BY <1>1, <1>3, <1>4, <1>5, <1>7
<1> QED BY <1>6, <1>7

(* The node is at no other end of that relationship, unless the query      *)
(* opens with a loop at it.                                                *)
LEMMA OneAnchorEnd ==
  ASSUME Finished, engine = "general", ~OpensWithSelfLoop(query),
         NEW i \in 1..Len(slots), NEW x, AnchorEnd(i, x),
         NEW y \in Ends(query), Place(EndOf(query, y[1], y[2])) = i, Number(y[1]) = Number(x[1])
  PROVE  y = x
<1>1. /\ x \in Ends(query) /\ x[1] \in Relationships(query) /\ x[2] \in BOOLEAN
      /\ y[1] \in Relationships(query) /\ y[2] \in BOOLEAN
      /\ x = << x[1], x[2] >> /\ y = << y[1], y[2] >>
  BY DEF AnchorEnd, Ends
<1>2. x[1] = y[1]
  BY <1>1, Numbers
<1>3. SUFFICES ASSUME x[2] # y[2] PROVE FALSE
  BY <1>1, <1>2
<1> DEFINE r == x[1]
<1>4. Place(EndOf(query, r, FALSE)) = i /\ Place(EndOf(query, r, TRUE)) = i
  BY <1>1, <1>2, <1>3 DEF AnchorEnd
<1>5. /\ TInv /\ Live /\ Dispatched /\ Sound /\ query \in Queries
      /\ Gathered = Occurrences(query)
  BY AllPlaced DEF Checked, Sound
<1>6. \A s \in Relationships(query), b \in BOOLEAN : EndOf(query, s, b) \in Gathered
  BY <1>5, EndsOccur
<1>7. SelfLoop(query, r)
  BY <1>1, <1>4, <1>5, <1>6, SamePlace DEF SelfLoop
<1>8. ASSUME NEW s \in Relationships(query), NEW b \in BOOLEAN, Before(s, r),
             SameNode(query, EndOf(query, s, b), EndOf(query, r, FALSE))
      PROVE  FALSE
  <2>1. Place(EndOf(query, s, b)) = i
    <3>1. PICK u, v : u = EndOf(query, s, b) /\ v = EndOf(query, r, FALSE)
      OBVIOUS
    <3>2. u \in Gathered /\ v \in Gathered /\ SameNode(query, u, v) /\ Place(v) = i
      BY <1>1, <1>4, <1>6, <1>8, <3>1
    <3>3. Place(u) = Place(v)
      BY <1>5, <3>2, SamePlace
    <3> QED BY <3>1, <3>2, <3>3
  <2>2. << s, b >> \in Ends(query)
    BY DEF Ends
  <2>3. Number(r) <= Number(s)
    BY <2>1, <2>2 DEF AnchorEnd
  <2> QED BY <1>1, <1>5, <1>8, <2>3, NumbersGrow
<1>9. \A s \in Relationships(query), b \in BOOLEAN :
        Before(s, r) => ~SameNode(query, EndOf(query, s, b), EndOf(query, r, FALSE))
  BY <1>8
<1>10. r \in Relationships(query)
  BY <1>1
<1> HIDE DEF r
<1> QED BY <1>7, <1>9, <1>10 DEF OpensWithSelfLoop

-----------------------------------------------------------------------------
(***************************************************************************)
(* Every row is a match of the pattern.                                    *)
(***************************************************************************)
(* Equal peers are equal.                                                  *)
LEMMA PeersAgree ==
  ASSUME NEW e, NEW b, NEW f, NEW c, SamePeer(e, b, f, c)
  PROVE  /\ SamePeer(f, c, e, b)
         /\ \A g, d : SamePeer(g, d, f, c) => SamePeer(e, b, g, d)
  BY DEF SamePeer, SqlEq

(* An edge has the type and properties its relationship asks for.          *)
LEMMA TypedFits ==
  ASSUME Finished, NEW r \in Relationships(query), NEW env
  PROVE  Typed(env, EdgeOf(r)) <=> EdgeFits(query, r, EdgeRow(env, EdgeOf(r)))
<1> DEFINE rel == RelAt(query, r)
           x == EdgeRow(env, EdgeOf(r))
<1>1. /\ edges[EdgeOf(r)].types = rel.types /\ edges[EdgeOf(r)].props = rel.props
      /\ Len(rel.types) <= 1
  BY EdgeIs
<1>2. rel.types \in Seq({ rel.types[i] : i \in 1..Len(rel.types) })
  BY AllPlaced, QueriesAssumption
<1>3. ASSUME NEW S, NEW t \in Seq(S), Len(t) <= 1
      PROVE  IF t = << >> THEN Len(t) = 0 ELSE Len(t) = 1
  <2>1. t # << >> => 1 \in 1..Len(t)
    OBVIOUS
  <2>2. Len(t) \in Nat
    OBVIOUS
  <2>3. t = << >> => Len(t) = 0
    OBVIOUS
  <2>4. 1 \in 1..Len(t) => Len(t) = 1
    <3>1. \A n \in Nat : n <= 1 /\ 1 \in 1..n => n = 1
      OBVIOUS
    <3> QED BY ONLY <1>3, <2>2, <3>1
  <2> QED BY <2>1, <2>3, <2>4
<1>4. IF rel.types = << >> THEN Len(rel.types) = 0 ELSE Len(rel.types) = 1
  BY <1>1, <1>2, <1>3
<1>5. (\A k \in 1..Len(rel.types) : SqlEq(x.edge_type, rel.types[k])) <=>
        (rel.types # << >> => SqlEq(x.edge_type, rel.types[1]))
  <2>1. CASE rel.types = << >>
    BY <1>4, <2>1
  <2>2. CASE rel.types # << >>
    <3>1. Len(rel.types) = 1
      BY <1>4, <2>2
    <3>2. \A k : k \in 1..1 <=> k = 1
      OBVIOUS
    <3>3. \A k : k \in 1..Len(rel.types) <=> k = 1
      BY <3>1, <3>2
    <3> QED BY <2>2, <3>3
  <2> QED BY <2>1, <2>2
<1>6. Typed(env, EdgeOf(r)) <=>
        /\ \A k \in 1..Len(rel.types) : SqlEq(x.edge_type, rel.types[k])
        /\ \A k \in 1..Len(rel.props) : SqlEq(x[rel.props[k].key], rel.props[k].value)
  BY <1>1 DEF Typed
<1>7. EdgeFits(query, r, x) <=>
        /\ rel.types # << >> => SqlEq(x.edge_type, rel.types[1])
        /\ \A k \in 1..Len(rel.props) : SqlEq(x[rel.props[k].key], rel.props[k].value)
  BY DEF EdgeFits
<1> HIDE DEF rel, x
<1>8. Typed(env, EdgeOf(r)) <=> EdgeFits(query, r, x)
  BY <1>5, <1>6, <1>7
<1> QED BY <1>8 DEF x

(* The row of an end of a relationship, and its peer.                      *)
EndRow(env, x) == EdgeRow(env, Number(x[1]))

(* The ties hold between all the ends of edges and their anchors.          *)
LEMMA TiesAre ==
  ASSUME Finished, engine = "general", NEW env
  PROVE  (\A e \in 1..Len(edges) :
            Tied(env, e, edges[e].src, FALSE) /\ Tied(env, e, edges[e].tgt, TRUE))
         <=> \A y \in Ends(query) : Tied(env, Number(y[1]), Place(EndOf(query, y[1], y[2])), y[2])
<1>1. ASSUME NEW y \in Ends(query),
             \A e \in 1..Len(edges) :
               Tied(env, e, edges[e].src, FALSE) /\ Tied(env, e, edges[e].tgt, TRUE)
      PROVE  Tied(env, Number(y[1]), Place(EndOf(query, y[1], y[2])), y[2])
  <2>1. y[1] \in Relationships(query) /\ y[2] \in BOOLEAN
    BY DEF Ends
  <2>2. PICK e \in 1..Len(edges) : e = Number(y[1])
    BY <2>1, Numbers
  <2>3. Place(EndOf(query, y[1], y[2])) = IF y[2] THEN edges[e].tgt ELSE edges[e].src
    BY <2>1, <2>2, EndPlaces
  <2>4. CASE y[2] = TRUE
    BY <1>1, <2>2, <2>3, <2>4
  <2>5. CASE y[2] = FALSE
    BY <1>1, <2>2, <2>3, <2>5
  <2> QED BY <2>1, <2>4, <2>5
<1>2. ASSUME NEW e \in 1..Len(edges),
             \A y \in Ends(query) : Tied(env, Number(y[1]), Place(EndOf(query, y[1], y[2])), y[2])
      PROVE  Tied(env, e, edges[e].src, FALSE) /\ Tied(env, e, edges[e].tgt, TRUE)
  <2>1. PICK r \in Relationships(query) : Number(r) = e
    BY Numbers
  <2>2. << r, FALSE >> \in Ends(query) /\ << r, TRUE >> \in Ends(query)
    BY DEF Ends
  <2>3. /\ Tied(env, Number(r), Place(EndOf(query, r, FALSE)), FALSE)
        /\ Tied(env, Number(r), Place(EndOf(query, r, TRUE)), TRUE)
    BY <1>2, <2>2
  <2> QED BY <2>1, <2>3, Numbers
<1> QED BY <1>1, <1>2

(* The names asked of the ends are those of the nodes.                     *)
LEMMA NamesAre ==
  ASSUME Finished, engine = "general", NEW env
  PROVE  (\A e \in 1..Len(edges) : Named(env, e)) <=>
         \A y \in Ends(query) :
           LET tn == TableOf(query, map, EndOf(query, y[1], y[2]))
           IN  tn.name # NoLabel => SqlEq(EndRow(env, y)[NameCol(y[2])], tn.name)
<1>1. \A r \in Relationships(query), b \in BOOLEAN :
        EndSlot(edges[Number(r)], b).name = TableOf(query, map, EndOf(query, r, b)).name
  <2> TAKE r \in Relationships(query), b \in BOOLEAN
  <2>1. EndOf(query, r, b) \in Occurrences(query) /\ Sound
    BY AllPlaced, EndsOccur DEF Sound
  <2>2. EndSlot(edges[Number(r)], b) = slots[Place(EndOf(query, r, b))]
    BY EndPlaces
  <2>3. slots[Place(EndOf(query, r, b))].name = TableOf(query, map, EndOf(query, r, b)).name
    BY <2>1, SlotTable
  <2> QED BY <2>2, <2>3
<1> DEFINE N(r, b) == LET n == TableOf(query, map, EndOf(query, r, b)).name
                      IN  n # NoLabel => SqlEq(EdgeRow(env, Number(r))[NameCol(b)], n)
<1>2. \A r \in Relationships(query) : Named(env, Number(r)) <=> \A b \in BOOLEAN : N(r, b)
  BY <1>1 DEF Named
<1>3. \A y \in Ends(query) :
        /\ y[1] \in Relationships(query) /\ y[2] \in BOOLEAN
        /\ (LET tn == TableOf(query, map, EndOf(query, y[1], y[2]))
            IN  tn.name # NoLabel => SqlEq(EndRow(env, y)[NameCol(y[2])], tn.name))
           <=> N(y[1], y[2])
  BY DEF Ends, EndRow
<1>4. \A r \in Relationships(query), b \in BOOLEAN :
        << r, b >> \in Ends(query) /\ << r, b >>[1] = r /\ << r, b >>[2] = b
  BY DEF Ends
<1> HIDE DEF N
<1>5. (\A y \in Ends(query) : N(y[1], y[2])) <=>
        \A r \in Relationships(query), b \in BOOLEAN : N(r, b)
  <2>1. ASSUME \A y \in Ends(query) : N(y[1], y[2]),
               NEW r \in Relationships(query), NEW b \in BOOLEAN
        PROVE  N(r, b)
    <3>1. << r, b >> \in Ends(query)
      BY <1>4
    <3>2. N(<< r, b >>[1], << r, b >>[2])
      BY <2>1, <3>1
    <3> QED BY <3>2
  <2>2. ASSUME \A r \in Relationships(query), b \in BOOLEAN : N(r, b), NEW y \in Ends(query)
        PROVE  N(y[1], y[2])
    BY <1>3, <2>2
  <2> QED BY <2>1, <2>2
<1>6. (\A e \in 1..Len(edges) : Named(env, e)) <=> \A r \in Relationships(query) : Named(env, Number(r))
  <2>1. ASSUME \A r \in Relationships(query) : Named(env, Number(r)), NEW e \in 1..Len(edges)
        PROVE  Named(env, e)
    BY <2>1, Numbers
  <2> QED BY <2>1, Numbers
<1> QED BY <1>2, <1>3, <1>5, <1>6

(* The ends of a node are one peer: each is tied to the node's anchor.     *)
LEMMA EndsAgree ==
  ASSUME Finished, engine = "general", ~OpensWithSelfLoop(query), NEW env,
         \A y \in Ends(query) : Tied(env, Number(y[1]), Place(EndOf(query, y[1], y[2])), y[2]),
         NEW i \in 1..Len(slots), NEW x, AnchorEnd(i, x),
         NEW y \in Ends(query), Place(EndOf(query, y[1], y[2])) = i, y # x
  PROVE  SamePeer(EndRow(env, y), y[2], EndRow(env, x), x[2])
<1>1. Number(y[1]) # Number(x[1])
  BY OneAnchorEnd
<1>2. Tied(env, Number(y[1]), i, y[2])
  OBVIOUS
<1>3. slots[i].anchor_edge = Number(x[1]) /\ slots[i].anchor_target = x[2]
  BY DEF AnchorEnd
<1> QED BY <1>1, <1>2, <1>3 DEF Tied, EndRow, AnchorRow

(* So all the ends at which a node occurs are the same peer.               *)
LEMMA RowsCohere ==
  ASSUME Finished, engine = "general", ~OpensWithSelfLoop(query), NEW env,
         \A y \in Ends(query) : Tied(env, Number(y[1]), Place(EndOf(query, y[1], y[2])), y[2])
  PROVE  Coherent(query, [ r \in Relationships(query) |-> EdgeRow(env, Number(r)) ])
<1> DEFINE E == [ r \in Relationships(query) |-> EdgeRow(env, Number(r)) ]
<1>1. \A y \in Ends(query) : /\ y[1] \in Relationships(query) /\ y[2] \in BOOLEAN
                             /\ E[y[1]] = EndRow(env, y)
  BY DEF Ends, EndRow
<1> HIDE DEF E
<1>2. ASSUME NEW x \in Ends(query), NEW y \in Ends(query), x # y,
             SameNode(query, EndOf(query, x[1], x[2]), EndOf(query, y[1], y[2]))
      PROVE  SamePeer(E[x[1]], x[2], E[y[1]], y[2])
  <2>1. PICK u, v : u = EndOf(query, x[1], x[2]) /\ v = EndOf(query, y[1], y[2])
    OBVIOUS
  <2>2. u \in Occurrences(query) /\ v \in Occurrences(query)
    BY <1>1, <2>1, AllPlaced, EndsOccur
  <2>3. PICK i \in 1..Len(slots) : i = Place(u)
    BY <2>2, AllPlaced
  <2>4. Place(v) = i
    <3>1. TInv /\ Live /\ Dispatched /\ Sound /\ u \in Gathered /\ v \in Gathered
      BY <2>2, AllPlaced DEF Checked, Sound
    <3> QED BY <1>2, <2>1, <2>3, <3>1, SamePlace
  <2>5. ~IsLone(i)
    BY <2>1, <2>3, Anchor
  <2>6. PICK a : AnchorEnd(i, a)
    BY <2>5, Anchor
  <2>7. x # a => SamePeer(EndRow(env, x), x[2], EndRow(env, a), a[2])
    BY <2>1, <2>3, <2>6, EndsAgree
  <2>8. y # a => SamePeer(EndRow(env, y), y[2], EndRow(env, a), a[2])
    BY <2>1, <2>4, <2>6, EndsAgree
  <2>9. SamePeer(EndRow(env, x), x[2], EndRow(env, y), y[2])
    <3>1. CASE x = a
      BY <1>2, <2>8, <3>1, PeersAgree
    <3>2. CASE y = a
      BY <1>2, <2>7, <3>2
    <3>3. CASE x # a /\ y # a
      BY <2>7, <2>8, <3>3, PeersAgree
    <3> QED BY <3>1, <3>2, <3>3
  <2> QED BY <1>1, <2>9
<1> QED BY <1>2 DEF Coherent, E

(* The node at an end has a row where its columns are used.                *)
LEMMA EndHasRow ==
  ASSUME Finished, engine = "general", ~OpensWithSelfLoop(query), NEW db, NEW env,
         Arranged(db, env), NEW y \in Ends(query), Used(query, EndOf(query, y[1], y[2]))
  PROVE  \E row \in db[TableOf(query, map, EndOf(query, y[1], y[2])).table] :
           SqlEq(row.id, EndRow(env, y)[IdCol(y[2])])
<1>1. PICK o : o = EndOf(query, y[1], y[2])
  OBVIOUS
<1>2. o \in Occurrences(query)
  BY <1>1, AllPlaced, EndsOccur DEF Ends
<1>3. PICK i \in 1..Len(slots) : i = Place(o)
  BY <1>2, AllPlaced
<1>4. slots[i].referenced /\ slots[i].label = TableOf(query, map, o).table
  <2>1. Sound
    BY DEF Sound
  <2>2. slots[i].referenced
    BY <1>1, <1>2, <1>3, <2>1, UsedAtPlace
  <2> QED BY <1>2, <1>3, <2>1, <2>2, SlotTable
<1>5. ~IsLone(i)
  BY <1>1, <1>3, Anchor
<1>6. PICK x : AnchorEnd(i, x)
  BY <1>5, Anchor
<1>7. /\ SlotRow(env, i) \in db[slots[i].label]
      /\ SqlEq(SlotRow(env, i).id, EndRow(env, x)[IdCol(x[2])])
  <2>1. /\ SlotRow(env, i) \in db[slots[i].label]
        /\ SqlEq(SlotRow(env, i).id, AnchorRow(env, i)[IdCol(slots[i].anchor_target)])
    BY <1>4, <1>5 DEF Arranged, Present
  <2> QED BY <1>6, <2>1 DEF AnchorEnd, AnchorRow, EndRow
<1>8. SqlEq(SlotRow(env, i).id, EndRow(env, y)[IdCol(y[2])])
  <2>1. CASE y = x
    BY <1>7, <2>1
  <2>2. CASE y # x
    <3>1. \A z \in Ends(query) : Tied(env, Number(z[1]), Place(EndOf(query, z[1], z[2])), z[2])
      <4>1. \A e \in 1..Len(edges) :
              Tied(env, e, edges[e].src, FALSE) /\ Tied(env, e, edges[e].tgt, TRUE)
        BY DEF Arranged
      <4> QED BY <4>1, TiesAre
    <3>2. SamePeer(EndRow(env, y), y[2], EndRow(env, x), x[2])
      BY <1>1, <1>3, <1>6, <2>2, <3>1, EndsAgree
    <3> QED BY <1>7, <3>2 DEF SamePeer, SqlEq
  <2> QED BY <2>1, <2>2
<1> QED BY <1>1, <1>4, <1>7, <1>8

(* So the edges are a match of the relationships,                          *)
LEMMA EdgesMatch ==
  ASSUME Finished, engine = "general", ~OpensWithSelfLoop(query), NEW db, NEW env,
         Arranged(db, env)
  PROVE  [ r \in Relationships(query) |-> EdgeRow(env, Number(r)) ] \in EdgeMatches(query, map, db)
<1> DEFINE E == [ r \in Relationships(query) |-> EdgeRow(env, Number(r)) ]
<1>1. \A r \in Relationships(query) : Number(r) \in 1..Len(edges) /\ EdgeOf(r) = Number(r)
  BY Numbers DEF EdgeOf
<1>2. E \in [ Relationships(query) -> db[EdgeTable] ]
  BY <1>1 DEF Arranged
<1>3. \A r \in Relationships(query) : EdgeFits(query, r, E[r])
  <2> TAKE r \in Relationships(query)
  <2>1. Typed(env, EdgeOf(r))
    BY <1>1 DEF Arranged
  <2>2. EdgeFits(query, r, EdgeRow(env, EdgeOf(r)))
    BY <2>1, TypedFits
  <2>3. E[r] = EdgeRow(env, EdgeOf(r))
    BY <1>1
  <2> QED BY <2>2, <2>3
<1>4. Coherent(query, E)
  <2>1. \A e \in 1..Len(edges) :
          Tied(env, e, edges[e].src, FALSE) /\ Tied(env, e, edges[e].tgt, TRUE)
    BY DEF Arranged
  <2> QED BY <2>1, TiesAre, RowsCohere
<1>5. \A y \in Ends(query) : E[y[1]] = EndRow(env, y)
  BY DEF Ends, EndRow
<1> HIDE DEF E
<1>6. ASSUME NEW y \in Ends(query)
      PROVE  EndFits(query, map, db, EndOf(query, y[1], y[2]), E[y[1]], y[2])
  <2>1. LET tn == TableOf(query, map, EndOf(query, y[1], y[2]))
        IN  tn.name # NoLabel => SqlEq(EndRow(env, y)[NameCol(y[2])], tn.name)
    <3>1. \A e \in 1..Len(edges) : Named(env, e)
      BY DEF Arranged
    <3> QED BY <3>1, NamesAre
  <2>2. Used(query, EndOf(query, y[1], y[2])) =>
          \E row \in db[TableOf(query, map, EndOf(query, y[1], y[2])).table] :
            SqlEq(row.id, EndRow(env, y)[IdCol(y[2])])
    BY EndHasRow
  <2> QED BY <1>5, <2>1, <2>2 DEF EndFits, NodeFits
<1> QED BY <1>2, <1>3, <1>4, <1>6 DEF EdgeMatches, E

(* and the rows of the lone nodes a match of those.                        *)
LEMMA LoneRowsMatch ==
  ASSUME Finished, engine = "general", NEW db \in Databases, NEW env, Arranged(db, env)
  PROVE  [ o \in LoneNodes(query) |-> SlotRow(env, Place(o)) ] \in LoneMatches(query, map, db)
<1> DEFINE L == [ o \in LoneNodes(query) |-> SlotRow(env, Place(o)) ]
<1>1. ASSUME NEW o \in LoneNodes(query)
      PROVE  /\ L[o] \in db[TableOf(query, map, o).table]
             /\ TableOf(query, map, o).table \in DOMAIN db
  <2>1. o \in Occurrences(query) /\ Lone(query, o)
    BY DEF LoneNodes
  <2>2. PICK i \in 1..Len(slots) : i = Place(o)
    BY <2>1, AllPlaced
  <2>3. IsLone(i)
    <3>1. TInv /\ Checked /\ Live /\ pc # "collect"
      BY AllPlaced DEF Finished
    <3>2. slots[i].anchor_edge = 0
      BY <2>1, <2>2, <3>1, LoneAnchor
    <3> QED BY <3>2 DEF IsLone
  <2>4. SlotRow(env, i) \in db[slots[i].label] /\ slots[i].label \in Catalog
    BY <2>3, PresentTable DEF Arranged, Present
  <2>5. slots[i].label = TableOf(query, map, o).table
    BY <2>1, <2>2, SlotTable DEF Sound
  <2> QED BY <2>2, <2>4, <2>5, DatabasesAssumption
<1>2. L = [ o \in LoneNodes(query) |-> L[o] ]
  OBVIOUS
<1> HIDE DEF L
<1>3. L \in [ LoneNodes(query) -> UNION { db[t] : t \in DOMAIN db } ]
  BY <1>1, <1>2
<1> QED BY <1>1, <1>3 DEF LoneMatches, L

(* The answer of a row, by the places of relationships and nodes.          *)
LEMMA GeneralAnswerIs ==
  ASSUME Finished, engine = "general", NEW env
  PROVE  Answer(env) = [ edges |-> [ r \in Relationships(query) |-> EdgeRow(env, Number(r)) ],
                         lone  |-> [ o \in LoneNodes(query) |-> SlotRow(env, Place(o)) ] ]
  BY DEF Answer, GeneralAnswer, EdgeRow, SlotRow, Place

(* The answer of every row is a match.                                     *)
LEMMA GeneralSound ==
  ASSUME Finished, engine = "general", ~OpensWithSelfLoop(query), NEW db \in Databases,
         NEW env, Arranged(db, env)
  PROVE  Answer(env) \in Matches(query, map, db)
  BY GeneralAnswerIs, EdgesMatch, LoneRowsMatch DEF Matches

-----------------------------------------------------------------------------
(***************************************************************************)
(* Every match is a row, and only one.                                     *)
(***************************************************************************)
(* A lone node has a first occurrence.                                     *)
LEMMA FirstOccurrence ==
  ASSUME NEW q \in Queries, NEW o \in Occurrences(q), Lone(q, o)
  PROVE  \E x \in LoneNodes(q) : SameNode(q, o, x)
<1> DEFINE S == { y \in Occurrences(q) : SameNode(q, o, y) }
<1>1. Len(q.paths) \in Nat /\ \A p \in 1..Len(q.paths) : Len(q.paths[p].segs) \in Nat
  BY QueriesAssumption
<1>2. \A y \in S : \E p, s \in Nat : /\ y = << p, s >>
                                     /\ p \in 1..Len(q.paths) /\ s \in 0..Len(q.paths[p].segs)
  BY OccurrencesArePairs
<1>3. o \in S
  BY DEF SameNode
<1>4. \A x \in S : Lone(q, x) /\ \A y \in Occurrences(q) : SameNode(q, x, y) => y \in S
  <2>1. \A x, y : SameNode(q, o, x) /\ SameNode(q, x, y) => SameNode(q, o, y)
    BY DEF SameNode
  <2> QED BY <2>1 DEF Lone
<1>5. \A x \in S : x \in Occurrences(q) /\ SameNode(q, o, x)
  OBVIOUS
<1> HIDE DEF S
<1>6. PICK p \in 1..Len(q.paths) : /\ \E s \in Nat : << p, s >> \in S
                                   /\ \A u \in 1..Len(q.paths) :
                                        (\E s \in Nat : << u, s >> \in S) => p <= u
  <2> DEFINE P == { u \in 1..Len(q.paths) : \E s \in Nat : << u, s >> \in S }
  <2>1. P # {} /\ P \in SUBSET (1..Len(q.paths))
    BY <1>2, <1>3
  <2> HIDE DEF P
  <2>2. \E k \in P : \A l \in P : k <= l
    BY <1>1, <2>1, LeastIndex
  <2> QED BY <2>2 DEF P
<1>7. PICK s \in Nat : << p, s >> \in S /\ \A v \in Nat : << p, v >> \in S => s <= v
  <2> DEFINE n == Len(q.paths[p].segs)
             T == { t \in 1..(n + 1) : << p, t - 1 >> \in S }
  <2>1. n \in Nat /\ n + 1 \in Nat
    BY <1>1
  <2>2. \A v \in Nat : << p, v >> \in S => v \in 0..n
    BY <1>2
  <2> HIDE DEF n
  <2>3. \A v \in Nat : << p, v >> \in S => v + 1 \in T
    <3> SUFFICES ASSUME NEW v \in Nat, << p, v >> \in S PROVE v + 1 \in T
      OBVIOUS
    <3>1. v + 1 \in 1..(n + 1) /\ (v + 1) - 1 = v
      BY <2>1, <2>2
    <3> QED BY <3>1
  <2>4. T # {} /\ T \in SUBSET (1..(n + 1))
    BY <1>6, <2>3
  <2>5. \A t \in T : t - 1 \in Nat /\ << p, t - 1 >> \in S /\ t \in Nat
    BY <2>1
  <2> HIDE DEF T
  <2>6. PICK k \in T : \A l \in T : k <= l
    BY <2>1, <2>4, LeastIndex
  <2>7. \A v \in Nat : << p, v >> \in S => k - 1 <= v
    <3> SUFFICES ASSUME NEW v \in Nat, << p, v >> \in S PROVE k - 1 <= v
      OBVIOUS
    <3>1. k <= v + 1 /\ k \in Nat
      BY <2>3, <2>5, <2>6
    <3> QED BY <3>1
  <2> QED BY <2>5, <2>6, <2>7
<1> DEFINE x == << p, s >>
<1>8. ASSUME NEW y \in S PROVE x = y \/ Before(x, y)
  <2>1. PICK u, v \in Nat : y = << u, v >> /\ u \in 1..Len(q.paths)
    BY <1>2
  <2>2. p <= u
    BY <1>6, <1>8, <2>1
  <2>3. u = p => s <= v
    BY <1>7, <1>8, <2>1
  <2>4. p \in Nat
    BY <1>1
  <2>5. (p = u /\ s = v) \/ p < u \/ (p = u /\ s < v)
    BY <2>1, <2>2, <2>3, <2>4
  <2> QED BY <2>1, <2>5 DEF Before
<1>9. x \in S
  BY <1>7
<1> HIDE DEF x
<1>10. x \in LoneNodes(q)
  BY <1>4, <1>5, <1>8, <1>9 DEF LoneNodes
<1> QED BY <1>5, <1>9, <1>10

(* Lone slots and the first occurrences of lone nodes are one to one.      *)
LEMMA LoneSlots ==
  ASSUME Finished, engine = "general"
  PROVE  /\ \A o \in LoneNodes(query) :
              o \in Occurrences(query) /\ Place(o) \in 1..Len(slots) /\ IsLone(Place(o))
         /\ \A o, x \in LoneNodes(query) : Place(o) = Place(x) => o = x
         /\ \A i \in 1..Len(slots) :
              IsLone(i) => \E o \in LoneNodes(query) : Place(o) = i
<1>1. /\ TInv /\ Checked /\ Live /\ pc # "collect" /\ Sound /\ Dispatched
      /\ query \in Queries /\ Gathered = Occurrences(query)
      /\ \A o \in Occurrences(query) : Place(o) \in 1..Len(slots)
  BY AllPlaced DEF Finished, Sound, Checked
<1>2. \A o \in LoneNodes(query) : o \in Occurrences(query) /\ Lone(query, o)
  BY DEF LoneNodes
<1>3. \A o \in Occurrences(query) : IsLone(Place(o)) <=> Lone(query, o)
  BY <1>1, LoneAnchor DEF IsLone
<1>4. \A o, x \in Occurrences(query) : Place(o) = Place(x) <=> SameNode(query, o, x)
  BY <1>1, SamePlace
<1>5. ASSUME NEW o \in LoneNodes(query), NEW x \in LoneNodes(query), Place(o) = Place(x)
      PROVE  o = x
  <2>1. SameNode(query, o, x) /\ SameNode(query, x, o)
    BY <1>2, <1>4, <1>5
  <2>2. (o = x \/ Before(o, x)) /\ (x = o \/ Before(x, o))
    BY <1>2, <2>1 DEF LoneNodes
  <2> QED BY <1>1, <1>2, <2>2, BeforeOrders
<1>6. ASSUME NEW i \in 1..Len(slots), IsLone(i) PROVE \E o \in LoneNodes(query) : Place(o) = i
  <2>1. PICK o \in Occurrences(query) : Place(o) = i
    BY AllPlaced
  <2>2. Lone(query, o)
    BY <1>3, <1>6, <2>1
  <2>3. PICK x \in LoneNodes(query) : SameNode(query, o, x)
    BY <1>1, <2>2, FirstOccurrence
  <2> QED BY <1>2, <1>4, <2>1, <2>3
<1> QED BY <1>1, <1>2, <1>3, <1>5, <1>6

(* A match has a row for each node marked.                                 *)
LEMMA MarkedHasRow ==
  ASSUME Finished, engine = "general", NEW db, NEW E \in EdgeMatches(query, map, db),
         NEW i \in 1..Len(slots), ~IsLone(i), slots[i].referenced, NEW x, AnchorEnd(i, x)
  PROVE  \E row \in db[slots[i].label] : SqlEq(row.id, E[x[1]][IdCol(x[2])])
<1>1. PICK o : o = EndOf(query, x[1], x[2])
  OBVIOUS
<1>2. x \in Ends(query) /\ o \in Occurrences(query) /\ Place(o) = i
  BY <1>1, AllPlaced, EndsOccur DEF AnchorEnd, Ends
<1>3. Used(query, o) /\ slots[i].label = TableOf(query, map, o).table
  BY <1>2, MarkedUsed, SlotTable DEF Sound
<1>4. EndFits(query, map, db, o, E[x[1]], x[2])
  BY <1>1, <1>2 DEF EdgeMatches
<1> QED BY <1>3, <1>4 DEF EndFits, NodeFits

(* A row for given edges and lone nodes.                                   *)
Fills(env, E, L) ==
  /\ \A r \in Relationships(query) : EdgeRow(env, Number(r)) = E[r]
  /\ \A o \in LoneNodes(query) : SlotRow(env, Place(o)) = L[o]

(* Edges and rows that match can be arranged.                              *)
LEMMA MatchHasRow ==
  ASSUME Finished, engine = "general", NEW db, NEW E \in EdgeMatches(query, map, db),
         NEW L \in LoneMatches(query, map, db)
  PROVE  \E env : /\ env = [ a \in Declared(from) |-> env[a] ]
                  /\ Arranged(db, env) /\ Fills(env, E, L)
<1> DEFINE R == [ e \in 1..Len(edges) |-> E[CHOOSE r \in Relationships(query) : Number(r) = e] ]
           Joins(i, row) ==
             /\ row \in db[slots[i].label]
             /\ SqlEq(row.id, R[slots[i].anchor_edge][IdCol(slots[i].anchor_target)])
           S == [ i \in 1..Len(slots) |->
                    IF IsLone(i) THEN L[CHOOSE o \in LoneNodes(query) : Place(o) = i]
                    ELSE CHOOSE row : Joins(i, row) ]
<1>1. \A r \in Relationships(query) : Number(r) \in 1..Len(edges) /\ R[Number(r)] = E[r]
  <2> SUFFICES ASSUME NEW r \in Relationships(query)
               PROVE  Number(r) \in 1..Len(edges) /\ R[Number(r)] = E[r]
    OBVIOUS
  <2>1. Number(r) \in 1..Len(edges)
    BY Numbers
  <2>2. \A s \in Relationships(query) : Number(s) = Number(r) => s = r
    BY Numbers
  <2>3. (CHOOSE s \in Relationships(query) : Number(s) = Number(r)) = r
    BY <2>2
  <2> QED BY <2>1, <2>3
<1> HIDE DEF R
<1>2. \A o \in LoneNodes(query) : S[Place(o)] = L[o]
  <2> SUFFICES ASSUME NEW o \in LoneNodes(query) PROVE S[Place(o)] = L[o]
    OBVIOUS
  <2>1. Place(o) \in 1..Len(slots) /\ IsLone(Place(o))
    BY LoneSlots
  <2>2. \A x \in LoneNodes(query) : Place(x) = Place(o) => x = o
    BY LoneSlots
  <2>3. (CHOOSE x \in LoneNodes(query) : Place(x) = Place(o)) = o
    BY <2>2
  <2> QED BY <2>1, <2>3
<1>3. ASSUME NEW i \in 1..Len(slots), ~IsLone(i), slots[i].referenced PROVE Joins(i, S[i])
  <2>1. PICK x : AnchorEnd(i, x)
    BY <1>3, Anchor
  <2>2. PICK row \in db[slots[i].label] : SqlEq(row.id, E[x[1]][IdCol(x[2])])
    BY <1>3, <2>1, MarkedHasRow
  <2>3. R[slots[i].anchor_edge] = E[x[1]] /\ slots[i].anchor_target = x[2]
    BY <1>1, <2>1 DEF AnchorEnd, Ends
  <2>4. Joins(i, row)
    BY <2>2, <2>3
  <2>5. S[i] = CHOOSE y : Joins(i, y)
    BY <1>3
  <2> HIDE DEF Joins, S
  <2> QED BY <2>4, <2>5
<1> HIDE DEF S
<1>4. PICK env : Spread(env, R, S)
  BY GeneralDeclares, SpreadExists
<1>5. /\ \A e \in 1..Len(edges) : EdgeRow(env, e) = R[e]
      /\ \A i \in 1..Len(slots) : Present(i) => SlotRow(env, i) = S[i]
      /\ env = [ a \in Declared(from) |-> env[a] ]
  BY <1>4 DEF Spread, EdgeRow, SlotRow
<1>6. Fills(env, E, L)
  <2>1. \A o \in LoneNodes(query) : SlotRow(env, Place(o)) = L[o]
    BY <1>2, <1>5, LoneSlots DEF Present
  <2> QED BY <1>1, <1>5, <2>1 DEF Fills
<1>7. \A y \in Ends(query) : /\ y[1] \in Relationships(query) /\ y[2] \in BOOLEAN
                             /\ EndRow(env, y) = E[y[1]]
  BY <1>1, <1>5 DEF Ends, EndRow
<1>8. \A e \in 1..Len(edges) : EdgeRow(env, e) \in db[EdgeTable] /\ Typed(env, e)
  <2> SUFFICES ASSUME NEW e \in 1..Len(edges)
               PROVE  EdgeRow(env, e) \in db[EdgeTable] /\ Typed(env, e)
    OBVIOUS
  <2>1. PICK r \in Relationships(query) : Number(r) = e
    BY Numbers
  <2>2. EdgeRow(env, e) = E[r] /\ EdgeOf(r) = e
    BY <1>1, <1>5, <2>1 DEF EdgeOf
  <2>3. E[r] \in db[EdgeTable] /\ EdgeFits(query, r, E[r])
    BY DEF EdgeMatches
  <2> QED BY <2>2, <2>3, TypedFits
<1>9. \A e \in 1..Len(edges) : Named(env, e)
  <2>1. \A y \in Ends(query) :
          LET tn == TableOf(query, map, EndOf(query, y[1], y[2]))
          IN  tn.name # NoLabel => SqlEq(EndRow(env, y)[NameCol(y[2])], tn.name)
    <3> TAKE y \in Ends(query)
    <3>1. EndFits(query, map, db, EndOf(query, y[1], y[2]), E[y[1]], y[2])
      BY DEF EdgeMatches
    <3> QED BY <1>7, <3>1 DEF EndFits, NodeFits
  <2> QED BY <2>1, NamesAre
<1>10. ASSUME NEW y \in Ends(query)
       PROVE  Tied(env, Number(y[1]), Place(EndOf(query, y[1], y[2])), y[2])
  <2>1. PICK v : v = EndOf(query, y[1], y[2])
    OBVIOUS
  <2>2. v \in Occurrences(query)
    BY <1>7, <2>1, AllPlaced, EndsOccur
  <2>3. PICK i \in 1..Len(slots) : i = Place(v)
    BY <2>2, AllPlaced
  <2>4. ~IsLone(i)
    BY <2>1, <2>3, Anchor
  <2>5. PICK x : AnchorEnd(i, x)
    BY <2>4, Anchor
  <2>6. PICK u : u = EndOf(query, x[1], x[2])
    OBVIOUS
  <2>7. x \in Ends(query) /\ u \in Occurrences(query) /\ Place(u) = i
    BY <1>7, <2>5, <2>6, AllPlaced, EndsOccur DEF AnchorEnd
  <2>8. SameNode(query, v, u)
    <3>1. TInv /\ Live /\ Dispatched /\ Sound /\ u \in Gathered /\ v \in Gathered
      BY <2>2, <2>7, AllPlaced DEF Checked, Sound
    <3> QED BY <2>3, <2>7, <3>1, SamePlace
  <2>9. ASSUME y # x PROVE SamePeer(E[y[1]], y[2], E[x[1]], x[2])
    <3>1. Coherent(query, E)
      BY DEF EdgeMatches
    <3> QED BY <2>1, <2>6, <2>7, <2>8, <2>9, <3>1 DEF Coherent
  <2>10. slots[i].anchor_edge = Number(x[1]) /\ slots[i].anchor_target = x[2]
    BY <2>5 DEF AnchorEnd
  <2>11. /\ EdgeRow(env, Number(y[1])) = E[y[1]] /\ AnchorRow(env, i) = E[x[1]]
    BY <1>7, <2>7, <2>10 DEF EndRow, AnchorRow
  <2> QED BY <2>1, <2>3, <2>9, <2>10, <2>11 DEF Tied
<1>11. \A e \in 1..Len(edges) :
         Tied(env, e, edges[e].src, FALSE) /\ Tied(env, e, edges[e].tgt, TRUE)
  BY <1>10, TiesAre
<1>12. ASSUME NEW i \in 1..Len(slots), Present(i)
       PROVE  /\ SlotRow(env, i) \in db[slots[i].label]
              /\ ~IsLone(i) => SqlEq(SlotRow(env, i).id,
                                     AnchorRow(env, i)[IdCol(slots[i].anchor_target)])
  <2>1. CASE IsLone(i)
    <3>1. PICK o \in LoneNodes(query) : Place(o) = i
      BY <2>1, LoneSlots
    <3>2. SlotRow(env, i) = L[o]
      BY <1>6, <3>1 DEF Fills
    <3>3. L[o] \in db[TableOf(query, map, o).table]
      BY DEF LoneMatches
    <3>4. slots[i].label = TableOf(query, map, o).table
      BY <3>1, LoneSlots, SlotTable DEF Sound
    <3> QED BY <2>1, <3>2, <3>3, <3>4
  <2>2. CASE ~IsLone(i)
    <3>1. Joins(i, S[i])
      BY <1>3, <1>12, <2>2 DEF Present
    <3>2. slots[i].anchor_edge \in 1..Len(edges)
      <4>1. slots[i].anchor_edge \in 0..Len(edges) /\ slots[i].anchor_edge # 0
        BY <2>2, FinishedIs DEF IsLone
      <4>2. Len(edges) \in Nat
        BY FinishedIs
      <4> QED BY <4>1, <4>2
    <3>3. SlotRow(env, i) = S[i] /\ AnchorRow(env, i) = R[slots[i].anchor_edge]
      BY <1>5, <1>12, <3>2 DEF AnchorRow
    <3> QED BY <3>1, <3>3
  <2> QED BY <2>1, <2>2
<1>13. Arranged(db, env)
  <2>1. \A i \in 1..Len(slots) :
          /\ Present(i) => SlotRow(env, i) \in db[slots[i].label]
          /\ ~IsLone(i) /\ slots[i].referenced =>
               SqlEq(SlotRow(env, i).id, AnchorRow(env, i)[IdCol(slots[i].anchor_target)])
    BY <1>12 DEF Present
  <2> QED BY <1>8, <1>9, <1>11, <2>1 DEF Arranged
<1> QED BY <1>5, <1>6, <1>13

(* Every match is the answer of a row.                                     *)
LEMMA GeneralComplete ==
  ASSUME Finished, engine = "general", NEW db, NEW m \in Matches(query, map, db)
  PROVE  m \in Answers(db)
<1>1. PICK E \in EdgeMatches(query, map, db), L \in LoneMatches(query, map, db) :
        m = [ edges |-> E, lone |-> L ]
  BY DEF Matches
<1>2. PICK env : /\ env = [ a \in Declared(from) |-> env[a] ]
                 /\ Arranged(db, env) /\ Fills(env, E, L)
  BY MatchHasRow
<1>3. E = [ r \in Relationships(query) |-> E[r] ] /\ L = [ o \in LoneNodes(query) |-> L[o] ]
  BY DEF EdgeMatches, LoneMatches
<1>4. Answer(env) = m
  <2>1. /\ [ r \in Relationships(query) |-> EdgeRow(env, Number(r)) ] = E
        /\ [ o \in LoneNodes(query) |-> SlotRow(env, Place(o)) ] = L
    BY <1>2, <1>3 DEF Fills
  <2> QED BY <1>1, <2>1, GeneralAnswerIs
<1>5. env \in ResultRows(db)
  BY <1>2, GeneralRows
<1> QED BY <1>4, <1>5 DEF Answers

(* No match has two rows: rows of a table with the same id are one.        *)
LEMMA GeneralOnce ==
  ASSUME Finished, engine = "general", NEW db \in Databases,
         NEW x \in ResultRows(db), NEW y \in ResultRows(db), Answer(x) = Answer(y)
  PROVE  x = y
<1>1. /\ x = [ a \in Declared(from) |-> x[a] ] /\ Arranged(db, x)
      /\ y = [ a \in Declared(from) |-> y[a] ] /\ Arranged(db, y)
  BY GeneralRows
<1>2. /\ \A r \in Relationships(query) : EdgeRow(x, Number(r)) = EdgeRow(y, Number(r))
      /\ \A o \in LoneNodes(query) : SlotRow(x, Place(o)) = SlotRow(y, Place(o))
  <2> DEFINE F(z) == [ r \in Relationships(query) |-> EdgeRow(z, Number(r)) ]
             G(z) == [ o \in LoneNodes(query) |-> SlotRow(z, Place(o)) ]
  <2>1. \A z : Answer(z) = [ edges |-> F(z), lone |-> G(z) ]
    BY GeneralAnswerIs
  <2>2. /\ \A z : \A r \in Relationships(query) : F(z)[r] = EdgeRow(z, Number(r))
        /\ \A z : \A o \in LoneNodes(query) : G(z)[o] = SlotRow(z, Place(o))
    OBVIOUS
  <2> HIDE DEF F, G
  <2>3. \A z : Answer(z).edges = F(z) /\ Answer(z).lone = G(z)
    BY <2>1
  <2>4. F(x) = F(y) /\ G(x) = G(y)
    BY <2>3
  <2> QED BY <2>2, <2>4
<1>3. \A e \in 1..Len(edges) : EdgeRow(x, e) = EdgeRow(y, e)
  BY <1>2, Numbers
<1>4. ASSUME NEW i \in 1..Len(slots), Present(i) PROVE SlotRow(x, i) = SlotRow(y, i)
  <2>1. CASE IsLone(i)
    BY <1>2, <2>1, LoneSlots
  <2>2. CASE ~IsLone(i)
    <3>1. slots[i].anchor_edge \in 1..Len(edges)
      <4>1. slots[i].anchor_edge \in 0..Len(edges) /\ slots[i].anchor_edge # 0
        BY <2>2, FinishedIs DEF IsLone
      <4>2. Len(edges) \in Nat
        BY FinishedIs
      <4> QED BY <4>1, <4>2
    <3>2. AnchorRow(x, i) = AnchorRow(y, i)
      BY <1>3, <3>1 DEF AnchorRow
    <3>3. slots[i].referenced
      BY <1>4, <2>2 DEF Present
    <3>4. /\ SlotRow(x, i) \in db[slots[i].label] /\ SlotRow(y, i) \in db[slots[i].label]
          /\ SqlEq(SlotRow(x, i).id, AnchorRow(x, i)[IdCol(slots[i].anchor_target)])
          /\ SqlEq(SlotRow(y, i).id, AnchorRow(y, i)[IdCol(slots[i].anchor_target)])
      BY <1>1, <1>4, <2>2, <3>3 DEF Arranged
    <3>5. SqlEq(SlotRow(x, i).id, SlotRow(y, i).id)
      BY <3>2, <3>4 DEF SqlEq
    <3>6. slots[i].label \in Catalog
      BY <1>4, PresentTable
    <3> QED BY <3>4, <3>5, <3>6, DatabasesAssumption
  <2> QED BY <2>1, <2>2
<1> QED BY <1>1, <1>3, <1>4, GeneralDeclares, SpreadOnce DEF EdgeRow, SlotRow

(* The general engine's statement answers the query.                       *)
LEMMA GeneralCorrect ==
  ASSUME Finished, engine = "general", NEW db \in Databases
  PROVE  /\ Meant(db) \subseteq Answers(db)
         /\ ~OpensWithSelfLoop(query) => Correct(db)
<1>1. Meant(db) = Matches(query, map, db)
  BY DEF Meant
<1>2. Matches(query, map, db) \subseteq Answers(db)
  BY GeneralComplete
<1>3. ASSUME ~OpensWithSelfLoop(query) PROVE Answers(db) \subseteq Matches(query, map, db)
  <2>1. ASSUME NEW env \in ResultRows(db) PROVE Answer(env) \in Matches(query, map, db)
    BY <1>3, GeneralRows, GeneralSound
  <2> QED BY <2>1 DEF Answers
<1>4. \A x, y \in ResultRows(db) : Answer(x) = Answer(y) => x = y
  BY GeneralOnce
<1> QED BY <1>1, <1>2, <1>3, <1>4 DEF Correct

-----------------------------------------------------------------------------
(***************************************************************************)
(* A single hop: its rows, and the ids of the nodes used.                  *)
(***************************************************************************)
(* A hop has an edge and a slot for each of its two nodes.                 *)
LEMMA HopPlaces ==
  ASSUME Finished, engine # "general"
  PROVE  /\ Occurrences(query) = { Left, Right } /\ TheHop \in Relationships(query)
         /\ Place(Left) = 1 /\ Place(Right) = 2 /\ EdgeOf(TheHop) = 1
         /\ \A o1, o2 \in Occurrences(query) : Place(o1) = Place(o2) => o1 = o2
         /\ Len(slots) = 2 /\ Len(edges) = 1
         /\ \A i : ~IsLone(i) /\ (Present(i) <=> slots[i].referenced)
<1>1. query \in Queries /\ SingleHop /\ Len(slots) = 2 /\ Len(edges) = 1
  BY FinishedIs, HopSlots DEF Finished, Checked
<1>2. Occurrences(query) = { Left, Right } /\ TheHop \in Relationships(query)
  BY <1>1, HopPattern
<1>3. Place(Left) = 1 /\ Place(Right) = 2 /\ EdgeOf(TheHop) = 1
  BY DEF Place, EdgeOf, Left, Right
<1>4. \A i : ~IsLone(i) /\ (Present(i) <=> slots[i].referenced)
  BY DEF Present, IsLone
<1> QED BY <1>1, <1>2, <1>3, <1>4

(* Joining the tables filed in order joins each of them.                   *)
LEMMA FilingFits ==
  ASSUME NEW S \in SUBSET (1..2), NEW item, NEW db, NEW env
  PROVE  /\ List(Filing(S, item))
         /\ (\A k \in 1..Len(Filing(S, item)) : ItemFits(db, env, Filing(S, item)[k])) <=>
              \A k \in S : ItemFits(db, env, item[k])
<1> DEFINE s == InOrder(S)
           f == Filing(S, item)
<1>1. /\ Len(s) \in Nat
      /\ \A k \in 1..Len(s) : s[k] \in S
      /\ \A i \in S : \E k \in 1..Len(s) : s[k] = i
  <2>1. 2 \in Nat
    OBVIOUS
  <2> QED BY <2>1, InOrderIs
<1>2. f = [ k \in 1..Len(s) |-> item[s[k]] ]
  BY DEF Filing
<1> HIDE DEF s, f
<1>3. \A k \in 1..Len(s) : f[k] = item[s[k]]
  BY <1>2
<1>4. List(f) /\ Len(f) = Len(s)
  <2>1. f = [ k \in 1..Len(s) |-> f[k] ]
    BY <1>2
  <2> QED BY <1>1, <2>1, Enumerated
<1>5. (\A k \in 1..Len(f) : ItemFits(db, env, f[k])) <=> \A k \in S : ItemFits(db, env, item[k])
  BY <1>1, <1>3, <1>4
<1> QED BY <1>4, <1>5 DEF f

(* FROM lists the hop's edge and the tables filed.                         *)
HopFits(db, env, f, table, S, item) ==
  (\A k \in 1..Len(f) : ItemFits(db, env, f[k])) <=>
    EdgeRow(env, 1) \in db[table] /\ \A k \in S : ItemFits(db, env, item[k])

(* It is joined when each of these is.                                     *)
LEMMA HopItemsFit ==
  ASSUME NEW S \in SUBSET (1..2), NEW item, NEW db, NEW env, NEW table,
         NEW f, f = << FromItem(table, edges[1].alias, {}) >> \o Filing(S, item)
  PROVE  HopFits(db, env, f, table, S, item)
<1> DEFINE first == FromItem(table, edges[1].alias, {})
           a == << first >>
           b == Filing(S, item)
<1>1. List(a) /\ Len(a) = 1 /\ a[1] = first
  <2>1. a = [ k \in 1..1 |-> a[k] ]
    OBVIOUS
  <2>2. List(a) /\ Len(a) = 1
    BY <2>1, Enumerated
  <2> QED BY <2>2
<1>2. first.table = table /\ first.alias = edges[1].alias /\ first.on = {}
  BY ItemIs
<1> HIDE DEF first
<1>3. ItemFits(db, env, first) <=> EdgeRow(env, 1) \in db[table]
  BY <1>2, HoldsOf DEF ItemFits, EdgeRow
<1> HIDE DEF a
<1>4. (\A k \in 1..Len(a) : ItemFits(db, env, a[k])) <=> ItemFits(db, env, first)
  <2>1. \A k : k \in 1..1 <=> k = 1
    OBVIOUS
  <2> QED BY ONLY <1>1, <2>1
<1>5. /\ List(b)
      /\ (\A k \in 1..Len(b) : ItemFits(db, env, b[k])) <=> \A k \in S : ItemFits(db, env, item[k])
  BY FilingFits
<1>6. f = a \o b
  BY DEF a, first
<1> HIDE DEF b
<1>7. (\A k \in 1..Len(a \o b) : ItemFits(db, env, (a \o b)[k])) <=>
        /\ \A k \in 1..Len(a) : ItemFits(db, env, a[k])
        /\ \A k \in 1..Len(b) : ItemFits(db, env, b[k])
  BY <1>1, <1>5, BothFit
<1> QED BY <1>3, <1>4, <1>5, <1>6, <1>7 DEF HopFits

(* What it declares.                                                       *)
LEMMA HopDeclares ==
  ASSUME Finished, engine # "general", NEW S \in SUBSET (1..2), NEW item, NEW place, NEW table,
         NEW f, f = << FromItem(table, edges[1].alias, {}) >> \o Filing(S, item), from = f,
         \A k \in 1..2 : place[k] \in 1..2 /\ item[k].alias = slots[place[k]].alias,
         \A k \in 1..2 : k \in S <=> slots[place[k]].referenced,
         edges[1].alias \in Declared(f),
         \A i \in 1..2 : slots[i].referenced => slots[i].alias \in Declared(f)
  PROVE  DeclaresAll
<1> DEFINE first == FromItem(table, edges[1].alias, {})
           a == << first >>
           b == Filing(S, item)
<1>1. List(a) /\ Len(a) = 1 /\ a[1] = first /\ first.alias = edges[1].alias
  <2>1. a = [ k \in 1..1 |-> a[k] ]
    OBVIOUS
  <2>2. List(a) /\ Len(a) = 1
    BY <2>1, Enumerated
  <2> QED BY <2>2, ItemIs
<1>2. f = a \o b
  OBVIOUS
<1>3. /\ List(b) /\ Len(b) = Len(InOrder(S))
      /\ \A k \in 1..Len(b) : \E i \in S : b[k] = item[i]
  <2>1. /\ Len(InOrder(S)) \in Nat /\ \A k \in 1..Len(InOrder(S)) : InOrder(S)[k] \in S
    <3>1. 2 \in Nat
      OBVIOUS
    <3> QED BY <3>1, InOrderIs
  <2>2. b = [ k \in 1..Len(InOrder(S)) |-> item[InOrder(S)[k]] ]
    BY DEF Filing
  <2> HIDE DEF b
  <2>3. b = [ k \in 1..Len(InOrder(S)) |-> b[k] ]
    BY <2>2
  <2>4. List(b) /\ Len(b) = Len(InOrder(S))
    BY <2>1, <2>3, Enumerated
  <2> QED BY <2>1, <2>2, <2>4
<1> HIDE DEF first, a, b
<1>4. /\ Len(b) \in Nat /\ Len(f) = 1 + Len(b)
      /\ \A i \in 1..Len(a) : f[i] = a[i]
      /\ \A i \in 1..Len(b) : f[1 + i] = b[i]
  <2> DEFINE c == a \o b
  <2>1. /\ Len(b) \in Nat /\ Len(c) = Len(a) + Len(b)
        /\ \A i \in 1..Len(a) : c[i] = a[i]
        /\ \A i \in 1..Len(b) : c[Len(a) + i] = b[i]
    <3>1. List(a) /\ List(b)
      BY <1>1, <1>3
    <3> QED BY ONLY <3>1, Concatenated
  <2>2. f = c
    BY <1>2
  <2>3. Len(a) = 1
    BY <1>1
  <2> HIDE DEF c
  <2> QED BY ONLY <2>1, <2>2, <2>3
<1>5. ASSUME NEW x \in Declared(f)
      PROVE  x = edges[1].alias \/ \E i \in 1..2 : slots[i].referenced /\ slots[i].alias = x
  <2>1. PICK k \in 1..Len(f) : x = f[k].alias
    BY DEF Declared, Declares
  <2>2. k = 1 \/ \E i \in 1..Len(b) : k = 1 + i
    <3>1. CASE k # 1
      <4>1. k - 1 \in 1..Len(b) /\ k = 1 + (k - 1)
        BY ONLY <1>4, <3>1, k \in 1..Len(f)
      <4> QED BY <4>1
    <3> QED BY <3>1
  <2>3. CASE k = 1
    BY <1>1, <1>4, <2>1, <2>3
  <2>4. CASE \E i \in 1..Len(b) : k = 1 + i
    <3>1. PICK i \in S : f[k] = item[i]
      BY <1>3, <1>4, <2>4
    <3> QED BY <2>1, <3>1
  <2> QED BY <2>2, <2>3, <2>4
<1>6. Len(slots) = 2 /\ Len(edges) = 1 /\ \A i : Present(i) <=> slots[i].referenced
  BY HopPlaces
<1> DEFINE E == { edges[e].alias : e \in 1..Len(edges) }
           T == { slots[i].alias : i \in { k \in 1..Len(slots) : Present(k) } }
<1>7. E = { edges[1].alias }
  <2>1. \A e : e \in 1..1 <=> e = 1
    OBVIOUS
  <2> QED BY <1>6, <2>1
<1>8. \A x : x \in T <=> \E i \in 1..2 : slots[i].referenced /\ slots[i].alias = x
  BY <1>6
<1> HIDE DEF E, T
<1>9. Declared(from) = E \cup T
  BY <1>5, <1>7, <1>8
<1> QED BY <1>9 DEF DeclaresAll, E, T

(* So it is with the lists of both engines.                                *)
LEMMA HopListJoined ==
  ASSUME Finished, engine # "general", NEW table \in { EdgeTable, WalkTable },
         NEW b, NEW place, NEW item, HopList(b, place, item),
         from = << FromItem(table, edges[1].alias, {}) >> \o b, NEW db, NEW env
  PROVE  /\ List(from) /\ Distinct(from) /\ Ordered(from)
         /\ DeclaresAll
         /\ HopFits(db, env, from, table, MarkedAt(place), item)
<1> DEFINE S == MarkedAt(place)
<1>1. S \in SUBSET (1..2) /\ \A k \in 1..2 : k \in S <=> slots[place[k]].referenced
  BY DEF MarkedAt
<1>2. /\ b = Filing(S, item)
      /\ \A k \in 1..2 : place[k] \in 1..2 /\ item[k].alias = slots[place[k]].alias
  BY DEF HopList
<1>3. /\ List(from) /\ Distinct(from) /\ Ordered(from)
      /\ edges[1].alias \in Declared(from)
      /\ \A i \in 1..2 : slots[i].referenced => slots[i].alias \in Declared(from)
  BY HopListFrom
<1> HIDE DEF S
<1>4. from = << FromItem(table, edges[1].alias, {}) >> \o Filing(S, item)
  BY <1>2
<1>5. DeclaresAll
  BY <1>1, <1>2, <1>3, <1>4, HopDeclares
<1>6. HopFits(db, env, from, table, S, item)
  BY <1>1, <1>4, HopItemsFit
<1> QED BY <1>3, <1>5, <1>6 DEF S

(* The side of the edge a slot is read on.                                 *)
SideFits(env, i, b) ==
  /\ slots[i].referenced => SqlEq(SlotRow(env, i).id, EdgeRow(env, 1)[IdCol(b)])
  /\ slots[i].name # NoLabel => SqlEq(EdgeRow(env, 1)[NameCol(b)], slots[i].name)

Oriented(env, flip) ==
  \A o \in Occurrences(query) : SideFits(env, Place(o), SideOf(query, o, flip))

(* The rows joined are rows of their tables.                               *)
HopJoined(db, env) ==
  \A i \in 1..2 : slots[i].referenced => SlotRow(env, i) \in db[slots[i].label]

(* An undirected hop is read from the left, or flipped.                    *)
LEMMA UndirectedSides ==
  ASSUME Finished, engine = "undirected", NEW env, NEW flip \in BOOLEAN
  PROVE  Oriented(env, flip) <=> SideFits(env, 1, flip) /\ SideFits(env, 2, ~flip)
<1>1. RelAt(query, TheHop).dir = "undir"
  BY FinishedIs, HopPattern DEF Finished, Checked, Dispatched, HasUndirected
<1>2. EndOf(query, TheHop, TRUE) = Right /\ Left # Right
  BY <1>1 DEF EndOf, TheHop, Right, Left
<1>3. SideOf(query, Left, flip) = flip /\ SideOf(query, Right, flip) = ~flip
  <2>1. CASE flip = TRUE
    BY <1>2, <2>1 DEF SideOf
  <2>2. CASE flip = FALSE
    BY <1>2, <2>2 DEF SideOf
  <2> QED BY <2>1, <2>2
<1>4. Occurrences(query) = { Left, Right } /\ Place(Left) = 1 /\ Place(Right) = 2
  BY HopPlaces
<1>5. Oriented(env, flip) <=> /\ SideFits(env, 1, SideOf(query, Left, flip))
                              /\ SideFits(env, 2, SideOf(query, Right, flip))
  BY <1>4 DEF Oriented
<1> QED BY <1>3, <1>5

(* The comparisons written for one end.                                    *)
LEMMA OrientSideHolds ==
  ASSUME NEW env, NEW i, NEW b
  PROVE  Holds(env, OrientSide(slots[i], b)) <=> SideFits(env, i, b)
<1> DEFINE x == Eq(Col(edges[1].alias, IdCol(b)), Col(slots[i].alias, "id"))
           y == Eq(Col(edges[1].alias, NameCol(b)), Lit(slots[i].name))
           X == IF slots[i].referenced THEN { x } ELSE {}
           Y == IF slots[i].name # NoLabel THEN { y } ELSE {}
<1>1. /\ Compares(env, x) <=> SqlEq(SlotRow(env, i).id, EdgeRow(env, 1)[IdCol(b)])
      /\ Compares(env, y) <=> SqlEq(EdgeRow(env, 1)[NameCol(b)], slots[i].name)
  <2>1. /\ Compares(env, x) <=> SqlEq(EdgeRow(env, 1)[IdCol(b)], SlotRow(env, i).id)
        /\ Compares(env, y) <=> SqlEq(EdgeRow(env, 1)[NameCol(b)], slots[i].name)
    BY AtomsCompare DEF EdgeRow, SlotRow
  <2> QED BY <2>1 DEF SqlEq
<1>2. OrientSide(slots[i], b) = X \cup Y
  BY DEF OrientSide
<1> HIDE DEF x, y
<1>3. /\ Holds(env, X) <=> (slots[i].referenced => Compares(env, x))
      /\ Holds(env, Y) <=> (slots[i].name # NoLabel => Compares(env, y))
  BY HoldsOf
<1> HIDE DEF X, Y
<1>4. Holds(env, X \cup Y) <=> Holds(env, X) /\ Holds(env, Y)
  BY HoldsOf
<1> QED BY <1>1, <1>2, <1>3, <1>4 DEF SideFits

(* The disjunction holds when an orientation does.                         *)
LEMMA OrientClausesHold ==
  ASSUME Finished, engine = "undirected", NEW env
  PROVE  (\A c \in OrientClauses : \E atoms \in c : Holds(env, atoms)) <=>
           \E flip \in BOOLEAN : Oriented(env, flip)
<1>1. \A flip \in BOOLEAN : Holds(env, Orientation(flip)) <=> Oriented(env, flip)
  <2> SUFFICES ASSUME NEW flip \in BOOLEAN
               PROVE  Holds(env, Orientation(flip)) <=> Oriented(env, flip)
    OBVIOUS
  <2>1. PICK X, Y : X = OrientSide(slots[1], flip) /\ Y = OrientSide(slots[2], ~flip)
    OBVIOUS
  <2>2. Orientation(flip) = X \cup Y
    BY <2>1 DEF Orientation
  <2>3. Holds(env, X) <=> SideFits(env, 1, flip)
    BY <2>1, OrientSideHolds
  <2>4. Holds(env, Y) <=> SideFits(env, 2, ~flip)
    BY <2>1, OrientSideHolds
  <2>5. Holds(env, X \cup Y) <=> Holds(env, X) /\ Holds(env, Y)
    BY HoldsOf
  <2> QED BY <2>2, <2>3, <2>4, <2>5, UndirectedSides
<1>2. CASE Orientation(FALSE) = {}
  <2>1. OrientClauses = {}
    BY <1>2 DEF OrientClauses
  <2>2. Holds(env, Orientation(FALSE))
    BY <1>2, HoldsOf
  <2> QED BY <1>1, <2>1, <2>2
<1>3. CASE Orientation(FALSE) # {}
  <2>1. PICK X, Y : X = Orientation(FALSE) /\ Y = Orientation(TRUE)
    OBVIOUS
  <2>2. OrientClauses = { { X, Y } }
    BY <1>3, <2>1 DEF OrientClauses
  <2>3. (\A c \in OrientClauses : \E atoms \in c : Holds(env, atoms)) <=>
          Holds(env, X) \/ Holds(env, Y)
    BY <2>2
  <2> QED BY <1>1, <2>1, <2>3
<1> QED BY <1>2, <1>3

(* The rows of an undirected hop.                                          *)
LEMMA UndirectedRows ==
  ASSUME Finished, engine = "undirected", NEW db, NEW env
  PROVE  /\ DeclaresAll
         /\ env \in ResultRows(db) <=>
              /\ env = [ a \in Declared(from) |-> env[a] ]
              /\ EdgeRow(env, 1) \in db[EdgeTable] /\ Typed(env, 1)
              /\ HopJoined(db, env)
              /\ \E flip \in BOOLEAN : Oriented(env, flip)
<1>1. from = UndirectedItems /\ where = UndirectedClauses /\ Visible(db) = db
  BY FinishedIs DEF Finished, Shaped, Built, Visible
<1>2. /\ HopList(PeerItems, LeftFirst, PeerFile)
      /\ \A k \in 1..2 : LeftFirst[k] = k /\ PeerFile[k].on = {}
  BY PeersListed
<1>3. /\ List(from) /\ Distinct(from) /\ Ordered(from)
      /\ DeclaresAll
      /\ HopFits(db, env, from, EdgeTable, MarkedAt(LeftFirst), PeerFile)
  BY <1>1, <1>2, HopListJoined DEF UndirectedItems
<1>4. (\A k \in 1..Len(from) : ItemFits(db, env, from[k])) <=>
        EdgeRow(env, 1) \in db[EdgeTable] /\ HopJoined(db, env)
  <2>1. \A k \in 1..2 : ItemFits(db, env, PeerFile[k]) <=> SlotRow(env, k) \in db[slots[k].label]
    BY <1>2, HoldsOf DEF HopList, ItemFits, SlotRow
  <2>2. \A k : k \in MarkedAt(LeftFirst) <=> k \in 1..2 /\ slots[k].referenced
    BY <1>2 DEF MarkedAt
  <2> QED BY <1>3, <2>1, <2>2 DEF HopFits, HopJoined
<1>5. (\A c \in UndirectedClauses : \E atoms \in c : Holds(env, atoms)) <=>
         Typed(env, 1) /\ \E flip \in BOOLEAN : Oriented(env, flip)
  <2> DEFINE H(c) == \E atoms \in c : Holds(env, atoms)
  <2>1. (\A c \in TypeClauses(edges[1]) \cup PropClauses(edges[1]) : H(c)) <=> Typed(env, 1)
    BY TypedClauses
  <2>2. (\A c \in OrientClauses : H(c)) <=> \E flip \in BOOLEAN : Oriented(env, flip)
    BY OrientClausesHold
  <2> HIDE DEF H
  <2>3. (\A c \in UndirectedClauses : H(c)) <=>
          Typed(env, 1) /\ \E flip \in BOOLEAN : Oriented(env, flip)
    BY <2>1, <2>2 DEF UndirectedClauses
  <2> QED BY <2>3 DEF H
<1>6. env \in ResultRows(db) <=>
        /\ env = [ a \in Declared(from) |-> env[a] ]
        /\ \A k \in 1..Len(from) : ItemFits(db, env, from[k])
        /\ \A c \in UndirectedClauses : \E atoms \in c : Holds(env, atoms)
  BY <1>1, <1>3, RowsAre DEF ResultRows
<1> QED BY <1>3, <1>4, <1>5, <1>6

(* The ends of a walk are the source and the target of its hop.            *)
LEMMA WalkSides ==
  ASSUME Finished, engine = "varlen", NEW env
  PROVE  Oriented(env, FALSE) <=> \A k \in 1..2 : SideFits(env, WalkEnds[k], k = 2)
<1> DEFINE s == EndOf(query, TheHop, FALSE)
           t == EndOf(query, TheHop, TRUE)
<1>1. WalkEnds[1] = Place(s) /\ WalkEnds[2] = Place(t)
  BY FinishedIs DEF Directed, WalkEnds, Place
<1>2. Occurrences(query) = { s, t } /\ s # t
  <2>1. Left # Right /\ Occurrences(query) = { Left, Right }
    BY HopPlaces DEF Left, Right
  <2>2. \/ s = Left /\ t = Right
        \/ s = Right /\ t = Left
    BY DEF EndOf, TheHop, Left, Right
  <2> HIDE DEF s, t
  <2> QED BY <2>1, <2>2
<1>3. SideOf(query, s, FALSE) = FALSE /\ SideOf(query, t, FALSE) = TRUE
  BY <1>2 DEF SideOf
<1> HIDE DEF s, t
<1>4. Oriented(env, FALSE) <=> SideFits(env, Place(s), FALSE) /\ SideFits(env, Place(t), TRUE)
  BY <1>2, <1>3 DEF Oriented
<1>5. (\A k \in 1..2 : SideFits(env, WalkEnds[k], k = 2)) <=>
        SideFits(env, WalkEnds[1], FALSE) /\ SideFits(env, WalkEnds[2], TRUE)
  <2>1. \A k : k \in 1..2 <=> k = 1 \/ k = 2
    OBVIOUS
  <2>2. (1 = 2) = FALSE /\ (2 = 2) = TRUE
    OBVIOUS
  <2>3. (\A k \in 1..2 : SideFits(env, WalkEnds[k], k = 2)) <=>
          SideFits(env, WalkEnds[1], 1 = 2) /\ SideFits(env, WalkEnds[2], 2 = 2)
    BY <2>1, Zenon
  <2> QED BY <2>2, <2>3
<1> QED BY <1>1, <1>4, <1>5

(* What is visible to the statement: the walk, and the tables it joins.    *)
LEMMA WalkVisible ==
  ASSUME Finished, engine = "varlen", Unhidden, NEW db \in Databases
  PROVE  /\ Visible(db)[WalkTable] = WalkRows(db, WalkHop)
         /\ \A i \in 1..2 : slots[i].referenced =>
              Visible(db)[slots[i].label] = db[slots[i].label]
<1>1. \A t \in DOMAIN db \cup { WalkTable } :
        Visible(db)[t] = IF t = WalkTable THEN WalkRows(db, WalkHop) ELSE db[t]
  BY DEF Visible
<1>2. ASSUME NEW i \in 1..2, slots[i].referenced
      PROVE  slots[i].label \in DOMAIN db /\ slots[i].label # WalkTable
  <2>1. i \in 1..Len(slots) /\ Present(i)
    BY <1>2, HopPlaces
  <2>2. slots[i].label \in Catalog
    BY <2>1, PresentTable
  <2> QED BY <2>1, <2>2, DatabasesAssumption DEF Unhidden
<1> QED BY <1>1, <1>2

(* The joins of the ends.                                                  *)
LEMMA EndItemFits ==
  ASSUME NEW db, NEW env, NEW k
  PROVE  ItemFits(db, env, EndItem(k)) <=>
           /\ SlotRow(env, WalkEnds[k]) \in db[slots[WalkEnds[k]].label]
           /\ SqlEq(SlotRow(env, WalkEnds[k]).id, EdgeRow(env, 1)[IdCol(k = 2)])
<1> DEFINE s == slots[WalkEnds[k]]
           x == Eq(Col(s.alias, "id"), Col(edges[1].alias, IdCol(k = 2)))
<1>1. Compares(env, x) <=> SqlEq(SlotRow(env, WalkEnds[k]).id, EdgeRow(env, 1)[IdCol(k = 2)])
  BY AtomsCompare DEF SlotRow, EdgeRow
<1>2. EndItem(k) = FromItem(s.label, s.alias, { x })
  BY DEF EndItem
<1> HIDE DEF x
<1>3. EndItem(k).table = s.label /\ EndItem(k).alias = s.alias /\ EndItem(k).on = { x }
  BY <1>2, ItemIs
<1>4. Holds(env, { x }) <=> Compares(env, x)
  BY HoldsOf
<1> QED BY <1>1, <1>3, <1>4 DEF ItemFits, SlotRow

(* Their names, and the least length.                                      *)
LEMMA VarlenClausesHold ==
  ASSUME NEW env
  PROVE  (\A c \in VarlenClauses : \E atoms \in c : Holds(env, atoms)) <=>
           /\ \A k \in 1..2 : slots[WalkEnds[k]].name # NoLabel =>
                SqlEq(EdgeRow(env, 1)[NameCol(k = 2)], slots[WalkEnds[k]].name)
           /\ LowerBound > 1 => EdgeRow(env, 1).depth >= LowerBound
<1> DEFINE H(c) == \E atoms \in c : Holds(env, atoms)
           N(k) == slots[WalkEnds[k]].name
           K    == { x \in 1..2 : N(x) # NoLabel }
           low  == Require(AtLeast(Col(edges[1].alias, "depth"), Lit(LowerBound)))
           B    == IF LowerBound > 1 THEN { low } ELSE {}
<1>1. \A k : H(EndClause(k)) <=> SqlEq(EdgeRow(env, 1)[NameCol(k = 2)], N(k))
  BY RequireHolds, AtomsCompare DEF EndClause, EdgeRow
<1>2. H(low) <=> EdgeRow(env, 1).depth >= LowerBound
  BY RequireHolds, AtomsCompare DEF EdgeRow
<1>3. VarlenClauses = { EndClause(k) : k \in K } \cup B
  BY DEF VarlenClauses
<1> HIDE DEF H, low
<1>4. (\A c \in { EndClause(k) : k \in K } : H(c)) <=>
        \A k \in 1..2 : N(k) # NoLabel => SqlEq(EdgeRow(env, 1)[NameCol(k = 2)], N(k))
  <2>1. (\A c \in { EndClause(k) : k \in K } : H(c)) <=> \A k \in K : H(EndClause(k))
    BY Zenon
  <2>2. \A k : k \in K <=> k \in 1..2 /\ N(k) # NoLabel
    OBVIOUS
  <2> HIDE DEF K, N
  <2> QED BY <1>1, <2>1, <2>2, Zenon
<1>5. (\A c \in B : H(c)) <=> (LowerBound > 1 => H(low))
  OBVIOUS
<1> HIDE DEF K, B, N
<1>6. (\A c \in VarlenClauses : H(c)) <=>
        (\A c \in { EndClause(k) : k \in K } : H(c)) /\ (\A c \in B : H(c))
  BY <1>3, Zenon
<1> QED BY <1>2, <1>4, <1>5, <1>6, Zenon DEF H, N

(* The rows of a hop of variable length.                                   *)
VarlenRow(db, env) ==
  /\ EdgeRow(env, 1) \in WalkRows(db, WalkHop)
  /\ HopJoined(db, env) /\ Oriented(env, FALSE)
  /\ LowerBound > 1 => EdgeRow(env, 1).depth >= LowerBound

(* They are the rows of the statement, where the walk hides no table.      *)
LEMMA VarlenRowsAre ==
  ASSUME Finished, engine = "varlen", Unhidden, NEW db \in Databases, NEW env
  PROVE  /\ DeclaresAll
         /\ env \in ResultRows(db) <=>
              env = [ a \in Declared(from) |-> env[a] ] /\ VarlenRow(db, env)
<1> DEFINE see == Visible(db)
           Ids == \A k \in 1..2 : slots[WalkEnds[k]].referenced =>
                    SqlEq(SlotRow(env, WalkEnds[k]).id, EdgeRow(env, 1)[IdCol(k = 2)])
           J(i) == slots[i].referenced => SlotRow(env, i) \in see[slots[i].label]
<1>1. from = VarlenItems /\ where = VarlenClauses
  BY DEF Finished, Shaped, Built
<1>2. /\ HopList(EndItems, WalkEnds, EndFile)
      /\ \A k \in 1..2 : EndFile[k] = EndItem(k)
  BY EndsListed
<1>3. /\ see[WalkTable] = WalkRows(db, WalkHop)
      /\ \A i \in 1..2 : slots[i].referenced => see[slots[i].label] = db[slots[i].label]
  BY WalkVisible
<1> HIDE DEF see
<1>4. /\ List(from) /\ Distinct(from) /\ Ordered(from)
      /\ DeclaresAll
      /\ HopFits(see, env, from, WalkTable, MarkedAt(WalkEnds), EndFile)
  BY <1>1, <1>2, HopListJoined DEF VarlenItems
<1>5. \A k \in 1..2 : ItemFits(see, env, EndFile[k]) <=>
                       /\ SlotRow(env, WalkEnds[k]) \in see[slots[WalkEnds[k]].label]
                       /\ SqlEq(SlotRow(env, WalkEnds[k]).id, EdgeRow(env, 1)[IdCol(k = 2)])
  BY <1>2, EndItemFits
<1>6. HopJoined(db, env) <=> \A k \in 1..2 : J(WalkEnds[k])
  <2>1. HopJoined(db, env) <=> \A i \in 1..2 : J(i)
    BY <1>3 DEF HopJoined
  <2> HIDE DEF J
  <2>2. (\A i \in 1..2 : J(i)) <=> \A k \in 1..2 : J(WalkEnds[k])
    BY <1>2 DEF HopList
  <2> QED BY <2>1, <2>2
<1>7. (\A k \in 1..Len(from) : ItemFits(see, env, from[k])) <=>
        EdgeRow(env, 1) \in WalkRows(db, WalkHop) /\ HopJoined(db, env) /\ Ids
  <2>1. \A k : k \in MarkedAt(WalkEnds) <=> k \in 1..2 /\ slots[WalkEnds[k]].referenced
    BY DEF MarkedAt
  <2> QED BY <1>3, <1>4, <1>5, <1>6, <2>1 DEF HopFits
<1>8. env \in ResultRows(db) <=>
        /\ env = [ a \in Declared(from) |-> env[a] ]
        /\ \A k \in 1..Len(from) : ItemFits(see, env, from[k])
        /\ \A c \in VarlenClauses : \E atoms \in c : Holds(env, atoms)
  BY <1>1, <1>4, RowsAre DEF ResultRows, see
<1>9. Oriented(env, FALSE) <=>
        /\ Ids
        /\ \A k \in 1..2 : slots[WalkEnds[k]].name # NoLabel =>
             SqlEq(EdgeRow(env, 1)[NameCol(k = 2)], slots[WalkEnds[k]].name)
  BY WalkSides DEF SideFits
<1> QED BY <1>4, <1>7, <1>8, <1>9, VarlenClausesHold DEF VarlenRow

(* The nodes of a hop fit the ends of an edge, or of a walk.               *)
EndsFit(db, row, flip) ==
  \A o \in Occurrences(query) : EndFits(query, map, db, o, row, SideOf(query, o, flip))

(* The ids of the nodes used, by that edge.                                *)
IdsBy(row, flip) == [ o \in UsedNodes(query) |-> row[IdCol(SideOf(query, o, flip))] ]

(* A row's nodes fit its edge, and their ids are the edge's.               *)
LEMMA HopSound ==
  ASSUME Finished, engine # "general", ~OpensWithSelfLoop(query), NEW db, NEW env, NEW flip,
         HopJoined(db, env), Oriented(env, flip)
  PROVE  /\ EndsFit(db, EdgeRow(env, 1), flip)
         /\ UsedIds(env) = IdsBy(EdgeRow(env, 1), flip)
<1>1. Sound /\ \A o \in Occurrences(query) : Place(o) \in 1..2
  <2>1. \A o \in Occurrences(query) : Place(o) \in 1..Len(slots)
    BY AllPlaced
  <2> QED BY <2>1, HopPlaces DEF Sound
<1>2. ASSUME NEW o \in Occurrences(query)
      PROVE  EndFits(query, map, db, o, EdgeRow(env, 1), SideOf(query, o, flip))
  <2>1. PICK i, b, tn :
          i \in 1..2 /\ i = Place(o) /\ b = SideOf(query, o, flip) /\ tn = TableOf(query, map, o)
    BY <1>1
  <2>2. SideFits(env, i, b)
    BY <2>1 DEF Oriented
  <2>3. slots[i].label = tn.table /\ slots[i].name = tn.name
    BY <1>1, <2>1, SlotTable
  <2>4. tn.name # NoLabel => SqlEq(EdgeRow(env, 1)[NameCol(b)], tn.name)
    BY <2>2, <2>3 DEF SideFits
  <2>5. ASSUME Used(query, o) PROVE \E row \in db[tn.table] : SqlEq(row.id, EdgeRow(env, 1)[IdCol(b)])
    <3>1. slots[i].referenced
      BY <1>1, <2>1, <2>5, UsedAtPlace
    <3>2. SlotRow(env, i) \in db[slots[i].label]
      BY <2>1, <3>1 DEF HopJoined
    <3>3. SqlEq(SlotRow(env, i).id, EdgeRow(env, 1)[IdCol(b)])
      BY <2>2, <3>1 DEF SideFits
    <3> QED BY <2>3, <3>2, <3>3, Zenon
  <2> QED BY <2>1, <2>4, <2>5 DEF EndFits, NodeFits
<1>3. ASSUME NEW o \in UsedNodes(query)
      PROVE  env[NodeAt(query, o).var].id = EdgeRow(env, 1)[IdCol(SideOf(query, o, flip))]
  <2>1. o \in Occurrences(query) /\ Used(query, o)
    BY <1>3 DEF UsedNodes
  <2>2. PICK i, b : i \in 1..2 /\ i = Place(o) /\ b = SideOf(query, o, flip)
    BY <1>1, <2>1
  <2>3. slots[i].referenced /\ slots[i].alias = NodeAt(query, o).var
    BY <1>1, <2>1, <2>2, UsedAtPlace
  <2>4. SideFits(env, i, b)
    BY <2>1, <2>2 DEF Oriented
  <2>5. SlotRow(env, i).id = EdgeRow(env, 1)[IdCol(b)]
    BY <2>3, <2>4 DEF SideFits, SqlEq
  <2> QED BY <2>2, <2>3, <2>5 DEF SlotRow
<1> QED BY <1>2, <1>3 DEF EndsFit, UsedIds, IdsBy

(* A loop's id is the same at both ends.                                   *)
LEMMA LoopIds ==
  ASSUME Finished, engine # "general", NEW row, NEW flip \in BOOLEAN,
         SelfLoop(query, TheHop) => SamePeer(row, FALSE, row, TRUE),
         NEW o \in Occurrences(query), NEW x \in Occurrences(query),
         NodeAt(query, o).var = NodeAt(query, x).var, NodeAt(query, o).var # Anon
  PROVE  row[IdCol(SideOf(query, o, flip))] = row[IdCol(SideOf(query, x, flip))]
<1>1. CASE o = x
  BY <1>1
<1>2. CASE o # x
  <2>1. SameNode(query, o, x) /\ SameNode(query, x, o)
    BY DEF SameNode
  <2>2. /\ Occurrences(query) = { Left, Right }
        /\ \/ EndOf(query, TheHop, FALSE) = Left /\ EndOf(query, TheHop, TRUE) = Right
           \/ EndOf(query, TheHop, FALSE) = Right /\ EndOf(query, TheHop, TRUE) = Left
    <3>1. \/ EndOf(query, TheHop, FALSE) = Left /\ EndOf(query, TheHop, TRUE) = Right
          \/ EndOf(query, TheHop, FALSE) = Right /\ EndOf(query, TheHop, TRUE) = Left
      BY DEF EndOf, TheHop, Left, Right
    <3> QED BY <3>1, HopPlaces
  <2>3. SelfLoop(query, TheHop)
    <3>1. \/ o = Left /\ x = Right
          \/ o = Right /\ x = Left
      BY <1>2, <2>2
    <3>2. SameNode(query, Left, Right) /\ SameNode(query, Right, Left)
      BY <2>1, <3>1
    <3>3. SameNode(query, EndOf(query, TheHop, FALSE), EndOf(query, TheHop, TRUE))
      BY <2>2, <3>2
    <3> QED BY <3>3 DEF SelfLoop
  <2>4. row[IdCol(FALSE)] = row[IdCol(TRUE)]
    BY <2>3 DEF SamePeer, SqlEq
  <2>5. SideOf(query, o, flip) \in BOOLEAN /\ SideOf(query, x, flip) \in BOOLEAN
    BY DEF SideOf
  <2> QED BY <2>4, <2>5
<1> QED BY <1>1, <1>2

(* An edge whose ends the nodes fit has a row.                             *)
LEMMA HopComplete ==
  ASSUME Finished, engine # "general", DeclaresAll, Sound \/ Understood,
         NEW db, NEW E, NEW flip \in BOOLEAN, EndsFit(db, E, flip),
         SelfLoop(query, TheHop) => SamePeer(E, FALSE, E, TRUE)
  PROVE  \E env : /\ env = [ a \in Declared(from) |-> env[a] ]
                  /\ EdgeRow(env, 1) = E
                  /\ HopJoined(db, env) /\ Oriented(env, flip)
                  /\ UsedIds(env) = IdsBy(E, flip)
<1>1. /\ Len(slots) = 2 /\ Len(edges) = 1
      /\ \A o \in Occurrences(query) : Place(o) \in 1..2
      /\ \A i \in 1..2 : \E o \in Occurrences(query) : Place(o) = i
      /\ \A o, x \in Occurrences(query) : Place(o) = Place(x) => o = x
      /\ \A i : Present(i) <=> slots[i].referenced
  <2>1. /\ \A o \in Occurrences(query) : Place(o) \in 1..Len(slots)
        /\ \A i \in 1..Len(slots) : \E o \in Occurrences(query) : Place(o) = i
    BY AllPlaced
  <2> QED BY <2>1, HopPlaces
<1> DEFINE B(o) == SideOf(query, o, flip)
           Joins(o, row) == row \in db[slots[Place(o)].label] /\ SqlEq(row.id, E[IdCol(B(o))])
<1>2. ASSUME NEW o \in Occurrences(query)
      PROVE  /\ slots[Place(o)].referenced => \E row : Joins(o, row)
             /\ slots[Place(o)].name # NoLabel => SqlEq(E[NameCol(B(o))], slots[Place(o)].name)
  <2>1. PICK i, tn : i \in 1..2 /\ i = Place(o) /\ tn = TableOf(query, map, o)
    BY <1>1
  <2>2. /\ slots[i].name # NoLabel => slots[i].name = tn.name
        /\ slots[i].referenced => Used(query, o) /\ slots[i].label = tn.table
    BY <2>1, SlotReads
  <2>3. NodeFits(query, map, db, o, E[IdCol(B(o))], E[NameCol(B(o))])
    BY DEF EndsFit, EndFits
  <2>4. /\ tn.name # NoLabel => SqlEq(E[NameCol(B(o))], tn.name)
        /\ Used(query, o) => \E row \in db[tn.table] : SqlEq(row.id, E[IdCol(B(o))])
    BY <2>1, <2>3 DEF NodeFits
  <2> HIDE DEF B
  <2> QED BY <2>1, <2>2, <2>4
<1> DEFINE R == [ e \in {1} |-> E ]
           T == [ o \in Occurrences(query) |-> CHOOSE row : Joins(o, row) ]
           S == [ i \in 1..2 |-> T[CHOOSE o \in Occurrences(query) : Place(o) = i] ]
<1>3. ASSUME NEW o \in Occurrences(query)
      PROVE  S[Place(o)] = T[o] /\ (slots[Place(o)].referenced => Joins(o, T[o]))
  <2>1. (CHOOSE x \in Occurrences(query) : Place(x) = Place(o)) = o
    BY <1>1
  <2>2. S[Place(o)] = T[o]
    BY <1>1, <2>1
  <2>3. ASSUME slots[Place(o)].referenced PROVE Joins(o, T[o])
    <3>1. \E row : Joins(o, row)
      BY <1>2, <2>3
    <3>2. T[o] = CHOOSE row : Joins(o, row)
      OBVIOUS
    <3> HIDE DEF Joins, T
    <3> QED BY <3>1, <3>2
  <2> QED BY <2>2, <2>3
<1> HIDE DEF S, T
<1>4. PICK env : Spread(env, R, S)
  BY SpreadExists
<1>5. EdgeRow(env, 1) = E /\ env = [ a \in Declared(from) |-> env[a] ]
  <2>1. 1 \in 1..1 /\ R[1] = E
    OBVIOUS
  <2> QED BY <1>1, <1>4, <2>1 DEF Spread, EdgeRow
<1>6. \A i \in 1..2 : slots[i].referenced => SlotRow(env, i) = S[i]
  BY <1>1, <1>4 DEF Spread, SlotRow
<1>7. ASSUME NEW o \in Occurrences(query), slots[Place(o)].referenced
      PROVE  Joins(o, SlotRow(env, Place(o)))
  <2>1. SlotRow(env, Place(o)) = T[o] /\ Joins(o, T[o])
    <3>1. Place(o) \in 1..2
      BY <1>1
    <3> HIDE DEF Joins
    <3> QED BY <1>3, <1>6, <1>7, <3>1
  <2> HIDE DEF Joins
  <2> QED BY <2>1
<1>8. HopJoined(db, env)
  <2> SUFFICES ASSUME NEW i \in 1..2, slots[i].referenced
               PROVE  SlotRow(env, i) \in db[slots[i].label]
    BY DEF HopJoined
  <2>1. PICK o \in Occurrences(query) : Place(o) = i
    BY <1>1
  <2> QED BY <1>7, <2>1
<1>9. Oriented(env, flip)
  <2> SUFFICES ASSUME NEW o \in Occurrences(query) PROVE SideFits(env, Place(o), B(o))
    BY DEF Oriented
  <2>1. slots[Place(o)].referenced => SqlEq(SlotRow(env, Place(o)).id, E[IdCol(B(o))])
    BY <1>7
  <2>2. slots[Place(o)].name # NoLabel => SqlEq(E[NameCol(B(o))], slots[Place(o)].name)
    BY <1>2
  <2> HIDE DEF B
  <2> QED BY <1>5, <2>1, <2>2 DEF SideFits
<1>10. ASSUME NEW o \in UsedNodes(query)
       PROVE  env[NodeAt(query, o).var].id = E[IdCol(B(o))]
  <2>1. o \in Occurrences(query) /\ Used(query, o)
    BY <1>10 DEF UsedNodes
  <2>2. PICK i \in 1..2 : /\ slots[i].referenced /\ slots[i].alias = NodeAt(query, o).var
                          /\ slots[i].var = NodeAt(query, o).var /\ slots[i].var # Anon
    BY <1>1, <2>1, UsedMarked
  <2>3. PICK x \in Occurrences(query) : Place(x) = i
    BY <1>1
  <2>4. NodeAt(query, x).var = NodeAt(query, o).var /\ NodeAt(query, o).var # Anon
    BY <2>2, <2>3, AllPlaced
  <2>5. E[IdCol(B(o))] = E[IdCol(B(x))]
    BY <2>1, <2>4, LoopIds
  <2>6. SlotRow(env, i).id = E[IdCol(B(x))]
    BY <1>7, <2>2, <2>3 DEF SqlEq
  <2> HIDE DEF B
  <2> QED BY <2>2, <2>5, <2>6 DEF SlotRow
<1>11. UsedIds(env) = IdsBy(E, flip)
  BY <1>10 DEF UsedIds, IdsBy
<1> QED BY <1>5, <1>8, <1>9, <1>11

(* A row is known by its edge and the ids of the nodes used.               *)
LEMMA HopOnce ==
  ASSUME Finished, engine # "general", ~OpensWithSelfLoop(query), DeclaresAll,
         NEW db \in Databases, NEW x, NEW y,
         x = [ a \in Declared(from) |-> x[a] ], y = [ a \in Declared(from) |-> y[a] ],
         HopJoined(db, x), HopJoined(db, y), NEW f, Oriented(x, f), NEW g, Oriented(y, g),
         EdgeRow(x, 1) = EdgeRow(y, 1), UsedIds(x) = UsedIds(y)
  PROVE  x = y
<1>1. /\ Len(slots) = 2 /\ Len(edges) = 1 /\ Sound
      /\ \A i \in 1..2 : \E o \in Occurrences(query) : Place(o) = i
      /\ \A i : Present(i) <=> slots[i].referenced
  <2>1. \A i \in 1..Len(slots) : \E o \in Occurrences(query) : Place(o) = i
    BY AllPlaced
  <2> QED BY <2>1, HopPlaces DEF Sound
<1>2. ASSUME NEW i \in 1..2, slots[i].referenced PROVE SlotRow(x, i) = SlotRow(y, i)
  <2>1. PICK o \in Occurrences(query) : Place(o) = i
    BY <1>1
  <2>2. Used(query, o)
    BY <1>2, <2>1, MarkedUsed
  <2>3. slots[i].alias = NodeAt(query, o).var
    BY <1>1, <2>1, <2>2, UsedAtPlace
  <2>4. UsedIds(x)[o] = SlotRow(x, i).id /\ UsedIds(y)[o] = SlotRow(y, i).id
    BY <2>2, <2>3 DEF UsedIds, UsedNodes, SlotRow
  <2>5. SideFits(x, i, SideOf(query, o, f))
    BY <2>1 DEF Oriented
  <2>6. SqlEq(SlotRow(x, i).id, SlotRow(y, i).id)
    BY <1>2, <2>4, <2>5 DEF SideFits, SqlEq
  <2>7. SlotRow(x, i) \in db[slots[i].label] /\ SlotRow(y, i) \in db[slots[i].label]
    BY <1>2 DEF HopJoined
  <2>8. slots[i].label \in Catalog
    BY <1>1, <1>2, PresentTable
  <2> QED BY <2>6, <2>7, <2>8, DatabasesAssumption
<1>3. \A e \in 1..Len(edges) : x[edges[e].alias] = y[edges[e].alias]
  <2>1. \A e \in 1..1 : e = 1
    OBVIOUS
  <2> QED BY <1>1, <2>1 DEF EdgeRow
<1>4. \A i \in 1..Len(slots) : Present(i) => x[slots[i].alias] = y[slots[i].alias]
  BY <1>1, <1>2 DEF SlotRow
<1> QED BY <1>3, <1>4, SpreadOnce

(* A hop that leads from a node to itself opens its pattern.               *)
LEMMA NoLoop ==
  ASSUME Finished, engine # "general", ~OpensWithSelfLoop(query)
  PROVE  ~SelfLoop(query, TheHop)
<1>1. Relationships(query) = { TheHop }
  BY FinishedIs, HopSlots, HopPattern DEF Finished, Checked
<1>2. ~Before(TheHop, TheHop)
  BY DEF TheHop, Before
<1>3. TheHop \in Relationships(query) /\ \A s \in Relationships(query) : ~Before(s, TheHop)
  BY <1>1, <1>2, Zenon
<1> QED BY <1>3, Zenon DEF OpensWithSelfLoop

-----------------------------------------------------------------------------
(***************************************************************************)
(* The undirected hop.                                                     *)
(***************************************************************************)
(* A match of the hop is the edge and the direction it is read in.         *)
ReadAs(db, m) ==
  /\ m \in db[EdgeTable] \X BOOLEAN
  /\ EdgeFits(query, TheHop, m[1]) /\ EndsFit(db, m[1], m[2])
  /\ SelfLoop(query, TheHop) => SamePeer(m[1], FALSE, m[1], TRUE)

(* Its meaning in these words.                                             *)
LEMMA UndirectedMeans ==
  ASSUME NEW db, NEW a
  PROVE  a \in UndirectedMatches(query, map, db) <=>
           \E m : ReadAs(db, m) /\ a = [ edge |-> m[1], ids |-> IdsBy(m[1], m[2]) ]
  BY Zenon DEF UndirectedMatches, ReadAs, EndsFit, IdsBy

(* Each match has a row.                                                   *)
LEMMA UndirectedComplete ==
  ASSUME Finished, engine = "undirected", Sound \/ Understood, NEW db,
         NEW a \in UndirectedMatches(query, map, db)
  PROVE  a \in Answers(db)
<1>1. PICK m : ReadAs(db, m) /\ a = [ edge |-> m[1], ids |-> IdsBy(m[1], m[2]) ]
  BY UndirectedMeans
<1>2. PICK E \in db[EdgeTable], flip \in BOOLEAN :
        /\ EdgeFits(query, TheHop, E) /\ EndsFit(db, E, flip)
        /\ SelfLoop(query, TheHop) => SamePeer(E, FALSE, E, TRUE)
        /\ a = [ edge |-> E, ids |-> IdsBy(E, flip) ]
  BY <1>1 DEF ReadAs
<1>3. DeclaresAll
  BY UndirectedRows
<1>4. PICK env : /\ env = [ x \in Declared(from) |-> env[x] ]
                 /\ EdgeRow(env, 1) = E
                 /\ HopJoined(db, env) /\ Oriented(env, flip)
                 /\ UsedIds(env) = IdsBy(E, flip)
  BY <1>2, <1>3, HopComplete
<1>5. Typed(env, 1)
  BY <1>2, <1>4, HopPlaces, TypedFits
<1>6. env \in ResultRows(db)
  BY <1>4, <1>5, UndirectedRows
<1>7. Answer(env) = a
  BY <1>2, <1>4 DEF Answer, EdgeRow
<1> QED BY <1>6, <1>7 DEF Answers

(* Each row is a match.                                                    *)
LEMMA UndirectedSound ==
  ASSUME Finished, engine = "undirected", ~OpensWithSelfLoop(query), NEW db,
         NEW env \in ResultRows(db)
  PROVE  Answer(env) \in UndirectedMatches(query, map, db)
<1>1. /\ EdgeRow(env, 1) \in db[EdgeTable] /\ Typed(env, 1) /\ HopJoined(db, env)
      /\ \E flip \in BOOLEAN : Oriented(env, flip)
  BY UndirectedRows
<1>2. PICK flip \in BOOLEAN : Oriented(env, flip)
  BY <1>1
<1>3. EdgeFits(query, TheHop, EdgeRow(env, 1))
  BY <1>1, HopPlaces, TypedFits
<1>4. /\ EndsFit(db, EdgeRow(env, 1), flip)
      /\ UsedIds(env) = IdsBy(EdgeRow(env, 1), flip)
  BY <1>1, <1>2, HopSound
<1> DEFINE m == << EdgeRow(env, 1), flip >>
<1>5. ReadAs(db, m)
  BY <1>1, <1>3, <1>4, NoLoop DEF ReadAs
<1>6. Answer(env) = [ edge |-> m[1], ids |-> IdsBy(m[1], m[2]) ]
  BY <1>4 DEF Answer, EdgeRow
<1> HIDE DEF m
<1> QED BY <1>5, <1>6, UndirectedMeans

(* No match has two rows.                                                  *)
LEMMA UndirectedOnce ==
  ASSUME Finished, engine = "undirected", ~OpensWithSelfLoop(query), NEW db \in Databases,
         NEW x \in ResultRows(db), NEW y \in ResultRows(db), Answer(x) = Answer(y)
  PROVE  x = y
<1>1. /\ \A z : Answer(z).edge = EdgeRow(z, 1) /\ Answer(z).ids = UsedIds(z)
      /\ DeclaresAll
  BY UndirectedRows DEF Answer, EdgeRow
<1>2. /\ x = [ a \in Declared(from) |-> x[a] ] /\ HopJoined(db, x)
      /\ \E flip \in BOOLEAN : Oriented(x, flip)
  BY UndirectedRows
<1>3. /\ y = [ a \in Declared(from) |-> y[a] ] /\ HopJoined(db, y)
      /\ \E flip \in BOOLEAN : Oriented(y, flip)
  BY UndirectedRows
<1>4. EdgeRow(x, 1) = EdgeRow(y, 1) /\ UsedIds(x) = UsedIds(y)
  BY <1>1
<1> QED BY <1>1, <1>2, <1>3, <1>4, HopOnce

(* The undirected engine's statement answers the query.                    *)
LEMMA UndirectedCorrect ==
  ASSUME Finished, engine = "undirected", NEW db \in Databases
  PROVE  /\ Sound \/ Understood => Meant(db) \subseteq Answers(db)
         /\ ~OpensWithSelfLoop(query) => Correct(db)
<1>1. Meant(db) = UndirectedMatches(query, map, db)
  BY DEF Meant
<1>2. Sound \/ Understood => Meant(db) \subseteq Answers(db)
  BY <1>1, UndirectedComplete
<1>3. ASSUME ~OpensWithSelfLoop(query) PROVE Correct(db)
  <2>1. Meant(db) \subseteq Answers(db)
    BY <1>2, <1>3 DEF Sound
  <2>2. \A env \in ResultRows(db) : Answer(env) \in Meant(db)
    BY <1>1, <1>3, UndirectedSound
  <2>3. \A x, y \in ResultRows(db) : Answer(x) = Answer(y) => x = y
    BY <1>3, UndirectedOnce
  <2> QED BY <2>1, <2>2, <2>3 DEF Correct, Answers
<1> QED BY <1>2, <1>3

-----------------------------------------------------------------------------
(***************************************************************************)
(* The hop of variable length.                                             *)
(***************************************************************************)
(* The hop the query asks for.                                             *)
HopAsked ==
  [ type |-> HopType(RelAt(query, TheHop)), has_max |-> Star.has_max, max |-> Star.max ]

(* The bounds of the statement are those of the query.                     *)
LEMMA BoundsKept ==
  ASSUME Finished, engine = "varlen", BoundsFit
  PROVE  /\ Star.min \in Nat /\ Star.max \in Nat
         /\ Star.has_min => LowerBound = Star.min
         /\ ~Star.has_min => LowerBound = 1
         /\ Star.has_max => UpperBound = Star.max
<1>1. Star.min \in Nat /\ Star.max \in Nat
  <2>1. query \in Queries /\ TheHop \in Relationships(query)
    BY FinishedIs, HopPlaces
  <2> QED BY <2>1, WrittenAssumption DEF Star
<1>2. Star.has_min => Star.min < 2^(IntBits - 1)
  BY DEF BoundsFit
<1>3. Star.has_max => Star.max < 2^(IntBits - 1)
  BY DEF BoundsFit
<1> DEFINE n == Star.min
           m == Star.max
<1>4. Star.has_min => Atoi(n) = n
  <2> HIDE DEF n
  <2> QED BY <1>1, <1>2, AtoiFits DEF n
<1>5. Star.has_max => Atoi(m) = m
  <2> HIDE DEF m
  <2> QED BY <1>1, <1>3, AtoiFits DEF m
<1> QED BY <1>1, <1>4, <1>5 DEF LowerBound, UpperBound

(* So the walk is over the trails the query asks for.                      *)
LEMMA WalkAsked ==
  ASSUME Finished, engine = "varlen", BoundsFit, NEW db
  PROVE  WalkRows(db, WalkHop) = WalkRows(db, HopAsked)
<1>1. edges[1].types = RelAt(query, TheHop).types
  <2>1. TheHop \in Relationships(query) /\ EdgeOf(TheHop) = 1
    BY HopPlaces
  <2> QED BY <2>1, EdgeIs
<1>2. /\ WalkHop.type = HopAsked.type /\ WalkHop.has_max = HopAsked.has_max
      /\ HopAsked.has_max = Star.has_max
      /\ Star.has_max => WalkHop.max = HopAsked.max
  BY <1>1, BoundsKept DEF WalkHop, HopAsked, HopType
<1>3. ASSUME NEW prov, NEW p
      PROVE  IsTrail(prov, WalkHop, p) <=> IsTrail(prov, HopAsked, p)
  <2> HIDE DEF WalkHop, HopAsked
  <2> QED BY <1>2 DEF IsTrail, OfType
<1>4. Trails(Prov(db), WalkHop) = Trails(Prov(db), HopAsked)
  BY <1>3, Zenon DEF Trails
<1> QED BY <1>4 DEF WalkRows

(* Rows of a walk with the same path are one, and each has a length.       *)
LEMMA WalkRowsAre ==
  ASSUME NEW db, NEW hop
  PROVE  /\ \A x, y \in WalkRows(db, hop) : x.path = y.path => x = y
         /\ \A x \in WalkRows(db, hop) : x.depth \in Nat /\ x.depth >= 1
<1>1. ASSUME NEW x \in WalkRows(db, hop)
      PROVE  /\ x = RowOf(Prov(db), x.path)
             /\ x.depth \in Nat /\ x.depth >= 1
  <2>1. PICK p \in Trails(Prov(db), hop) : x = RowOf(Prov(db), p)
    BY DEF WalkRows
  <2>2. x.path = p /\ x.depth = Len(p)
    BY <2>1 DEF RowOf
  <2>3. Cardinality(Rowid) \in Nat
    BY RowidAssumption, FS_CardinalityType
  <2>4. PICK n \in 1..Cardinality(Rowid) : p \in [1..n -> Rowid]
    BY DEF Trails
  <2>5. n \in Nat /\ n >= 1
    BY <2>3
  <2>6. Len(p) = n
    <3>1. p = [ i \in 1..n |-> p[i] ]
      BY <2>4
    <3> QED BY <2>5, <3>1, Enumerated
  <2> QED BY <2>1, <2>2, <2>5, <2>6
<1>2. \A x, y \in WalkRows(db, hop) : x.path = y.path => x = y
  BY <1>1, Zenon
<1> QED BY <1>1, <1>2

(* A match of the hop is a walk between nodes that fit its ends.           *)
WalkedAs(db, w) ==
  /\ w \in WalkRows(db, HopAsked)
  /\ Star.has_min => w.depth >= Star.min
  /\ EndsFit(db, w, FALSE)
  /\ SelfLoop(query, TheHop) => SamePeer(w, FALSE, w, TRUE)

(* Its meaning in these words.                                             *)
LEMMA VarlenMeans ==
  ASSUME NEW db, NEW a
  PROVE  a \in VarlenMatches(query, map, db) <=>
           \E w : WalkedAs(db, w) /\ a = [ path |-> w.path, ids |-> IdsBy(w, FALSE) ]
  BY Zenon DEF VarlenMatches, WalkedAs, EndsFit, IdsBy, HopAsked, Star

(* The least length asked for is the one compared with.                    *)
LEMMA LeastLength ==
  ASSUME Finished, engine = "varlen", BoundsFit, NEW db, NEW w \in WalkRows(db, HopAsked)
  PROVE  (LowerBound > 1 => w.depth >= LowerBound) <=> (Star.has_min => w.depth >= Star.min)
<1>1. w.depth \in Nat /\ w.depth >= 1
  BY WalkRowsAre
<1>2. /\ Star.min \in Nat
      /\ Star.has_min => LowerBound = Star.min
      /\ ~Star.has_min => LowerBound = 1
  BY BoundsKept
<1>3. ASSUME NEW d \in Nat, d >= 1, NEW l \in Nat
      PROVE  (l > 1 => d >= l) <=> d >= l
  BY <1>3
<1>4. CASE Star.has_min
  BY <1>1, <1>2, <1>3, <1>4
<1>5. CASE ~Star.has_min
  BY <1>1, <1>2, <1>5
<1> QED BY <1>4, <1>5

(* Each match has a row.                                                   *)
LEMMA VarlenComplete ==
  ASSUME Finished, engine = "varlen", Sound \/ Understood, BoundsFit, Unhidden,
         NEW db \in Databases, NEW a \in VarlenMatches(query, map, db)
  PROVE  a \in Answers(db)
<1>1. PICK w : WalkedAs(db, w) /\ a = [ path |-> w.path, ids |-> IdsBy(w, FALSE) ]
  BY VarlenMeans
<1>2. DeclaresAll
  BY VarlenRowsAre
<1>3. PICK env : /\ env = [ x \in Declared(from) |-> env[x] ]
                 /\ EdgeRow(env, 1) = w
                 /\ HopJoined(db, env) /\ Oriented(env, FALSE)
                 /\ UsedIds(env) = IdsBy(w, FALSE)
  BY <1>1, <1>2, HopComplete DEF WalkedAs
<1>4. VarlenRow(db, env)
  <2>1. w \in WalkRows(db, WalkHop)
    BY <1>1, WalkAsked DEF WalkedAs
  <2>2. LowerBound > 1 => w.depth >= LowerBound
    BY <1>1, LeastLength DEF WalkedAs
  <2> QED BY <1>3, <2>1, <2>2 DEF VarlenRow
<1>5. env \in ResultRows(db)
  BY <1>3, <1>4, VarlenRowsAre
<1>6. Answer(env) = a
  BY <1>1, <1>3 DEF Answer, EdgeRow
<1> QED BY <1>5, <1>6 DEF Answers

(* Each row is a match.                                                    *)
LEMMA VarlenSound ==
  ASSUME Finished, engine = "varlen", ~OpensWithSelfLoop(query), BoundsFit, Unhidden,
         NEW db \in Databases, NEW env \in ResultRows(db)
  PROVE  Answer(env) \in VarlenMatches(query, map, db)
<1>1. VarlenRow(db, env)
  BY VarlenRowsAre
<1> DEFINE w == EdgeRow(env, 1)
<1>2. EndsFit(db, w, FALSE) /\ UsedIds(env) = IdsBy(w, FALSE)
  BY <1>1, HopSound DEF VarlenRow
<1>3. w \in WalkRows(db, HopAsked)
  BY <1>1, WalkAsked DEF VarlenRow
<1>4. Star.has_min => w.depth >= Star.min
  BY <1>1, <1>3, LeastLength DEF VarlenRow
<1>5. WalkedAs(db, w)
  BY <1>2, <1>3, <1>4, NoLoop DEF WalkedAs
<1>6. Answer(env) = [ path |-> w.path, ids |-> IdsBy(w, FALSE) ]
  BY <1>2 DEF Answer, EdgeRow
<1> HIDE DEF w
<1> QED BY <1>5, <1>6, VarlenMeans

(* No match has two rows.                                                  *)
LEMMA VarlenOnce ==
  ASSUME Finished, engine = "varlen", ~OpensWithSelfLoop(query), Unhidden,
         NEW db \in Databases,
         NEW x \in ResultRows(db), NEW y \in ResultRows(db), Answer(x) = Answer(y)
  PROVE  x = y
<1>1. /\ \A z : Answer(z).path = EdgeRow(z, 1).path /\ Answer(z).ids = UsedIds(z)
      /\ DeclaresAll
  BY VarlenRowsAre DEF Answer, EdgeRow
<1>2. /\ x = [ a \in Declared(from) |-> x[a] ] /\ VarlenRow(db, x)
      /\ y = [ a \in Declared(from) |-> y[a] ] /\ VarlenRow(db, y)
  BY VarlenRowsAre
<1>3. EdgeRow(x, 1) = EdgeRow(y, 1) /\ UsedIds(x) = UsedIds(y)
  BY <1>1, <1>2, WalkRowsAre DEF VarlenRow
<1>4. /\ HopJoined(db, x) /\ Oriented(x, FALSE)
      /\ HopJoined(db, y) /\ Oriented(y, FALSE)
  BY <1>2 DEF VarlenRow
<1> QED BY <1>1, <1>2, <1>3, <1>4, HopOnce

(* The statement of the engine for variable length answers the query.      *)
LEMMA VarlenCorrect ==
  ASSUME Finished, engine = "varlen", BoundsFit, Unhidden, NEW db \in Databases
  PROVE  /\ Sound \/ Understood => Meant(db) \subseteq Answers(db)
         /\ ~OpensWithSelfLoop(query) => Correct(db)
<1>1. Meant(db) = VarlenMatches(query, map, db)
  BY DEF Meant
<1>2. Sound \/ Understood => Meant(db) \subseteq Answers(db)
  BY <1>1, VarlenComplete
<1>3. ASSUME ~OpensWithSelfLoop(query) PROVE Correct(db)
  <2>1. Meant(db) \subseteq Answers(db)
    BY <1>2, <1>3 DEF Sound
  <2>2. \A env \in ResultRows(db) : Answer(env) \in Meant(db)
    BY <1>1, <1>3, VarlenSound
  <2>3. \A x, y \in ResultRows(db) : Answer(x) = Answer(y) => x = y
    BY <1>3, VarlenOnce
  <2> QED BY <2>1, <2>2, <2>3 DEF Correct, Answers
<1> QED BY <1>2, <1>3

-----------------------------------------------------------------------------
(* The invariant behind both theorems.                                     *)
LEMMA AlwaysShaped == Spec => [](TInv /\ Checked /\ Shaped)
<1>1. Init => Shaped
  BY DEF Init, Shaped, Aliases, Marks, Built, Live
<1>2. TInv /\ Checked /\ Shaped /\ [Next]_vars => (TInv /\ Checked /\ Shaped)'
  BY Inductive, CheckedInductive, ShapedInductive
<1>3. Init => TInv /\ Checked /\ Shaped
  BY <1>1, Initially, CheckedInitially
<1> QED BY <1>2, <1>3, PTL DEF Spec

(* The statement answers the query: over every database its rows are what  *)
(* the pattern means, each of them once.                                   *)
THEOREM TranslationIsCorrect == Spec => []TranslationCorrect
<1>1. TInv /\ Checked /\ Shaped => TranslationCorrect
  <2> SUFFICES ASSUME Finished, BoundsFit, Unhidden, ~OpensWithSelfLoop(query),
                      NEW db \in Databases
               PROVE  Correct(db)
    BY DEF Finished, TranslationCorrect
  <2>1. engine \in { "general", "undirected", "varlen" }
    BY FinishedIs
  <2> QED BY <2>1, GeneralCorrect, UndirectedCorrect, VarlenCorrect
<1> QED BY <1>1, AlwaysShaped, PTL

(* No match is lost, whatever the pattern.                                 *)
THEOREM NothingIsLost == Spec => []NothingLost
<1>1. TInv /\ Checked /\ Shaped => NothingLost
  <2> SUFFICES ASSUME Finished, BoundsFit, Unhidden, Understood, NEW db \in Databases
               PROVE  Meant(db) \subseteq Answers(db)
    BY DEF Finished, NothingLost
  <2>1. engine \in { "general", "undirected", "varlen" }
    BY FinishedIs
  <2> QED BY <2>1, GeneralCorrect, UndirectedCorrect, VarlenCorrect
<1> QED BY <1>1, AlwaysShaped, PTL
=============================================================================
