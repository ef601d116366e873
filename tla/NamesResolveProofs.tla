-------------------------- MODULE NamesResolveProofs --------------------------
(***************************************************************************)
(* Proofs about NamesResolve: the scan keeps the last entry of each        *)
(* reading, hence decides what Names says of the whole map; in a map       *)
(* without repetitions it rejects exactly the ambiguous labels.  And about *)
(* NamesParse: the buffer of a map file keeps room for its end, and the    *)
(* map that is parsed is, in order, what the pieces of the text say.       *)
(***************************************************************************)
EXTENDS NamesParse, NamesProofs, SequenceTheorems

EntrySet == [ table : Spellings, name : Spellings ]

(* What TypeOK and the assumption on the constants say of the entries.     *)
LEMMA MapTyped ==
  ASSUME TypeOK
  PROVE  /\ map \in Seq(EntrySet)
         /\ Len(map) \in Nat /\ i \in Nat
         /\ \A k \in 1..Len(map) :
              map[k] \in EntrySet /\ map[k] \in Entries(map) /\ map[k] # NoEntry
         /\ label # NoLabel => label \in Spellings
<1>1. map \in Seq(EntrySet)
  BY MapsAssumption DEF TypeOK, EntrySet
<1>2. \A k \in 1..Len(map) : map[k] \in EntrySet
  BY <1>1
<1>3. \A e \in EntrySet : e # NoEntry
  BY MapsAssumption DEF EntrySet, NoEntry, Entry
<1> QED
  BY <1>1, <1>2, <1>3, MapsAssumption DEF TypeOK, Entries

(* The scan starts with no reading.                                        *)
THEOREM Initially == Init => IInv
<1> SUFFICES ASSUME Init PROVE IInv
  OBVIOUS
<1>1. TypeOK
  BY MapsAssumption DEF Init, TypeOK
<1>2. Scanned
  <2>1. { k \in 1..i : map[k].table = label } = {} /\ { k \in 1..i : map[k].name = label } = {}
    BY DEF Init
  <2> QED
    BY <2>1 DEF Init, Scanned, LastOf
<1>3. Decided
  BY DEF Init, Decided
<1> QED
  BY <1>1, <1>2, <1>3 DEF IInv

(* One more entry: it is the last if it matches, and changes nothing if it *)
(* does not.                                                               *)
LEMMA LastOfNext ==
  ASSUME NEW n \in Nat, NEW hits, NEW before, NEW e, NEW e2,
         before \subseteq 1..n,
         LastOf(e, before),
         (hits = before \cup {n + 1} /\ e2 = map[n + 1]) \/ (hits = before /\ e2 = e)
  PROVE  LastOf(e2, hits)
<1>1. CASE hits = before /\ e2 = e
  BY <1>1
<1>2. CASE hits = before \cup {n + 1} /\ e2 = map[n + 1]
  <2>1. \A l \in hits : l <= n + 1
    BY <1>2
  <2> QED
    BY <1>2, <2>1 DEF LastOf
<1> QED
  BY <1>1, <1>2

(* Every step of the scan keeps the invariant.                             *)
THEOREM Inductive == IInv /\ [Next]_vars => IInv'
<1> SUFFICES ASSUME IInv, [Next]_vars PROVE IInv'
  OBVIOUS
<1> USE DEF IInv
<1>1. CASE NoLabelGiven
  <2>1. TypeOK' /\ Scanned'
    BY <1>1 DEF NoLabelGiven, TypeOK, Scanned, LastOf
  <2>2. pair = NoEntry
    BY <1>1 DEF NoLabelGiven, Decided
  <2>3. Decided'
    BY <1>1, <2>2 DEF NoLabelGiven, Decided, NoEntry
  <2> QED
    BY <2>1, <2>3
<1>2. CASE Scan
  <2> DEFINE n == i + 1
  <2>1. n \in 1..Len(map) /\ i' = n /\ map' = map /\ label' = label
    BY <1>2, MapTyped DEF Scan, TypeOK
  <2>2. TypeOK'
    <3>1. map[n] \in Entries(map)
      BY <2>1, MapTyped
    <3> QED
      BY <1>2, <2>1, <3>1 DEF Scan, TypeOK
  <2>3. LastOf(as_table, { k \in 1..i : map[k].table = label })
        /\ LastOf(as_name, { k \in 1..i : map[k].name = label })
    BY DEF Scanned
  <2>4. LastOf(as_table', { k \in 1..n : map[k].table = label })
    <3> DEFINE before == { k \in 1..i : map[k].table = label }
               hits   == { k \in 1..n : map[k].table = label }
    <3>1. i \in Nat /\ before \subseteq 1..i
      BY MapTyped
    <3>2. (hits = before \cup {i + 1} /\ as_table' = map[i + 1]) \/ (hits = before /\ as_table' = as_table)
      <4>1. CASE map[n].table = label
        BY <1>2, <3>1, <4>1 DEF Scan
      <4>2. CASE map[n].table # label
        BY <1>2, <3>1, <4>2 DEF Scan
      <4> QED
        BY <4>1, <4>2
    <3> HIDE DEF before, hits, n
    <3> QED
      BY <2>3, <3>1, <3>2, LastOfNext DEF before, hits
  <2>5. LastOf(as_name', { k \in 1..n : map[k].name = label })
    <3> DEFINE before == { k \in 1..i : map[k].name = label }
               hits   == { k \in 1..n : map[k].name = label }
    <3>1. i \in Nat /\ before \subseteq 1..i
      BY MapTyped
    <3>2. (hits = before \cup {i + 1} /\ as_name' = map[i + 1]) \/ (hits = before /\ as_name' = as_name)
      <4>1. CASE map[n].name = label
        BY <1>2, <3>1, <4>1 DEF Scan
      <4>2. CASE map[n].name # label
        BY <1>2, <3>1, <4>2 DEF Scan
      <4> QED
        BY <4>1, <4>2
    <3> HIDE DEF before, hits, n
    <3> QED
      BY <2>3, <3>1, <3>2, LastOfNext DEF before, hits
  <2>6. Scanned'
    BY <2>1, <2>4, <2>5 DEF Scanned, LastOf, NoEntry
  <2>7. Decided'
    BY <1>2 DEF Scan, Decided
  <2> QED
    BY <2>2, <2>6, <2>7
<1>3. CASE Decide
  <2>1. TypeOK'
    <3>1. Disagree \/ Reading \in Entries(map) \cup { Entry(label, label) }
      BY DEF TypeOK, Reading
    <3> QED
      BY <1>3, <3>1 DEF Decide, TypeOK
  <2>2. Scanned'
    BY <1>3 DEF Decide, Scanned, LastOf
  <2>3. Decided'
    <3>1. Disagree' = Disagree /\ Reading' = Reading
      BY <1>3 DEF Decide, Disagree, Reading, NoEntry, Entry
    <3> QED
      BY <1>3, <3>1 DEF Decide, Decided
  <2> QED
    BY <2>1, <2>2, <2>3
<1>4. CASE UNCHANGED vars
  <2>1. Disagree' = Disagree /\ Reading' = Reading
    BY <1>4 DEF vars, Disagree, Reading, NoEntry, Entry
  <2> QED
    BY <1>4, <2>1 DEF vars, TypeOK, Scanned, LastOf, Decided, NoEntry
<1> QED
  BY <1>1, <1>2, <1>3, <1>4 DEF Next

-----------------------------------------------------------------------------
(* A reading and the index Names gives it.                                 *)
LEMMA ReadingIs ==
  ASSUME NEW n \in Nat, NEW S \in SUBSET (1..n), NEW e, LastOf(e, S),
         \A k \in S : map[k] # NoEntry
  PROVE  /\ e = NoEntry <=> LastIn(S) = 0
         /\ e # NoEntry => LastIn(S) \in S /\ e = map[LastIn(S)]
<1>1. CASE S = {}
  BY <1>1, LastInNone DEF LastOf
<1>2. CASE S # {}
  <2>1. PICK k \in S : e = map[k] /\ \A l \in S : l <= k
    BY <1>2 DEF LastOf
  <2>2. LastIn(S) = k
    BY <2>1, LastInIs
  <2> QED
    BY <2>1, <2>2
<1> QED
  BY <1>1, <1>2

(* When the scan has come to its end, the readings are those of the map.   *)
LEMMA ReadingsComplete ==
  ASSUME IInv, i = Len(map), label # NoLabel
  PROVE  /\ as_table = NoEntry <=> AsTable(map, label) = 0
         /\ as_name = NoEntry <=> AsName(map, label) = 0
         /\ as_table # NoEntry => as_table = map[AsTable(map, label)]
         /\ as_name # NoEntry => as_name = map[AsName(map, label)]
<1> DEFINE T == { k \in 1..i : map[k].table = label }
           N == { k \in 1..i : map[k].name = label }
<1>1. i \in Nat /\ T \in SUBSET (1..i) /\ N \in SUBSET (1..i)
  BY MapTyped DEF IInv
<1>2. \A k \in 1..i : map[k] # NoEntry
  BY MapTyped DEF IInv
<1>3. LastOf(as_table, T) /\ LastOf(as_name, N)
  BY DEF IInv, Scanned
<1>4. AsTable(map, label) = LastIn(T) /\ AsName(map, label) = LastIn(N)
  BY DEF AsTable, AsName
<1> HIDE DEF T, N
<1>5. /\ as_table = NoEntry <=> LastIn(T) = 0
      /\ as_table # NoEntry => as_table = map[LastIn(T)]
  <2>1. \A k \in T : map[k] # NoEntry
    BY <1>1, <1>2
  <2> QED
    BY <1>1, <1>3, <2>1, ReadingIs
<1>6. /\ as_name = NoEntry <=> LastIn(N) = 0
      /\ as_name # NoEntry => as_name = map[LastIn(N)]
  <2>1. \A k \in N : map[k] # NoEntry
    BY <1>1, <1>2
  <2> QED
    BY <1>1, <1>3, <2>1, ReadingIs
<1> QED
  BY <1>4, <1>5, <1>6

(* A label that is not given has no reading.                               *)
LEMMA NoReading ==
  ASSUME TypeOK PROVE AsTable(map, NoLabel) = 0 /\ AsName(map, NoLabel) = 0
<1>1. \A k \in 1..Len(map) : map[k].table # NoLabel /\ map[k].name # NoLabel
  BY MapTyped, MapsAssumption DEF EntrySet
<1>2. { k \in 1..Len(map) : map[k].table = NoLabel } = {}
      /\ { k \in 1..Len(map) : map[k].name = NoLabel } = {}
  BY <1>1
<1> QED
  BY <1>2, LastInNone DEF AsTable, AsName

-----------------------------------------------------------------------------
(* The decision is the one Names makes on the whole map.                   *)
THEOREM Computes == IInv => ComputesResolve
<1> SUFFICES ASSUME IInv PROVE ComputesResolve
  OBVIOUS
<1>1. CASE status = "running"
  BY <1>1 DEF ComputesResolve
<1>2. CASE status # "running" /\ label = NoLabel
  <2>1. ~Ambiguous(map, label)
    BY <1>2, NoReading DEF IInv, Ambiguous
  <2> QED
    BY <1>2, <2>1 DEF IInv, Decided, ComputesResolve, Resolve, NoEntry
<1>3. CASE status # "running" /\ label # NoLabel
  <2>1. i = Len(map) /\ (status = "failed" => Disagree)
        /\ (status = "done" => ~Disagree /\ pair = Reading)
    BY <1>3 DEF IInv, Decided
  <2>2. Disagree <=> Ambiguous(map, label)
    BY <1>3, <2>1, ReadingsComplete DEF Disagree, Ambiguous
  <2>3. Reading = Resolve(map, label)
    BY <1>3, <2>1, ReadingsComplete DEF Reading, Resolve
  <2> QED
    BY <2>1, <2>2, <2>3 DEF ComputesResolve
<1> QED
  BY <1>1, <1>2, <1>3

(* In a map without repetitions, a reading found is the only one there is. *)
LEMMA OnlyReading ==
  ASSUME IInv, i = Len(map), OneToOne(map), NEW k \in 1..Len(map)
  PROVE  /\ map[k].table = label => as_table = map[k]
         /\ map[k].name = label => as_name = map[k]
<1>1. ASSUME map[k].table = label PROVE as_table = map[k]
  <2> DEFINE T == { l \in 1..i : map[l].table = label }
  <2>1. k \in T
    BY <1>1
  <2>2. LastOf(as_table, T)
    BY DEF IInv, Scanned
  <2>3. PICK l \in T : as_table = map[l]
    BY <2>1, <2>2 DEF LastOf
  <2>4. l = k
    BY <1>1, <2>3 DEF OneToOne
  <2> QED
    BY <2>3, <2>4
<1>2. ASSUME map[k].name = label PROVE as_name = map[k]
  <2> DEFINE N == { l \in 1..i : map[l].name = label }
  <2>1. k \in N
    BY <1>2
  <2>2. LastOf(as_name, N)
    BY DEF IInv, Scanned
  <2>3. PICK l \in N : as_name = map[l]
    BY <2>1, <2>2 DEF LastOf
  <2>4. l = k
    BY <1>2, <2>3 DEF OneToOne
  <2> QED
    BY <2>3, <2>4
<1> QED
  BY <1>1, <1>2

(* Conversely a reading that was found is an entry of the map.             *)
LEMMA ReadingFound ==
  ASSUME IInv
  PROVE  /\ as_table # NoEntry =>
              \E k \in 1..Len(map) : map[k] = as_table /\ map[k].table = label
         /\ as_name # NoEntry =>
              \E k \in 1..Len(map) : map[k] = as_name /\ map[k].name = label
<1>1. \A k \in 1..i : k \in 1..Len(map)
  BY DEF IInv, TypeOK
<1> QED
  BY <1>1 DEF IInv, Scanned, LastOf

(* A label is rejected exactly when it is the table of one command and the *)
(* name of another.                                                        *)
THEOREM Exact == IInv => AmbiguityExact
<1> SUFFICES ASSUME IInv, OneToOne(map), label # NoLabel
             PROVE  /\ status = "failed" => GenuinelyAmbiguous(map, label)
                    /\ status = "done" => ~GenuinelyAmbiguous(map, label)
  BY DEF AmbiguityExact
<1>1. ASSUME status = "failed" PROVE GenuinelyAmbiguous(map, label)
  <2>1. Disagree
    BY <1>1 DEF IInv, Decided
  <2>2. PICK k \in 1..Len(map) : map[k] = as_table /\ map[k].table = label
    BY <2>1, ReadingFound DEF Disagree
  <2>3. PICK l \in 1..Len(map) : map[l] = as_name /\ map[l].name = label
    BY <2>1, ReadingFound DEF Disagree
  <2>4. map[k].name # map[l].name
    BY <2>1, <2>2, <2>3 DEF Disagree, OneToOne
  <2> QED
    BY <2>2, <2>3, <2>4 DEF GenuinelyAmbiguous
<1>2. ASSUME status = "done", GenuinelyAmbiguous(map, label) PROVE FALSE
  <2>1. PICK k, l \in 1..Len(map) :
          map[k].table = label /\ map[l].name = label /\ map[k].name # map[l].name
    BY <1>2 DEF GenuinelyAmbiguous
  <2>2. i = Len(map) /\ ~Disagree
    BY <1>2 DEF IInv, Decided
  <2>3. as_table = map[k] /\ as_name = map[l]
    BY <2>1, <2>2, OnlyReading
  <2>4. map[k] # NoEntry /\ map[l] # NoEntry
    BY MapTyped DEF IInv
  <2> QED
    BY <2>1, <2>2, <2>3, <2>4 DEF Disagree
<1> QED
  BY <1>1, <1>2

(* Either spelling of a command means the command's entry.                 *)
THEOREM Spelled == IInv => EitherSpelling
<1> SUFFICES ASSUME IInv, OneToOne(map), status = "done",
                    NEW k \in 1..Len(map), label \in { map[k].table, map[k].name }
             PROVE  pair = map[k]
  BY DEF EitherSpelling, Entries
<1>1. map[k] # NoEntry /\ label # NoLabel
  BY MapTyped, MapsAssumption DEF IInv, EntrySet
<1>2. i = Len(map) /\ ~Disagree /\ pair = Reading
  BY <1>1 DEF IInv, Decided
<1>3. CASE map[k].table = label
  BY <1>1, <1>2, <1>3, OnlyReading DEF Reading
<1>4. CASE map[k].name = label
  <2>1. as_name = map[k]
    BY <1>2, <1>4, OnlyReading
  <2> QED
    BY <1>1, <1>2, <2>1 DEF Reading, Disagree
<1> QED
  BY <1>3, <1>4

-----------------------------------------------------------------------------
(* The invariant holds in every reachable state.                           *)
THEOREM Invariance == Spec => []IInv
<1> QED
  BY Initially, Inductive, PTL DEF Spec

(* The readings kept are entries of the map.                               *)
THEOREM TypeCorrect == Spec => []TypeOK
<1>1. IInv => TypeOK
  BY DEF IInv
<1> QED
  BY <1>1, Invariance, PTL

(* The scan of names_resolve computes Resolve and Ambiguous of Names.      *)
THEOREM ScanCorrect == Spec => []ComputesResolve
<1> QED
  BY Computes, Invariance, PTL

(* Ambiguity is reported exactly, in maps without repetitions.             *)
THEOREM AmbiguityCorrect == Spec => []AmbiguityExact
<1> QED
  BY Exact, Invariance, PTL

(* Both spellings of a command lead to it, in maps without repetitions.    *)
THEOREM SpellingCorrect == Spec => []EitherSpelling
<1> QED
  BY Spelled, Invariance, PTL

-----------------------------------------------------------------------------
(***************************************************************************)
(* The map file.                                                           *)
(***************************************************************************)
(* The buffer while the file is read: never full, never past the file.     *)
BufferOK ==
  /\ input \in Inputs
  /\ stage = "reading" => input.kind = "file"
  /\ input.kind = "file" =>
       /\ len \in 0..Len(input.text) /\ cap \in Nat /\ len < cap
       /\ stage \in { "parsing", "entry", "malformed", "parsed" } => len = Len(input.text)

(* The text given is a sequence.                                           *)
LEMMA TextHasLength == ASSUME BufferOK PROVE Len(input.text) \in Nat
  BY InputsAssumption DEF BufferOK

(* The first buffer is empty and not of size zero.                         *)
LEMMA BufferStarts == ParseInit => BufferOK
<1> SUFFICES ASSUME ParseInit PROVE BufferOK
  OBVIOUS
<1>1. Len(input.text) \in Nat
  BY InputsAssumption DEF ParseInit
<1> QED BY <1>1, InputsAssumption DEF ParseInit, BufferOK

(* A step of the reading leaves room: a full buffer is doubled.            *)
LEMMA BufferKeeps == BufferOK /\ [ParseNext]_allvars => BufferOK'
<1> SUFFICES ASSUME BufferOK, [ParseNext]_allvars PROVE BufferOK'
  OBVIOUS
<1>0. Len(input.text) \in Nat
  BY TextHasLength
<1>1. CASE Fill
  <2>1. /\ input.kind = "file" /\ Got > 0 /\ len' = len + Got
        /\ cap' = IF len' = cap THEN 2 * cap ELSE cap
        /\ UNCHANGED << input, stage >> /\ stage = "reading"
        /\ len \in 0..Len(input.text) /\ cap \in Nat /\ len < cap
    BY <1>1 DEF Fill, BufferOK
  <2>2. Got \in Nat /\ Got <= Len(input.text) - len /\ Got <= cap - len
    BY <1>0, <2>1 DEF Got
  <2>3. len' \in 0..Len(input.text) /\ cap' \in Nat /\ len' < cap'
    BY <1>0, <2>1, <2>2
  <2> QED BY <2>1, <2>3 DEF BufferOK
<1>2. CASE EndOfFile
  <2>1. /\ input.kind = "file" /\ Got = 0 /\ UNCHANGED << input, len, cap >>
        /\ len \in 0..Len(input.text) /\ cap \in Nat /\ len < cap
    BY <1>2 DEF EndOfFile, BufferOK
  <2>2. len = Len(input.text)
    BY <1>0, <2>1 DEF Got
  <2> QED BY <1>2, <2>1, <2>2 DEF EndOfFile, BufferOK
<1>3. CASE Unreadable
  BY <1>3 DEF Unreadable, BufferOK
<1>4. CASE Isolate \/ Reject \/ ParseEntry \/ EndOfText
  BY <1>4 DEF Isolate, Reject, ParseEntry, EndOfText, BufferOK
<1>5. CASE Resolution \/ UNCHANGED allvars
  BY <1>5 DEF Resolution, allvars, parsevars, BufferOK
<1> QED BY <1>1, <1>2, <1>3, <1>4, <1>5 DEF ParseNext, Parse

(* For any file and any first capacity the buffer holds all of the file    *)
(* and its end.                                                            *)
THEOREM FileFitsTheBuffer == ParseSpec => []RoomForEnd
<1>1. BufferOK => RoomForEnd
  BY DEF BufferOK, RoomForEnd
<1> QED BY <1>1, BufferStarts, BufferKeeps, PTL DEF ParseSpec

-----------------------------------------------------------------------------
(***************************************************************************)
(* The words of a text.                                                    *)
(***************************************************************************)
(* p from u to v, without the blanks around it, is p from c to d.          *)
Within(p, u, v, c, d) ==
  /\ c \in u..v /\ d \in u..v /\ c <= d
  /\ p[c] \notin Leading /\ p[d] \notin Trailing
  /\ \A k \in u..v : k < c => p[k] \in Leading
  /\ \A k \in u..v : k > d => p[k] \in Trailing

(* A part of a text is a text.                                             *)
LEMMA PartIs ==
  ASSUME NEW S, NEW p \in Seq(S), NEW u \in 1..Len(p)+1, NEW v \in u-1..Len(p)
  PROVE  /\ SubSeq(p, u, v) \in Seq(S)
         /\ Len(SubSeq(p, u, v)) = v - u + 1
         /\ \A k \in 1..(v - u + 1) : SubSeq(p, u, v)[k] = p[u + k - 1]
<1>1. \A j \in u..v : p[j] \in S
  OBVIOUS
<1>2. u \in Int /\ v \in Int
  OBVIOUS
<1>3. /\ SubSeq(p, u, v) \in Seq(S)
      /\ Len(SubSeq(p, u, v)) = IF u <= v THEN v-u+1 ELSE 0
      /\ \A j \in 1..(v - u + 1) : SubSeq(p, u, v)[j] = p[u + j - 1]
  BY <1>1, <1>2, SubSeqProperties
<1> QED BY <1>2, <1>3

(* A part of a part is the part of the whole.                              *)
LEMMA PartOfPart ==
  ASSUME NEW S, NEW p \in Seq(S), NEW u \in 1..Len(p)+1, NEW v \in u-1..Len(p),
         NEW m \in 1..(v - u + 2), NEW n \in (m - 1)..(v - u + 1)
  PROVE  SubSeq(SubSeq(p, u, v), m, n) = SubSeq(p, u + m - 1, u + n - 1)
<1>1. CASE n < m
  <2>1. u \in Int /\ v \in Int /\ m \in Int /\ n \in Int
    OBVIOUS
  <2>2. SubSeq(SubSeq(p, u, v), m, n) = << >>
    BY <1>1, <2>1, SubSeqEmpty
  <2>3. SubSeq(p, u + m - 1, u + n - 1) = << >>
    BY <1>1, <2>1, SubSeqEmpty
  <2> QED BY <2>2, <2>3
<1>2. CASE m <= n
  <2>1. u \in 1..Len(p) /\ v \in 1..Len(p) /\ m \in 1..(v-u+1) /\ n \in 1..(v-u+1)
    BY <1>2
  <2> QED BY <2>1, SubSeqOfSubSeq
<1> QED BY <1>1, <1>2

(* The least of some indexes, there being one, is the first of them.       *)
LEMMA FirstOf ==
  ASSUME NEW n \in Nat, NEW I \in SUBSET (1..n), I # {}
  PROVE  Min(I) \in I /\ \A k \in I : Min(I) <= k
<1>1. \E k \in I : \A l \in I : k <= l
  BY LeastIndex
<1> QED BY <1>1 DEF Min

(* The greatest is the last.                                               *)
LEMMA FinalOf ==
  ASSUME NEW n \in Nat, NEW I \in SUBSET (1..n), I # {}
  PROVE  Max(I) \in I /\ \A k \in I : k <= Max(I)
<1>1. \E k \in I : \A l \in I : k >= l
  <2>1. \E k \in I : \A l \in I : l <= k
    BY GreatestIndex
  <2> QED BY <2>1
<1>2. Max(I) \in I /\ \A k \in I : Max(I) >= k
  BY <1>1 DEF Max
<1> QED BY <1>2

(* What trim leaves.                                                       *)
LEMMA TrimmedIs ==
  ASSUME NEW S, NEW s \in Seq(S)
  PROVE  \/ (\A k \in 1..Len(s) : s[k] \in Trailing) /\ Trimmed(s) = << >>
         \/ \E c, d \in 1..Len(s) : Within(s, 1, Len(s), c, d) /\ Trimmed(s) = SubSeq(s, c, d)
<1> DEFINE A == { k \in 1..Len(s) : s[k] \notin Leading }
           B == { k \in 1..Len(s) : s[k] \notin Trailing }
<1>0. Len(s) \in Nat /\ Leading \subseteq Trailing
  BY DEF Leading, Trailing
<1>1. Trimmed(s) = IF (IF B # {} THEN Max(B) ELSE 0) = 0 THEN << >>
                   ELSE SubSeq(s, IF A # {} THEN Min(A) ELSE 0, IF B # {} THEN Max(B) ELSE 0)
  BY DEF Trimmed, SelectInSeq, SelectLastInSeq
<1>2. CASE B = {}
  <2>1. \A k \in 1..Len(s) : s[k] \in Trailing
    BY <1>2
  <2> QED BY <1>1, <1>2, <2>1
<1>3. CASE B # {}
  <2>1. B \subseteq A /\ A # {}
    BY <1>0, <1>3
  <2>2. Max(B) \in B /\ \A k \in B : k <= Max(B)
    <3>1. B \in SUBSET (1..Len(s))
      OBVIOUS
    <3> HIDE DEF B
    <3> QED BY <1>0, <1>3, <3>1, FinalOf
  <2>3. Min(A) \in A /\ \A k \in A : Min(A) <= k
    <3>1. A \in SUBSET (1..Len(s))
      OBVIOUS
    <3> HIDE DEF A, B
    <3> QED BY <1>0, <2>1, <3>1, FirstOf
  <2> DEFINE c == Min(A)
             d == Max(B)
  <2>4. /\ c \in A /\ d \in B /\ c <= d
        /\ \A k \in 1..Len(s) : k < c => k \notin A
        /\ \A k \in 1..Len(s) : k > d => k \notin B
    <3>1. A \subseteq 1..Len(s) /\ B \subseteq 1..Len(s)
      OBVIOUS
    <3>2. c \in A /\ d \in B /\ (\A k \in A : c <= k) /\ (\A k \in B : k <= d)
      BY <2>2, <2>3
    <3> HIDE DEF A, B, c, d
    <3>3. c <= d
      BY <2>1, <3>2
    <3>4. \A k \in 1..Len(s) : k < c => k \notin A
      BY <1>0, <3>1, <3>2
    <3>5. \A k \in 1..Len(s) : k > d => k \notin B
      BY <1>0, <3>1, <3>2
    <3> QED BY <3>2, <3>3, <3>4, <3>5
  <2>5. Trimmed(s) = SubSeq(s, c, d)
    <3>1. d # 0
      BY <2>4
    <3> QED BY <1>1, <1>3, <2>1, <3>1
  <2> HIDE DEF c, d
  <2>6. Within(s, 1, Len(s), c, d)
    BY <1>0, <2>4 DEF Within
  <2> QED BY <2>4, <2>5, <2>6
<1> QED BY <1>2, <1>3

(* What trim leaves of a part of a text.                                   *)
LEMMA TrimmedPart ==
  ASSUME NEW S, NEW p \in Seq(S), NEW u \in 1..Len(p)+1, NEW v \in u-1..Len(p)
  PROVE  \/ (\A k \in u..v : p[k] \in Trailing) /\ Trimmed(SubSeq(p, u, v)) = << >>
         \/ \E c, d \in u..v : Within(p, u, v, c, d) /\ Trimmed(SubSeq(p, u, v)) = SubSeq(p, c, d)
<1> DEFINE s == SubSeq(p, u, v)
<1>1. s \in Seq(S) /\ Len(s) = v - u + 1 /\ \A k \in 1..(v - u + 1) : s[k] = p[u + k - 1]
  BY PartIs
<1>2. \A m \in 1..(v - u + 1) : \A n \in (m - 1)..(v - u + 1) :
        SubSeq(s, m, n) = SubSeq(p, u + m - 1, u + n - 1)
  BY PartOfPart
<1>3. \A k \in u..v : k - u + 1 \in 1..(v - u + 1) /\ u + (k - u + 1) - 1 = k
  OBVIOUS
<1>4. \A k \in u..v : s[k - u + 1] = p[k]
  <2> HIDE DEF s
  <2> QED BY <1>1, <1>3
<1> HIDE DEF s
<1>5. CASE (\A k \in 1..Len(s) : s[k] \in Trailing) /\ Trimmed(s) = << >>
  <2>1. \A k \in u..v : p[k] \in Trailing
    BY <1>1, <1>3, <1>4, <1>5
  <2> QED BY <1>5, <2>1 DEF s
<1>6. CASE \E c, d \in 1..Len(s) : Within(s, 1, Len(s), c, d) /\ Trimmed(s) = SubSeq(s, c, d)
  <2>1. PICK c, d \in 1..Len(s) : Within(s, 1, Len(s), c, d) /\ Trimmed(s) = SubSeq(s, c, d)
    BY <1>6
  <2> DEFINE e == u + c - 1
             f == u + d - 1
  <2>2. e \in u..v /\ f \in u..v /\ c = e - u + 1 /\ d = f - u + 1
    BY <1>1, <2>1
  <2>3. e <= f
    BY <2>1, <2>2 DEF Within
  <2>4. p[e] \notin Leading /\ p[f] \notin Trailing
    <3>1. p[e] = s[c] /\ p[f] = s[d]
      BY <1>4, <2>2
    <3> QED BY <2>1, <3>1 DEF Within
  <2>5. \A k \in u..v : k < e => p[k] \in Leading
    <3> SUFFICES ASSUME NEW k \in u..v, k < e PROVE p[k] \in Leading
      OBVIOUS
    <3>1. k - u + 1 \in 1..Len(s) /\ k - u + 1 < c
      BY <1>1, <2>2
    <3> QED BY <1>4, <2>1, <3>1 DEF Within
  <2>6. \A k \in u..v : k > f => p[k] \in Trailing
    <3> SUFFICES ASSUME NEW k \in u..v, k > f PROVE p[k] \in Trailing
      OBVIOUS
    <3>1. k - u + 1 \in 1..Len(s) /\ k - u + 1 > d
      BY <1>1, <2>2
    <3> QED BY <1>4, <2>1, <3>1 DEF Within
  <2>7. SubSeq(s, c, d) = SubSeq(p, e, f)
    <3>1. c \in 1..(v - u + 1) /\ d \in (c - 1)..(v - u + 1)
      BY <1>1, <2>1 DEF Within
    <3> QED BY <1>2, <3>1
  <2> HIDE DEF e, f
  <2>8. Within(p, u, v, e, f)
    BY <2>2, <2>3, <2>4, <2>5, <2>6 DEF Within
  <2> QED BY <2>1, <2>2, <2>7, <2>8 DEF s
<1> QED BY <1>1, <1>5, <1>6, TrimmedIs

(* Blanks around the place change nothing.                                 *)
LEMMA Widened ==
  ASSUME NEW p, NEW u \in Nat, NEW v \in Nat, NEW x \in Nat, NEW y \in Nat, NEW c, NEW d,
         x <= u, v <= y, Within(p, u, v, c, d),
         \A k \in x..(u - 1) : p[k] \in Leading,
         \A k \in (v + 1)..y : p[k] \in Trailing
  PROVE  Within(p, x, y, c, d)
<1>1. c \in x..y /\ d \in x..y /\ c <= d /\ c \in u..v /\ d \in u..v
  BY DEF Within
<1>2. ASSUME NEW k \in x..y, k < c PROVE p[k] \in Leading
  <2>1. k \in u..v \/ k \in x..(u - 1)
    BY <1>1, <1>2
  <2> QED BY <1>2, <2>1 DEF Within
<1>3. ASSUME NEW k \in x..y, k > d PROVE p[k] \in Trailing
  <2>1. k \in u..v \/ k \in (v + 1)..y
    BY <1>1, <1>3
  <2> QED BY <1>3, <2>1 DEF Within
<1>4. p[c] \notin Leading /\ p[d] \notin Trailing
  BY DEF Within
<1> QED BY <1>1, <1>2, <1>3, <1>4 DEF Within

(* What trim leaves of a part is the word the part holds.                  *)
LEMMA WithinSurrounds ==
  ASSUME NEW S, NEW p \in Seq(S), NEW u \in 1..Len(p)+1, NEW v \in u-1..Len(p),
         NEW c, NEW d, Within(p, u, v, c, d)
  PROVE  /\ Surrounds(SubSeq(p, u, v), SubSeq(p, c, d))
         /\ SubSeq(p, c, d) \in Seq(S) /\ SubSeq(p, c, d) # << >>
<1> DEFINE s == SubSeq(p, u, v)
           t == SubSeq(p, c, d)
<1>1. s \in Seq(S) /\ Len(s) = v - u + 1 /\ \A k \in 1..(v - u + 1) : s[k] = p[u + k - 1]
  BY PartIs
<1>2. c \in u..v /\ d \in u..v /\ c <= d /\ u \in Nat /\ v \in Int
  BY DEF Within
<1>3. t \in Seq(S) /\ Len(t) = d - c + 1 /\ \A k \in 1..(d - c + 1) : t[k] = p[c + k - 1]
  <2>1. c \in 1..Len(p)+1 /\ d \in c-1..Len(p)
    BY <1>2
  <2> QED BY <2>1, PartIs
<1>4. t # << >>
  <2> HIDE DEF t
  <2> QED BY <1>2, <1>3
<1>5. t[1] \notin Leading /\ t[Len(t)] \notin Trailing
  <2>1. t[1] = p[c] /\ t[Len(t)] = p[d]
    <3>1. 1 \in 1..(d - c + 1) /\ d - c + 1 \in 1..(d - c + 1) /\ c + 1 - 1 = c /\ c + (d - c + 1) - 1 = d
      BY <1>2
    <3> HIDE DEF t
    <3> QED BY <1>3, <3>1
  <2> QED BY <2>1 DEF Within
<1> DEFINE a == c - u
<1>6. a \in 0..(Len(s) - Len(t))
  <2>1. a \in 0..((v - u + 1) - (d - c + 1))
    BY <1>2
  <2>2. Len(s) = v - u + 1 /\ Len(t) = d - c + 1
    BY <1>1, <1>3
  <2> HIDE DEF s, t, a
  <2> QED BY <2>1, <2>2
<1>7. SubSeq(s, a + 1, a + Len(t)) = t
  <2>1. a + 1 \in 1..(v - u + 2) /\ a + (d - c + 1) \in a..(v - u + 1)
    BY <1>2
  <2>2. SubSeq(s, a + 1, a + (d - c + 1)) = SubSeq(p, u + (a + 1) - 1, u + (a + (d - c + 1)) - 1)
    <3> DEFINE m == a + 1
               n == a + (d - c + 1)
    <3>1. m \in 1..(v - u + 2) /\ n \in (m - 1)..(v - u + 1)
      BY <1>2
    <3> HIDE DEF m, n
    <3>2. SubSeq(s, m, n) = SubSeq(p, u + m - 1, u + n - 1)
      BY <3>1, PartOfPart
    <3> QED BY <3>2 DEF m, n
  <2>3. u + (a + 1) - 1 = c /\ u + (a + (d - c + 1)) - 1 = d
    BY <1>2
  <2> HIDE DEF a, s
  <2> QED BY <1>3, <2>2, <2>3
<1>8. \A k \in 1..a : s[k] \in Leading
  <2> SUFFICES ASSUME NEW k \in 1..a PROVE s[k] \in Leading
    OBVIOUS
  <2>1. k \in 1..(v - u + 1) /\ u + k - 1 \in u..v /\ u + k - 1 < c
    BY <1>2
  <2> HIDE DEF s
  <2> QED BY <1>1, <2>1 DEF Within
<1>9. \A k \in (a + Len(t) + 1)..Len(s) : s[k] \in Trailing
  <2> SUFFICES ASSUME NEW k \in (a + Len(t) + 1)..Len(s) PROVE s[k] \in Trailing
    OBVIOUS
  <2>1. k \in (a + (d - c + 1) + 1)..(v - u + 1)
    <3>1. k \in (a + Len(t) + 1)..Len(s) /\ Len(s) = v - u + 1 /\ Len(t) = d - c + 1
      BY <1>1, <1>3
    <3> HIDE DEF s, t, a
    <3> QED BY <3>1
  <2>2. k \in 1..(v - u + 1) /\ u + k - 1 \in u..v /\ u + k - 1 > d
    BY <1>2, <2>1
  <2> HIDE DEF s
  <2> QED BY <1>1, <2>2 DEF Within
<1> HIDE DEF s, t, a
<1>10. Surrounds(s, t)
  BY <1>5, <1>6, <1>7, <1>8, <1>9 DEF Surrounds
<1> QED BY <1>3, <1>4, <1>10 DEF s, t

(* Blanks alone are around no word.                                        *)
LEMMA BlankSurroundsNothing ==
  ASSUME NEW S, NEW p \in Seq(S), NEW u \in 1..Len(p)+1, NEW v \in u-1..Len(p),
         \A k \in u..v : p[k] \in Trailing, NEW t \in Seq(S), t # << >>
  PROVE  ~Surrounds(SubSeq(p, u, v), t)
<1> DEFINE s == SubSeq(p, u, v)
<1>1. s \in Seq(S) /\ Len(s) = v - u + 1 /\ \A k \in 1..(v - u + 1) : s[k] = p[u + k - 1]
  BY PartIs
<1>2. u \in Nat /\ v \in Int /\ Len(t) \in Nat /\ Len(t) > 0
  BY EmptySeq
<1> SUFFICES ASSUME Surrounds(s, t) PROVE FALSE
  OBVIOUS
<1> HIDE DEF s
<1>3. t[Len(t)] \notin Trailing
  BY DEF Surrounds
<1>4. PICK a \in 0..(Len(s) - Len(t)) : SubSeq(s, a + 1, a + Len(t)) = t
  BY DEF Surrounds
<1>5. a + 1 \in 1..Len(s)+1 /\ a + Len(t) \in a..Len(s) /\ a + Len(t) - (a + 1) + 1 = Len(t) /\ a + 1 - 1 = a
  BY <1>1, <1>2
<1>6. \A k \in 1..Len(t) : t[k] = s[a + 1 + k - 1]
  <2> DEFINE x == a + 1
             y == a + Len(t)
  <2>1. x \in 1..Len(s)+1 /\ y \in (x - 1)..Len(s) /\ y - x + 1 = Len(t) /\ SubSeq(s, x, y) = t
    BY <1>4, <1>5
  <2> HIDE DEF x, y
  <2>2. \A k \in 1..(y - x + 1) : SubSeq(s, x, y)[k] = s[x + k - 1]
    BY <1>1, <2>1, PartIs
  <2>3. \A k \in 1..Len(t) : t[k] = s[x + k - 1]
    BY <2>1, <2>2
  <2> QED BY <2>3 DEF x
<1>7. t[Len(t)] = s[a + 1 + Len(t) - 1] /\ a + 1 + Len(t) - 1 \in 1..(v - u + 1)
  BY <1>1, <1>2, <1>5, <1>6
<1>8. t[Len(t)] = p[u + (a + 1 + Len(t) - 1) - 1]
  BY <1>1, <1>7
<1>9. u + (a + 1 + Len(t) - 1) - 1 \in u..v
  BY <1>2, <1>7
<1>10. p[u + (a + 1 + Len(t) - 1) - 1] \in Trailing
  BY <1>9
<1> QED BY <1>3, <1>8, <1>10

(* Where the first equals sign is.                                         *)
LEMMA EqualsIs ==
  ASSUME NEW S, entry \in Seq(S)
  PROVE  \/ EqualsIn = 0 /\ \A k \in 1..Len(entry) : entry[k] # "="
         \/ /\ EqualsIn \in 1..Len(entry) /\ entry[EqualsIn] = "="
            /\ \A k \in 1..(EqualsIn - 1) : entry[k] # "="
<1> DEFINE I == { k \in 1..Len(entry) : entry[k] = "=" }
<1>1. EqualsIn = IF I # {} THEN Min(I) ELSE 0
  BY DEF EqualsIn, SelectInSeq
<1>2. CASE I = {}
  BY <1>1, <1>2
<1>3. CASE I # {}
  <2>1. I \in SUBSET (1..Len(entry)) /\ Len(entry) \in Nat
    OBVIOUS
  <2>2. Min(I) \in I /\ \A k \in I : Min(I) <= k
    <3> HIDE DEF I
    <3> QED BY <1>3, <2>1, FirstOf
  <2>3. EqualsIn \in I /\ \A k \in I : EqualsIn <= k
    BY <1>1, <1>3, <2>2
  <2>4. \A k \in 1..(EqualsIn - 1) : k \notin I
    <3> HIDE DEF I
    <3> QED BY <2>1, <2>3
  <2>5. \A k \in 1..(EqualsIn - 1) : k \in 1..Len(entry)
    BY <2>1, <2>3
  <2> QED BY <2>3, <2>4, <2>5
<1> QED BY <1>2, <1>3

(* The words of a text are texts and not empty.                            *)
LEMMA WordIs ==
  ASSUME NEW S, NEW p \in Seq(S), NEW t \in Words(p)
  PROVE  t \in Seq(S) /\ t # << >>
<1>1. PICK x, y \in DOMAIN p : t = SubSeq(p, x, y)
  BY DEF Words
<1>2. x \in 1..Len(p) /\ y \in 1..Len(p)
  OBVIOUS
<1>3. \A j \in x..y : p[j] \in S
  BY <1>2
<1>4. x \in Int /\ y \in Int
  BY <1>2
<1>5. SubSeq(p, x, y) \in Seq(S)
  BY <1>3, <1>4, SubSeqProperties
<1>6. t # << >>
  BY DEF Words
<1> QED BY <1>1, <1>5, <1>6

(* What a text says, when its first equals sign is at k.                   *)
LEMMA SaysAt ==
  ASSUME NEW S, NEW p \in Seq(S), NEW k \in 1..Len(p), p[k] = "=",
         \A j \in 1..(k - 1) : p[j] # "=", NEW t, NEW n
  PROVE  Says(p, t, n) <=> /\ Surrounds(SubSeq(p, 1, k - 1), t)
                           /\ Surrounds(SubSeq(p, k + 1, Len(p)), n)
<1>1. ASSUME NEW l \in DOMAIN p, p[l] = "=", \A j \in 1..(l - 1) : p[j] # "="
      PROVE  l = k
  <2>1. l \in 1..Len(p)
    OBVIOUS
  <2>2. ~(l < k) /\ ~(k < l)
    BY <1>1, <2>1
  <2> QED BY <2>1, <2>2
<1>2. k \in DOMAIN p
  OBVIOUS
<1> QED BY <1>1, <1>2 DEF Says

(* An entry is well formed exactly when its piece says what the entry's    *)
(* table and name say; else the piece says nothing of any two words.       *)
LEMMA EntrySays ==
  ASSUME NEW S, NEW p \in Seq(S), entry = Trimmed(p), entry # << >>
  PROVE  /\ ~Malformed => /\ Says(p, Table, Name)
                          /\ Table \in Seq(S) /\ Table # << >>
                          /\ Name \in Seq(S) /\ Name # << >>
         /\ Malformed => \A t, n \in Words(p) : ~Says(p, t, n)
<1>0. Leading \subseteq Trailing /\ "=" \notin Trailing /\ "=" \notin Leading
  BY DEF Leading, Trailing
<1>1. PICK c, d \in 1..Len(p) : Within(p, 1, Len(p), c, d) /\ entry = SubSeq(p, c, d)
  BY TrimmedIs
<1>2. Len(p) \in Nat /\ c <= d /\ d <= Len(p)
  BY <1>1 DEF Within
<1>3. /\ \A k \in 1..(c - 1) : p[k] \in Leading
      /\ \A k \in (d + 1)..Len(p) : p[k] \in Trailing
  <2>1. /\ \A k \in 1..(c - 1) : k \in 1..Len(p) /\ k < c
        /\ \A k \in (d + 1)..Len(p) : k \in 1..Len(p) /\ k > d
    BY <1>2
  <2> QED BY <1>1, <2>1 DEF Within
<1>4. /\ entry \in Seq(S) /\ Len(entry) = d - c + 1
      /\ \A k \in 1..(d - c + 1) : entry[k] = p[c + k - 1]
  <2>1. c \in 1..Len(p)+1 /\ d \in (c - 1)..Len(p)
    BY <1>2
  <2> QED BY <1>1, <2>1, PartIs
<1>5. \A k \in c..d : p[k] = entry[k - c + 1] /\ k - c + 1 \in 1..Len(entry)
  <2> SUFFICES ASSUME NEW k \in c..d
               PROVE  p[k] = entry[k - c + 1] /\ k - c + 1 \in 1..Len(entry)
    OBVIOUS
  <2>1. k - c + 1 \in 1..(d - c + 1) /\ c + (k - c + 1) - 1 = k
    BY <1>2
  <2>2. entry[k - c + 1] = p[c + (k - c + 1) - 1]
    BY <1>4, <2>1
  <2> QED BY <1>4, <2>1, <2>2
<1>6. CASE EqualsIn = 0
  <2>1. \A k \in 1..Len(entry) : entry[k] # "="
    BY <1>4, <1>6, EqualsIs
  <2>2. \A k \in 1..Len(p) : p[k] # "="
    <3>1. \A k \in 1..Len(p) : k \in 1..(c - 1) \/ k \in c..d \/ k \in (d + 1)..Len(p)
      BY <1>2
    <3> QED BY <1>0, <1>3, <1>5, <2>1, <3>1
  <2>3. \A k \in DOMAIN p : p[k] # "="
    BY <2>2
  <2>4. Malformed /\ \A t, n \in Words(p) : ~Says(p, t, n)
    BY <1>6, <2>3 DEF Malformed, Says
  <2> QED BY <2>4
<1>7. CASE EqualsIn # 0
  <2> DEFINE e == EqualsIn
             k == c + e - 1
  <2>1. /\ e \in 1..Len(entry) /\ entry[e] = "="
        /\ \A j \in 1..(e - 1) : entry[j] # "="
    BY <1>4, <1>7, EqualsIs
  <2>2. e \in 1..(d - c + 1) /\ k \in c..d /\ k \in 1..Len(p) /\ k - c + 1 = e
    BY <1>2, <1>4, <2>1
  <2>3. p[k] = "="
    BY <1>5, <2>1, <2>2
  <2>4. \A j \in 1..(k - 1) : p[j] # "="
    <3> SUFFICES ASSUME NEW j \in 1..(k - 1) PROVE p[j] # "="
      OBVIOUS
    <3>1. CASE j < c
      BY <1>0, <1>3, <3>1
    <3>2. CASE j >= c
      <4>1. j \in c..d /\ j - c + 1 \in 1..(e - 1)
        BY <1>2, <2>2, <3>2
      <4> QED BY <1>5, <2>1, <4>1
    <3> QED BY <1>2, <3>1, <3>2
  <2>5. Table = Trimmed(SubSeq(p, c, k - 1))
    <3> DEFINE y == e - 1
    <3>1. 1 \in 1..(d - c + 2) /\ y \in (1 - 1)..(d - c + 1) /\ c + 1 - 1 = c /\ c + y - 1 = k - 1
      BY <1>2, <2>2
    <3>2. c \in 1..Len(p)+1 /\ d \in (c - 1)..Len(p)
      BY <1>2
    <3> HIDE DEF y
    <3>3. SubSeq(entry, 1, y) = SubSeq(p, c + 1 - 1, c + y - 1)
      BY <1>1, <3>1, <3>2, PartOfPart
    <3> QED BY <3>1, <3>3 DEF Table, y
  <2>6. Name = Trimmed(SubSeq(p, k + 1, d))
    <3> DEFINE x == e + 1
               y == d - c + 1
    <3>1. x \in 1..(d - c + 2) /\ y \in (x - 1)..(d - c + 1) /\ c + x - 1 = k + 1 /\ c + y - 1 = d
      BY <1>2, <2>2
    <3>2. c \in 1..Len(p)+1 /\ d \in (c - 1)..Len(p)
      BY <1>2
    <3> HIDE DEF x, y
    <3>3. SubSeq(entry, x, y) = SubSeq(p, c + x - 1, c + y - 1)
      BY <1>1, <3>1, <3>2, PartOfPart
    <3> QED BY <1>4, <3>1, <3>3 DEF Name, x, y
  <2> HIDE DEF k, e
  <2>7. \A t, n : Says(p, t, n) <=> /\ Surrounds(SubSeq(p, 1, k - 1), t)
                                   /\ Surrounds(SubSeq(p, k + 1, Len(p)), n)
    BY <2>2, <2>3, <2>4, SaysAt
  <2>8. k \in Nat /\ k - 1 \in Nat /\ k + 1 \in Nat /\ c \in Nat /\ d \in Nat
    BY <1>2, <2>2
  <2>9. \/ /\ Table # << >> /\ Table \in Seq(S) /\ Surrounds(SubSeq(p, 1, k - 1), Table)
        \/ Table = << >> /\ \A t \in Words(p) : ~Surrounds(SubSeq(p, 1, k - 1), t)
    <3>1. c \in 1..Len(p)+1 /\ k - 1 \in (c - 1)..Len(p)
      BY <1>2, <2>2
    <3>2. 1 \in 1..Len(p)+1 /\ k - 1 \in (1 - 1)..Len(p)
      BY <1>2, <2>2
    <3>3. CASE (\A j \in c..(k - 1) : p[j] \in Trailing) /\ Table = << >>
      <4>1. \A j \in 1..(k - 1) : j \in 1..(c - 1) \/ j \in c..(k - 1)
        BY <1>2, <2>8
      <4>2. \A j \in 1..(k - 1) : p[j] \in Trailing
        BY <1>0, <1>3, <3>3, <4>1
      <4>3. \A t \in Words(p) : t \in Seq(S) /\ t # << >>
        BY WordIs
      <4>4. \A t \in Words(p) : ~Surrounds(SubSeq(p, 1, k - 1), t)
        BY <3>2, <4>2, <4>3, BlankSurroundsNothing
      <4> QED BY <3>3, <4>4
    <3>4. CASE \E x, y \in c..(k - 1) : Within(p, c, k - 1, x, y) /\ Table = SubSeq(p, x, y)
      <4>1. PICK x, y \in c..(k - 1) : Within(p, c, k - 1, x, y) /\ Table = SubSeq(p, x, y)
        BY <3>4
      <4> DEFINE v == k - 1
      <4>2. 1 \in Nat /\ v \in Nat /\ 1 <= c /\ v <= v /\ \A j \in (v + 1)..v : FALSE
        BY <2>8
      <4>3. Within(p, 1, v, x, y)
        <5>1. Within(p, c, v, x, y)
          BY <4>1
        <5> HIDE DEF v
        <5> QED BY <1>3, <2>8, <4>2, <5>1, Widened
      <4> QED BY <3>2, <4>1, <4>3, WithinSurrounds
    <3> QED BY <2>5, <3>1, <3>3, <3>4, TrimmedPart
  <2>10. \/ /\ Name # << >> /\ Name \in Seq(S) /\ Surrounds(SubSeq(p, k + 1, Len(p)), Name)
         \/ Name = << >> /\ \A n \in Words(p) : ~Surrounds(SubSeq(p, k + 1, Len(p)), n)
    <3>1. k + 1 \in 1..Len(p)+1 /\ d \in ((k + 1) - 1)..Len(p)
      BY <1>2, <2>2
    <3>2. Len(p) \in ((k + 1) - 1)..Len(p)
      BY <1>2, <2>2
    <3>3. CASE (\A j \in (k + 1)..d : p[j] \in Trailing) /\ Name = << >>
      <4>1. \A j \in (k + 1)..Len(p) : j \in (k + 1)..d \/ j \in (d + 1)..Len(p)
        BY <1>2, <2>8
      <4>2. \A j \in (k + 1)..Len(p) : p[j] \in Trailing
        BY <1>3, <3>3, <4>1
      <4>3. \A n \in Words(p) : n \in Seq(S) /\ n # << >>
        BY WordIs
      <4>4. \A n \in Words(p) : ~Surrounds(SubSeq(p, k + 1, Len(p)), n)
        BY <3>1, <3>2, <4>2, <4>3, BlankSurroundsNothing
      <4> QED BY <3>3, <4>4
    <3>4. CASE \E x, y \in (k + 1)..d : Within(p, k + 1, d, x, y) /\ Name = SubSeq(p, x, y)
      <4>1. PICK x, y \in (k + 1)..d : Within(p, k + 1, d, x, y) /\ Name = SubSeq(p, x, y)
        BY <3>4
      <4>2. k + 1 <= k + 1 /\ d <= Len(p) /\ \A j \in (k + 1)..((k + 1) - 1) : FALSE
        BY <1>2, <2>8
      <4>3. Within(p, k + 1, Len(p), x, y)
        BY <1>2, <1>3, <2>8, <4>1, <4>2, Widened
      <4> QED BY <3>1, <3>2, <4>1, <4>3, WithinSurrounds
    <3> QED BY <2>6, <3>1, <3>3, <3>4, TrimmedPart
  <2>11. Malformed <=> Table = << >> \/ Name = << >>
    BY <1>7 DEF Malformed
  <2> QED BY <2>7, <2>9, <2>10, <2>11
<1> QED BY <1>6, <1>7

(* An entry is empty exactly when its piece is blank.                      *)
LEMMA BlankEntry ==
  ASSUME NEW S, NEW p \in Seq(S)
  PROVE  Trimmed(p) = << >> <=> ToSet(p) \subseteq Trailing
<1>1. CASE (\A k \in 1..Len(p) : p[k] \in Trailing) /\ Trimmed(p) = << >>
  BY <1>1 DEF ToSet
<1>2. CASE \E c, d \in 1..Len(p) : Within(p, 1, Len(p), c, d) /\ Trimmed(p) = SubSeq(p, c, d)
  <2>1. PICK c, d \in 1..Len(p) : Within(p, 1, Len(p), c, d) /\ Trimmed(p) = SubSeq(p, c, d)
    BY <1>2
  <2>2. p[d] \notin Trailing /\ d \in DOMAIN p
    BY <2>1 DEF Within
  <2>3. SubSeq(p, c, d) # << >>
    <3>1. 1 \in 1..Len(p)+1 /\ Len(p) \in (1 - 1)..Len(p)
      OBVIOUS
    <3> QED BY <2>1, <3>1, WithinSurrounds
  <2> QED BY <2>1, <2>2, <2>3 DEF ToSet
<1> QED BY <1>1, <1>2, TrimmedIs

(***************************************************************************)
(* The pieces of a text.                                                   *)
(***************************************************************************)
Cuts(t) == { 0, Len(t) + 1 } \cup { k \in DOMAIN t : t[k] \in Separators }

EndOf(t, a) == CHOOSE b \in Cuts(t) : b > a /\ \A c \in Cuts(t) : c > a => b <= c

PieceFrom(t, a) == SubSeq(t, a + 1, EndOf(t, a) - 1)

Starts(t) == { a \in Cuts(t) \ { Len(t) + 1 } : ~(ToSet(PieceFrom(t, a)) \subseteq Trailing) }

Before(t, x) == { b \in Starts(t) : b < x }

(* These are the cuts and pieces Pieces is made of.                        *)
LEMMA PiecesAre ==
  Pieces = [ k \in 1..Cardinality(Starts(input.text)) |->
               PieceFrom(input.text, CHOOSE a \in Starts(input.text) :
                                       Cardinality(Before(input.text, a)) = k - 1) ]
  BY DEF Pieces, Starts, PieceFrom, EndOf, Cuts, Before

(* The cuts are places of the text, or its two ends.                       *)
LEMMA CutsAre ==
  ASSUME NEW S, NEW t \in Seq(S)
  PROVE  /\ Len(t) \in Nat /\ Cuts(t) \subseteq 0..(Len(t) + 1)
         /\ 0 \in Cuts(t) /\ Len(t) + 1 \in Cuts(t)
  BY DEF Cuts

(* The end of a piece is a cut after its start, and the first.             *)
LEMMA EndIs ==
  ASSUME NEW S, NEW t \in Seq(S), NEW a \in Cuts(t), a <= Len(t)
  PROVE  /\ EndOf(t, a) \in Cuts(t) /\ EndOf(t, a) > a
         /\ \A c \in Cuts(t) : c > a => EndOf(t, a) <= c
<1> DEFINE I == { c \in Cuts(t) : c > a }
<1>1. Len(t) \in Nat /\ Cuts(t) \subseteq 0..(Len(t) + 1) /\ Len(t) + 1 \in Cuts(t)
  BY CutsAre
<1>2. I \in SUBSET (1..(Len(t) + 1)) /\ I # {} /\ Len(t) + 1 \in Nat
  BY <1>1
<1>3. \E k \in I : \A l \in I : k <= l
  <2> DEFINE n == Len(t) + 1
  <2>1. n \in Nat /\ I \in SUBSET (1..n) /\ I # {}
    BY <1>2
  <2> HIDE DEF I, n
  <2> QED BY <2>1, LeastIndex
<1>4. \E b \in Cuts(t) : b > a /\ \A c \in Cuts(t) : c > a => b <= c
  BY <1>3
<1> QED BY <1>4 DEF EndOf

(* It is the only such cut.                                                *)
LEMMA EndUnique ==
  ASSUME NEW S, NEW t \in Seq(S), NEW a \in Cuts(t), a <= Len(t),
         NEW b \in Cuts(t), b > a, \A c \in Cuts(t) : c > a => b <= c
  PROVE  EndOf(t, a) = b
<1>1. Len(t) \in Nat /\ Cuts(t) \subseteq 0..(Len(t) + 1)
  BY CutsAre
<1>2. /\ EndOf(t, a) \in Cuts(t) /\ EndOf(t, a) > a
      /\ \A c \in Cuts(t) : c > a => EndOf(t, a) <= c
  BY EndIs
<1>3. EndOf(t, a) <= b /\ b <= EndOf(t, a)
  BY <1>2
<1>4. EndOf(t, a) \in Int /\ b \in Int
  BY <1>1, <1>2
<1> QED BY <1>3, <1>4

(* A piece is a part of the text.                                          *)
LEMMA PieceIs ==
  ASSUME NEW S, NEW t \in Seq(S), NEW a \in Cuts(t), a <= Len(t)
  PROVE  PieceFrom(t, a) \in Seq(S)
<1>1. Len(t) \in Nat /\ Cuts(t) \subseteq 0..(Len(t) + 1) /\ EndOf(t, a) \in Cuts(t) /\ EndOf(t, a) > a
  BY CutsAre, EndIs
<1> DEFINE u == a + 1
           v == EndOf(t, a) - 1
<1>2. u \in 1..Len(t)+1 /\ v \in (u - 1)..Len(t)
  BY <1>1
<1> HIDE DEF u, v
<1>3. SubSeq(t, u, v) \in Seq(S)
  BY <1>2, PartIs
<1> QED BY <1>3 DEF u, v, PieceFrom

(* The first piece of what is still to be parsed, and what then is.        *)
LEMMA NextPiece ==
  ASSUME NEW S, NEW t \in Seq(S), NEW a \in Cuts(t),
         rest = SubSeq(t, a + 1, Len(t)), rest # << >>
  PROVE  /\ a <= Len(t)
         /\ SubSeq(rest, 1, EntryLength) = PieceFrom(t, a)
         /\ SubSeq(rest, EntryLength + 2, Len(rest)) = SubSeq(t, EndOf(t, a) + 1, Len(t))
<1>1. Len(t) \in Nat /\ a \in 0..(Len(t) + 1) /\ Cuts(t) \subseteq 0..(Len(t) + 1) /\ Len(t) + 1 \in Cuts(t)
  BY CutsAre
<1>2. a < Len(t)
  <2>1. CASE Len(t) < a + 1
    <3>1. a + 1 \in Int /\ Len(t) \in Int
      BY <1>1
    <3> QED BY <2>1, <3>1, SubSeqEmpty
  <2> QED BY <1>1, <2>1
<1> DEFINE u == a + 1
           v == Len(t)
<1>3. u \in 1..Len(t)+1 /\ v \in (u - 1)..Len(t) /\ v - u + 1 = Len(t) - a
  BY <1>1, <1>2
<1>4. /\ rest \in Seq(S) /\ Len(rest) = Len(t) - a
      /\ \A k \in 1..(Len(t) - a) : rest[k] = t[u + k - 1]
  <2> HIDE DEF u
  <2> QED BY <1>3, PartIs DEF u
<1>5. \A k \in 1..(Len(t) - a) : rest[k] = t[a + k]
  BY <1>1, <1>4
<1> DEFINE I == { k \in 1..Len(rest) : rest[k] \in Separators }
           E == EntryLength
<1>6. E = IF (IF I # {} THEN Min(I) ELSE 0) = 0 THEN Len(rest) ELSE (IF I # {} THEN Min(I) ELSE 0) - 1
  BY DEF EntryLength, SelectInSeq
<1>7. \A c \in Cuts(t) : c > a => c = Len(t) + 1 \/ c - a \in I
  <2> SUFFICES ASSUME NEW c \in Cuts(t), c > a, c # Len(t) + 1 PROVE c - a \in I
    OBVIOUS
  <2>1. c \in DOMAIN t /\ t[c] \in Separators /\ c \in 0..(Len(t) + 1)
    BY <1>1 DEF Cuts
  <2>2. c - a \in 1..(Len(t) - a) /\ a + (c - a) = c
    BY <1>1, <2>1
  <2>3. rest[c - a] = t[c]
    BY <1>5, <2>2
  <2> QED BY <1>4, <2>1, <2>2, <2>3
<1>8. \A k \in I : a + k \in Cuts(t)
  <2> SUFFICES ASSUME NEW k \in I PROVE a + k \in Cuts(t)
    OBVIOUS
  <2>1. k \in 1..(Len(t) - a)
    BY <1>4
  <2>2. rest[k] = t[a + k] /\ rest[k] \in Separators
    BY <1>5, <2>1
  <2>3. a + k \in DOMAIN t
    BY <1>1, <2>1
  <2> QED BY <2>2, <2>3 DEF Cuts
<1>9. E \in 0..(Len(t) - a) /\ EndOf(t, a) = a + E + 1
  <2>1. CASE I = {}
    <3>1. E = Len(t) - a
      BY <1>4, <1>6, <2>1
    <3>2. \A c \in Cuts(t) : c > a => Len(t) + 1 <= c
      <4> HIDE DEF I
      <4> QED BY <1>1, <1>7, <2>1
    <3>3. EndOf(t, a) = Len(t) + 1
      BY <1>1, <1>2, <3>2, EndUnique
    <3> QED BY <1>1, <1>2, <3>1, <3>3
  <2>2. CASE I # {}
    <3> DEFINE m == Min(I)
    <3>1. m \in I /\ \A k \in I : m <= k
      <4>1. I \in SUBSET (1..Len(rest)) /\ Len(rest) \in Nat
        BY <1>4
      <4> HIDE DEF I
      <4> QED BY <2>2, <4>1, FirstOf
    <3>2. m \in 1..(Len(t) - a)
      BY <1>4, <3>1
    <3>3. E = m - 1
      <4>1. m # 0
        <5> HIDE DEF m
        <5> QED BY <3>2
      <4>2. E = IF m = 0 THEN Len(rest) ELSE m - 1
        BY <1>6, <2>2
      <4> HIDE DEF m, E
      <4> QED BY <4>1, <4>2
    <3> HIDE DEF m, I, E
    <3>4. a + m \in Cuts(t) /\ a + m > a
      BY <1>1, <1>8, <3>1, <3>2
    <3>5. \A c \in Cuts(t) : c > a => a + m <= c
      <4> SUFFICES ASSUME NEW c \in Cuts(t), c > a PROVE a + m <= c
        OBVIOUS
      <4>1. CASE c = Len(t) + 1
        BY <1>1, <3>2, <4>1
      <4>2. CASE c - a \in I
        <5>1. m <= c - a /\ c \in Int
          BY <1>1, <3>1, <4>2
        <5> QED BY <1>1, <3>2, <5>1
      <4> QED BY <1>7, <4>1, <4>2
    <3>6. EndOf(t, a) = a + m
      BY <1>1, <1>2, <3>4, <3>5, EndUnique
    <3> QED BY <1>1, <3>2, <3>3, <3>6
  <2> QED BY <2>1, <2>2
<1> HIDE DEF E, I
<1>10. SubSeq(rest, 1, E) = PieceFrom(t, a)
  <2>1. 1 \in 1..(v - u + 2) /\ E \in (1 - 1)..(v - u + 1) /\ u + 1 - 1 = u
    BY <1>1, <1>2, <1>9
  <2>2. u + E - 1 = EndOf(t, a) - 1
    BY <1>1, <1>9
  <2>3. rest = SubSeq(t, u, v)
    OBVIOUS
  <2> HIDE DEF u, v
  <2>4. SubSeq(SubSeq(t, u, v), 1, E) = SubSeq(t, u + 1 - 1, u + E - 1)
    BY <1>3, <2>1, PartOfPart
  <2> QED BY <2>1, <2>2, <2>3, <2>4 DEF PieceFrom, u
<1>11. SubSeq(rest, E + 2, Len(rest)) = SubSeq(t, EndOf(t, a) + 1, Len(t))
  <2> DEFINE m == E + 2
             n == Len(rest)
  <2>1. CASE E = Len(t) - a
    <3>1. m \in Int /\ n \in Int /\ n < m /\ EndOf(t, a) + 1 \in Int /\ Len(t) < EndOf(t, a) + 1
      BY <1>1, <1>4, <1>9, <2>1
    <3> HIDE DEF m, n
    <3>2. SubSeq(rest, m, n) = << >> /\ SubSeq(t, EndOf(t, a) + 1, Len(t)) = << >>
      BY <1>1, <3>1, SubSeqEmpty
    <3> QED BY <3>2 DEF m, n
  <2>2. CASE E # Len(t) - a
    <3>1. m \in 1..(v - u + 2) /\ n \in (m - 1)..(v - u + 1)
      BY <1>1, <1>2, <1>4, <1>9, <2>2
    <3>2. u + m - 1 = EndOf(t, a) + 1 /\ u + n - 1 = Len(t)
      <4>1. a \in Int /\ E \in Int /\ Len(t) \in Int
        BY <1>1, <1>9
      <4>2. EndOf(t, a) = a + E + 1 /\ n = Len(t) - a
        BY <1>4, <1>9
      <4> HIDE DEF n
      <4> QED BY <4>1, <4>2
    <3>4. rest = SubSeq(t, u, v)
      OBVIOUS
    <3> HIDE DEF u, v, m, n
    <3>3. SubSeq(SubSeq(t, u, v), m, n) = SubSeq(t, u + m - 1, u + n - 1)
      BY <1>3, <3>1, PartOfPart
    <3> QED BY <3>2, <3>3, <3>4 DEF m, n
  <2> QED BY <2>1, <2>2
<1>12. a <= Len(t)
  BY <1>1, <1>2
<1> QED BY <1>10, <1>11, <1>12 DEF E

(* There are finitely many pieces.                                         *)
LEMMA StartsFinite ==
  ASSUME NEW S, NEW t \in Seq(S)
  PROVE  /\ Starts(t) \subseteq 0..Len(t) /\ Cardinality(Starts(t)) \in Nat /\ IsFiniteSet(Starts(t))
         /\ \A x : IsFiniteSet(Before(t, x)) /\ Cardinality(Before(t, x)) \in Nat
<1>1. Len(t) \in Nat /\ Cuts(t) \subseteq 0..(Len(t) + 1)
  BY CutsAre
<1>2. Starts(t) \subseteq 0..Len(t)
  BY <1>1 DEF Starts
<1>3. IsFiniteSet(0..Len(t))
  BY <1>1, FS_Interval
<1>4. IsFiniteSet(Starts(t))
  BY <1>2, <1>3, FS_Subset
<1>5. ASSUME NEW x PROVE IsFiniteSet(Before(t, x)) /\ Cardinality(Before(t, x)) \in Nat
  <2>1. Before(t, x) \in SUBSET Starts(t)
    BY DEF Before
  <2>2. IsFiniteSet(Before(t, x))
    BY <1>4, <2>1, FS_Subset
  <2> QED BY <2>2, FS_CardinalityType
<1> QED BY <1>2, <1>4, <1>5, FS_CardinalityType

(* The pieces before the end of a piece are those before it, and itself if *)
(* it is not blank.                                                        *)
LEMMA BeforeEnd ==
  ASSUME NEW S, NEW t \in Seq(S), NEW a \in Cuts(t), a <= Len(t)
  PROVE  /\ a \in Starts(t) <=> ~(ToSet(PieceFrom(t, a)) \subseteq Trailing)
         /\ a \notin Starts(t) => Before(t, EndOf(t, a)) = Before(t, a)
         /\ a \in Starts(t) => /\ Before(t, EndOf(t, a)) = Before(t, a) \cup {a}
                               /\ Cardinality(Before(t, EndOf(t, a))) = Cardinality(Before(t, a)) + 1
<1>1. Len(t) \in Nat /\ Cuts(t) \subseteq 0..(Len(t) + 1) /\ a \in Int
  BY CutsAre
<1>2. /\ EndOf(t, a) \in Cuts(t) /\ EndOf(t, a) > a
      /\ \A c \in Cuts(t) : c > a => EndOf(t, a) <= c
  BY EndIs
<1>3. EndOf(t, a) \in Int
  BY <1>1, <1>2
<1>4. a \in Starts(t) <=> ~(ToSet(PieceFrom(t, a)) \subseteq Trailing)
  BY <1>1 DEF Starts
<1>5. \A b \in Starts(t) : b \in Cuts(t) /\ b \in Int
  BY <1>1 DEF Starts
<1>6. \A b \in Starts(t) : b < EndOf(t, a) <=> b < a \/ b = a
  BY <1>1, <1>2, <1>3, <1>5
<1>7. a \notin Starts(t) => Before(t, EndOf(t, a)) = Before(t, a)
  BY <1>6 DEF Before
<1>8. a \in Starts(t) => Before(t, EndOf(t, a)) = Before(t, a) \cup {a}
  BY <1>6 DEF Before
<1>9. a \notin Before(t, a) /\ IsFiniteSet(Before(t, a))
  <2>1. a \notin Before(t, a)
    BY <1>1 DEF Before
  <2> QED BY <2>1, StartsFinite
<1>10. Cardinality(Before(t, a) \cup {a}) = Cardinality(Before(t, a)) + 1
  BY <1>9, FS_AddElement
<1> QED BY <1>4, <1>7, <1>8, <1>10

(* The pieces before a piece tell which it is.                             *)
LEMMA CountsTell ==
  ASSUME NEW S, NEW t \in Seq(S), NEW a \in Starts(t)
  PROVE  /\ Cardinality(Before(t, a)) + 1 \in 1..Cardinality(Starts(t))
         /\ \A b \in Starts(t) : Cardinality(Before(t, b)) = Cardinality(Before(t, a)) => b = a
<1>1. \A b \in Starts(t) : b \in Int
  BY StartsFinite
<1>2. \A b : IsFiniteSet(Before(t, b)) /\ Cardinality(Before(t, b)) \in Nat
  BY StartsFinite
<1>3. ASSUME NEW b \in Starts(t), NEW T, IsFiniteSet(T), Before(t, b) \cup {b} \subseteq T
      PROVE  Cardinality(Before(t, b)) + 1 <= Cardinality(T)
  <2>1. b \notin Before(t, b)
    BY <1>1 DEF Before
  <2>2. Cardinality(Before(t, b) \cup {b}) = Cardinality(Before(t, b)) + 1
    BY <1>2, <2>1, FS_AddElement
  <2> QED BY <1>3, <2>2, FS_Subset
<1>4. \A b, c \in Starts(t) : b < c => Before(t, b) \cup {b} \subseteq Before(t, c)
  <2> SUFFICES ASSUME NEW b \in Starts(t), NEW c \in Starts(t), b < c, NEW x \in Before(t, b) \cup {b}
               PROVE  x \in Before(t, c)
    OBVIOUS
  <2>1. x \in Starts(t) /\ (x < b \/ x = b)
    BY DEF Before
  <2>2. x < c
    BY <1>1, <2>1
  <2> QED BY <2>1, <2>2 DEF Before
<1>5. \A b, c \in Starts(t) : b < c => Cardinality(Before(t, b)) + 1 <= Cardinality(Before(t, c))
  BY <1>2, <1>3, <1>4
<1>6. ASSUME NEW b \in Starts(t), Cardinality(Before(t, b)) = Cardinality(Before(t, a)) PROVE b = a
  <2>1. ~(b < a) /\ ~(a < b)
    BY <1>2, <1>5, <1>6
  <2> QED BY <1>1, <2>1
<1>7. Before(t, a) \cup {a} \subseteq Starts(t)
  BY DEF Before
<1>8. Cardinality(Before(t, a)) + 1 <= Cardinality(Starts(t))
  BY <1>3, <1>7, StartsFinite
<1>9. Cardinality(Before(t, a)) \in Nat /\ Cardinality(Starts(t)) \in Nat
  BY StartsFinite
<1> QED BY <1>6, <1>8, <1>9

-----------------------------------------------------------------------------
(***************************************************************************)
(* The map that is parsed.                                                 *)
(***************************************************************************)
(* m holds what the pieces of t before x say.                              *)
Held(t, m, x) ==
  /\ m \in Seq([ table : Seq(Characters), name : Seq(Characters) ])
  /\ Len(m) = Cardinality(Before(t, x))
  /\ \A k \in 1..Len(m) :
       /\ m[k].table # << >> /\ m[k].name # << >>
       /\ \E a \in Before(t, x) : /\ Cardinality(Before(t, a)) = k - 1
                                 /\ Says(PieceFrom(t, a), m[k].table, m[k].name)

(* At every cut the map holds what was said before it.                     *)
ParsedSoFar ==
  /\ stage \in { "reading", "unreadable" } => map = << >>
  /\ stage = "parsing" =>
       \E a \in Cuts(input.text) : /\ rest = SubSeq(input.text, a + 1, Len(input.text))
                                  /\ Held(input.text, map, a)
  /\ stage = "entry" =>
       \E a \in Cuts(input.text) :
         /\ a <= Len(input.text) /\ entry = Trimmed(PieceFrom(input.text, a))
         /\ rest = SubSeq(input.text, EndOf(input.text, a) + 1, Len(input.text))
         /\ Held(input.text, map, a)
  /\ stage = "parsed" => Held(input.text, map, Len(input.text) + 1)
  /\ stage = "malformed" =>
       \E a \in Starts(input.text) :
         LET p == PieceFrom(input.text, a) IN \A t, n \in Words(p) : ~Says(p, t, n)

(* Nothing is said before the first piece.                                 *)
LEMMA HeldFirst ==
  ASSUME NEW S, NEW t \in Seq(S)
  PROVE  Held(t, << >>, 0)
<1>1. Before(t, 0) = {}
  BY StartsFinite DEF Before
<1>2. Len(<< >>) = Cardinality(Before(t, 0))
  BY <1>1, FS_EmptySet
<1> QED BY <1>2 DEF Held

(* A blank piece says nothing.                                             *)
LEMMA HeldBlank ==
  ASSUME NEW S, NEW t \in Seq(S), NEW a \in Cuts(t), a <= Len(t), NEW m, Held(t, m, a),
         ToSet(PieceFrom(t, a)) \subseteq Trailing
  PROVE  Held(t, m, EndOf(t, a))
<1>1. Before(t, EndOf(t, a)) = Before(t, a)
  BY BeforeEnd
<1> QED BY <1>1 DEF Held

(* What the next piece says comes at the end of the map.                   *)
LEMMA HeldNext ==
  ASSUME NEW S, NEW t \in Seq(S), NEW a \in Starts(t), NEW m, Held(t, m, a),
         NEW e \in [ table : Seq(Characters), name : Seq(Characters) ],
         e.table # << >>, e.name # << >>, Says(PieceFrom(t, a), e.table, e.name)
  PROVE  Held(t, Append(m, e), EndOf(t, a))
<1> DEFINE E == [ table : Seq(Characters), name : Seq(Characters) ]
           w == Append(m, e)
           b == EndOf(t, a)
<1>1. a \in Cuts(t) /\ a <= Len(t)
  BY CutsAre, StartsFinite DEF Starts
<1>2. Before(t, b) = Before(t, a) \cup {a} /\ Cardinality(Before(t, b)) = Cardinality(Before(t, a)) + 1
  BY <1>1, BeforeEnd
<1>3. m \in Seq(E) /\ Len(m) = Cardinality(Before(t, a)) /\ Len(m) \in Nat
  BY DEF Held
<1>4. w \in Seq(E) /\ Len(w) = Len(m) + 1 /\ w[Len(m) + 1] = e /\ \A k \in 1..Len(m) : w[k] = m[k]
  BY <1>3
<1>5. \A k \in 1..Len(m) :
        /\ m[k].table # << >> /\ m[k].name # << >>
        /\ \E c \in Before(t, a) : /\ Cardinality(Before(t, c)) = k - 1
                                  /\ Says(PieceFrom(t, c), m[k].table, m[k].name)
  BY DEF Held
<1>6. ASSUME NEW k \in 1..Len(w)
      PROVE  /\ w[k].table # << >> /\ w[k].name # << >>
             /\ \E c \in Before(t, b) : /\ Cardinality(Before(t, c)) = k - 1
                                       /\ Says(PieceFrom(t, c), w[k].table, w[k].name)
  <2>1. CASE k = Len(m) + 1
    <3>1. w[k] = e /\ k - 1 = Cardinality(Before(t, a))
      BY <1>3, <1>4, <2>1
    <3> HIDE DEF w, b
    <3>2. a \in Before(t, b)
      BY <1>2
    <3> QED BY <3>1, <3>2
  <2>2. CASE k \in 1..Len(m)
    <3>1. w[k] = m[k]
      BY <1>4, <2>2
    <3> HIDE DEF w, b
    <3> QED BY <1>2, <1>5, <2>2, <3>1
  <2> QED BY <1>3, <1>4, <2>1, <2>2
<1>7. Len(w) = Cardinality(Before(t, b))
  BY <1>2, <1>3, <1>4
<1> HIDE DEF w, b
<1>8. Held(t, w, b)
  BY <1>4, <1>6, <1>7 DEF Held
<1> QED BY <1>8 DEF w, b

(* At the end of the text all the pieces were before.                      *)
LEMMA HeldLast ==
  ASSUME NEW S, NEW t \in Seq(S), NEW a \in Cuts(t), SubSeq(t, a + 1, Len(t)) = << >>,
         NEW m, Held(t, m, a)
  PROVE  Held(t, m, Len(t) + 1)
<1>1. Len(t) \in Nat /\ a \in 0..(Len(t) + 1) /\ Cuts(t) \subseteq 0..(Len(t) + 1)
  BY CutsAre
<1>2. a >= Len(t)
  <2>1. CASE a < Len(t)
    <3> DEFINE u == a + 1
    <3>1. u \in 1..Len(t)+1 /\ Len(t) \in (u - 1)..Len(t) /\ Len(t) - u + 1 > 0
      BY <1>1, <2>1
    <3> HIDE DEF u
    <3>2. Len(SubSeq(t, u, Len(t))) = Len(t) - u + 1
      BY <3>1, PartIs
    <3>3. SubSeq(t, u, Len(t)) = << >>
      BY DEF u
    <3> QED BY <3>1, <3>2, <3>3
  <2> QED BY <1>1, <2>1
<1>3. CASE a = Len(t) + 1
  BY <1>3
<1>4. CASE a = Len(t)
  <2>1. a <= Len(t)
    BY <1>1, <1>4
  <2>2. EndOf(t, a) = Len(t) + 1
    <3>1. EndOf(t, a) \in Cuts(t) /\ EndOf(t, a) > a
      BY <2>1, EndIs
    <3> QED BY <1>1, <1>4, <3>1
  <2>3. PieceFrom(t, a) = << >>
    <3>1. a + 1 \in Int /\ Len(t) \in Int /\ Len(t) < a + 1 /\ Len(t) + 1 - 1 = Len(t)
      BY <1>1, <1>4
    <3> QED BY <2>2, <3>1, SubSeqEmpty DEF PieceFrom
  <2>4. ToSet(PieceFrom(t, a)) \subseteq Trailing
    BY <2>3 DEF ToSet
  <2> QED BY <2>1, <2>2, <2>4, HeldBlank
<1> QED BY <1>1, <1>2, <1>3, <1>4

(* Before anything is parsed the map is empty.                             *)
LEMMA ParsedStarts == ParseInit => ParsedSoFar
<1> SUFFICES ASSUME ParseInit PROVE ParsedSoFar
  OBVIOUS
<1>1. input.text \in Seq(Characters) /\ map = << >>
  BY InputsAssumption DEF ParseInit
<1>2. stage \in { "reading", "parsing" } /\ (stage = "parsing" => rest = input.text)
  BY DEF ParseInit
<1>3. 0 \in Cuts(input.text) /\ Held(input.text, map, 0)
  BY <1>1, CutsAre, HeldFirst
<1>4. SubSeq(input.text, 0 + 1, Len(input.text)) = input.text
  <2>1. SubSeq(input.text, 1, Len(input.text)) = input.text
    BY <1>1, SubSeqFull
  <2> QED BY <2>1
<1> QED BY <1>1, <1>2, <1>3, <1>4 DEF ParsedSoFar

(* The entry that is added is what its piece says.                         *)
LEMMA EntryAdded ==
  ASSUME input \in Inputs, ParsedSoFar, ParseEntry
  PROVE  ParsedSoFar'
<1> DEFINE t == input.text
<1>1. t \in Seq(Characters)
  BY InputsAssumption
<1>2. /\ stage = "entry" /\ stage' = "parsing" /\ UNCHANGED << input, rest >>
      /\ entry # << >> => ~Malformed
      /\ map' = IF entry = << >> THEN map ELSE Append(map, Entry(Table, Name))
  BY DEF ParseEntry
<1>3. PICK a \in Cuts(t) :
        /\ a <= Len(t) /\ entry = Trimmed(PieceFrom(t, a))
        /\ rest = SubSeq(t, EndOf(t, a) + 1, Len(t)) /\ Held(t, map, a)
  BY <1>2 DEF ParsedSoFar
<1>4. PieceFrom(t, a) \in Seq(Characters) /\ EndOf(t, a) \in Cuts(t)
  BY <1>1, <1>3, PieceIs, EndIs
<1>5. Held(t, map', EndOf(t, a))
  <2>1. CASE entry = << >>
    <3>1. ToSet(PieceFrom(t, a)) \subseteq Trailing
      BY <1>3, <1>4, <2>1, BlankEntry
    <3> HIDE DEF t
    <3> QED BY <1>1, <1>2, <1>3, <2>1, <3>1, HeldBlank
  <2>2. CASE entry # << >>
    <3>1. a \in Starts(t)
      <4>1. ~(ToSet(PieceFrom(t, a)) \subseteq Trailing)
        BY <1>3, <1>4, <2>2, BlankEntry
      <4> HIDE DEF t
      <4> QED BY <1>1, <1>3, <4>1, BeforeEnd
    <3>2. /\ Says(PieceFrom(t, a), Table, Name)
          /\ Table \in Seq(Characters) /\ Table # << >>
          /\ Name \in Seq(Characters) /\ Name # << >>
      BY <1>2, <1>3, <1>4, <2>2, EntrySays
    <3> DEFINE e == Entry(Table, Name)
    <3>3. /\ e \in [ table : Seq(Characters), name : Seq(Characters) ]
          /\ e.table = Table /\ e.name = Name
      BY <3>2 DEF Entry
    <3>4. map' = Append(map, e)
      BY <1>2, <2>2
    <3> HIDE DEF t, e
    <3> QED BY <1>1, <1>3, <3>1, <3>2, <3>3, <3>4, HeldNext
  <2> QED BY <2>1, <2>2
<1> QED BY <1>2, <1>3, <1>4, <1>5 DEF ParsedSoFar

(* Every step keeps the map what the pieces say.                           *)
LEMMA ParsedKeeps ==
  ASSUME BufferOK, ParsedSoFar, [ParseNext]_allvars
  PROVE  ParsedSoFar'
<1> DEFINE t == input.text
<1>1. input \in Inputs /\ t \in Seq(Characters) /\ Len(t) \in Nat
  BY InputsAssumption DEF BufferOK
<1>2. CASE Fill \/ Unreadable
  BY <1>2 DEF Fill, Unreadable, vars, ParsedSoFar
<1>3. CASE EndOfFile
  <2>1. /\ stage = "reading" /\ stage' = "parsing" /\ UNCHANGED << map, input >>
        /\ rest' = SubSeq(t, 1, len) /\ map = << >>
    BY <1>3 DEF EndOfFile, vars, ParsedSoFar
  <2>2. len = Len(t)
    <3>1. input.kind = "file" /\ len \in 0..Len(t) /\ cap \in Nat /\ len < cap /\ Got = 0
      BY <1>3, <2>1 DEF BufferOK, EndOfFile
    <3> QED BY <1>1, <3>1 DEF Got
  <2>3. 0 \in Cuts(t) /\ Held(t, map, 0) /\ rest' = SubSeq(t, 0 + 1, Len(t))
    BY <1>1, <2>1, <2>2, CutsAre, HeldFirst
  <2> QED BY <2>1, <2>3 DEF ParsedSoFar
<1>4. CASE Isolate
  <2>1. /\ stage = "parsing" /\ stage' = "entry" /\ rest # << >> /\ UNCHANGED << map, input >>
        /\ entry' = Trimmed(SubSeq(rest, 1, EntryLength))
        /\ rest' = SubSeq(rest, EntryLength + 2, Len(rest))
    BY <1>4 DEF Isolate, vars
  <2>2. PICK a \in Cuts(t) : rest = SubSeq(t, a + 1, Len(t)) /\ Held(t, map, a)
    BY <2>1 DEF ParsedSoFar
  <2>3. /\ a <= Len(t) /\ SubSeq(rest, 1, EntryLength) = PieceFrom(t, a)
        /\ SubSeq(rest, EntryLength + 2, Len(rest)) = SubSeq(t, EndOf(t, a) + 1, Len(t))
    <3> HIDE DEF t
    <3> QED BY <1>1, <2>1, <2>2, NextPiece
  <2> QED BY <2>1, <2>2, <2>3 DEF ParsedSoFar
<1>5. CASE Reject
  <2>1. stage = "entry" /\ entry # << >> /\ Malformed /\ stage' = "malformed" /\ UNCHANGED input
    BY <1>5 DEF Reject
  <2>2. PICK a \in Cuts(t) : a <= Len(t) /\ entry = Trimmed(PieceFrom(t, a))
    BY <2>1 DEF ParsedSoFar
  <2> DEFINE p == PieceFrom(t, a)
  <2>3. p \in Seq(Characters)
    BY <1>1, <2>2, PieceIs
  <2>4. a \in Starts(t)
    <3>1. ~(ToSet(p) \subseteq Trailing)
      BY <2>1, <2>2, <2>3, BlankEntry
    <3> HIDE DEF t
    <3> QED BY <1>1, <2>2, <3>1, BeforeEnd
  <2>5. \A w, n \in Words(p) : ~Says(p, w, n)
    BY <2>1, <2>2, <2>3, EntrySays
  <2> QED BY <2>1, <2>4, <2>5 DEF ParsedSoFar
<1>6. CASE ParseEntry
  BY <1>1, <1>6, EntryAdded
<1>7. CASE EndOfText
  <2>1. /\ stage = "parsing" /\ stage' = "parsed" /\ rest = << >> /\ UNCHANGED << map, input >>
    BY <1>7 DEF EndOfText, vars
  <2>2. PICK a \in Cuts(t) : rest = SubSeq(t, a + 1, Len(t)) /\ Held(t, map, a)
    BY <2>1 DEF ParsedSoFar
  <2>3. Held(t, map, Len(t) + 1)
    <3> HIDE DEF t
    <3> QED BY <1>1, <2>1, <2>2, HeldLast
  <2> QED BY <2>1, <2>3 DEF ParsedSoFar
<1>8. CASE Resolution \/ UNCHANGED allvars
  <2>1. UNCHANGED << map, input, rest, entry, stage >>
    BY <1>8 DEF Resolution, Next, NoLabelGiven, Scan, Decide, allvars, vars, parsevars
  <2> QED BY <2>1 DEF ParsedSoFar
<1> QED BY <1>2, <1>3, <1>4, <1>5, <1>6, <1>7, <1>8 DEF ParseNext, Parse

(* When the text has been parsed the map is what all of its pieces say,    *)
(* and when it is rejected one of them says nothing.                       *)
LEMMA ParsedIsWritten ==
  ASSUME input \in Inputs, ParsedSoFar
  PROVE  ParsedAsWritten
<1> DEFINE t == input.text
           N == Cardinality(Starts(t))
           at(k) == CHOOSE a \in Starts(t) : Cardinality(Before(t, a)) = k - 1
<1>1. t \in Seq(Characters)
  BY InputsAssumption
<1>2. Pieces = [ k \in 1..N |-> PieceFrom(t, at(k)) ]
  BY PiecesAre
<1>3. N \in Nat /\ Starts(t) \subseteq 0..Len(t) /\ \A a : Cardinality(Before(t, a)) \in Nat
  <2> HIDE DEF t
  <2> QED BY <1>1, StartsFinite
<1>4. ASSUME NEW a \in Starts(t), NEW k \in Nat, Cardinality(Before(t, a)) = k - 1
      PROVE  k \in 1..N /\ at(k) = a
  <2>1. /\ Cardinality(Before(t, a)) + 1 \in 1..N
        /\ \A b \in Starts(t) : Cardinality(Before(t, b)) = Cardinality(Before(t, a)) => b = a
    <3> HIDE DEF t
    <3> QED BY <1>1, CountsTell
  <2>2. Cardinality(Before(t, a)) + 1 = k
    BY <1>4
  <2> QED BY <1>4, <2>1, <2>2
<1>5. ASSUME stage = "parsed"
      PROVE  /\ Len(map) = Len(Pieces)
             /\ \A k \in DOMAIN map :
                  /\ Says(Pieces[k], map[k].table, map[k].name)
                  /\ map[k].table # << >> /\ map[k].name # << >>
  <2>1. Held(t, map, Len(t) + 1)
    BY <1>5 DEF ParsedSoFar
  <2>2. Before(t, Len(t) + 1) = Starts(t)
    <3>1. Len(t) \in Nat
      BY <1>1
    <3> HIDE DEF t, N
    <3> QED BY <1>3, <3>1 DEF Before
  <2>3. Len(map) = N /\ DOMAIN map = 1..N
    BY <2>1, <2>2 DEF Held
  <2>4. Len(Pieces) = N
    <3> HIDE DEF N, at, t
    <3> QED BY <1>2, <1>3
  <2>5. ASSUME NEW k \in 1..N
        PROVE  /\ Says(Pieces[k], map[k].table, map[k].name)
               /\ map[k].table # << >> /\ map[k].name # << >>
    <3>1. PICK a \in Starts(t) : /\ Cardinality(Before(t, a)) = k - 1
                                /\ Says(PieceFrom(t, a), map[k].table, map[k].name)
      BY <2>1, <2>2, <2>3 DEF Held
    <3>2. at(k) = a
      BY <1>4, <3>1
    <3> HIDE DEF at, t, N
    <3>3. Pieces[k] = PieceFrom(t, a)
      BY <1>2, <3>2
    <3>4. map[k].table # << >> /\ map[k].name # << >>
      BY <2>1, <2>3 DEF Held
    <3> QED BY <3>1, <3>3, <3>4
  <2> HIDE DEF N
  <2> QED BY <2>3, <2>4, <2>5
<1>6. ASSUME stage = "malformed"
      PROVE  \E k \in DOMAIN Pieces : \A w, n \in Words(Pieces[k]) : ~Says(Pieces[k], w, n)
  <2>1. PICK a \in Starts(t) :
          LET p == PieceFrom(t, a) IN \A w, n \in Words(p) : ~Says(p, w, n)
    BY <1>6 DEF ParsedSoFar
  <2> DEFINE k == Cardinality(Before(t, a)) + 1
  <2>2. k \in Nat /\ Cardinality(Before(t, a)) = k - 1
    BY <1>3
  <2>3. k \in 1..N /\ at(k) = a
    <3> HIDE DEF k
    <3> QED BY <1>4, <2>2
  <2> HIDE DEF k, at, t, N
  <2>4. k \in DOMAIN Pieces /\ Pieces[k] = PieceFrom(t, a)
    BY <1>2, <2>3
  <2> QED BY <2>1, <2>4
<1> QED BY <1>5, <1>6 DEF ParsedAsWritten

(* For any text, and any file however it is read, the map holds in order   *)
(* just what the entries say, and is refused only for one that says        *)
(* nothing.                                                                *)
THEOREM MapIsAsWritten == ParseSpec => []ParsedAsWritten
<1>1. ParseInit => BufferOK /\ ParsedSoFar
  BY BufferStarts, ParsedStarts
<1>2. BufferOK /\ ParsedSoFar /\ [ParseNext]_allvars => (BufferOK /\ ParsedSoFar)'
  BY BufferKeeps, ParsedKeeps
<1>3. BufferOK /\ ParsedSoFar => ParsedAsWritten
  BY ParsedIsWritten DEF BufferOK
<1> QED BY <1>1, <1>2, <1>3, PTL DEF ParseSpec
=============================================================================
