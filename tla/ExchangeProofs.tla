--------------------------- MODULE ExchangeProofs ---------------------------
(***************************************************************************)
(* What Exchange promises of files and of what becomes of them, for every  *)
(* number and order of records, every size and every limit.                *)
(***************************************************************************)
EXTENDS Exchange, FiniteSetTheorems, SequenceTheorems, TLAPS

-----------------------------------------------------------------------------
(* Induction, and folds.                                                   *)

\* A set of numbers with 0, and with the successor of each of its members, is
\* that of all of them.
LEMMA SetInduction ==
  ASSUME NEW D \in SUBSET Nat, 0 \in D, \A n \in D : n + 1 \in D
  PROVE  D = Nat
<1> SUFFICES ASSUME NEW x \in Nat, x \notin D PROVE FALSE
  OBVIOUS
<1> DEFINE E == {y \in Nat : y \notin D /\ y <= x}
           f == [y \in E |-> y - 1]
<1>1. E \in SUBSET Nat /\ \A y \in E : y <= x
  OBVIOUS
<1>2. IsFiniteSet(E)
  <2> HIDE DEF E
  <2>1. QED
    BY <1>1, FS_BoundedSetOfNaturals
<1>3. x \in E
  OBVIOUS
<1>4. /\ IsFiniteSet(E \ {x}) /\ Cardinality(E) \in Nat
      /\ Cardinality(E \ {x}) = Cardinality(E) - 1
  <2> HIDE DEF E
  <2>1. QED
    BY <1>2, <1>3, FS_RemoveElement, FS_CardinalityType
<1>5. f \in [E -> E \ {x}]
  <2>1. ASSUME NEW y \in E PROVE y - 1 \in E \ {x}
    <3>1. y # 0 /\ y - 1 \in Nat
      OBVIOUS
    <3>2. y - 1 \notin D
      BY <3>1
    <3>3. QED
      BY <3>1, <3>2
  <2>2. QED
    BY <2>1
<1>6. \E y, z \in E : y # z /\ f[y] = f[z]
  <2> HIDE DEF E, f
  <2>1. Cardinality(E \ {x}) < Cardinality(E)
    BY <1>4
  <2>2. QED
    BY <1>2, <1>4, <1>5, <2>1, FS_PigeonHole
<1>7. QED
  BY <1>6

LEMMA MaxOfLast ==
  ASSUME NEW m \in Nat, NEW s \in SUBSET (1..m), m \in s
  PROVE  Max(s) = m
<1>1. \A y \in s : m >= y
  OBVIOUS
<1>2. \A x \in s : (\A y \in s : x >= y) => x = m
  OBVIOUS
<1>3. QED
  BY <1>1, <1>2 DEF Max

LEMMA MaxOfSome ==
  ASSUME NEW m \in Nat, NEW s \in SUBSET (1..m), s # {}
  PROVE  Max(s) \in s
<1> DEFINE Has(j) == \A t \in SUBSET (1..j) : t # {} => \E x \in t : \A y \in t : x >= y
           D == {j \in Nat : Has(j)}
<1>1. Has(0)
  <2>1. 1..0 = {}
    OBVIOUS
  <2>2. QED
    BY <2>1
<1>2. ASSUME NEW j \in Nat, Has(j) PROVE Has(j + 1)
  <2> SUFFICES ASSUME NEW t \in SUBSET (1..(j + 1)), t # {}
               PROVE  \E x \in t : \A y \in t : x >= y
    OBVIOUS
  <2>1. CASE j + 1 \in t
    BY <2>1
  <2>2. CASE j + 1 \notin t
    <3>1. t \in SUBSET (1..j)
      BY <2>2
    <3>2. QED
      BY <1>2, <3>1
  <2>3. QED
    BY <2>1, <2>2
<1>3. Has(m)
  <2> HIDE DEF Has
  <2>1. D \in SUBSET Nat /\ 0 \in D /\ \A j \in D : j + 1 \in D
    BY <1>1, <1>2
  <2>2. D = Nat
    <3> HIDE DEF D
    <3>1. QED
      BY <2>1, SetInduction
  <2>3. QED
    BY <2>2
<1>4. PICK x \in s : \A y \in s : x >= y
  BY <1>3
<1>5. QED
  BY <1>4 DEF Max

\* What a fold goes by: a value for each set of positions, from the value for
\* all but the last of them.  step[i] is what position i does.
Iterates(A, base, n, step, iter) ==
    /\ iter \in [SUBSET (1..n) -> A]
    /\ \A s \in SUBSET (1..n) :
          iter[s] = IF s = {} THEN base ELSE step[Max(s)][iter[s \ {Max(s)}]]

LEMMA FoldExists ==
  ASSUME NEW A, NEW base \in A, NEW n \in Nat, NEW step \in [1..n -> [A -> A]]
  PROVE  \E iter : Iterates(A, base, n, step, iter)
<1> DEFINE P(m, iter) ==
             \A s \in SUBSET (1..m) :
               iter[s] = IF s = {} THEN base ELSE step[Max(s)][iter[s \ {Max(s)}]]
           Has(m) == \E iter \in [SUBSET (1..m) -> A] : P(m, iter)
           D == {m \in Nat : m <= n => Has(m)}
<1>1. Has(0)
  <2> DEFINE iter == [s \in SUBSET (1..0) |-> base]
  <2>1. 1..0 = {}
    OBVIOUS
  <2>2. iter \in [SUBSET (1..0) -> A] /\ P(0, iter)
    BY <2>1
  <2>3. QED
    BY <2>2
<1>2. ASSUME NEW m \in Nat, Has(m), m + 1 <= n PROVE Has(m + 1)
  <2>1. PICK old \in [SUBSET (1..m) -> A] : P(m, old)
    BY <1>2
  <2> DEFINE new == [s \in SUBSET (1..(m + 1)) |->
                       IF m + 1 \in s THEN step[m + 1][old[s \ {m + 1}]] ELSE old[s]]
  <2>2. /\ m + 1 \in 1..n /\ m + 1 \in Nat
        /\ \A s \in SUBSET (1..(m + 1)) : s \ {m + 1} \in SUBSET (1..m)
        /\ \A s \in SUBSET (1..(m + 1)) : m + 1 \notin s => s \in SUBSET (1..m)
        /\ \A s \in SUBSET (1..m) : s \in SUBSET (1..(m + 1)) /\ m + 1 \notin s
    BY <1>2
  <2>3. step[m + 1] \in [A -> A]
    BY <2>2
  <2>4. new \in [SUBSET (1..(m + 1)) -> A]
    BY <2>2, <2>3
  <2>5. \A s \in SUBSET (1..m) : new[s] = old[s]
    BY <2>2
  <2>6. ASSUME NEW s \in SUBSET (1..(m + 1))
        PROVE  new[s] = IF s = {} THEN base ELSE step[Max(s)][new[s \ {Max(s)}]]
    <3>1. CASE m + 1 \in s
      <4>1. Max(s) = m + 1
        BY <2>2, <3>1, MaxOfLast
      <4>2. new[s] = step[m + 1][old[s \ {m + 1}]] /\ s # {}
        BY <3>1
      <4>3. new[s \ {m + 1}] = old[s \ {m + 1}]
        BY <2>2, <2>5
      <4> HIDE DEF new
      <4>4. QED
        BY <4>1, <4>2, <4>3
    <3>2. CASE m + 1 \notin s
      <4>1. s \in SUBSET (1..m) /\ s \ {Max(s)} \in SUBSET (1..m)
        BY <2>2, <3>2
      <4>2. new[s] = old[s] /\ new[s \ {Max(s)}] = old[s \ {Max(s)}]
        BY <2>5, <4>1
      <4> HIDE DEF new
      <4>3. QED
        BY <2>1, <4>1, <4>2
    <3>3. QED
      BY <3>1, <3>2
  <2> HIDE DEF new
  <2>7. P(m + 1, new)
    BY <2>6
  <2> HIDE DEF P
  <2>8. QED
    BY <2>4, <2>7
<1>3. Has(n)
  <2> HIDE DEF Has
  <2>1. D \in SUBSET Nat /\ 0 \in D
    BY <1>1
  <2>2. \A m \in D : m + 1 \in D
    BY <1>2
  <2>3. D = Nat
    <3> HIDE DEF D
    <3>1. QED
      BY <2>1, <2>2, SetInduction
  <2>4. QED
    BY <2>3
<1>4. QED
  BY <1>3 DEF Iterates

\* The positions up to i, as a fold takes them: the last is i.
LEMMA Positions ==
  ASSUME NEW n \in Nat, NEW i \in 1..n
  PROVE  /\ 1..i \in SUBSET (1..n) /\ 1..i # {} /\ Max(1..i) = i
         /\ (1..i) \ {i} = 1..(i - 1)
<1>1. i \in Nat /\ i \in 1..i
  OBVIOUS
<1>2. 1..i \in SUBSET (1..n) /\ 1..i \in SUBSET (1..i)
  OBVIOUS
<1>3. (1..i) \ {i} = 1..(i - 1)
  OBVIOUS
<1>4. Max(1..i) = i
  BY <1>1, <1>2, MaxOfLast
<1>5. QED
  BY <1>1, <1>2, <1>3, <1>4

\* What holds at 0, and at i + 1 when it holds at i, holds up to n.
LEMMA UpTo ==
  ASSUME NEW n \in Nat, NEW G, 0 \in G,
         \A i \in 1..n : i - 1 \in G => i \in G
  PROVE  \A i \in 0..n : i \in G
<1> DEFINE D == {m \in Nat : m <= n => m \in G}
<1>1. D \in SUBSET Nat /\ 0 \in D
  OBVIOUS
<1>2. ASSUME NEW m \in D PROVE m + 1 \in D
  <2> SUFFICES ASSUME m + 1 <= n PROVE m + 1 \in G
    OBVIOUS
  <2>1. m + 1 \in 1..n /\ (m + 1) - 1 = m /\ m \in G
    OBVIOUS
  <2>2. QED
    BY <2>1
<1>3. D = Nat
  <2> HIDE DEF D
  <2>1. QED
    BY <1>1, <1>2, SetInduction
<1>4. QED
  BY <1>3

\* The values at the positions 0..n, one from the other.
Sequence(A, base, n, step, g) ==
    /\ g \in [0..n -> A] /\ g[0] = base
    /\ \A i \in 1..n : g[i] = step[i][g[i - 1]]

\* The last of them is v.
ReachesIn(A, base, n, step, v) == \E g : Sequence(A, base, n, step, g) /\ g[n] = v

\* iter goes by step wherever it is known to have a value in A.
Unfolds(A, base, n, step, iter) ==
    /\ iter[{}] = base
    /\ \A s \in SUBSET (1..n) : (s # {} /\ iter[s \ {Max(s)}] \in A) =>
          iter[s] = step[Max(s)][iter[s \ {Max(s)}]]

LEMMA FoldSteps ==
  ASSUME NEW A, NEW base \in A, NEW n \in Nat, NEW step \in [1..n -> [A -> A]],
         NEW iter, Unfolds(A, base, n, step, iter)
  PROVE  ReachesIn(A, base, n, step, iter[1..n])
<1> DEFINE g == [i \in 0..n |-> iter[1..i]]
           G == {i \in 0..n : g[i] \in A}
<1>1. g[0] = base
  <2>1. 1..0 = {} /\ 0 \in 0..n
    OBVIOUS
  <2>2. QED
    BY <2>1 DEF Unfolds
<1>2. ASSUME NEW i \in 1..n, g[i - 1] \in A
      PROVE  g[i] = step[i][g[i - 1]] /\ g[i] \in A
  <2>1. i \in 0..n /\ i - 1 \in 0..n
    OBVIOUS
  <2>2. g[i] = iter[1..i] /\ g[i - 1] = iter[1..(i - 1)]
    BY <2>1
  <2>3. iter[1..i] = step[i][iter[1..(i - 1)]]
    BY <1>2, <2>2, Positions DEF Unfolds
  <2> HIDE DEF g
  <2>4. step[i][g[i - 1]] \in A
    BY <1>2
  <2>5. QED
    BY <2>2, <2>3, <2>4
<1>3. \A i \in 0..n : g[i] \in A
  <2>1. 0 \in G
    BY <1>1
  <2>2. ASSUME NEW i \in 1..n, i - 1 \in G PROVE i \in G
    <3>1. g[i - 1] \in A /\ i \in 0..n
      BY <2>2
    <3>2. g[i] \in A
      BY <1>2, <3>1
    <3>3. QED
      BY <3>1, <3>2
  <2>3. \A i \in 0..n : i \in G
    <3> HIDE DEF G
    <3>1. QED
      BY <2>1, <2>2, UpTo
  <2>4. QED
    BY <2>3
<1>4. \A i \in 1..n : g[i] = step[i][g[i - 1]]
  <2> SUFFICES ASSUME NEW i \in 1..n PROVE g[i] = step[i][g[i - 1]]
    OBVIOUS
  <2>1. i - 1 \in 0..n
    OBVIOUS
  <2> HIDE DEF g
  <2>2. QED
    BY <1>2, <1>3, <2>1
<1>5. g \in [0..n -> A]
  BY <1>3
<1>6. g[n] = iter[1..n]
  OBVIOUS
<1> HIDE DEF g
<1>7. QED
  BY <1>1, <1>4, <1>5, <1>6 DEF ReachesIn, Sequence

-----------------------------------------------------------------------------
(* What the folds of the model compute, one element after the other.       *)

\* The size of the records of a file.
BytesStep(recs) ==
    [i \in 1..Len(recs) |->
        [a \in Nat |-> a + RecordOverhead + Size[recs[i].key] + Size[recs[i].ct]
                         + Size[recs[i].body]]]

LEMMA RecordBytesSteps ==
  ASSUME NEW recs \in Seq(EncodedRecord)
  PROVE  ReachesIn(Nat, 0, Len(recs), BytesStep(recs), RecordBytes(recs))
<1> DEFINE n == Len(recs)
           step == BytesStep(recs)
           op(a, e) == a + RecordOverhead + Size[e.key] + Size[e.ct] + Size[e.body]
           IsFold(f) == f = [s \in SUBSET DOMAIN recs |->
                               IF s = {} THEN 0 ELSE op(f[s \ {Max(s)}], recs[Max(s)])]
           iter == CHOOSE f : IsFold(f)
<1>1. n \in Nat /\ DOMAIN recs = 1..n /\ {} \in SUBSET (1..n) /\ 1..n \in SUBSET (1..n)
  OBVIOUS
<1>2. RecordBytes(recs) = iter[1..n]
  BY <1>1 DEF RecordBytes, FoldLeft, MapThenFoldSet
<1>3. ASSUME NEW a \in Nat, NEW i \in 1..n PROVE op(a, recs[i]) \in Nat
  <2>1. recs[i] \in EncodedRecord
    BY <1>1
  <2>2. /\ Size[recs[i].key] \in Nat /\ Size[recs[i].ct] \in Nat
        /\ Size[recs[i].body] \in Nat
    BY <2>1, SizeAssumption DEF EncodedRecord
  <2>3. RecordOverhead \in Nat
    BY DEF RecordOverhead
  <2>4. \A b, c, d, e \in Nat : a + b + c + d + e \in Nat
    OBVIOUS
  <2> HIDE DEF n
  <2>5. QED
    BY <2>2, <2>3, <2>4
<1>4. \A i \in 1..n : \A a \in Nat : step[i][a] = op(a, recs[i])
  BY DEF BytesStep
<1>5. step \in [1..n -> [Nat -> Nat]]
  BY <1>3 DEF BytesStep
<1> HIDE DEF op, step, n
<1>6. \E f : IsFold(f)
  <2>1. PICK f : Iterates(Nat, 0, n, step, f)
    BY <1>1, <1>5, FoldExists
  <2>2. ASSUME NEW s \in SUBSET (1..n), s # {}
        PROVE  f[s] = op(f[s \ {Max(s)}], recs[Max(s)])
    <3>1. Max(s) \in 1..n
      BY <1>1, <2>2, MaxOfSome
    <3>2. f[s \ {Max(s)}] \in Nat
      BY <2>1 DEF Iterates
    <3>3. f[s] = step[Max(s)][f[s \ {Max(s)}]]
      BY <2>1, <2>2 DEF Iterates
    <3>4. QED
      BY <1>4, <3>1, <3>2, <3>3
  <2>3. IsFold(f)
    BY <1>1, <2>1, <2>2 DEF Iterates
  <2>4. QED
    BY <2>3
<1>7. IsFold(iter)
  <2> HIDE DEF IsFold
  <2>1. QED
    BY <1>6
<1> HIDE DEF iter
<1>8. iter[{}] = 0
  BY <1>1, <1>7
<1>9. ASSUME NEW s \in SUBSET (1..n), s # {}, iter[s \ {Max(s)}] \in Nat
      PROVE  iter[s] = step[Max(s)][iter[s \ {Max(s)}]]
  <2>1. Max(s) \in 1..n
    BY <1>1, <1>9, MaxOfSome
  <2>2. iter[s] = op(iter[s \ {Max(s)}], recs[Max(s)])
    BY <1>1, <1>7, <1>9
  <2>3. QED
    BY <1>4, <1>9, <2>1, <2>2
<1>10. Unfolds(Nat, 0, n, step, iter)
  BY <1>8, <1>9 DEF Unfolds
<1> HIDE DEF IsFold
<1>11. ReachesIn(Nat, 0, n, step, iter[1..n])
  BY <1>1, <1>5, <1>10, FoldSteps
<1>12. QED
  BY <1>2, <1>11 DEF n, step

\* The keys of a userspace that are exported.
SortedStep(space) ==
    [i \in 1..Len(KeySeq) |->
        [ks \in Seq(Keys) |-> IF space[KeySeq[i]] # NoRec THEN Append(ks, KeySeq[i]) ELSE ks]]

LEMMA SortedKeysSteps ==
  ASSUME NEW space
  PROVE  ReachesIn(Seq(Keys), <<>>, Len(KeySeq), SortedStep(space), SortedKeys(space))
<1> DEFINE n == Len(KeySeq)
           step == SortedStep(space)
           op(ks, k) == IF space[k] # NoRec THEN Append(ks, k) ELSE ks
           IsFold(f) == f = [s \in SUBSET DOMAIN KeySeq |->
                               IF s = {} THEN <<>> ELSE op(f[s \ {Max(s)}], KeySeq[Max(s)])]
           iter == CHOOSE f : IsFold(f)
<1>1. n \in Nat /\ DOMAIN KeySeq = 1..n /\ {} \in SUBSET (1..n) /\ 1..n \in SUBSET (1..n)
  BY RecordAssumption
<1>2. SortedKeys(space) = iter[1..n]
  BY <1>1 DEF SortedKeys, FoldLeft, MapThenFoldSet
<1>3. ASSUME NEW ks \in Seq(Keys), NEW i \in 1..n PROVE op(ks, KeySeq[i]) \in Seq(Keys)
  <2>1. KeySeq[i] \in Keys
    BY RecordAssumption
  <2>2. Append(ks, KeySeq[i]) \in Seq(Keys)
    BY <2>1
  <2>3. QED
    BY <2>2
<1>4. \A i \in 1..n : \A ks \in Seq(Keys) : step[i][ks] = op(ks, KeySeq[i])
  BY DEF SortedStep
<1>5. step \in [1..n -> [Seq(Keys) -> Seq(Keys)]]
  BY <1>3 DEF SortedStep
<1>0. <<>> \in Seq(Keys)
  OBVIOUS
<1> HIDE DEF op, step, n
<1>6. \E f : IsFold(f)
  <2>1. PICK f : Iterates(Seq(Keys), <<>>, n, step, f)
    BY <1>0, <1>1, <1>5, FoldExists
  <2>2. ASSUME NEW s \in SUBSET (1..n), s # {}
        PROVE  f[s] = op(f[s \ {Max(s)}], KeySeq[Max(s)])
    <3>1. Max(s) \in 1..n
      BY <1>1, <2>2, MaxOfSome
    <3>2. f[s \ {Max(s)}] \in Seq(Keys)
      BY <2>1 DEF Iterates
    <3>3. f[s] = step[Max(s)][f[s \ {Max(s)}]]
      BY <2>1, <2>2 DEF Iterates
    <3>4. QED
      BY <1>4, <3>1, <3>2, <3>3
  <2>3. IsFold(f)
    BY <1>1, <2>1, <2>2 DEF Iterates
  <2>4. QED
    BY <2>3
<1>7. IsFold(iter)
  <2> HIDE DEF IsFold
  <2>1. QED
    BY <1>6
<1> HIDE DEF iter
<1>8. iter[{}] = <<>>
  BY <1>1, <1>7
<1>9. ASSUME NEW s \in SUBSET (1..n), s # {}, iter[s \ {Max(s)}] \in Seq(Keys)
      PROVE  iter[s] = step[Max(s)][iter[s \ {Max(s)}]]
  <2>1. Max(s) \in 1..n
    BY <1>1, <1>9, MaxOfSome
  <2>2. iter[s] = op(iter[s \ {Max(s)}], KeySeq[Max(s)])
    BY <1>1, <1>7, <1>9
  <2>3. QED
    BY <1>4, <1>9, <2>1, <2>2
<1>10. Unfolds(Seq(Keys), <<>>, n, step, iter)
  BY <1>8, <1>9 DEF Unfolds
<1> HIDE DEF IsFold
<1>11. ReachesIn(Seq(Keys), <<>>, n, step, iter[1..n])
  BY <1>0, <1>1, <1>5, <1>10, FoldSteps
<1>12. QED
  BY <1>2, <1>11 DEF n, step

\* How far an import is: the records of the userspace, the version of the
\* snapshot, and the counts of the report.
SpaceRecords == [Keys -> KVRecord \cup {NoRec}]

Progress == [space: SpaceRecords, version: Nat, imported: Nat, replaced: Nat, skipped: Nat]

LEMMA ImportRecordType ==
  ASSUME NEW a \in Progress, NEW e \in EncodedRecord, NEW mode
  PROVE  ImportRecord(a, e, mode) \in Progress
<1> DEFINE rec == [ct |-> e.ct, vt |-> ValueType[e.ct], body |-> e.body,
                   ver |-> a.version + 1, created |-> e.created]
           kept == [a EXCEPT !.skipped = @ + 1]
           new(m) == [space |-> [a.space EXCEPT ![e.key] = rec],
                      version |-> a.version + 1, imported |-> a.imported + 1,
                      replaced |-> a.replaced + m, skipped |-> a.skipped]
<1>1. rec \in KVRecord
  BY SizeAssumption DEF KVRecord, EncodedRecord, Progress
<1>2. kept \in Progress
  BY DEF Progress
<1>3. [a.space EXCEPT ![e.key] = rec] \in SpaceRecords
  <2> HIDE DEF rec
  <2>1. QED
    BY <1>1 DEF Progress, SpaceRecords
<1>4. ASSUME NEW m \in Nat PROVE new(m) \in Progress
  <2> HIDE DEF rec
  <2>1. QED
    BY <1>3 DEF Progress
<1>5. \/ ImportRecord(a, e, mode) = kept
      \/ \E m \in {0, 1} : ImportRecord(a, e, mode) = new(m)
  <2>1. CASE a.space[e.key] # NoRec
    BY <2>1 DEF ImportRecord
  <2>2. CASE a.space[e.key] = NoRec
    BY <2>2 DEF ImportRecord
  <2>3. QED
    BY <2>1, <2>2
<1> HIDE DEF kept, new
<1>6. QED
  BY <1>2, <1>4, <1>5

\* An import.
ImportBase(space, ver, mode) ==
    [space |-> IF mode = "replace" THEN NoRecords ELSE space,
     version |-> ver, imported |-> 0, replaced |-> 0, skipped |-> 0]

ImportStep(recs, mode) ==
    [i \in 1..Len(recs) |-> [a \in Progress |-> ImportRecord(a, recs[i], mode)]]

LEMMA ImportBaseType ==
  ASSUME NEW space \in SpaceRecords, NEW ver \in Nat, NEW mode
  PROVE  ImportBase(space, ver, mode) \in Progress
BY DEF ImportBase, Progress, SpaceRecords, NoRecords

LEMMA ImportSteps ==
  ASSUME NEW recs \in Seq(EncodedRecord), NEW space \in SpaceRecords, NEW ver \in Nat,
         NEW mode
  PROVE  ReachesIn(Progress, ImportBase(space, ver, mode), Len(recs),
                   ImportStep(recs, mode), ImportAll(space, ver, recs, mode))
<1> DEFINE n == Len(recs)
           base == ImportBase(space, ver, mode)
           step == ImportStep(recs, mode)
           op(a, e) == ImportRecord(a, e, mode)
           IsFold(f) == f = [s \in SUBSET DOMAIN recs |->
                               IF s = {} THEN base ELSE op(f[s \ {Max(s)}], recs[Max(s)])]
           iter == CHOOSE f : IsFold(f)
<1>1. n \in Nat /\ DOMAIN recs = 1..n /\ {} \in SUBSET (1..n) /\ 1..n \in SUBSET (1..n)
  OBVIOUS
<1>2. ImportAll(space, ver, recs, mode) = iter[1..n]
  BY <1>1 DEF ImportAll, ImportBase, FoldLeft, MapThenFoldSet
<1>3. ASSUME NEW a \in Progress, NEW i \in 1..n PROVE op(a, recs[i]) \in Progress
  <2>1. recs[i] \in EncodedRecord
    BY <1>1
  <2>2. QED
    BY <2>1, ImportRecordType
<1>4. \A i \in 1..n : \A a \in Progress : step[i][a] = op(a, recs[i])
  BY DEF ImportStep
<1>5. step \in [1..n -> [Progress -> Progress]]
  BY <1>3 DEF ImportStep
<1>0. base \in Progress
  BY ImportBaseType
<1> HIDE DEF op, step, n, base
<1>6. \E f : IsFold(f)
  <2>1. PICK f : Iterates(Progress, base, n, step, f)
    BY <1>0, <1>1, <1>5, FoldExists
  <2>2. ASSUME NEW s \in SUBSET (1..n), s # {}
        PROVE  f[s] = op(f[s \ {Max(s)}], recs[Max(s)])
    <3>1. Max(s) \in 1..n
      BY <1>1, <2>2, MaxOfSome
    <3>2. f[s \ {Max(s)}] \in Progress
      BY <2>1 DEF Iterates
    <3>3. f[s] = step[Max(s)][f[s \ {Max(s)}]]
      BY <2>1, <2>2 DEF Iterates
    <3>4. QED
      BY <1>4, <3>1, <3>2, <3>3
  <2>3. IsFold(f)
    BY <1>1, <2>1, <2>2 DEF Iterates
  <2>4. QED
    BY <2>3
<1>7. IsFold(iter)
  <2> HIDE DEF IsFold
  <2>1. QED
    BY <1>6
<1> HIDE DEF iter
<1>8. iter[{}] = base
  BY <1>1, <1>7
<1>9. ASSUME NEW s \in SUBSET (1..n), s # {}, iter[s \ {Max(s)}] \in Progress
      PROVE  iter[s] = step[Max(s)][iter[s \ {Max(s)}]]
  <2>1. Max(s) \in 1..n
    BY <1>1, <1>9, MaxOfSome
  <2>2. iter[s] = op(iter[s \ {Max(s)}], recs[Max(s)])
    BY <1>1, <1>7, <1>9
  <2>3. QED
    BY <1>4, <1>9, <2>1, <2>2
<1>10. Unfolds(Progress, base, n, step, iter)
  BY <1>8, <1>9 DEF Unfolds
<1> HIDE DEF IsFold
<1>11. ReachesIn(Progress, base, n, step, iter[1..n])
  BY <1>0, <1>1, <1>5, <1>10, FoldSteps
<1>12. QED
  BY <1>2, <1>11 DEF n, step, base

-----------------------------------------------------------------------------
(* What every such computation keeps.                                      *)

\* G[i] holds what may be reached at position i.
LEMMA ReachesKeeps ==
  ASSUME NEW A, NEW base \in A, NEW n \in Nat, NEW step, NEW v,
         ReachesIn(A, base, n, step, v),
         NEW G \in [0..n -> SUBSET A], base \in G[0],
         \A i \in 1..n : \A a \in G[i - 1] : step[i][a] \in G[i]
  PROVE  v \in G[n]
<1>1. PICK g : Sequence(A, base, n, step, g) /\ g[n] = v
  BY DEF ReachesIn
<1> DEFINE H == {i \in 0..n : g[i] \in G[i]}
<1>2. 0 \in H
  <2>1. 0 \in 0..n
    OBVIOUS
  <2>2. QED
    BY <1>1, <2>1 DEF Sequence
<1>3. ASSUME NEW i \in 1..n, i - 1 \in H PROVE i \in H
  <2>1. i \in 0..n /\ g[i - 1] \in G[i - 1]
    BY <1>3
  <2>2. g[i] = step[i][g[i - 1]]
    BY <1>1 DEF Sequence
  <2>3. QED
    BY <2>1, <2>2
<1>4. \A i \in 0..n : i \in H
  <2> HIDE DEF H
  <2>1. QED
    BY <1>2, <1>3, UpTo
<1>5. n \in 0..n
  OBVIOUS
<1>6. QED
  BY <1>1, <1>4, <1>5

\* Records with a key each occupy what Decode counts on.
LEMMA RecordBytesBound ==
  ASSUME NEW recs \in Seq(EncodedRecord), \A i \in DOMAIN recs : Size[recs[i].key] >= 1
  PROVE  /\ RecordBytes(recs) \in Nat
         /\ Len(recs) <= RecordBytes(recs) \div MinEncodedRecordLen
<1> DEFINE n == Len(recs)
           G == [i \in 0..n |-> {b \in Nat : b >= 72 * i}]
<1>1. n \in Nat /\ DOMAIN recs = 1..n
  OBVIOUS
<1>2. G \in [0..n -> SUBSET Nat] /\ 0 \in G[0]
  <2>1. 0 \in 0..n /\ 0 >= 72 * 0
    BY <1>1
  <2>2. QED
    BY <2>1
<1>3. ASSUME NEW i \in 1..n, NEW b \in G[i - 1] PROVE BytesStep(recs)[i][b] \in G[i]
  <2>1. i \in 0..n /\ i - 1 \in 0..n /\ b \in Nat /\ b >= 72 * (i - 1)
    BY <1>1
  <2>2. recs[i] \in EncodedRecord /\ Size[recs[i].key] >= 1
    BY <1>1
  <2>3. Size[recs[i].key] \in Nat /\ Size[recs[i].ct] \in Nat /\ Size[recs[i].body] \in Nat
    BY <2>2, SizeAssumption DEF EncodedRecord
  <2>4. RecordOverhead = 71
    BY DEF RecordOverhead
  <2> DEFINE next == b + RecordOverhead + Size[recs[i].key] + Size[recs[i].ct]
                       + Size[recs[i].body]
  <2>5. BytesStep(recs)[i][b] = next
    BY <2>1 DEF BytesStep
  <2>6. \A k, c, d \in Nat : k >= 1 => /\ b + 71 + k + c + d \in Nat
                                       /\ b + 71 + k + c + d >= 72 * i
    BY <2>1
  <2>7. next \in Nat /\ next >= 72 * i
    BY <2>2, <2>3, <2>4, <2>6
  <2> HIDE DEF next
  <2>8. QED
    BY <2>1, <2>5, <2>7
<1> HIDE DEF G
<1>4. ReachesIn(Nat, 0, n, BytesStep(recs), RecordBytes(recs))
  BY RecordBytesSteps
<1>5. RecordBytes(recs) \in G[n]
  BY <1>1, <1>2, <1>3, <1>4, ReachesKeeps
<1>6. RecordBytes(recs) \in Nat /\ RecordBytes(recs) >= 72 * n
  BY <1>1, <1>5 DEF G
<1>7. MinEncodedRecordLen = 72
  BY DEF MinEncodedRecordLen, RecordOverhead
<1>8. \A b \in Nat : b >= 72 * n => n <= b \div 72
  BY <1>1
<1>9. QED
  BY <1>6, <1>7, <1>8

LEMMA ToSetAppend ==
  ASSUME NEW S, NEW s \in Seq(S), NEW x \in S
  PROVE  ToSet(Append(s, x)) = ToSet(s) \cup {x}
<1> DEFINE n == Len(s)
           t == Append(s, x)
<1>1. n \in Nat /\ DOMAIN s = 1..n /\ DOMAIN t = 1..(n + 1)
  OBVIOUS
<1>2. t[n + 1] = x /\ \A i \in 1..n : t[i] = s[i]
  OBVIOUS
<1> HIDE DEF n, t
<1>3. 1..(n + 1) = 1..n \cup {n + 1}
  BY <1>1
<1>4. {t[i] : i \in 1..(n + 1)} = {t[i] : i \in 1..n} \cup {t[n + 1]}
  BY <1>3
<1>5. {t[i] : i \in 1..n} = {s[i] : i \in 1..n}
  BY <1>2
<1>6. ToSet(t) = {t[i] : i \in 1..(n + 1)} /\ ToSet(s) = {s[i] : i \in 1..n}
  BY <1>1 DEF ToSet
<1>7. ToSet(t) = ToSet(s) \cup {x}
  BY <1>2, <1>4, <1>5, <1>6
<1>8. QED
  BY <1>7 DEF t

\* An export has the keys of the userspace that have a record, and no others.
LEMMA SortedKeysPresent ==
  ASSUME NEW space
  PROVE  SortedKeys(space) \in Seq(Keys) /\ ToSet(SortedKeys(space)) = PresentIn(space)
<1> DEFINE n == Len(KeySeq)
           upto(i) == {KeySeq[j] : j \in {l \in 1..i : space[KeySeq[l]] # NoRec}}
           G == [i \in 0..n |-> {ks \in Seq(Keys) : ToSet(ks) = upto(i)}]
<1>1. n \in Nat /\ DOMAIN KeySeq = 1..n /\ \A i \in 1..n : KeySeq[i] \in Keys
  BY RecordAssumption
<1>2. <<>> \in Seq(Keys) /\ G \in [0..n -> SUBSET Seq(Keys)] /\ <<>> \in G[0]
  <2>1. upto(0) = {} /\ ToSet(<<>>) = {} /\ 0 \in 0..n
    BY <1>1 DEF ToSet
  <2>2. QED
    BY <2>1
<1>3. ASSUME NEW i \in 1..n, NEW ks \in G[i - 1] PROVE SortedStep(space)[i][ks] \in G[i]
  <2>1. i \in 0..n /\ i - 1 \in 0..n /\ ks \in Seq(Keys) /\ ToSet(ks) = upto(i - 1)
    BY <1>1
  <2>2. SortedStep(space)[i][ks] =
          IF space[KeySeq[i]] # NoRec THEN Append(ks, KeySeq[i]) ELSE ks
    BY <2>1 DEF SortedStep
  <2>3. 1..i = 1..(i - 1) \cup {i}
    BY <1>1
  <2>4. CASE space[KeySeq[i]] # NoRec
    <3>1. Append(ks, KeySeq[i]) \in Seq(Keys)
      BY <1>1, <2>1
    <3>2. ToSet(Append(ks, KeySeq[i])) = ToSet(ks) \cup {KeySeq[i]}
      BY <1>1, <2>1, ToSetAppend
    <3>3. upto(i) = upto(i - 1) \cup {KeySeq[i]}
      BY <2>3, <2>4
    <3> HIDE DEF upto
    <3>4. QED
      BY <2>1, <2>2, <2>4, <3>1, <3>2, <3>3
  <2>5. CASE space[KeySeq[i]] = NoRec
    <3>1. upto(i) = upto(i - 1)
      BY <2>3, <2>5
    <3> HIDE DEF upto
    <3>2. QED
      BY <2>1, <2>2, <2>5, <3>1
  <2>6. QED
    BY <2>4, <2>5
<1> HIDE DEF G
<1>4. ReachesIn(Seq(Keys), <<>>, n, SortedStep(space), SortedKeys(space))
  BY SortedKeysSteps
<1>5. SortedKeys(space) \in G[n]
  BY <1>1, <1>2, <1>3, <1>4, ReachesKeeps
<1>6. upto(n) = PresentIn(space)
  BY <1>1 DEF PresentIn, Keys, ToSet
<1>7. n \in 0..n
  BY <1>1
<1> HIDE DEF upto, n
<1>8. QED
  BY <1>5, <1>6, <1>7 DEF G

\* recs is what an export of space is made of.
ExportedAs(space, recs) ==
    /\ \A i \in DOMAIN recs :
          /\ recs[i].key \in Keys /\ space[recs[i].key] # NoRec
          /\ recs[i] = EncodeRecord(recs[i].key, space[recs[i].key])
    /\ \A k \in Keys : space[k] # NoRec => \E i \in DOMAIN recs : recs[i].key = k

LEMMA EncodeRecordType ==
  ASSUME NEW k \in Keys, NEW rec \in KVRecord
  PROVE  EncodeRecord(k, rec) \in EncodedRecord /\ EncodeRecord(k, rec).key = k
<1>1. Size[rec.ct] \in Nat
  BY SizeAssumption DEF KVRecord
<1>2. CtLenModulus \in Nat \ {0}
  BY DEF CtLenModulus
<1>3. Size[rec.ct] % CtLenModulus \in Nat
  BY <1>1, <1>2
<1>4. QED
  BY <1>3 DEF EncodeRecord, EncodedRecord, KVRecord

\* An export is the sealed sequence of the records of the userspace, each
\* encoded under its key.
LEMMA EncodeRecords ==
  ASSUME NEW space \in SpaceRecords
  PROVE  \E recs \in Seq(EncodedRecord) : Encode(space) = Seal(recs) /\ ExportedAs(space, recs)
<1> DEFINE ks == SortedKeys(space)
           recs == [i \in DOMAIN ks |-> EncodeRecord(ks[i], space[ks[i]])]
<1>1. ks \in Seq(Keys) /\ ToSet(ks) = PresentIn(space)
  BY SortedKeysPresent
<1>2. Encode(space) = Seal(recs)
  BY DEF Encode
<1> HIDE DEF ks
<1>3. Len(ks) \in Nat /\ DOMAIN ks = 1..Len(ks)
  BY <1>1
<1>4. ASSUME NEW i \in DOMAIN ks
      PROVE  /\ ks[i] \in Keys /\ space[ks[i]] # NoRec /\ recs[i].key = ks[i]
             /\ recs[i] \in EncodedRecord
             /\ recs[i] = EncodeRecord(ks[i], space[ks[i]])
  <2>1. ks[i] \in Keys /\ space[ks[i]] # NoRec
    BY <1>1 DEF ToSet, PresentIn
  <2>2. space[ks[i]] \in KVRecord
    BY <2>1 DEF SpaceRecords
  <2>3. recs[i] = EncodeRecord(ks[i], space[ks[i]])
    OBVIOUS
  <2> HIDE DEF recs
  <2>4. QED
    BY <2>1, <2>2, <2>3, EncodeRecordType
<1>5. DOMAIN recs = DOMAIN ks
  OBVIOUS
<1>6. recs \in Seq(EncodedRecord)
  <2>1. recs = [i \in 1..Len(ks) |-> recs[i]]
    BY <1>3
  <2> HIDE DEF recs
  <2>2. QED
    BY <1>3, <1>4, <2>1
<1>7. ASSUME NEW k \in Keys, space[k] # NoRec PROVE \E i \in DOMAIN ks : ks[i] = k
  BY <1>1, <1>7 DEF ToSet, PresentIn
<1> HIDE DEF recs
<1>8. ExportedAs(space, recs)
  BY <1>4, <1>5, <1>7 DEF ExportedAs
<1>9. QED
  BY <1>2, <1>6, <1>8

-----------------------------------------------------------------------------
(* What an import keeps.                                                   *)

SpaceLikePut(space) == \A k \in Keys : space[k] # NoRec => LikePut(k, space[k])

\* What the decoder lets through is stored as a PUT would have left it, under
\* a version not later than the snapshot's.
GoodProgress(a, ver) ==
    /\ SpaceLikePut(a.space)
    /\ \A k \in Keys : a.space[k] # NoRec => a.space[k].ver <= a.version
    /\ a.version = ver + a.imported

Skips(a, e, mode) == a.space[e.key] # NoRec /\ mode = "merge-skip"

\* The two things ImportRecord does with a record.
LEMMA ImportSkips ==
  ASSUME NEW a \in Progress, NEW e, NEW mode, Skips(a, e, mode)
  PROVE  ImportRecord(a, e, mode) = [a EXCEPT !.skipped = @ + 1]
BY DEF Skips, ImportRecord

\* What is stored for e after a.
StoredFor(a, e) ==
    [ct |-> e.ct, vt |-> ValueType[e.ct], body |-> e.body,
     ver |-> a.version + 1, created |-> e.created]

LEMMA ImportStores ==
  ASSUME NEW a \in Progress, NEW e \in EncodedRecord, NEW mode, ~Skips(a, e, mode)
  PROVE  /\ StoredFor(a, e) \in KVRecord
         /\ ImportRecord(a, e, mode).space = [a.space EXCEPT ![e.key] = StoredFor(a, e)]
         /\ ImportRecord(a, e, mode).version = a.version + 1
         /\ ImportRecord(a, e, mode).imported = a.imported + 1
         /\ ImportRecord(a, e, mode).replaced =
              a.replaced + (IF a.space[e.key] # NoRec THEN 1 ELSE 0)
         /\ ImportRecord(a, e, mode).skipped = a.skipped
<1>1. StoredFor(a, e) \in KVRecord
  BY SizeAssumption DEF KVRecord, EncodedRecord, Progress, StoredFor
<1>2. ImportRecord(a, e, mode) =
        [space |-> [a.space EXCEPT ![e.key] = StoredFor(a, e)],
         version  |-> a.version + 1,
         imported |-> a.imported + 1,
         replaced |-> a.replaced + (IF a.space[e.key] # NoRec THEN 1 ELSE 0),
         skipped  |-> a.skipped]
  BY DEF ImportRecord, Skips, StoredFor
<1>3. QED
  BY <1>1, <1>2

-----------------------------------------------------------------------------

\* What a rule of the importer keeps, an import does: G[i] is what may be there
\* after i records.
LEMMA ImportKeeps ==
  ASSUME NEW recs \in Seq(EncodedRecord), NEW space \in SpaceRecords, NEW ver \in Nat,
         NEW mode, NEW G \in [0..Len(recs) -> SUBSET Progress],
         ImportBase(space, ver, mode) \in G[0],
         \A i \in 1..Len(recs) : \A a \in G[i - 1] : ImportRecord(a, recs[i], mode) \in G[i]
  PROVE  ImportAll(space, ver, recs, mode) \in G[Len(recs)]
<1> DEFINE n == Len(recs)
           base == ImportBase(space, ver, mode)
           v == ImportAll(space, ver, recs, mode)
<1>1. n \in Nat /\ base \in Progress
  BY ImportBaseType
<1>2. ReachesIn(Progress, base, n, ImportStep(recs, mode), v)
  BY ImportSteps
<1>3. ASSUME NEW i \in 1..n, NEW a \in G[i - 1]
      PROVE  ImportStep(recs, mode)[i][a] \in G[i]
  <2>1. i - 1 \in 0..n
    BY <1>1
  <2>2. a \in Progress
    BY <2>1
  <2>3. QED
    BY <2>2 DEF ImportStep
<1> HIDE DEF base, v
<1>4. v \in G[n]
  BY <1>1, <1>2, <1>3, ReachesKeeps DEF base
<1>5. QED
  BY <1>4 DEF v

\* Whatever is imported is stored as a PUT would have left it, under a version
\* that is not later than the snapshot's.
LEMMA ImportIsLikePut ==
  ASSUME NEW recs \in Seq(EncodedRecord), \A i \in DOMAIN recs : ReadsRecord(recs[i]),
         NEW space \in SpaceRecords, NEW ver \in Nat, NEW mode, SpaceLikePut(space),
         \A k \in Keys : space[k] # NoRec => space[k].ver <= ver
  PROVE  /\ ImportAll(space, ver, recs, mode) \in Progress
         /\ GoodProgress(ImportAll(space, ver, recs, mode), ver)
<1> DEFINE n == Len(recs)
           good == {a \in Progress : GoodProgress(a, ver)}
           G == [i \in 0..n |-> good]
<1>1. n \in Nat /\ DOMAIN recs = 1..n
  OBVIOUS
<1>2. ImportBase(space, ver, mode) \in good
  <2> DEFINE base == ImportBase(space, ver, mode)
  <2>1. base \in Progress
    BY ImportBaseType
  <2>2. /\ base.space = IF mode = "replace" THEN NoRecords ELSE space
        /\ base.version = ver /\ base.imported = 0
    BY DEF ImportBase
  <2> HIDE DEF base
  <2>3. GoodProgress(base, ver)
    BY <2>2 DEF GoodProgress, SpaceLikePut, NoRecords
  <2>4. QED
    BY <2>1, <2>3 DEF base
<1>3. ASSUME NEW i \in 1..n, NEW a \in good PROVE ImportRecord(a, recs[i], mode) \in good
  <2> DEFINE e == recs[i]
             next == ImportRecord(a, e, mode)
  <2>1. e \in EncodedRecord /\ ReadsRecord(e) /\ a \in Progress /\ GoodProgress(a, ver)
    BY <1>1
  <2> HIDE DEF e
  <2>2. next \in Progress
    BY <2>1, ImportRecordType
  <2>3. /\ a.version \in Nat /\ a.imported \in Nat /\ e.key \in Keys /\ DOMAIN a.space = Keys
        /\ \A k \in Keys : a.space[k] # NoRec => a.space[k].ver \in Nat
    BY <2>1 DEF Progress, SpaceRecords, EncodedRecord, KVRecord
  <2>4. CASE Skips(a, e, mode)
    <3>1. next = [a EXCEPT !.skipped = @ + 1]
      BY <2>1, <2>4, ImportSkips
    <3>2. next.space = a.space /\ next.version = a.version /\ next.imported = a.imported
      BY <2>1, <3>1 DEF Progress
    <3> HIDE DEF next
    <3>3. GoodProgress(next, ver)
      BY <2>1, <3>2 DEF GoodProgress, SpaceLikePut
    <3>4. QED
      BY <2>2, <3>3 DEF next, e
  <2>5. CASE ~Skips(a, e, mode)
    <3> DEFINE rec == StoredFor(a, e)
    <3>1. rec \in KVRecord /\ next.space = [a.space EXCEPT ![e.key] = rec]
      BY <2>1, <2>5, ImportStores
    <3>2. next.version = a.version + 1 /\ next.imported = a.imported + 1
      BY <2>1, <2>5, ImportStores
    <3>3. LikePut(e.key, rec) /\ rec.ver = a.version + 1
      BY <2>1, <3>1 DEF ReadsRecord, LikePut, StoredFor
    <3> HIDE DEF next, rec
    <3>4. SpaceLikePut(next.space)
      BY <2>1, <2>3, <3>1, <3>3 DEF GoodProgress, SpaceLikePut
    <3>5. \A k \in Keys : next.space[k] # NoRec => next.space[k].ver <= next.version
      <4> SUFFICES ASSUME NEW k \in Keys, next.space[k] # NoRec
                   PROVE  next.space[k].ver <= next.version
        OBVIOUS
      <4>1. CASE k = e.key
        BY <2>3, <3>1, <3>2, <3>3, <4>1
      <4>2. CASE k # e.key
        <5>1. next.space[k] = a.space[k]
          BY <2>3, <3>1, <4>2
        <5>2. a.space[k].ver <= a.version /\ a.space[k].ver \in Nat
          BY <2>1, <2>3, <5>1 DEF GoodProgress
        <5>3. QED
          BY <2>3, <3>2, <5>1, <5>2
      <4>3. QED
        BY <4>1, <4>2
    <3>6. next.version = ver + next.imported
      BY <2>1, <2>3, <3>2 DEF GoodProgress
    <3>7. GoodProgress(next, ver)
      BY <3>4, <3>5, <3>6 DEF GoodProgress
    <3>8. QED
      BY <2>2, <3>7 DEF next, e
  <2>6. QED
    BY <2>4, <2>5
<1> HIDE DEF good
<1>4. good \in SUBSET Progress
  BY DEF good
<1>5. G \in [0..n -> SUBSET Progress] /\ ImportBase(space, ver, mode) \in G[0]
  BY <1>1, <1>2, <1>4
<1>6. ASSUME NEW i \in 1..n, NEW a \in G[i - 1] PROVE ImportRecord(a, recs[i], mode) \in G[i]
  <2>1. i \in 0..n /\ i - 1 \in 0..n
    BY <1>1
  <2>2. QED
    BY <1>3, <2>1
<1>7. n \in 0..n /\ G[n] = good
  BY <1>1
<1> HIDE DEF G
<1>8. ImportAll(space, ver, recs, mode) \in G[n]
  BY <1>5, <1>6, ImportKeeps
<1>9. QED
  BY <1>7, <1>8 DEF good

LEMMA KeysFinite ==
  ASSUME NEW space
  PROVE  IsFiniteSet(PresentIn(space)) /\ Cardinality(PresentIn(space)) \in Nat
<1> DEFINE n == Len(KeySeq)
<1>1. n \in Nat /\ DOMAIN KeySeq = 1..n
  BY RecordAssumption
<1>2. Keys = {KeySeq[i] : i \in 1..n}
  BY <1>1 DEF Keys, ToSet
<1>3. IsFiniteSet(1..n)
  BY <1>1, FS_Interval
<1>4. IsFiniteSet({KeySeq[i] : i \in 1..n})
  <2> DEFINE f == [i \in 1..n |-> KeySeq[i]]
             I == 1..n
             T == {KeySeq[i] : i \in 1..n}
  <2>1. f \in Surjection(I, T)
    BY DEF Surjection
  <2>2. IsFiniteSet(I)
    BY <1>3
  <2> HIDE DEF f, I, T
  <2>3. IsFiniteSet(T)
    BY <2>1, <2>2, FS_Surjection
  <2>4. QED
    BY <2>3 DEF T
<1>5. IsFiniteSet(Keys) /\ PresentIn(space) \subseteq Keys
  BY <1>2, <1>4 DEF PresentIn
<1>6. IsFiniteSet(PresentIn(space))
  BY <1>5, FS_Subset
<1>7. QED
  BY <1>6, FS_CardinalityType

\* After i records: every one is imported or skipped, and each imported one
\* that replaced none is a key more.
Counted(a, i, before) ==
    /\ a.imported + a.skipped = i
    /\ Cardinality(PresentIn(a.space)) = before + a.imported - a.replaced

LEMMA ImportRecordCounts ==
  ASSUME NEW a \in Progress, NEW e \in EncodedRecord, NEW mode, NEW i \in Nat,
         NEW before \in Nat, i >= 1, Counted(a, i - 1, before)
  PROVE  Counted(ImportRecord(a, e, mode), i, before)
<1> DEFINE next == ImportRecord(a, e, mode)
<1>1. /\ a.imported \in Nat /\ a.skipped \in Nat /\ a.replaced \in Nat
      /\ e.key \in Keys /\ DOMAIN a.space = Keys
  BY DEF Progress, SpaceRecords, EncodedRecord
<1>2. CASE Skips(a, e, mode)
  <2>1. next = [a EXCEPT !.skipped = @ + 1]
    BY <1>2, ImportSkips
  <2>2. /\ next.space = a.space /\ next.imported = a.imported
        /\ next.replaced = a.replaced /\ next.skipped = a.skipped + 1
    BY <2>1 DEF Progress
  <2> HIDE DEF next
  <2>3. a.imported + a.skipped = i - 1
    BY DEF Counted
  <2>4. Counted(next, i, before)
    BY <1>1, <2>2, <2>3 DEF Counted
  <2>5. QED
    BY <2>4 DEF next
<1>3. CASE ~Skips(a, e, mode)
  <2>1. /\ StoredFor(a, e) \in KVRecord
        /\ next.space = [a.space EXCEPT ![e.key] = StoredFor(a, e)]
    BY <1>3, ImportStores
  <2>2. /\ next.imported = a.imported + 1 /\ next.skipped = a.skipped
        /\ next.replaced = a.replaced + (IF a.space[e.key] # NoRec THEN 1 ELSE 0)
    BY <1>3, ImportStores
  <2> HIDE DEF next
  <2>3. StoredFor(a, e) # NoRec
    BY <2>1, RecordAssumption
  <2>4. PresentIn(next.space) = PresentIn(a.space) \cup {e.key}
    BY <1>1, <2>1, <2>3 DEF PresentIn
  <2>5. /\ a.imported + a.skipped = i - 1
        /\ Cardinality(PresentIn(a.space)) = before + a.imported - a.replaced
    BY DEF Counted
  <2>6. next.imported + next.skipped = i
    BY <1>1, <2>2, <2>5
  <2>7. CASE a.space[e.key] # NoRec
    <3>1. PresentIn(next.space) = PresentIn(a.space)
      BY <1>1, <2>4, <2>7 DEF PresentIn
    <3>2. next.replaced = a.replaced + 1
      BY <2>2, <2>7
    <3>3. QED
      BY <1>1, <2>2, <2>5, <2>6, <3>1, <3>2 DEF Counted, next
  <2>8. CASE a.space[e.key] = NoRec
    <3>1. e.key \notin PresentIn(a.space)
      BY <2>8 DEF PresentIn
    <3>2. IsFiniteSet(PresentIn(a.space))
      BY KeysFinite
    <3>3. Cardinality(PresentIn(next.space)) = Cardinality(PresentIn(a.space)) + 1
      BY <2>4, <3>1, <3>2, FS_AddElement
    <3>4. next.replaced = a.replaced
      BY <1>1, <2>2, <2>8
    <3>5. QED
      BY <1>1, <2>2, <2>5, <2>6, <3>3, <3>4 DEF Counted, next
  <2>9. QED
    BY <2>7, <2>8
<1>4. QED
  BY <1>2, <1>3

LEMMA ImportCounts ==
  ASSUME NEW recs \in Seq(EncodedRecord), NEW space \in SpaceRecords, NEW ver \in Nat,
         NEW mode
  PROVE  Counted(ImportAll(space, ver, recs, mode), Len(recs),
                 Cardinality(PresentIn(ImportBase(space, ver, mode).space)))
<1> DEFINE n == Len(recs)
           before == Cardinality(PresentIn(ImportBase(space, ver, mode).space))
           G == [i \in 0..n |-> {a \in Progress : Counted(a, i, before)}]
<1>1. n \in Nat /\ DOMAIN recs = 1..n /\ before \in Nat
  BY KeysFinite
<1>2. ImportBase(space, ver, mode) \in Progress
  BY ImportBaseType
<1>3. Counted(ImportBase(space, ver, mode), 0, before)
  <2> DEFINE base == ImportBase(space, ver, mode)
  <2>1. base.imported = 0 /\ base.skipped = 0 /\ base.replaced = 0
    BY DEF ImportBase
  <2> HIDE DEF base
  <2>2. Counted(base, 0, before)
    BY <1>1, <2>1 DEF Counted, base
  <2>3. QED
    BY <2>2 DEF base
<1> HIDE DEF before
<1>4. G \in [0..n -> SUBSET Progress] /\ ImportBase(space, ver, mode) \in G[0]
  BY <1>1, <1>2, <1>3
<1>5. ASSUME NEW i \in 1..n, NEW a \in G[i - 1] PROVE ImportRecord(a, recs[i], mode) \in G[i]
  <2>1. i \in 0..n /\ i - 1 \in 0..n /\ i \in Nat /\ i >= 1
    BY <1>1
  <2>2. a \in Progress /\ Counted(a, i - 1, before) /\ recs[i] \in EncodedRecord
    BY <1>1, <2>1
  <2>3. ImportRecord(a, recs[i], mode) \in Progress
    BY <2>2, ImportRecordType
  <2>4. Counted(ImportRecord(a, recs[i], mode), i, before)
    BY <1>1, <2>1, <2>2, ImportRecordCounts
  <2>5. QED
    BY <2>1, <2>3, <2>4
<1>6. n \in 0..n
  BY <1>1
<1> HIDE DEF G
<1>7. ImportAll(space, ver, recs, mode) \in G[n]
  BY <1>4, <1>5, ImportKeeps
<1>8. QED
  BY <1>6, <1>7 DEF G, before

\* With the records of src under the keys of done imported: they are as src has
\* them, under versions after ver, and the others, and those that merge-skip
\* leaves alone, are as base has them.
RestoredUpTo(a, done, base, src, mode, ver) ==
    /\ a.version >= ver
    /\ \A k \in Keys :
          IF k \in done /\ ~(mode = "merge-skip" /\ base[k] # NoRec)
          THEN SameValue(a.space[k], src[k]) /\ a.space[k].ver > ver
          ELSE a.space[k] = base[k]

LEMMA ImportRecordRestores ==
  ASSUME NEW a \in Progress, NEW src \in SpaceRecords, SpaceLikePut(src),
         NEW k \in Keys, src[k] # NoRec, NEW base, NEW done, NEW mode, NEW ver \in Nat,
         RestoredUpTo(a, done, base, src, mode, ver)
  PROVE  RestoredUpTo(ImportRecord(a, EncodeRecord(k, src[k]), mode), done \cup {k},
                      base, src, mode, ver)
<1> DEFINE e == EncodeRecord(k, src[k])
           next == ImportRecord(a, e, mode)
<1>1. src[k] \in KVRecord
  BY DEF SpaceRecords
<1>2. e \in EncodedRecord /\ e.key = k
  BY <1>1, EncodeRecordType
<1>3. e.ct = src[k].ct /\ e.body = src[k].body /\ e.created = src[k].created
  BY DEF EncodeRecord
<1>4. src[k].vt = ValueType[src[k].ct]
  BY DEF SpaceLikePut, LikePut
<1>5. a.version \in Nat /\ DOMAIN a.space = Keys /\ a.version >= ver
  BY DEF Progress, SpaceRecords, RestoredUpTo
<1> HIDE DEF e
<1>6. CASE Skips(a, e, mode)
  <2>1. next = [a EXCEPT !.skipped = @ + 1]
    BY <1>2, <1>6, ImportSkips
  <2>2. next.space = a.space /\ next.version = a.version
    BY <2>1 DEF Progress
  <2>3. base[k] = NoRec => k \in done
    BY <1>2, <1>6 DEF Skips, RestoredUpTo
  <2> HIDE DEF next
  <2>4. RestoredUpTo(next, done \cup {k}, base, src, mode, ver)
    BY <1>6, <2>2, <2>3 DEF RestoredUpTo, Skips
  <2>5. QED
    BY <2>4 DEF next, e
<1>7. CASE ~Skips(a, e, mode)
  <2> DEFINE rec == StoredFor(a, e)
  <2>1. rec \in KVRecord /\ next.space = [a.space EXCEPT ![k] = rec]
    BY <1>2, <1>7, ImportStores
  <2>2. next.version = a.version + 1
    BY <1>2, <1>7, ImportStores
  <2>3. rec # NoRec
    BY <2>1, RecordAssumption
  <2>4. /\ rec.ct = e.ct /\ rec.vt = ValueType[e.ct] /\ rec.body = e.body
        /\ rec.created = e.created /\ rec.ver = a.version + 1
    BY DEF StoredFor
  <2> HIDE DEF rec, next
  <2>5. SameValue(rec, src[k])
    BY <1>3, <1>4, <2>3, <2>4 DEF SameValue
  <2>6. rec.ver > ver
    BY <1>5, <2>4
  <2>7. next.space[k] = rec /\ \A k2 \in Keys \ {k} : next.space[k2] = a.space[k2]
    BY <1>5, <2>1
  <2>8. ~(mode = "merge-skip" /\ base[k] # NoRec)
    BY <1>2, <1>7 DEF Skips, RestoredUpTo
  <2>9. next.version >= ver
    BY <1>5, <2>2
  <2>10. ASSUME NEW k2 \in Keys
         PROVE  IF k2 \in done \cup {k} /\ ~(mode = "merge-skip" /\ base[k2] # NoRec)
                THEN SameValue(next.space[k2], src[k2]) /\ next.space[k2].ver > ver
                ELSE next.space[k2] = base[k2]
    <3>1. CASE k2 = k
      BY <2>5, <2>6, <2>7, <2>8, <3>1
    <3>2. CASE k2 # k
      BY <2>7, <3>2 DEF RestoredUpTo
    <3>3. QED
      BY <3>1, <3>2
  <2>11. RestoredUpTo(next, done \cup {k}, base, src, mode, ver)
    BY <2>9, <2>10 DEF RestoredUpTo
  <2>12. QED
    BY <2>11 DEF next, e
<1>8. QED
  BY <1>6, <1>7

LEMMA ImportRestores ==
  ASSUME NEW src \in SpaceRecords, SpaceLikePut(src),
         NEW recs \in Seq(EncodedRecord), ExportedAs(src, recs),
         NEW space \in SpaceRecords, NEW ver \in Nat, NEW mode
  PROVE  RestoredUpTo(ImportAll(space, ver, recs, mode), PresentIn(src),
                      ImportBase(space, ver, mode).space, src, mode, ver)
<1> DEFINE n == Len(recs)
           base == ImportBase(space, ver, mode)
           done(i) == {recs[j].key : j \in 1..i}
           G == [i \in 0..n |->
                   {a \in Progress : RestoredUpTo(a, done(i), base.space, src, mode, ver)}]
<1>1. n \in Nat /\ DOMAIN recs = 1..n
  OBVIOUS
<1>2. base \in Progress
  BY ImportBaseType
<1>3. base.version = ver
  BY DEF ImportBase
<1> HIDE DEF base
<1>4. RestoredUpTo(base, done(0), base.space, src, mode, ver)
  BY <1>3 DEF RestoredUpTo
<1>5. G \in [0..n -> SUBSET Progress] /\ base \in G[0]
  <2> HIDE DEF done
  <2>1. QED
    BY <1>1, <1>2, <1>4
<1>6. ASSUME NEW i \in 1..n, NEW a \in G[i - 1] PROVE ImportRecord(a, recs[i], mode) \in G[i]
  <2> DEFINE k == recs[i].key
  <2>1. i \in 0..n /\ i - 1 \in 0..n
    BY <1>1
  <2>2. a \in Progress /\ RestoredUpTo(a, done(i - 1), base.space, src, mode, ver)
    BY <2>1
  <2>3. recs[i] \in EncodedRecord
    BY <1>1
  <2>4. k \in Keys /\ src[k] # NoRec /\ recs[i] = EncodeRecord(k, src[k])
    BY <1>1 DEF ExportedAs
  <2>5. ImportRecord(a, recs[i], mode) \in Progress
    BY <2>2, <2>3, ImportRecordType
  <2>6. done(i) = done(i - 1) \cup {k}
    <3>1. 1..i = 1..(i - 1) \cup {i}
      BY <1>1
    <3>2. QED
      BY <3>1
  <2> HIDE DEF done, k
  <2>7. RestoredUpTo(ImportRecord(a, EncodeRecord(k, src[k]), mode), done(i - 1) \cup {k},
                     base.space, src, mode, ver)
    BY <2>2, <2>4, ImportRecordRestores
  <2>8. RestoredUpTo(ImportRecord(a, recs[i], mode), done(i), base.space, src, mode, ver)
    BY <2>4, <2>6, <2>7
  <2>9. QED
    BY <2>1, <2>5, <2>8
<1>7. n \in 0..n
  BY <1>1
<1>8. ImportAll(space, ver, recs, mode) \in G[n]
  <2> HIDE DEF G
  <2>1. QED
    BY <1>5, <1>6, ImportKeeps DEF base
<1>9. done(n) = PresentIn(src)
  BY <1>1 DEF ExportedAs, PresentIn
<1> HIDE DEF done
<1>10. RestoredUpTo(ImportAll(space, ver, recs, mode), done(n), base.space, src, mode, ver)
  BY <1>7, <1>8
<1>11. QED
  BY <1>9, <1>10 DEF base

-----------------------------------------------------------------------------
(* The invariant.                                                          *)

\* Where a file is from tells what it holds: an export is what was encoded, a
\* damaged one has the checksum of something else, and any other is sealed.
FileInv ==
    /\ origin = "export" => file = Encode(saved)
    /\ origin = "damaged" => file.sum # <<file.count, file.recs>>
    /\ origin = "other" =>
          file = NoFile \/ \E recs \in OtherRecords : file = Seal(recs)

ExchangeInv ==
    /\ ExchangeTypeOK
    /\ StoredLikePut
    /\ SpaceLikePut(saved)
    /\ FileInv
    /\ answer # NoAnswer => (answer.accepted <=> Accepts(file))

\* A file that is accepted holds records that Decode can read, and no less.
LEMMA AcceptedFile ==
  ASSUME ExchangeInv, file # NoFile, Accepts(file)
  PROVE  /\ origin # "damaged" /\ file.recs \in Seq(EncodedRecord)
         /\ \A i \in DOMAIN file.recs : ReadsRecord(file.recs[i])
<1>1. /\ file.sum = <<file.count, file.recs>>
      /\ \A i \in DOMAIN file.recs : ReadsRecord(file.recs[i])
  BY DEF Accepts, Decodes
<1>2. origin # "damaged"
  BY <1>1 DEF ExchangeInv, FileInv
<1>3. \E recs \in Seq(EncodedRecord) : file = Seal(recs)
  <2>1. CASE origin = "export"
    <3>1. file = Encode(saved) /\ saved \in SpaceRecords
      BY <2>1 DEF ExchangeInv, FileInv, ExchangeTypeOK, SpaceRecords
    <3>2. QED
      BY <3>1, EncodeRecords
  <2>2. CASE origin = "other"
    BY <2>2, RecordAssumption DEF ExchangeInv, FileInv
  <2>3. QED
    BY <1>2, <2>1, <2>2 DEF ExchangeInv, ExchangeTypeOK
<1>4. QED
  BY <1>1, <1>2, <1>3 DEF Seal

LEMMA ExchangeInvInit == ExchangeInit => ExchangeInv
<1> SUFFICES ASSUME ExchangeInit PROVE ExchangeInv
  OBVIOUS
<1>1. PICK d \in Stores : kv = d.kv /\ version = d.version
  BY DEF ExchangeInit
<1>2. /\ file = NoFile /\ answer = NoAnswer /\ events = 0 /\ origin = "other"
      /\ saved = NoRecords
  BY DEF ExchangeInit
<1>3. /\ kv \in [Spaces -> [Keys -> KVRecord \cup {NoRec}]] /\ version \in Nat
      /\ \A s \in Spaces, k \in Keys : kv[s][k] # NoRec =>
            LikePut(k, kv[s][k]) /\ kv[s][k].ver <= version
  BY <1>1, StoreAssumption
<1>4. saved \in [Keys -> KVRecord \cup {NoRec}] /\ SpaceLikePut(saved)
  BY <1>2 DEF NoRecords, SpaceLikePut
<1>5. events \in 0..MaxEvents
  BY <1>2, LimitAssumption
<1>6. QED
  BY <1>2, <1>3, <1>4, <1>5 DEF ExchangeInv, ExchangeTypeOK, StoredLikePut, FileInv

LEMMA TickType ==
  ASSUME events \in 0..MaxEvents, Tick
  PROVE  events \in Nat /\ events' \in 0..MaxEvents
BY LimitAssumption DEF Tick

LEMMA PutKeeps ==
  ASSUME ExchangeInv, NEW s \in Spaces, NEW k \in Keys, NEW ct \in ContentTypes,
         NEW body \in Bodies, Put(s, k, ct, body)
  PROVE  ExchangeInv'
<1> DEFINE rec == [ct |-> ct, vt |-> ValueType[ct], body |-> body,
                   ver |-> version + 1,
                   created |-> IF kv[s][k] = NoRec THEN events ELSE kv[s][k].created]
<1>1. /\ kv \in [Spaces -> [Keys -> KVRecord \cup {NoRec}]] /\ version \in Nat
      /\ events \in Nat /\ events' \in 0..MaxEvents
  BY TickType DEF ExchangeInv, ExchangeTypeOK, Put
<1>2. rec \in KVRecord
  <2>1. kv[s][k] # NoRec => kv[s][k].created \in Nat
    BY <1>1 DEF KVRecord
  <2>2. rec.created \in Nat
    BY <1>1, <2>1
  <2>3. QED
    BY <1>1, <2>2, SizeAssumption DEF KVRecord
<1>3. LikePut(k, rec) /\ rec.ver = version + 1
  BY DEF Put, LikePut
<1>4. /\ kv' = [kv EXCEPT ![s][k] = rec] /\ version' = version + 1
      /\ answer' = NoAnswer /\ UNCHANGED <<file, origin, saved>>
  BY DEF Put
<1> HIDE DEF rec
<1>5. kv' \in [Spaces -> [Keys -> KVRecord \cup {NoRec}]] /\ version' \in Nat
  BY <1>1, <1>2, <1>4
<1>6. ASSUME NEW s2 \in Spaces, NEW k2 \in Keys, kv'[s2][k2] # NoRec
      PROVE  LikePut(k2, kv'[s2][k2]) /\ kv'[s2][k2].ver <= version'
  <2>1. CASE s2 = s /\ k2 = k
    <3>1. kv'[s2][k2] = rec
      BY <1>1, <1>4, <2>1
    <3>2. QED
      BY <1>1, <1>3, <1>4, <2>1, <3>1
  <2>2. CASE ~(s2 = s /\ k2 = k)
    <3>1. kv'[s2][k2] = kv[s2][k2]
      BY <1>1, <1>4, <2>2
    <3>2. LikePut(k2, kv[s2][k2]) /\ kv[s2][k2].ver <= version
      BY <1>6, <3>1 DEF ExchangeInv, ExchangeTypeOK, StoredLikePut
    <3>3. kv[s2][k2].ver \in Nat
      BY <1>1, <1>6, <3>1 DEF KVRecord
    <3>4. QED
      BY <1>1, <1>4, <3>1, <3>2, <3>3
  <2>3. QED
    BY <2>1, <2>2
<1>7. ExchangeTypeOK'
  BY <1>1, <1>4, <1>5, <1>6 DEF ExchangeInv, ExchangeTypeOK
<1>8. StoredLikePut'
  BY <1>6 DEF StoredLikePut
<1>9. SpaceLikePut(saved)' /\ FileInv'
  BY <1>4 DEF ExchangeInv, FileInv, SpaceLikePut
<1>10. QED
  BY <1>4, <1>7, <1>8, <1>9 DEF ExchangeInv

LEMMA DeleteKeeps ==
  ASSUME ExchangeInv, NEW s \in Spaces, NEW k \in Keys, Delete(s, k)
  PROVE  ExchangeInv'
<1>1. /\ kv \in [Spaces -> [Keys -> KVRecord \cup {NoRec}]] /\ version \in Nat
      /\ events \in Nat /\ events' \in 0..MaxEvents
  BY TickType DEF ExchangeInv, ExchangeTypeOK, Delete
<1>2. /\ kv' = [kv EXCEPT ![s][k] = NoRec] /\ version' = version + 1
      /\ answer' = NoAnswer /\ UNCHANGED <<file, origin, saved>>
  BY DEF Delete
<1>3. kv' \in [Spaces -> [Keys -> KVRecord \cup {NoRec}]] /\ version' \in Nat
  BY <1>1, <1>2
<1>4. ASSUME NEW s2 \in Spaces, NEW k2 \in Keys, kv'[s2][k2] # NoRec
      PROVE  LikePut(k2, kv'[s2][k2]) /\ kv'[s2][k2].ver <= version'
  <2>1. kv'[s2][k2] = kv[s2][k2]
    BY <1>1, <1>2, <1>4
  <2>2. LikePut(k2, kv[s2][k2]) /\ kv[s2][k2].ver <= version
    BY <1>4, <2>1 DEF ExchangeInv, ExchangeTypeOK, StoredLikePut
  <2>3. kv[s2][k2].ver \in Nat
    BY <1>1, <1>4, <2>1 DEF KVRecord
  <2>4. QED
    BY <1>1, <1>2, <2>1, <2>2, <2>3
<1>5. ExchangeTypeOK'
  BY <1>1, <1>2, <1>3, <1>4 DEF ExchangeInv, ExchangeTypeOK
<1>6. StoredLikePut'
  BY <1>4 DEF StoredLikePut
<1>7. SpaceLikePut(saved)' /\ FileInv'
  BY <1>2 DEF ExchangeInv, FileInv, SpaceLikePut
<1>8. QED
  BY <1>2, <1>5, <1>6, <1>7 DEF ExchangeInv

\* A new file leaves the store alone and the last answer behind.
LEMMA NewFileKeeps ==
  ASSUME ExchangeInv, Tick, answer' = NoAnswer, UNCHANGED <<kv, version>>,
         origin' \in {"export", "damaged", "other"},
         saved' \in SpaceRecords, SpaceLikePut(saved'), FileInv'
  PROVE  ExchangeInv'
<1>1. events' \in 0..MaxEvents
  BY TickType DEF ExchangeInv, ExchangeTypeOK
<1>2. ExchangeTypeOK' /\ StoredLikePut'
  BY <1>1 DEF ExchangeInv, ExchangeTypeOK, StoredLikePut, SpaceRecords
<1>3. QED
  BY <1>2 DEF ExchangeInv, SpaceLikePut

LEMMA ExportKeeps ==
  ASSUME ExchangeInv, NEW s \in Spaces, Export(s)
  PROVE  ExchangeInv'
<1>1. /\ file' = Encode(kv[s]) /\ origin' = "export" /\ saved' = kv[s] /\ Tick
      /\ answer' = NoAnswer /\ UNCHANGED <<kv, version>>
  BY DEF Export
<1>2. saved' \in SpaceRecords /\ SpaceLikePut(saved')
  BY <1>1 DEF ExchangeInv, ExchangeTypeOK, StoredLikePut, SpaceRecords, SpaceLikePut
<1>3. FileInv'
  <2>1. Encode(saved)' = Encode(kv[s])
    BY <1>1
  <2>2. QED
    BY <1>1, <2>1 DEF FileInv
<1>4. QED
  BY <1>1, <1>2, <1>3, NewFileKeeps

LEMMA ReceiveKeeps ==
  ASSUME ExchangeInv, Receive
  PROVE  ExchangeInv'
<1>1. /\ origin' = "other" /\ Tick /\ answer' = NoAnswer
      /\ UNCHANGED <<kv, version, saved>>
      /\ \E recs \in OtherRecords : file' = Seal(recs)
  BY DEF Receive
<1>2. FileInv'
  BY <1>1 DEF FileInv
<1>3. saved' \in SpaceRecords /\ SpaceLikePut(saved')
  BY <1>1 DEF ExchangeInv, ExchangeTypeOK, SpaceRecords
<1>4. QED
  BY <1>1, <1>2, <1>3, NewFileKeeps

\* No damage leaves the checksum that the rest would have.
LEMMA DamageShows ==
  ASSUME NEW recs \in Seq(EncodedRecord), recs # <<>>, NEW f \in DamagedFiles(Seal(recs))
  PROVE  f.sum # <<f.count, f.recs>>
<1> DEFINE n == Len(recs)
           whole == Seal(recs)
<1>1. n \in Nat \ {0} /\ DOMAIN recs = 1..n /\ 1 \in 1..n /\ recs[1] \in EncodedRecord
  BY EmptySeq
<1>2. /\ whole = [count |-> n, recs |-> recs, sum |-> <<n, recs>>]
      /\ whole.count = n /\ whole.recs = recs /\ whole.sum = <<n, recs>>
  BY DEF Seal
<1>3. Front(recs) # recs
  <2>1. Len(Front(recs)) = n - 1
    BY <1>1 DEF Front
  <2>2. QED
    BY <1>1, <2>1
<1>4. CASE f = [whole EXCEPT !.recs = Front(@)]
  BY <1>2, <1>3, <1>4
<1>5. CASE f = [whole EXCEPT !.count = @ - 1]
  <2>1. f.count = n - 1 /\ f.sum = <<n, recs>>
    BY <1>2, <1>5
  <2>2. n - 1 # n
    <3>1. \A m \in Nat : m - 1 # m
      OBVIOUS
    <3> HIDE DEF n
    <3>2. QED
      BY <1>1, <3>1
  <2>3. QED
    BY <2>1, <2>2
<1>6. CASE f = [whole EXCEPT !.count = @ - 1, !.recs = Front(@)]
  <2>1. f.count = n - 1 /\ f.sum = <<n, recs>>
    BY <1>2, <1>6
  <2>2. n - 1 # n
    <3>1. \A m \in Nat : m - 1 # m
      OBVIOUS
    <3> HIDE DEF n
    <3>2. QED
      BY <1>1, <3>1
  <2>3. QED
    BY <2>1, <2>2
<1>7. ASSUME NEW ct \in ContentTypes \ {recs[1].ct},
             f = [whole EXCEPT !.recs[1].ct = ct, !.recs[1].ct_len = Size[ct]]
      PROVE  f.sum # <<f.count, f.recs>>
  <2>1. f.recs[1].ct = ct /\ f.sum = whole.sum
    BY <1>1, <1>2, <1>7 DEF EncodedRecord
  <2>2. f.recs # recs
    BY <2>1
  <2>3. QED
    BY <1>2, <2>1, <2>2
<1>8. ASSUME NEW body \in Bodies \ {recs[1].body}, f = [whole EXCEPT !.recs[1].body = body]
      PROVE  f.sum # <<f.count, f.recs>>
  <2>1. f.recs[1].body = body /\ f.sum = whole.sum
    BY <1>1, <1>2, <1>8 DEF EncodedRecord
  <2>2. f.recs # recs
    BY <2>1
  <2>3. QED
    BY <1>2, <2>1, <2>2
<1>9. QED
  BY <1>2, <1>4, <1>5, <1>6, <1>7, <1>8 DEF DamagedFiles

LEMMA DamageKeeps ==
  ASSUME ExchangeInv, Damage
  PROVE  ExchangeInv'
<1>1. /\ Tick /\ origin = "export" /\ file.recs # <<>> /\ file' \in DamagedFiles(file)
      /\ origin' = "damaged" /\ answer' = NoAnswer /\ UNCHANGED <<kv, version, saved>>
  BY DEF Damage
<1>2. saved \in SpaceRecords /\ file = Encode(saved) /\ SpaceLikePut(saved)
  BY <1>1 DEF ExchangeInv, ExchangeTypeOK, FileInv, SpaceRecords
<1>3. PICK recs \in Seq(EncodedRecord) : file = Seal(recs)
  BY <1>2, EncodeRecords
<1>4. recs # <<>>
  BY <1>1, <1>3 DEF Seal
<1>5. file'.sum # <<file'.count, file'.recs>>
  BY <1>1, <1>3, <1>4, DamageShows
<1>6. FileInv'
  BY <1>1, <1>5 DEF FileInv
<1>7. saved' \in SpaceRecords /\ SpaceLikePut(saved')
  BY <1>1, <1>2
<1>8. QED
  BY <1>1, <1>6, <1>7, NewFileKeeps

\* How an import is answered, and what is left.
LEMMA ImportDoes ==
  ASSUME ExchangeInv, NEW s \in Spaces, NEW mode \in ImportModes, Import(s, mode)
  PROVE  LET res == ImportAll(kv[s], version, file.recs, mode)
         IN  /\ Tick /\ file # NoFile /\ UNCHANGED <<file, origin, saved>>
             /\ answer'.space = s /\ answer'.mode = mode
             /\ answer'.accepted <=> Accepts(file)
             /\ Accepts(file) =>
                   /\ kv' = [kv EXCEPT ![s] = res.space] /\ version' = res.version
                   /\ answer'.imported = res.imported
                   /\ answer'.replaced = res.replaced
                   /\ answer'.skipped = res.skipped
             /\ ~Accepts(file) => UNCHANGED <<kv, version>>
<1>1. CASE Accepts(file)
  BY <1>1 DEF Import, Answer
<1>2. CASE ~Accepts(file)
  BY <1>2 DEF Import, Answer
<1>3. QED
  BY <1>1, <1>2 DEF Import

\* What is imported is typed, and stored as by PUTs.
LEMMA ImportedIsGood ==
  ASSUME ExchangeInv, file # NoFile, Accepts(file), NEW s \in Spaces, NEW mode
  PROVE  /\ kv[s] \in SpaceRecords /\ version \in Nat
         /\ ImportAll(kv[s], version, file.recs, mode) \in Progress
         /\ GoodProgress(ImportAll(kv[s], version, file.recs, mode), version)
<1>1. /\ kv[s] \in SpaceRecords /\ version \in Nat /\ SpaceLikePut(kv[s])
      /\ \A k \in Keys : kv[s][k] # NoRec => kv[s][k].ver <= version
  BY DEF ExchangeInv, ExchangeTypeOK, StoredLikePut, SpaceRecords, SpaceLikePut
<1>2. /\ file.recs \in Seq(EncodedRecord)
      /\ \A i \in DOMAIN file.recs : ReadsRecord(file.recs[i])
  BY AcceptedFile
<1>3. QED
  BY <1>1, <1>2, ImportIsLikePut

LEMMA ImportKeepsInv ==
  ASSUME ExchangeInv, NEW s \in Spaces, NEW mode \in ImportModes, Import(s, mode)
  PROVE  ExchangeInv'
<1> DEFINE res == ImportAll(kv[s], version, file.recs, mode)
<1>1. /\ Tick /\ file # NoFile /\ UNCHANGED <<file, origin, saved>>
      /\ answer'.space = s /\ answer'.mode = mode /\ (answer'.accepted <=> Accepts(file))
  BY ImportDoes
<1>2. Accepts(file)' <=> Accepts(file)
  BY <1>1 DEF Accepts, Decodes, FileSize
<1>3. SpaceLikePut(saved)' /\ FileInv'
  BY <1>1 DEF ExchangeInv, FileInv, SpaceLikePut
<1>4. /\ kv' \in [Spaces -> [Keys -> KVRecord \cup {NoRec}]] /\ version' \in Nat
      /\ \A s2 \in Spaces, k \in Keys : kv'[s2][k] # NoRec =>
            LikePut(k, kv'[s2][k]) /\ kv'[s2][k].ver <= version'
  <2>1. /\ kv \in [Spaces -> [Keys -> KVRecord \cup {NoRec}]] /\ version \in Nat
        /\ \A s2 \in Spaces, k \in Keys : kv[s2][k] # NoRec =>
              LikePut(k, kv[s2][k]) /\ kv[s2][k].ver <= version
    BY DEF ExchangeInv, ExchangeTypeOK, StoredLikePut
  <2>2. CASE Accepts(file)
    <3>1. kv' = [kv EXCEPT ![s] = res.space] /\ version' = res.version
      BY <2>2, ImportDoes
    <3>2. res \in Progress /\ GoodProgress(res, version)
      BY <1>1, <2>2, ImportedIsGood
    <3> HIDE DEF res
    <3>3. /\ res.space \in [Keys -> KVRecord \cup {NoRec}] /\ res.version \in Nat
          /\ res.imported \in Nat /\ res.version = version + res.imported
      BY <3>2 DEF Progress, SpaceRecords, GoodProgress
    <3>4. ASSUME NEW s2 \in Spaces, NEW k \in Keys, kv'[s2][k] # NoRec
          PROVE  LikePut(k, kv'[s2][k]) /\ kv'[s2][k].ver <= version'
      <4>1. CASE s2 = s
        <5>1. kv'[s2][k] = res.space[k]
          BY <2>1, <3>1, <4>1
        <5>2. QED
          BY <3>1, <3>2, <3>4, <5>1 DEF GoodProgress, SpaceLikePut
      <4>2. CASE s2 # s
        <5>1. kv'[s2][k] = kv[s2][k]
          BY <2>1, <3>1, <4>2
        <5>2. LikePut(k, kv[s2][k]) /\ kv[s2][k].ver <= version /\ kv[s2][k].ver \in Nat
          BY <2>1, <3>4, <5>1 DEF KVRecord
        <5>3. QED
          BY <2>1, <3>1, <3>3, <5>1, <5>2
      <4>3. QED
        BY <4>1, <4>2
    <3>5. QED
      BY <2>1, <3>1, <3>3, <3>4
  <2>3. CASE ~Accepts(file)
    <3>1. kv' = kv /\ version' = version
      BY <2>3, ImportDoes
    <3>2. QED
      BY <2>1, <3>1
  <2>4. QED
    BY <2>2, <2>3
<1>5. events' \in 0..MaxEvents
  BY <1>1, TickType DEF ExchangeInv, ExchangeTypeOK
<1>6. ExchangeTypeOK'
  BY <1>1, <1>4, <1>5 DEF ExchangeInv, ExchangeTypeOK
<1>7. StoredLikePut'
  BY <1>4 DEF StoredLikePut
<1>8. QED
  BY <1>1, <1>2, <1>3, <1>6, <1>7 DEF ExchangeInv

LEMMA ExchangeInvStep == ExchangeInv /\ [ExchangeNext]_exchangeVars => ExchangeInv'
<1> SUFFICES ASSUME ExchangeInv, [ExchangeNext]_exchangeVars PROVE ExchangeInv'
  OBVIOUS
<1>1. ASSUME NEW s \in Spaces, NEW k \in Keys, NEW ct \in ContentTypes, NEW body \in Bodies,
             Put(s, k, ct, body)
      PROVE  ExchangeInv'
  BY <1>1, PutKeeps
<1>2. ASSUME NEW s \in Spaces, NEW k \in Keys, Delete(s, k) PROVE ExchangeInv'
  BY <1>2, DeleteKeeps
<1>3. ASSUME NEW s \in Spaces, Export(s) PROVE ExchangeInv'
  BY <1>3, ExportKeeps
<1>4. CASE Damage
  BY <1>4, DamageKeeps
<1>5. CASE Receive
  BY <1>5, ReceiveKeeps
<1>6. ASSUME NEW s \in Spaces, NEW mode \in ImportModes, Import(s, mode) PROVE ExchangeInv'
  BY <1>6, ImportKeepsInv
<1>7. CASE UNCHANGED exchangeVars
  <2>1. /\ kv' = kv /\ version' = version /\ file' = file /\ answer' = answer
        /\ events' = events /\ origin' = origin /\ saved' = saved
    BY <1>7 DEF exchangeVars
  <2>2. Accepts(file)' <=> Accepts(file)
    BY <2>1 DEF Accepts, Decodes, FileSize
  <2>3. FileInv' /\ SpaceLikePut(saved)' /\ StoredLikePut'
    BY <2>1 DEF ExchangeInv, FileInv, SpaceLikePut, StoredLikePut
  <2>4. ExchangeTypeOK'
    BY <2>1 DEF ExchangeInv, ExchangeTypeOK
  <2>5. QED
    BY <2>1, <2>2, <2>3, <2>4 DEF ExchangeInv
<1>8. QED
  BY <1>1, <1>2, <1>3, <1>4, <1>5, <1>6, <1>7 DEF ExchangeNext

LEMMA ExchangeInvariant == ExchangeSpec => []ExchangeInv
<1>1. ExchangeInit => ExchangeInv
  BY ExchangeInvInit
<1>2. ExchangeInv /\ [ExchangeNext]_exchangeVars => ExchangeInv'
  BY ExchangeInvStep
<1>3. QED
  BY <1>1, <1>2, PTL DEF ExchangeSpec

\* The types of the state; in particular no record has a version that the
\* snapshot has not reached, whatever was imported.
THEOREM ExchangesAreTyped == ExchangeSpec => []ExchangeTypeOK
<1>1. ExchangeInv => ExchangeTypeOK
  BY DEF ExchangeInv
<1>2. QED
  BY <1>1, ExchangeInvariant, PTL

\* Whichever way records come in, and whoever made the file, what is stored is
\* what a PUT could have stored (storage.ValidateKey, ValidateValue, ValueType).
THEOREM ImportsValidateLikePut == ExchangeSpec => []StoredLikePut
<1>1. ExchangeInv => StoredLikePut
  BY DEF ExchangeInv
<1>2. QED
  BY <1>1, ExchangeInvariant, PTL

\* A file that lost its end, or of which the count, a content type or a value
\* was changed, is never accepted by handleImport.
THEOREM DamageIsDetected == ExchangeSpec => []DamagedRefused
<1>1. ExchangeInv => DamagedRefused
  BY DEF ExchangeInv, DamagedRefused, FileInv, Accepts, Decodes
<1>2. QED
  BY <1>1, ExchangeInvariant, PTL

\* What a PUT can have stored, with content types that fit in a byte's count, is
\* written so that Decode takes it.
LEMMA ExportDecodes ==
  ASSUME NEW space \in SpaceRecords, SpaceLikePut(space)
  PROVE  /\ FileSize(Encode(space)) \in Nat
         /\ (~\E k \in Keys : space[k] # NoRec /\ Size[space[k].ct] > 255)
               => Decodes(Encode(space))
<1>1. PICK recs \in Seq(EncodedRecord) : Encode(space) = Seal(recs) /\ ExportedAs(space, recs)
  BY EncodeRecords
<1>2. /\ Encode(space).recs = recs /\ Encode(space).count = Len(recs)
      /\ Encode(space).sum = <<Len(recs), recs>>
  BY <1>1 DEF Seal
<1>3. ASSUME NEW i \in DOMAIN recs
      PROVE  LET k == recs[i].key IN
             /\ k \in Keys /\ space[k] \in KVRecord /\ LikePut(k, space[k])
             /\ recs[i] = EncodeRecord(k, space[k])
  BY <1>1 DEF ExportedAs, SpaceRecords, SpaceLikePut
<1>4. \A i \in DOMAIN recs : Size[recs[i].key] >= 1
  BY <1>3, SizeAssumption, LimitAssumption DEF LikePut, ValidKey
<1>5. RecordBytes(recs) \in Nat /\ Len(recs) <= RecordBytes(recs) \div MinEncodedRecordLen
  BY <1>4, RecordBytesBound
<1>6. FileSize(Encode(space)) \in Nat
  BY <1>2, <1>5 DEF FileSize, HeaderSize, FooterSize
<1>7. ASSUME ~\E k \in Keys : space[k] # NoRec /\ Size[space[k].ct] > 255,
             NEW i \in DOMAIN recs
      PROVE  ReadsRecord(recs[i])
  <2> DEFINE k == recs[i].key
             e == EncodeRecord(k, space[k])
  <2>1. /\ k \in Keys /\ space[k] # NoRec /\ space[k] \in KVRecord
        /\ LikePut(k, space[k]) /\ recs[i] = e
    BY <1>1, <1>3 DEF ExportedAs
  <2>2. Size[space[k].ct] \in Nat
    BY <2>1, SizeAssumption DEF KVRecord
  <2>3. Size[space[k].ct] <= 255
    BY <1>7, <2>1, <2>2
  <2>4. CtLenModulus \in Nat /\ CtLenModulus > 255
    BY DEF CtLenModulus
  <2>5. \A m \in Nat, w \in Nat : m <= 255 /\ w > 255 => m % w = m
    OBVIOUS
  <2>6. /\ e.key = k /\ e.ct = space[k].ct /\ e.body = space[k].body /\ e.sum = space[k].body
        /\ e.ct_len = Size[space[k].ct] % CtLenModulus
    BY DEF EncodeRecord
  <2>7. e.ct_len = Size[space[k].ct]
    BY <2>2, <2>3, <2>4, <2>5, <2>6
  <2> HIDE DEF e, k
  <2>8. ReadsRecord(e)
    BY <2>1, <2>3, <2>6, <2>7 DEF ReadsRecord, LikePut, MaxContentTypeLen
  <2>9. QED
    BY <2>1, <2>8
<1>8. QED
  BY <1>2, <1>5, <1>6, <1>7 DEF Decodes

\* Decode takes every export: what is refused is refused for the size of the
\* body or for the length of a content type.
THEOREM ExportsAreReadable == ExchangeSpec => []RefusedOnlyForSize
<1>1. ExchangeInv => RefusedOnlyForSize
  <2> SUFFICES ASSUME ExchangeInv, answer # NoAnswer, ~answer.accepted, origin = "export",
                      ~(FileSize(file) > MaxValueSize),
                      ~\E k \in Keys : saved[k] # NoRec /\ Size[saved[k].ct] > 255
               PROVE  FALSE
    BY DEF RefusedOnlyForSize
  <2>1. saved \in SpaceRecords /\ file = Encode(saved) /\ SpaceLikePut(saved)
    BY DEF ExchangeInv, ExchangeTypeOK, FileInv, SpaceRecords
  <2>2. Decodes(file)
    BY <2>1, ExportDecodes
  <2>3. FileSize(file) <= MaxValueSize
    <3>1. FileSize(file) \in Nat
      BY <2>1, ExportDecodes
    <3>2. QED
      BY <3>1, LimitAssumption
  <2>4. QED
    BY <2>2, <2>3 DEF ExchangeInv, Accepts
<1>2. QED
  BY <1>1, ExchangeInvariant, PTL

\* The action properties hold of the steps that are imports; no other answers.
LEMMA OnlyImportsAnswer ==
  ASSUME ExchangeNext, answer' # NoAnswer
  PROVE  \E s \in Spaces, mode \in ImportModes : Import(s, mode)
BY DEF ExchangeNext, Put, Delete, Export, Damage, Receive

\* An accepted export leaves what was exported, whatever happened to the store
\* in between: `replace' leaves nothing else, `merge-overwrite' what the file
\* does not have, `merge-skip' all that was there, and other userspaces are not
\* touched.
THEOREM ImportsRestoreExports == ExchangeSpec => RestoresExport
<1> DEFINE s == answer'.space
           mode == answer'.mode
           Kept(k) == /\ kv[s][k] # NoRec
                      /\ \/ mode = "merge-skip"
                         \/ mode = "merge-overwrite" /\ saved[k] = NoRec
           Restored == /\ \A k \in Keys :
                             IF Kept(k) THEN kv'[s][k] = kv[s][k]
                             ELSE /\ SameValue(kv'[s][k], saved[k])
                                  /\ saved[k] # NoRec => kv'[s][k].ver > version
                       /\ \A s2 \in Spaces \ {s} : kv'[s2] = kv[s2]
           Told == (answer' # NoAnswer /\ answer'.accepted /\ origin = "export") => Restored
<1>1. ExchangeInv /\ ExchangeNext => Told
  <2> SUFFICES ASSUME ExchangeInv, ExchangeNext,
                      answer' # NoAnswer, answer'.accepted, origin = "export"
               PROVE  Restored
    OBVIOUS
  <2>1. PICK s0 \in Spaces, mode0 \in ImportModes : Import(s0, mode0)
    BY OnlyImportsAnswer
  <2> DEFINE res == ImportAll(kv[s0], version, file.recs, mode0)
             base == ImportBase(kv[s0], version, mode0).space
  <2>2. s = s0 /\ mode = mode0 /\ file # NoFile /\ Accepts(file)
    BY <2>1, ImportDoes
  <2>3. kv' = [kv EXCEPT ![s0] = res.space]
    BY <2>1, <2>2, ImportDoes
  <2>4. kv[s0] \in SpaceRecords /\ version \in Nat
    BY <2>2, ImportedIsGood
  <2>5. saved \in SpaceRecords /\ file = Encode(saved) /\ SpaceLikePut(saved)
    BY DEF ExchangeInv, ExchangeTypeOK, FileInv, SpaceRecords
  <2>6. PICK recs \in Seq(EncodedRecord) : file = Seal(recs) /\ ExportedAs(saved, recs)
    BY <2>5, EncodeRecords
  <2>7. file.recs = recs
    BY <2>6 DEF Seal
  <2>8. RestoredUpTo(res, PresentIn(saved), base, saved, mode0, version)
    BY <2>4, <2>5, <2>6, <2>7, ImportRestores
  <2>9. base = IF mode0 = "replace" THEN NoRecords ELSE kv[s0]
    BY DEF ImportBase
  <2>10. kv \in [Spaces -> SpaceRecords]
    BY DEF ExchangeInv, ExchangeTypeOK, SpaceRecords
  <2> HIDE DEF res, base, s, mode
  <2>11. kv'[s0] = res.space /\ \A s2 \in Spaces \ {s0} : kv'[s2] = kv[s2]
    BY <2>3, <2>10
  <2>12. ASSUME NEW k \in Keys
         PROVE  IF Kept(k) THEN kv'[s][k] = kv[s][k]
                ELSE /\ SameValue(kv'[s][k], saved[k])
                     /\ saved[k] # NoRec => kv'[s][k].ver > version
    <3>1. base[k] = IF mode0 = "replace" THEN NoRec ELSE kv[s0][k]
      BY <2>9 DEF NoRecords
    <3>2. IF saved[k] # NoRec /\ ~(mode0 = "merge-skip" /\ base[k] # NoRec)
          THEN SameValue(res.space[k], saved[k]) /\ res.space[k].ver > version
          ELSE res.space[k] = base[k]
      BY <2>8 DEF RestoredUpTo, PresentIn
    <3>3. mode0 \in {"replace", "merge-overwrite", "merge-skip"}
      BY DEF ImportModes
    <3>4. CASE Kept(k)
      BY <2>2, <2>11, <3>1, <3>2, <3>4
    <3>5. CASE ~Kept(k) /\ saved[k] # NoRec
      BY <2>2, <2>11, <3>1, <3>2, <3>3, <3>5
    <3>6. CASE ~Kept(k) /\ saved[k] = NoRec
      <4>1. res.space[k] = NoRec
        BY <2>2, <3>1, <3>2, <3>3, <3>6
      <4>2. QED
        BY <2>2, <2>11, <3>6, <4>1 DEF SameValue
    <3>7. QED
      BY <3>4, <3>5, <3>6
  <2>13. QED
    BY <2>2, <2>11, <2>12
<1>2. ExchangeInv /\ [ExchangeNext]_exchangeVars => [Told]_exchangeVars
  BY <1>1
<1>3. ExchangeSpec => [][Told]_exchangeVars
  <2> HIDE DEF Told
  <2>1. QED
    BY <1>2, ExchangeInvariant, PTL DEF ExchangeSpec
<1>4. QED
  BY <1>3 DEF RestoresExport

\* The report of an import adds up, also for files that have a key twice.
THEOREM ReportsAddUp == ExchangeSpec => ReportTellsTruth
<1> DEFINE s == answer'.space
           before == IF answer'.mode = "replace" THEN {} ELSE PresentIn(kv[s])
           Sums == /\ answer'.imported + answer'.skipped = Len(file.recs)
                   /\ version' = version + answer'.imported
                   /\ Cardinality(PresentIn(kv'[s])) =
                        Cardinality(before) + answer'.imported - answer'.replaced
           Told == (answer' # NoAnswer /\ answer'.accepted) => Sums
<1>1. ExchangeInv /\ ExchangeNext => Told
  <2> SUFFICES ASSUME ExchangeInv, ExchangeNext, answer' # NoAnswer, answer'.accepted
               PROVE  Sums
    OBVIOUS
  <2>1. PICK s0 \in Spaces, mode0 \in ImportModes : Import(s0, mode0)
    BY OnlyImportsAnswer
  <2> DEFINE res == ImportAll(kv[s0], version, file.recs, mode0)
             base == ImportBase(kv[s0], version, mode0).space
  <2>2. s = s0 /\ answer'.mode = mode0 /\ file # NoFile /\ Accepts(file)
    BY <2>1, ImportDoes
  <2>3. /\ kv' = [kv EXCEPT ![s0] = res.space] /\ version' = res.version
        /\ answer'.imported = res.imported /\ answer'.replaced = res.replaced
        /\ answer'.skipped = res.skipped
    BY <2>1, <2>2, ImportDoes
  <2>4. kv[s0] \in SpaceRecords /\ version \in Nat /\ GoodProgress(res, version)
    BY <2>2, ImportedIsGood
  <2>5. file.recs \in Seq(EncodedRecord)
    BY <2>2, AcceptedFile
  <2>6. Counted(res, Len(file.recs), Cardinality(PresentIn(base)))
    BY <2>4, <2>5, ImportCounts
  <2>7. PresentIn(base) = before
    BY <2>2 DEF ImportBase, PresentIn, NoRecords
  <2>8. kv \in [Spaces -> SpaceRecords]
    BY DEF ExchangeInv, ExchangeTypeOK, SpaceRecords
  <2> HIDE DEF res, base, before, s
  <2>9. kv'[s] = res.space
    BY <2>2, <2>3, <2>8
  <2>10. QED
    BY <2>3, <2>4, <2>6, <2>7, <2>9 DEF Counted, GoodProgress
<1>2. ExchangeInv /\ [ExchangeNext]_exchangeVars => [Told]_exchangeVars
  BY <1>1
<1>3. ExchangeSpec => [][Told]_exchangeVars
  <2> HIDE DEF Told
  <2>1. QED
    BY <1>2, ExchangeInvariant, PTL DEF ExchangeSpec
<1>4. QED
  BY <1>3 DEF ReportTellsTruth

=============================================================================
