-------------------------- MODULE IsolationProofs --------------------------
(***************************************************************************)
(* TxCoordinator implements SerialKV: executions and imports, worked off   *)
(* operation by operation on private clones while other requests run,      *)
(* change the store as if each had happened at once and alone.  Holds for  *)
(* every set of requests, userspaces, keys, operations and batches.        *)
(***************************************************************************)
EXTENDS TxCoordinatorProofs

-----------------------------------------------------------------------------
(* The effect of a sequence of operations, one operation more at a time.   *)

\* SerialKV counts as we do.
LEMMA SameCardinality ==
  ASSUME NEW S
  PROVE  Serial!Cardinality(S) = Cardinality(S)
  BY DEF Serial!Cardinality, Cardinality

\* The counter of versions goes by one for each write.
LEMMA WritesStep ==
  ASSUME NEW ops, Len(ops) \in Nat, NEW n \in Nat, n < Len(ops)
  PROVE  /\ Serial!WritesUpTo(ops, n) \in Nat
         /\ Serial!WritesUpTo(ops, n + 1) =
              Serial!WritesUpTo(ops, n)
                + (IF ops[n + 1].type \in {"PUT", "DELETE"} THEN 1 ELSE 0)
<1> DEFINE W(m) == {j \in Serial!Writes(ops) : j <= m}
<1>1. Serial!WritesUpTo(ops, n) = Cardinality(W(n))
        /\ Serial!WritesUpTo(ops, n + 1) = Cardinality(W(n + 1))
  BY SameCardinality DEF Serial!WritesUpTo
<1>2. W(n) \subseteq 1..n /\ n + 1 \notin W(n)
  BY DEF Serial!Writes
<1>3. IsFiniteSet(W(n)) /\ Cardinality(W(n)) \in Nat
  <2>1. IsFiniteSet(1..n)
    BY FS_Interval
  <2> HIDE DEF W
  <2>2. QED
    BY <1>2, <2>1, FS_Subset, FS_CardinalityType
<1>4. CASE ops[n + 1].type \in {"PUT", "DELETE"}
  <2>1. W(n + 1) = W(n) \cup {n + 1}
    BY <1>4 DEF Serial!Writes
  <2> HIDE DEF W
  <2>2. Cardinality(W(n + 1)) = Cardinality(W(n)) + 1
    BY <1>2, <1>3, <2>1, FS_AddElement
  <2>3. QED
    BY <1>1, <1>3, <1>4, <2>2
<1>5. CASE ops[n + 1].type \notin {"PUT", "DELETE"}
  <2>1. W(n + 1) = W(n)
    BY <1>5 DEF Serial!Writes
  <2> HIDE DEF W
  <2>2. QED
    BY <1>1, <1>3, <1>5, <2>1
<1>6. QED
  BY <1>4, <1>5

\* No operation, no write.
LEMMA WritesNone ==
  ASSUME NEW ops
  PROVE  Serial!WritesUpTo(ops, 0) = 0
<1>1. {j \in Serial!Writes(ops) : j <= 0} = {}
  BY DEF Serial!Writes
<1>2. QED
  BY <1>1, FS_EmptySet, SameCardinality DEF Serial!WritesUpTo

\* Before the first operation every record is as it was.
LEMMA RecordFirst ==
  ASSUME NEW ops, NEW k, NEW space, NEW ver
  PROVE  Serial!RecordBefore(ops, 1, k, space, ver) = space[k]
<1>1. {j \in Serial!Writes(ops) : j < 1 /\ ops[j].key = k} = {}
  BY DEF Serial!Writes
<1>2. QED
  BY <1>1 DEF Serial!RecordBefore

\* The record a write leaves.
Left(ops, w, ver) ==
    IF ops[w].type = "DELETE"
    THEN NoRec
    ELSE [ct |-> ops[w].ct, body |-> ops[w].body, ver |-> ver + Serial!WritesUpTo(ops, w)]

\* An operation changes the record under its own key, when it writes.
LEMMA RecordStep ==
  ASSUME NEW ops, Len(ops) \in Nat, NEW n \in Nat, n < Len(ops),
         NEW k, NEW space, NEW ver
  PROVE  Serial!RecordBefore(ops, n + 2, k, space, ver) =
           IF ops[n + 1].type \in {"PUT", "DELETE"} /\ ops[n + 1].key = k
           THEN Left(ops, n + 1, ver)
           ELSE Serial!RecordBefore(ops, n + 1, k, space, ver)
<1> DEFINE E(m) == {j \in Serial!Writes(ops) : j < m /\ ops[j].key = k}
<1>0. \A m : Serial!RecordBefore(ops, m, k, space, ver) =
               IF E(m) = {} THEN space[k]
               ELSE Left(ops, CHOOSE j \in E(m) : \A h \in E(m) : h <= j, ver)
  BY DEF Serial!RecordBefore, Left
<1>1. CASE ops[n + 1].type \in {"PUT", "DELETE"} /\ ops[n + 1].key = k
  <2>1. n + 1 \in E(n + 2) /\ \A h \in E(n + 2) : h \in Int /\ h <= n + 1
    BY <1>1 DEF Serial!Writes
  <2>2. (CHOOSE j \in E(n + 2) : \A h \in E(n + 2) : h <= j) = n + 1
    BY <2>1
  <2> HIDE DEF E
  <2>3. QED
    BY <1>0, <1>1, <2>1, <2>2
<1>2. CASE ~(ops[n + 1].type \in {"PUT", "DELETE"} /\ ops[n + 1].key = k)
  <2>1. E(n + 2) = E(n + 1)
    BY <1>2 DEF Serial!Writes
  <2> HIDE DEF E
  <2>2. QED
    BY <1>0, <1>2, <2>1
<1>3. QED
  BY <1>1, <1>2

-----------------------------------------------------------------------------
(* A clone that is worked on.                                              *)

\* The snapshot d is what the first n operations of ops, on the records base of
\* userspace s, make of the snapshot e.
WorkedOff(d, e, s, ops, n, base) ==
    /\ d.version = e.version + Serial!WritesUpTo(ops, n)
    /\ \A q \in Spaces \ {s} : d.kv[q] = e.kv[q]
    /\ \A k \in Keys :
          d.kv[s][k] = Serial!RecordBefore(ops, n + 1, k, base, e.version)

\* The snapshot d2 is d with operation op done.
OneMore(d, d2, s, op) ==
    LET writes == op.type \in {"PUT", "DELETE"}
    IN  /\ d2.version = d.version + (IF writes THEN 1 ELSE 0)
        /\ \A q \in Spaces \ {s} : d2.kv[q] = d.kv[q]
        /\ \A k \in Keys :
              d2.kv[s][k] =
                IF writes /\ op.key = k
                THEN IF op.type = "DELETE"
                     THEN NoRec
                     ELSE [ct |-> op.ct, body |-> op.body, ver |-> d.version + 1]
                ELSE d.kv[s][k]

\* A copy of e on which nothing has been done.
LEMMA NothingWorkedOff ==
  ASSUME NEW d \in SnapshotType, NEW e \in SnapshotType, NEW s \in Spaces,
         NEW ops, NEW base,
         d.version = e.version,
         \A q \in Spaces \ {s} : d.kv[q] = e.kv[q],
         \A k \in Keys : d.kv[s][k] = base[k]
  PROVE  WorkedOff(d, e, s, ops, 0, base)
<1>1. e.version \in Int /\ Serial!WritesUpTo(ops, 0) = 0
  BY WritesNone, SnapshotFields
<1>2. \A k \in Keys : Serial!RecordBefore(ops, 1, k, base, e.version) = base[k]
  BY RecordFirst
<1>3. QED
  BY <1>1, <1>2 DEF WorkedOff

\* The next operation is done on what the ones before it have left.
LEMMA WorkOffStep ==
  ASSUME NEW d, NEW d2, NEW e, NEW s, NEW ops, NEW base, NEW n \in Nat,
         Len(ops) \in Nat, n < Len(ops), e.version \in Nat,
         WorkedOff(d, e, s, ops, n, base), OneMore(d, d2, s, ops[n + 1])
  PROVE  WorkedOff(d2, e, s, ops, n + 1, base)
<1> DEFINE writes == ops[n + 1].type \in {"PUT", "DELETE"}
<1>1. /\ Serial!WritesUpTo(ops, n) \in Nat
      /\ Serial!WritesUpTo(ops, n + 1) =
           Serial!WritesUpTo(ops, n) + (IF writes THEN 1 ELSE 0)
  BY WritesStep
<1>2. /\ d2.version = e.version + Serial!WritesUpTo(ops, n + 1)
      /\ writes => d.version + 1 = e.version + Serial!WritesUpTo(ops, n + 1)
  BY <1>1 DEF WorkedOff, OneMore
<1>3. \A q \in Spaces \ {s} : d2.kv[q] = e.kv[q]
  BY DEF WorkedOff, OneMore
<1>4. ASSUME NEW k \in Keys
      PROVE  d2.kv[s][k] = Serial!RecordBefore(ops, n + 2, k, base, e.version)
  <2>1. Serial!RecordBefore(ops, n + 2, k, base, e.version) =
          IF writes /\ ops[n + 1].key = k
          THEN Left(ops, n + 1, e.version)
          ELSE Serial!RecordBefore(ops, n + 1, k, base, e.version)
    BY RecordStep
  <2>2. d.kv[s][k] = Serial!RecordBefore(ops, n + 1, k, base, e.version)
    BY DEF WorkedOff
  <2>3. CASE writes /\ ops[n + 1].key = k
    BY <1>2, <2>1, <2>3 DEF OneMore, Left
  <2>4. CASE ~(writes /\ ops[n + 1].key = k)
    BY <2>1, <2>2, <2>4 DEF OneMore
  <2>5. QED
    BY <2>3, <2>4
<1>5. n + 1 + 1 = n + 2
  OBVIOUS
<1>6. QED
  BY <1>2, <1>3, <1>4, <1>5 DEF WorkedOff

-----------------------------------------------------------------------------
(* Operations of transactions, and imported records.                       *)

\* Apply does one operation more.
LEMMA ApplyOneMore ==
  ASSUME NEW d \in SnapshotType, NEW s \in Spaces, NEW op \in Fragments
  PROVE  OneMore(d, Apply(d, s, op), s, op)
<1>1. /\ d.version \in Nat /\ d.kv \in [Spaces -> Space] /\ d.kv[s] \in Space
      /\ op.key \in Keys
  BY SnapshotFields, FragmentType
<1>2. CASE op.type = "PUT"
  <2> DEFINE rec == [ct |-> op.ct, body |-> op.body, ver |-> d.version + 1]
  <2>1. /\ Apply(d, s, op).version = d.version + 1
        /\ Apply(d, s, op).kv = [d.kv EXCEPT ![s][op.key] = rec]
    BY <1>2 DEF Apply, PutInto
  <2> HIDE DEF rec
  <2>2. /\ \A q \in Spaces \ {s} : Apply(d, s, op).kv[q] = d.kv[q]
        /\ \A k \in Keys : Apply(d, s, op).kv[s][k] =
                             IF op.key = k THEN rec ELSE d.kv[s][k]
    BY <1>1, <2>1 DEF Space
  <2>3. QED
    BY <1>2, <2>1, <2>2 DEF OneMore, rec
<1>3. CASE op.type = "DELETE"
  <2>1. /\ Apply(d, s, op).version = d.version + 1
        /\ Apply(d, s, op).kv = [d.kv EXCEPT ![s][op.key] = NoRec]
    BY <1>3 DEF Apply, DeleteFrom
  <2>2. /\ \A q \in Spaces \ {s} : Apply(d, s, op).kv[q] = d.kv[q]
        /\ \A k \in Keys : Apply(d, s, op).kv[s][k] =
                             IF op.key = k THEN NoRec ELSE d.kv[s][k]
    BY <1>1, <2>1 DEF Space
  <2>3. QED
    BY <1>3, <2>1, <2>2 DEF OneMore
<1>4. CASE op.type \notin {"PUT", "DELETE"}
  <2>1. Apply(d, s, op) = d
    BY <1>4 DEF Apply
  <2>2. QED
    BY <1>1, <1>4, <2>1 DEF OneMore
<1>5. QED
  BY <1>2, <1>3, <1>4

\* What an operation reports is what is expected of it after the ones before.
LEMMA OutcomeExpected ==
  ASSUME NEW d \in SnapshotType, NEW e, NEW s \in Spaces, NEW ops, NEW n \in Nat,
         Len(ops) \in Nat, n < Len(ops), ops[n + 1] \in Fragments,
         e.version \in Nat, WorkedOff(d, e, s, ops, n, e.kv[s])
  PROVE  OutcomeOf(d, s, ops[n + 1]) =
           Serial!ExpectedOutcome(ops, n + 1, e.kv[s], e.version)
<1> DEFINE op == ops[n + 1]
           rec == d.kv[s][op.key]
<1>1. op.key \in Keys /\ op.type \in OpTypes
  BY FragmentType
<1>2. rec = Serial!RecordBefore(ops, n + 1, op.key, e.kv[s], e.version)
  BY <1>1 DEF WorkedOff
<1>3. op.type \in {"PUT", "DELETE"} =>
        d.version + 1 = e.version + Serial!WritesUpTo(ops, n + 1)
  BY WritesStep DEF WorkedOff
<1>4. \A st, v, ct, b : Serial!Report(st, v, ct, b) = Report(st, v, ct, b)
  BY DEF Serial!Report, Report
<1> DEFINE R == Serial!RecordBefore(ops, n + 1, op.key, e.kv[s], e.version)
<1>5. CASE op.type \in {"PUT", "DELETE"}
  <2>1. OutcomeOf(d, s, op) = Report("ok", d.version + 1, NoType, NoBody)
    BY <1>5 DEF OutcomeOf
  <2>2. Serial!ExpectedOutcome(ops, n + 1, e.kv[s], e.version) =
          Serial!Report("ok", e.version + Serial!WritesUpTo(ops, n + 1), NoType, NoBody)
    BY <1>5 DEF Serial!ExpectedOutcome
  <2>3. QED
    BY <1>3, <1>4, <1>5, <2>1, <2>2
<1>6. CASE op.type = "GET"
  <2>1. OutcomeOf(d, s, op) = Report("ok", rec.ver, rec.ct, rec.body)
    BY <1>6 DEF OutcomeOf
  <2>2. Serial!ExpectedOutcome(ops, n + 1, e.kv[s], e.version) =
          Serial!Report("ok", R.ver, R.ct, R.body)
    BY <1>6 DEF Serial!ExpectedOutcome
  <2>3. QED
    BY <1>2, <1>4, <2>1, <2>2
<1>7. CASE op.type = "HEAD"
  <2>1. OutcomeOf(d, s, op) = Report("ok", rec.ver, rec.ct, NoBody)
    BY <1>7 DEF OutcomeOf
  <2>2. Serial!ExpectedOutcome(ops, n + 1, e.kv[s], e.version) =
          Serial!Report("ok", R.ver, R.ct, NoBody)
    BY <1>7 DEF Serial!ExpectedOutcome
  <2>3. QED
    BY <1>2, <1>4, <2>1, <2>2
<1>8. CASE op.type = "EXISTS"
  <2>1. OutcomeOf(d, s, op) =
          Report(IF rec # NoRec THEN "ok" ELSE "missing", 0, NoType, NoBody)
    BY <1>8 DEF OutcomeOf
  <2>2. Serial!ExpectedOutcome(ops, n + 1, e.kv[s], e.version) =
          Serial!Report(IF R = NoRec THEN "missing" ELSE "ok", 0, NoType, NoBody)
    BY <1>8 DEF Serial!ExpectedOutcome
  <2>3. QED
    BY <1>2, <1>4, <2>1, <2>2
<1>9. QED
  BY <1>1, <1>5, <1>6, <1>7, <1>8 DEF OpTypes

-----------------------------------------------------------------------------
(* A clone on which everything has been done.                              *)

\* All writes are those among all operations.
LEMMA WritesAll ==
  ASSUME NEW ops, Len(ops) \in Nat
  PROVE  Serial!WritesUpTo(ops, Len(ops)) = Cardinality(Serial!Writes(ops))
<1>1. {j \in Serial!Writes(ops) : j <= Len(ops)} = Serial!Writes(ops)
  BY DEF Serial!Writes
<1>2. QED
  BY <1>1, SameCardinality DEF Serial!WritesUpTo

\* When all is done the clone is what SerialKV says the store must become.
LEMMA AllWorkedOff ==
  ASSUME NEW d \in SnapshotType, NEW e \in SnapshotType, NEW s \in Spaces,
         NEW ops, Len(ops) \in Nat, NEW base,
         WorkedOff(d, e, s, ops, Len(ops), base)
  PROVE  /\ d.kv = [e.kv EXCEPT ![s] = Serial!SpaceAfter(ops, base, e.version)]
         /\ d.version = e.version + Cardinality(Serial!Writes(ops))
<1> DEFINE after == Serial!SpaceAfter(ops, base, e.version)
<1>1. /\ d.kv \in [Spaces -> Space] /\ e.kv \in [Spaces -> Space]
      /\ d.kv[s] \in Space
  BY SnapshotFields
<1>2. \A k \in Keys : d.kv[s][k] = after[k]
  BY DEF WorkedOff, Serial!SpaceAfter
<1>3. after = [k \in Keys |-> after[k]]
  BY DEF Serial!SpaceAfter
<1>4. d.kv[s] = [k \in Keys |-> d.kv[s][k]]
  BY <1>1 DEF Space
<1>5. d.kv[s] = after
  BY <1>2, <1>3, <1>4
<1> HIDE DEF after
<1>6. d.kv = [e.kv EXCEPT ![s] = after]
  BY <1>1, <1>5 DEF WorkedOff
<1>7. d.version = e.version + Cardinality(Serial!Writes(ops))
  BY WritesAll DEF WorkedOff
<1>8. QED
  BY <1>6, <1>7 DEF after

\* Some operations, if any, have one that is the last.
LEMMA LastOfSome ==
  ASSUME NEW n \in Nat, NEW S \in SUBSET (1..n), S # {}
  PROVE  \E j \in S : \A h \in S : h <= j
<1> DEFINE T == {m \in Nat : \E j \in S : m = n - j}
           less == {p \in Nat \X Nat : p[1] < p[2]}
<1>1. IsWellFoundedOn(less, Nat)
  BY NatLessThanWellFounded DEF OpToRel
<1>2. T \subseteq Nat /\ T # {}
  <2>1. PICK j \in S : TRUE
    OBVIOUS
  <2>2. n - j \in T
    OBVIOUS
  <2>3. QED
    BY <2>2
<1>3. PICK x \in T : \A y \in T : <<y, x>> \notin less
  <2> HIDE DEF T, less
  <2>1. QED
    BY <1>1, <1>2, WFMin
<1>4. PICK j \in S : x = n - j
  OBVIOUS
<1>5. ASSUME NEW h \in S PROVE ~ (n - h < x)
  <2>1. n - h \in T /\ x \in Nat /\ n - h \in Nat
    OBVIOUS
  <2>2. <<n - h, x>> \notin less
    BY <1>3, <2>1
  <2>3. QED
    BY <2>1, <2>2
<1>6. \A h \in S : h <= j
  BY <1>4, <1>5
<1>7. QED
  BY <1>6

\* What the first n operations do depends on no other.
LEMMA WorkedOffPrefix ==
  ASSUME NEW d, NEW e, NEW s, NEW ops \in Seq(Fragments), NEW base,
         NEW n \in 0..Len(ops), WorkedOff(d, e, s, ops, n, base)
  PROVE  /\ Len(SubSeq(ops, 1, n)) = n
         /\ WorkedOff(d, e, s, SubSeq(ops, 1, n), n, base)
<1> DEFINE pre == SubSeq(ops, 1, n)
<1>1. Len(pre) = n /\ \A j \in 1..n : pre[j] = ops[j]
  OBVIOUS
<1>2. Len(ops) \in Nat
  OBVIOUS
<1> HIDE DEF pre
<1>3. \A m \in 0..n :
        {j \in Serial!Writes(pre) : j <= m} = {j \in Serial!Writes(ops) : j <= m}
  BY <1>1, <1>2 DEF Serial!Writes
<1>4. \A m \in 0..n : Serial!WritesUpTo(pre, m) = Serial!WritesUpTo(ops, m)
  BY <1>3 DEF Serial!WritesUpTo
<1>5. ASSUME NEW k
      PROVE  Serial!RecordBefore(pre, n + 1, k, base, e.version)
               = Serial!RecordBefore(ops, n + 1, k, base, e.version)
  <2> DEFINE E(o) == {j \in Serial!Writes(o) : j < n + 1 /\ o[j].key = k}
             Latest(S) == CHOOSE j \in S : \A h \in S : h <= j
             last == Latest(E(ops))
  <2>1. E(pre) = E(ops)
    BY <1>1, <1>2 DEF Serial!Writes
  <2>2. E(ops) # {} => last \in E(ops)
    <3>1. SUFFICES ASSUME E(ops) # {}
                   PROVE  \E j \in E(ops) : \A h \in E(ops) : h <= j
      OBVIOUS
    <3>2. n \in Nat /\ E(ops) \in SUBSET (1..n)
      BY DEF Serial!Writes
    <3> HIDE DEF E
    <3>3. QED
      BY <3>1, <3>2, LastOfSome
  <2>3. E(ops) # {} => /\ pre[last] = ops[last]
                       /\ Serial!WritesUpTo(pre, last) = Serial!WritesUpTo(ops, last)
    BY <1>1, <1>2, <1>4, <2>2 DEF Serial!Writes
  <2>4. \A o \in {pre, ops} :
          Serial!RecordBefore(o, n + 1, k, base, e.version) =
            IF E(o) = {} THEN base[k] ELSE Left(o, Latest(E(o)), e.version)
    BY DEF Serial!RecordBefore, Left
  <2> HIDE DEF E, Latest
  <2>5. QED
    BY <2>1, <2>3, <2>4 DEF Left
<1>6. QED
  BY <1>1, <1>4, <1>5 DEF WorkedOff, pre

-----------------------------------------------------------------------------
(* The records of an import as a sequence of operations.                   *)

\* As in SerialKV: what an import starts from, which records it takes, and the
\* operations it amounts to.
ImportBase(c, space) == IF c.mode = "replace" THEN [k \in Keys |-> NoRec] ELSE space

Kept(c, base, i) ==
    c.mode = "merge-skip" =>
        /\ base[c.recs[i].key] = NoRec
        /\ \A j \in 1..(i - 1) : c.recs[j].key # c.recs[i].key

Puts(c, base) ==
    [i \in 1..Len(c.recs) |->
       [type |-> IF Kept(c, base, i) THEN "PUT" ELSE "SKIP",
        key |-> c.recs[i].key, ct |-> c.recs[i].ct, body |-> c.recs[i].body]]

\* A key is taken in the clone d when it was before or came with the first n
\* records; only merge-skip asks.
TakenKeys(d, s, c, base, n) ==
    c.mode = "merge-skip" =>
        \A k \in Keys :
            d.kv[s][k] = NoRec <=>
                base[k] = NoRec /\ \A j \in 1..n : c.recs[j].key # k

\* The operations are as many as the records.
LEMMA PutsFields ==
  ASSUME NEW c, c.recs \in Seq(ImportRecordType), NEW base
  PROVE  /\ Len(Puts(c, base)) = Len(c.recs) /\ Len(c.recs) \in Nat
         /\ \A i \in 1..Len(c.recs) :
               Puts(c, base)[i] =
                 [type |-> IF Kept(c, base, i) THEN "PUT" ELSE "SKIP",
                  key |-> c.recs[i].key, ct |-> c.recs[i].ct, body |-> c.recs[i].body]
<1>1. Len(c.recs) \in Nat
  OBVIOUS
<1>2. QED
  BY <1>1 DEF Puts

\* Importing a record is one operation more, and takes its key.
LEMMA ImportOneMore ==
  ASSUME NEW d \in SnapshotType, NEW s \in Spaces, NEW c,
         c.recs \in Seq(ImportRecordType), c.mode \in ImportModes,
         NEW base, NEW n \in Nat, n < Len(c.recs),
         TakenKeys(d, s, c, base, n)
  PROVE  LET d2 == ImportInto(d, s, c.recs[n + 1], c.mode)
         IN  /\ OneMore(d, d2, s, Puts(c, base)[n + 1])
             /\ TakenKeys(d2, s, c, base, n + 1)
<1> DEFINE rec == c.recs[n + 1]
           op == Puts(c, base)[n + 1]
           d2 == ImportInto(d, s, rec, c.mode)
           new == [ct |-> rec.ct, body |-> rec.body, ver |-> d.version + 1]
<1>1. n + 1 \in 1..Len(c.recs) /\ rec \in ImportRecordType
  OBVIOUS
<1>2. rec.key \in Keys /\ rec.ct \in ContentTypes /\ rec.body \in Bodies
  BY <1>1 DEF ImportRecordType
<1>3. /\ d.version \in Nat /\ d.kv \in [Spaces -> Space] /\ d.kv[s] \in Space
  BY SnapshotFields
<1>4. /\ op.type = IF Kept(c, base, n + 1) THEN "PUT" ELSE "SKIP"
      /\ op.key = rec.key /\ op.ct = rec.ct /\ op.body = rec.body
  <2>1. op = [type |-> IF Kept(c, base, n + 1) THEN "PUT" ELSE "SKIP",
              key |-> rec.key, ct |-> rec.ct, body |-> rec.body]
    BY <1>1, PutsFields
  <2> HIDE DEF op, rec
  <2>2. QED
    BY <2>1
<1>5. Kept(c, base, n + 1) <=> ~Skipped(d, s, rec, c.mode)
  BY <1>2 DEF Kept, Skipped, Present, TakenKeys
<1>6. CASE Skipped(d, s, rec, c.mode)
  <2>1. d2 = d
    BY <1>6 DEF ImportInto
  <2>2. OneMore(d, d2, s, op)
    BY <1>3, <1>4, <1>5, <1>6, <2>1 DEF OneMore
  <2>3. c.mode = "merge-skip" /\ d.kv[s][rec.key] # NoRec
    BY <1>6 DEF Skipped, Present
  <2>4. TakenKeys(d2, s, c, base, n + 1)
    BY <1>2, <2>1, <2>3 DEF TakenKeys
  <2>5. QED
    BY <2>2, <2>4
<1>7. CASE ~Skipped(d, s, rec, c.mode)
  <2>1. d2.version = d.version + 1 /\ d2.kv = [d.kv EXCEPT ![s][rec.key] = new]
    BY <1>7 DEF ImportInto, PutInto
  <2>2. new # NoRec
    BY <1>2, <1>3, NullAssumption
  <2> HIDE DEF new, d2
  <2>3. /\ \A q \in Spaces \ {s} : d2.kv[q] = d.kv[q]
        /\ \A k \in Keys : d2.kv[s][k] = IF rec.key = k THEN new ELSE d.kv[s][k]
    BY <1>2, <1>3, <2>1 DEF Space
  <2>4. OneMore(d, d2, s, op)
    BY <1>4, <1>5, <1>7, <2>1, <2>3 DEF OneMore, new
  <2>5. ASSUME c.mode = "merge-skip", NEW k \in Keys
        PROVE  d2.kv[s][k] = NoRec <=>
                 base[k] = NoRec /\ \A j \in 1..(n + 1) : c.recs[j].key # k
    <3>1. d.kv[s][k] = NoRec <=>
            base[k] = NoRec /\ \A j \in 1..n : c.recs[j].key # k
      BY <2>5 DEF TakenKeys
    <3>2. \A j \in 1..(n + 1) : j \in 1..n \/ j = n + 1
      OBVIOUS
    <3>3. 1..n \subseteq 1..(n + 1) /\ n + 1 \in 1..(n + 1)
      OBVIOUS
    <3>4. QED
      BY <2>2, <2>3, <3>1, <3>2, <3>3
  <2>6. TakenKeys(d2, s, c, base, n + 1)
    BY <2>5 DEF TakenKeys
  <2>7. QED
    BY <2>4, <2>6 DEF d2
<1>8. QED
  BY <1>6, <1>7

-----------------------------------------------------------------------------
(* The invariant: every clone that is worked on is current.                *)

\* The execution of r has worked off some of its operations on the store as it
\* is now; each has succeeded there and reported what it had to.
ExecutionCurrent(r) ==
    Running(r) =>
        LET ops == OpsOf(tx[r])
            s   == SpaceOfTx(tx[r])
            base == data.kv[s]
            n   == Len(results[r])
        IN  /\ WorkedOff(atx[r], data, s, ops, n, base)
            /\ \A i \in 1..n :
                  /\ results[r][i] = Serial!ExpectedOutcome(ops, i, base, data.version)
                  /\ ops[i].type \in {"GET", "HEAD", "DELETE"} =>
                        Serial!RecordBefore(ops, i, ops[i].key, base, data.version) # NoRec

\* The import of r has worked off some of its records on the store as it is now.
ImportCurrent(r) ==
    Importing(r) =>
        LET c    == call[r]
            s    == SpaceOf[c.p]
            base == ImportBase(c, data.kv[s])
            n    == Len(results[r])
        IN  /\ WorkedOff(atx[r], data, s, Puts(c, base), n, base)
            /\ TakenKeys(atx[r], s, c, base, n)
            /\ n <= Len(c.recs)

IsolationInv ==
    /\ CoordinatorInv
    /\ \A r \in Reqs : ExecutionCurrent(r) /\ ImportCurrent(r)

\* A step that leaves r, and the records and versions of the store, alone.
Undisturbed(r) ==
    /\ pc'[r] = pc[r] /\ call'[r] = call[r] /\ tx'[r] = tx[r]
    /\ atx'[r] = atx[r] /\ results'[r] = results[r]
    /\ data'.kv = data.kv /\ data'.version = data.version

\* ... leaves its clone current.
LEMMA UndisturbedCurrent ==
  ASSUME NEW r \in Reqs, Undisturbed(r), ExecutionCurrent(r), ImportCurrent(r)
  PROVE  ExecutionCurrent(r)' /\ ImportCurrent(r)'
<1>1. \A d, s, ops, n, base :
         WorkedOff(d, data, s, ops, n, base) => WorkedOff(d, data', s, ops, n, base)
  BY DEF Undisturbed, WorkedOff
<1>2. ExecutionCurrent(r)'
  BY <1>1 DEF Undisturbed, ExecutionCurrent, Running
<1>3. ImportCurrent(r)'
  BY <1>1 DEF Undisturbed, ImportCurrent, Importing
<1>4. QED
  BY <1>2, <1>3

-----------------------------------------------------------------------------
(* The steps of other requests.                                            *)

\* While a request holds the lock no other changes records or versions: what
\* goes on without the lock stores transactions only.
LEMMA OthersKeepRecords ==
  ASSUME CoordinatorInv, NEW r \in Reqs, NEW q \in Reqs, q # r, pc[r] = "run",
         Step(q) \/ \E c \in Calls : Start(q, c)
  PROVE  data'.kv = data.kv /\ data'.version = data.version
<1>1. lock = r /\ lock # Free /\ pc[q] # "run"
  BY ReqAssumption DEF CoordinatorInv, LockDiscipline
<1>2. CASE Save(q)
  BY <1>2 DEF Save, StoreTx, CoordinatorInv, TypeOK, SnapshotType
<1>3. CASE \E c \in Calls : Start(q, c)
  BY <1>3 DEF Start
<1>4. CASE LoadForCreate(q) \/ LoadOwned(q) \/ Decide(q)
  BY <1>4, DecideShape DEF Private
<1>5. ~(BeginTx(q) \/ BeginImport(q) \/ BeginRead(q) \/ KVPut(q) \/ KVDelete(q))
  BY <1>1 DEF BeginTx, BeginImport, BeginRead, KVPut, KVDelete, CanLock
<1>6. ~(RunOp(q) \/ FailTx(q) \/ CommitTx(q) \/ ImportRecord(q) \/ CommitImport(q)
          \/ EndRead(q))
  BY <1>1 DEF RunOp, FailTx, CommitTx, ImportRecord, CommitImport, EndRead,
              Running, Importing
<1>7. QED
  BY <1>2, <1>3, <1>4, <1>5, <1>6 DEF Step

\* Neither the cleaner nor the clock changes them.
LEMMA CleanerUndisturbs ==
  ASSUME CoordinatorInv, NEW r \in Reqs, Cleaner \/ Tick
  PROVE  Undisturbed(r)
<1>1. data \in SnapshotType
  BY DEF CoordinatorInv, TypeOK
<1>2. CASE ListDue \/ Tick
  BY <1>2 DEF ListDue, Tick, locals, Undisturbed
<1>3. ASSUME NEW t \in sweep, SweepOne(t) PROVE Undisturbed(r)
  <2> DEFINE e == [t EXCEPT !.status = "expired"]
  <2>1. data' = data \/ data' = StoreTx(data, e)
    BY <1>3 DEF SweepOne
  <2> HIDE DEF e
  <2>2. data'.kv = data.kv /\ data'.version = data.version
    BY <1>1, <2>1 DEF StoreTx, SnapshotType
  <2>3. QED
    BY <1>3, <2>2 DEF SweepOne, locals, Undisturbed
<1>4. QED
  BY <1>2, <1>3 DEF Cleaner

-----------------------------------------------------------------------------
(* The steps of the request itself.                                        *)

\* A request that does not run afterwards has no clone.
LEMMA NotRunningCurrent ==
  ASSUME NEW r \in Reqs, pc'[r] # "run" \/ call'[r].kind \notin {"add", "commit", "import"}
  PROVE  ExecutionCurrent(r)' /\ ImportCurrent(r)'
  BY DEF ExecutionCurrent, ImportCurrent, Running, Importing

\* BeginAtomic.
LEMMA BeginCurrent ==
  ASSUME CoordinatorInv, NEW r \in Reqs, BeginTx(r) \/ BeginImport(r)
  PROVE  ExecutionCurrent(r)' /\ ImportCurrent(r)'
<1>1. /\ data \in SnapshotType /\ atx \in [Reqs -> SnapshotType]
      /\ pc[r] = "lock" /\ results[r] = <<>> /\ call[r] \in Calls
  BY DEF CoordinatorInv, TypeOK, RequestOK, BeginTx, BeginImport
<1>2. CASE BeginTx(r)
  <2> DEFINE s == SpaceOfTx(tx[r])
  <2>1. /\ call[r].kind \in {"add", "commit"} /\ atx'[r] = data
        /\ UNCHANGED <<data, call, tx, results>>
    BY <1>1, <1>2 DEF BeginTx, CloneOf
  <2>2. tx[r] \in Transaction /\ s \in Spaces
    BY <1>1, <2>1, SpaceAssumption DEF CoordinatorInv, RequestOK, SpaceOfTx, Transaction
  <2>3. WorkedOff(data, data, s, OpsOf(tx[r]), 0, data.kv[s])
    BY <1>1, <2>2, NothingWorkedOff
  <2>4. Len(results[r]) = 0 /\ \A i \in 1..0 : FALSE
    BY <1>1
  <2>5. ExecutionCurrent(r)'
    BY <2>1, <2>3, <2>4 DEF ExecutionCurrent
  <2>6. ImportCurrent(r)'
    BY <2>1 DEF ImportCurrent, Importing
  <2>7. QED
    BY <2>5, <2>6
<1>3. CASE BeginImport(r)
  <2> DEFINE c == call[r]
             s == SpaceOf[c.p]
             base == ImportBase(c, data.kv[s])
             d == IF c.mode = "replace" THEN ClearSpace(data, s) ELSE data
  <2>1. /\ c.kind = "import" /\ atx'[r] = d
        /\ UNCHANGED <<data, call, tx, results>>
    BY <1>1, <1>3 DEF BeginImport, CloneOf
  <2>2. c \in ImportCall /\ s \in Spaces /\ c.recs \in Seq(ImportRecordType)
    BY <1>1, <2>1, CallKinds, SpaceAssumption, ImportAssumption DEF ImportCall
  <2>3. d \in SnapshotType
    BY <1>1, <2>2, ClearSpaceType
  <2>4. /\ d.version = data.version
        /\ \A q \in Spaces \ {s} : d.kv[q] = data.kv[q]
        /\ \A k \in Keys : d.kv[s][k] = base[k]
    BY <1>1, <2>2 DEF ClearSpace, ImportBase, SnapshotType
  <2> HIDE DEF d
  <2>5. WorkedOff(d, data, s, Puts(c, base), 0, base)
    BY <1>1, <2>2, <2>3, <2>4, NothingWorkedOff
  <2>6. TakenKeys(d, s, c, base, 0)
    BY <2>4 DEF TakenKeys
  <2>7. Len(results[r]) = 0 /\ 0 <= Len(c.recs)
    BY <1>1, <2>2
  <2>8. ImportCurrent(r)'
    BY <2>1, <2>5, <2>6, <2>7 DEF ImportCurrent
  <2>9. ExecutionCurrent(r)'
    BY <2>1 DEF ExecutionCurrent, Running
  <2>10. QED
    BY <2>8, <2>9
<1>4. QED
  BY <1>2, <1>3

\* The operations of a transaction that runs are as many as it has announced.
LEMMA OpsFields ==
  ASSUME NEW t \in Transaction, Received(t) = 1..t.total
  PROVE  /\ t.total \in 1..MaxOps /\ t.total \in Nat
         /\ OpsOf(t) \in [1..t.total -> Fragments] /\ OpsOf(t) \in Seq(Fragments)
         /\ Len(OpsOf(t)) = t.total
         /\ \A i \in 1..t.total : OpsOf(t)[i] = t.ops[i]
<1>1. t.total \in 1..MaxOps /\ t.total \in Nat /\ t.ops \in OpMap
  BY MaxOpsAssumption DEF Transaction
<1>2. \A i \in 1..t.total : t.ops[i] # NoOp /\ i \in 1..MaxOps
  BY DEF Received
<1>3. \A i \in 1..t.total : t.ops[i] \in Fragments
  BY <1>1, <1>2 DEF OpMap
<1>4. OpsOf(t) \in [1..t.total -> Fragments]
  BY <1>3 DEF OpsOf
<1>5. OpsOf(t) \in Seq(Fragments) /\ Len(OpsOf(t)) = t.total
  BY <1>1, <1>4
<1>6. QED
  BY <1>1, <1>4, <1>5 DEF OpsOf

\* One operation of an execution.
LEMMA RunOpCurrent ==
  ASSUME CoordinatorInv, NEW r \in Reqs, ExecutionCurrent(r), RunOp(r)
  PROVE  ExecutionCurrent(r)' /\ ImportCurrent(r)'
<1> DEFINE ops == OpsOf(tx[r])
           s == SpaceOfTx(tx[r])
           base == data.kv[s]
           n == Len(results[r])
           d == Apply(atx[r], s, NextOp(r))
           out == OutcomeOf(atx[r], s, NextOp(r))
<1>1. /\ Running(r) /\ ~AllRun(r) /\ Succeeds(atx[r], s, NextOp(r))
      /\ atx'[r] = d /\ results'[r] = Append(results[r], out)
      /\ UNCHANGED <<data, pc, call, tx>>
  BY DEF RunOp, View, CoordinatorInv, TypeOK
<1>2. /\ tx[r] \in Transaction /\ Received(tx[r]) = 1..tx[r].total
      /\ s \in Spaces /\ results[r] \in Seq(Outcome) /\ n \in 0..tx[r].total
      /\ atx[r] \in SnapshotType /\ data \in SnapshotType /\ data.version \in Nat
  BY <1>1, RunningCopy, SnapshotFields DEF SoundSnapshot, CoordinatorInv, TypeOK
<1>3. /\ Len(ops) = tx[r].total /\ Len(ops) \in Nat /\ n \in Nat /\ n < Len(ops)
      /\ ops[n + 1] = NextOp(r) /\ ops[n + 1] \in Fragments
  BY <1>1, <1>2, OpsFields, RunningOp DEF NextOp
<1>4. /\ WorkedOff(atx[r], data, s, ops, n, base)
      /\ \A i \in 1..n :
            /\ results[r][i] = Serial!ExpectedOutcome(ops, i, base, data.version)
            /\ ops[i].type \in {"GET", "HEAD", "DELETE"} =>
                  Serial!RecordBefore(ops, i, ops[i].key, base, data.version) # NoRec
  BY <1>1 DEF ExecutionCurrent
<1>5. out = Serial!ExpectedOutcome(ops, n + 1, base, data.version)
  BY <1>2, <1>3, <1>4, OutcomeExpected
<1>6. ops[n + 1].type \in {"GET", "HEAD", "DELETE"} =>
        Serial!RecordBefore(ops, n + 1, ops[n + 1].key, base, data.version) # NoRec
  BY <1>1, <1>3, <1>4, FragmentType DEF Succeeds, Present, WorkedOff
<1>7. WorkedOff(d, data, s, ops, n + 1, base)
  <2>1. OneMore(atx[r], d, s, ops[n + 1])
    BY <1>2, <1>3, ApplyOneMore
  <2> HIDE DEF d, ops, base
  <2>2. QED
    BY <1>2, <1>3, <1>4, <2>1, WorkOffStep
<1> HIDE DEF d, out
<1>8. /\ Len(results'[r]) = n + 1 /\ results'[r][n + 1] = out
      /\ \A i \in 1..n : results'[r][i] = results[r][i]
  BY <1>1, <1>2
<1>9. ASSUME NEW i \in 1..(n + 1)
      PROVE  /\ results'[r][i] = Serial!ExpectedOutcome(ops, i, base, data.version)
             /\ ops[i].type \in {"GET", "HEAD", "DELETE"} =>
                   Serial!RecordBefore(ops, i, ops[i].key, base, data.version) # NoRec
  <2>1. i \in 1..n \/ i = n + 1
    BY <1>3
  <2> HIDE DEF ops, base
  <2>2. QED
    BY <1>4, <1>5, <1>6, <1>8, <2>1
<1>10. ExecutionCurrent(r)'
  BY <1>1, <1>7, <1>8, <1>9 DEF ExecutionCurrent
<1>11. ImportCurrent(r)'
  BY <1>1 DEF ImportCurrent, Importing, Running
<1>12. QED
  BY <1>10, <1>11

\* One record of an import.
LEMMA ImportRecordCurrent ==
  ASSUME CoordinatorInv, NEW r \in Reqs, ImportCurrent(r), ImportRecord(r)
  PROVE  ExecutionCurrent(r)' /\ ImportCurrent(r)'
<1> DEFINE c == call[r]
           s == SpaceOf[c.p]
           base == ImportBase(c, data.kv[s])
           n == Len(results[r])
           d == ImportInto(atx[r], s, c.recs[n + 1], c.mode)
           out == ImportOutcome(atx[r], s, c.recs[n + 1], c.mode)
<1>1. /\ Importing(r) /\ n < Len(c.recs)
      /\ atx'[r] = d /\ results'[r] = Append(results[r], out)
      /\ UNCHANGED <<data, pc, call, tx>>
  BY DEF ImportRecord, CoordinatorInv, TypeOK
<1>2. /\ c \in ImportCall /\ s \in Spaces /\ c.recs \in Seq(ImportRecordType)
      /\ c.mode \in ImportModes /\ Len(c.recs) \in Nat
  BY <1>1, CallKinds, SpaceAssumption, ImportAssumption
     DEF CoordinatorInv, RequestOK, Importing, ImportCall
<1>3. /\ results[r] \in Seq(Outcome) /\ n \in Nat
      /\ atx[r] \in SnapshotType /\ data \in SnapshotType /\ data.version \in Nat
  BY SnapshotFields DEF CoordinatorInv, TypeOK
<1>4. WorkedOff(atx[r], data, s, Puts(c, base), n, base) /\ TakenKeys(atx[r], s, c, base, n)
  BY <1>1 DEF ImportCurrent
<1>5. OneMore(atx[r], d, s, Puts(c, base)[n + 1]) /\ TakenKeys(d, s, c, base, n + 1)
  BY <1>1, <1>2, <1>3, <1>4, ImportOneMore
<1> HIDE DEF d, out, base
<1>6. WorkedOff(d, data, s, Puts(c, base), n + 1, base)
  <2>1. Len(Puts(c, base)) \in Nat /\ n < Len(Puts(c, base))
    BY <1>1, <1>2, PutsFields
  <2>2. QED
    BY <1>3, <1>4, <1>5, <2>1, WorkOffStep
<1>7. Len(results'[r]) = n + 1 /\ n + 1 <= Len(c.recs)
  BY <1>1, <1>2, <1>3
<1>8. ImportCurrent(r)'
  BY <1>1, <1>5, <1>6, <1>7 DEF ImportCurrent, base
<1>9. ExecutionCurrent(r)'
  BY <1>1 DEF ExecutionCurrent, Running, Importing
<1>10. QED
  BY <1>8, <1>9

\* Every step of a request keeps its own clone current.
LEMMA StepCurrent ==
  ASSUME CoordinatorInv, NEW r \in Reqs, ExecutionCurrent(r), ImportCurrent(r),
         Step(r) \/ \E c \in Calls : Start(r, c)
  PROVE  ExecutionCurrent(r)' /\ ImportCurrent(r)'
<1>0. pc \in [Reqs -> PC] /\ call \in [Reqs -> Calls \cup {NoCall}]
  BY DEF CoordinatorInv, TypeOK
<1>1. CASE Return(r)
  <2>1. pc'[r] = "idle"
    BY <1>0, <1>1 DEF Return
  <2>2. QED
    BY <2>1, NotRunningCurrent
<1>2. CASE \E p \in {"decide", "save", "lock"} : \E t : GoOn(r, p, t)
  <2>1. pc'[r] \in {"decide", "save", "lock"}
    BY <1>0, <1>2 DEF GoOn
  <2>2. QED
    BY <2>1, NotRunningCurrent
<1>3. CASE \E c \in Calls : Start(r, c)
  <2>1. pc'[r] \in {"load", "lock"}
    BY <1>0, <1>3 DEF Start
  <2>2. QED
    BY <2>1, NotRunningCurrent
<1>4. CASE BeginRead(r)
  <2>1. call'[r].kind = "read"
    BY <1>4 DEF BeginRead
  <2>2. QED
    BY <2>1, NotRunningCurrent
<1>5. CASE FailTx(r) \/ CommitTx(r) \/ Save(r) \/ KVPut(r) \/ KVDelete(r)
             \/ CommitImport(r) \/ EndRead(r)
  BY <1>1, <1>5 DEF FailTx, CommitTx, Save, KVPut, KVDelete, CommitImport, EndRead
<1>6. QED
  BY <1>1, <1>2, <1>3, <1>4, <1>5, DecideShape, BeginCurrent, RunOpCurrent,
     ImportRecordCurrent DEF Step

\* No step makes a clone stale.
LEMMA NextCurrent ==
  ASSUME IsolationInv, [Next]_vars, NEW r \in Reqs
  PROVE  ExecutionCurrent(r)' /\ ImportCurrent(r)'
<1>0. CoordinatorInv /\ ExecutionCurrent(r) /\ ImportCurrent(r)
  BY DEF IsolationInv
<1>1. ASSUME NEW q \in Reqs, Step(q) \/ \E c \in Calls : Start(q, c)
      PROVE  ExecutionCurrent(r)' /\ ImportCurrent(r)'
  <2>1. CASE q = r
    BY <1>0, <1>1, <2>1, StepCurrent
  <2>2. CASE q # r /\ pc[r] = "run"
    BY <1>0, <1>1, <2>2, OtherLocals, OthersKeepRecords, UndisturbedCurrent DEF Undisturbed
  <2>3. CASE q # r /\ pc[r] # "run"
    <3>1. pc'[r] # "run"
      BY <1>0, <1>1, <2>3, OtherLocals
    <3>2. QED
      BY <3>1, NotRunningCurrent
  <2>4. QED
    BY <2>1, <2>2, <2>3
<1>2. CASE Cleaner \/ Tick
  BY <1>0, <1>2, CleanerUndisturbs, UndisturbedCurrent
<1>3. CASE Restart
  <2>1. pc'[r] # "run"
    BY <1>3 DEF Restart
  <2>2. QED
    BY <2>1, NotRunningCurrent
<1>4. CASE UNCHANGED vars
  <2>1. Undisturbed(r)
    BY <1>4 DEF vars, Undisturbed
  <2>2. QED
    BY <1>0, <2>1, UndisturbedCurrent
<1>5. QED
  BY <1>1, <1>2, <1>3, <1>4 DEF Next

\* Every clone is at every moment the store of that moment with what has been
\* worked off, and every outcome so far the expected one (execute, ImportUserspace).
THEOREM IsolationInvariant == Spec => []IsolationInv
<1>1. Init => \A r \in Reqs : ExecutionCurrent(r) /\ ImportCurrent(r)
  BY DEF Init, ExecutionCurrent, ImportCurrent, Running, Importing
<1>2. CoordinatorInv /\ (\A r \in Reqs : ExecutionCurrent(r) /\ ImportCurrent(r))
        /\ [Next]_vars
          => (\A r \in Reqs : ExecutionCurrent(r) /\ ImportCurrent(r))'
  BY NextCurrent DEF IsolationInv
<1>3. IsolationInv <=> CoordinatorInv
        /\ \A r \in Reqs : ExecutionCurrent(r) /\ ImportCurrent(r)
  BY DEF IsolationInv
<1>4. QED
  BY <1>1, <1>2, <1>3, CoordinatorInvariant, PTL DEF Spec

-----------------------------------------------------------------------------
(* What follows from it.                                                   *)

\* A private clone is the store of this moment with the operations run so far
\* applied to it: nothing slips in while a transaction executes (execute, Lock).
THEOREM ExecutionsStayCurrent == Spec => []CloneIsCurrent
<1>1. IsolationInv => CloneIsCurrent
  <2> SUFFICES ASSUME IsolationInv, NEW r \in Reqs, Running(r)
               PROVE  /\ atx[r].kv = [data.kv EXCEPT ![SpaceOfTx(tx[r])] =
                                        Serial!SpaceAfter(Done(r), @, data.version)]
                      /\ atx[r].version =
                           data.version + Cardinality(Serial!Writes(Done(r)))
    BY DEF CloneIsCurrent
  <2> DEFINE ops == OpsOf(tx[r])
             s == SpaceOfTx(tx[r])
             n == Len(results[r])
             pre == SubSeq(ops, 1, n)
  <2>1. /\ tx[r] \in Transaction /\ Received(tx[r]) = 1..tx[r].total
        /\ n \in 0..tx[r].total /\ s \in Spaces
        /\ atx[r] \in SnapshotType /\ data \in SnapshotType
    BY RunningCopy DEF IsolationInv, SoundSnapshot, CoordinatorInv, TypeOK
  <2>2. ops \in Seq(Fragments) /\ Len(ops) = tx[r].total
    BY <2>1, OpsFields
  <2>3. WorkedOff(atx[r], data, s, ops, n, data.kv[s])
    BY DEF IsolationInv, ExecutionCurrent
  <2> HIDE DEF ops, s, n
  <2>4. Len(pre) = n /\ n \in Nat /\ WorkedOff(atx[r], data, s, pre, n, data.kv[s])
    BY <2>1, <2>2, <2>3, WorkedOffPrefix
  <2> HIDE DEF pre
  <2>5. /\ atx[r].kv = [data.kv EXCEPT ![s] =
                          Serial!SpaceAfter(pre, data.kv[s], data.version)]
        /\ atx[r].version = data.version + Cardinality(Serial!Writes(pre))
    BY <2>1, <2>4, AllWorkedOff
  <2>6. QED
    BY <2>5 DEF Done, pre, ops, s, n
<1>2. QED
  BY <1>1, IsolationInvariant, PTL

\* The step that ends an execution does what the whole transaction does at once,
\* and stores the outcomes it has then.
LEMMA CommitTxSerial ==
  ASSUME IsolationInv, NEW r \in Reqs, CommitTx(r)
  PROVE  LET ops == OpsOf(tx[r])
             s == SpaceOfTx(tx[r])
             id == tx[r].tx_id
         IN  /\ Serial!SerialTransact(s, ops)
             /\ data'.txs[id] = Finished(r, "committed", results[r])
             /\ \A i \in 1..tx[r].total :
                   results[r][i] = Serial!ExpectedOutcome(ops, i, data.kv[s], data.version)
<1> DEFINE ops == OpsOf(tx[r])
           s == SpaceOfTx(tx[r])
           f == Finished(r, "committed", results[r])
<1>1. /\ Running(r) /\ Len(results[r]) = tx[r].total /\ data' = StoreTx(atx[r], f)
  BY DEF CommitTx, AllRun
<1>2. /\ tx[r] \in Transaction /\ Received(tx[r]) = 1..tx[r].total /\ s \in Spaces
      /\ atx[r] \in SnapshotType /\ data \in SnapshotType
  BY <1>1, RunningCopy DEF IsolationInv, SoundSnapshot, CoordinatorInv, TypeOK
<1>3. Len(ops) = tx[r].total /\ Len(ops) \in Nat
  BY <1>2, OpsFields
<1>4. /\ WorkedOff(atx[r], data, s, ops, Len(ops), data.kv[s])
      /\ \A i \in 1..Len(ops) :
            /\ results[r][i] = Serial!ExpectedOutcome(ops, i, data.kv[s], data.version)
            /\ ops[i].type \in {"GET", "HEAD", "DELETE"} =>
                  Serial!RecordBefore(ops, i, ops[i].key, data.kv[s], data.version) # NoRec
  BY <1>1, <1>3 DEF IsolationInv, ExecutionCurrent
<1>5. f.tx_id = tx[r].tx_id /\ tx[r].tx_id \in TxIDs
  BY <1>2 DEF Finished, Transaction
<1> HIDE DEF f, ops
<1>6. /\ data'.kv = atx[r].kv /\ data'.version = atx[r].version
      /\ data'.txs[tx[r].tx_id] = f
  BY <1>1, <1>2, <1>5 DEF StoreTx, SnapshotType
<1>7. /\ data'.kv = [data.kv EXCEPT ![s] =
                       Serial!SpaceAfter(ops, data.kv[s], data.version)]
      /\ data'.version = data.version + Cardinality(Serial!Writes(ops))
  BY <1>2, <1>3, <1>4, <1>6, AllWorkedOff
<1>8. Serial!AllSucceed(ops, data.kv[s], data.version)
  BY <1>4 DEF Serial!AllSucceed
<1>9. Serial!SerialTransact(s, ops)
  BY <1>7, <1>8, SameCardinality DEF Serial!SerialTransact
<1>10. QED
  BY <1>3, <1>4, <1>6, <1>9 DEF f, ops

\* Only that step counts an execution.
LEMMA OnlyCommitCounts ==
  ASSUME [Next]_vars, executed' # executed
  PROVE  \E r \in Reqs : CommitTx(r)
<1>1. ASSUME NEW r \in Reqs, Step(r), ~CommitTx(r) PROVE executed' = executed
  <2>1. CASE LoadForCreate(r) \/ LoadOwned(r) \/ Decide(r)
    BY <2>1, DecideShape DEF Private
  <2>2. QED
    BY <1>1, <2>1 DEF Step, Save, BeginTx, RunOp, FailTx, KVPut, KVDelete,
       BeginImport, ImportRecord, CommitImport, BeginRead, EndRead
<1>2. ASSUME NEW r \in Reqs, NEW c \in Calls, Start(r, c) PROVE executed' = executed
  BY <1>2 DEF Start
<1>3. Cleaner \/ Tick \/ Restart \/ UNCHANGED vars => executed' = executed
  BY DEF Cleaner, ListDue, SweepOne, Tick, Restart, vars
<1>4. QED
  BY <1>1, <1>2, <1>3 DEF Next

\* A committed transaction has changed the store as its operations, one after the
\* other, would have at that very moment, and reports what they would (execute).
THEOREM CommitsAreSerial == Spec => CommitIsSerial
<1>1. IsolationInv /\ [Next]_vars =>
        [\A id \in TxIDs : executed'[id] # executed[id] =>
          LET t == data'.txs[id]
              s == SpaceOfTx(t)
          IN  /\ Serial!SerialTransact(s, OpsOf(t))
              /\ \A i \in 1..t.total :
                    t.result.results[i] =
                      Serial!ExpectedOutcome(OpsOf(t), i, data.kv[s], data.version)]_vars
  <2> SUFFICES ASSUME IsolationInv, [Next]_vars,
                      NEW id \in TxIDs, executed'[id] # executed[id]
               PROVE  LET t == data'.txs[id]
                          s == SpaceOfTx(t)
                      IN  /\ Serial!SerialTransact(s, OpsOf(t))
                          /\ \A i \in 1..t.total :
                                t.result.results[i] =
                                  Serial!ExpectedOutcome(OpsOf(t), i, data.kv[s], data.version)
    OBVIOUS
  <2>1. PICK r \in Reqs : CommitTx(r)
    BY OnlyCommitCounts
  <2>2. id = tx[r].tx_id
    BY <2>1 DEF CommitTx, IsolationInv, CoordinatorInv, TypeOK
  <2>3. tx[r] \in Transaction
    BY <2>1, RunningCopy DEF IsolationInv, CommitTx
  <2> DEFINE f == Finished(r, "committed", results[r])
  <2>4. /\ f.total = tx[r].total /\ f.ops = tx[r].ops /\ f.owner = tx[r].owner
        /\ f.result.results = results[r]
    BY <2>3 DEF Finished, Transaction
  <2> HIDE DEF f
  <2>5. OpsOf(f) = OpsOf(tx[r]) /\ SpaceOfTx(f) = SpaceOfTx(tx[r])
    BY <2>4 DEF OpsOf, SpaceOfTx
  <2>6. data'.txs[id] = f
    BY <2>1, <2>2, CommitTxSerial DEF f
  <2>7. /\ Serial!SerialTransact(SpaceOfTx(f), OpsOf(f))
        /\ \A i \in 1..f.total :
              f.result.results[i] = Serial!ExpectedOutcome(
                  OpsOf(f), i, data.kv[SpaceOfTx(f)], data.version)
    BY <2>1, <2>4, <2>5, CommitTxSerial
  <2>8. QED
    BY <2>6, <2>7
<1>2. QED
  BY <1>1, IsolationInvariant, PTL DEF Spec, CommitIsSerial

\* Records and versions change where something ends, and nowhere else.
LEMMA WhereRecordsChange ==
  ASSUME CoordinatorInv, [Next]_vars,
         <<data'.kv, data'.version>> # <<data.kv, data.version>>
  PROVE  \E r \in Reqs : CommitTx(r) \/ KVPut(r) \/ KVDelete(r) \/ CommitImport(r)
<1> DEFINE Same(d) == d.kv = data.kv /\ d.version = data.version
<1>0. data \in SnapshotType /\ \A t : Same(StoreTx(data, t))
  BY DEF CoordinatorInv, TypeOK, StoreTx, SnapshotType
<1>1. ASSUME NEW r \in Reqs, Step(r)
      PROVE  \/ Same(data')
             \/ CommitTx(r) \/ KVPut(r) \/ KVDelete(r) \/ CommitImport(r)
  <2>1. CASE LoadForCreate(r) \/ LoadOwned(r) \/ Decide(r)
    BY <2>1, DecideShape DEF Private
  <2>2. CASE Save(r) \/ FailTx(r)
    BY <1>0, <2>2 DEF Save, FailTx, RolledBack
  <2>3. CASE BeginTx(r) \/ RunOp(r) \/ BeginImport(r) \/ ImportRecord(r)
               \/ BeginRead(r) \/ EndRead(r)
    BY <2>3 DEF BeginTx, RunOp, BeginImport, ImportRecord, BeginRead, EndRead
  <2>4. QED
    BY <1>1, <2>1, <2>2, <2>3 DEF Step
<1>2. ASSUME NEW r \in Reqs, NEW c \in Calls, Start(r, c) PROVE Same(data')
  BY <1>2 DEF Start
<1>3. CASE Cleaner
  <2>1. ASSUME NEW t \in sweep, SweepOne(t) PROVE Same(data')
    BY <1>0, <2>1 DEF SweepOne
  <2>2. QED
    BY <1>3, <2>1 DEF Cleaner, ListDue
<1>4. Tick \/ Restart \/ UNCHANGED vars => Same(data')
  BY DEF Tick, Restart, vars
<1>5. QED
  BY <1>1, <1>2, <1>3, <1>4 DEF Next

\* All or nothing: records and versions change only where a transaction is
\* executed to its end, or a put, a delete or an import finishes (execute, Rollback).
THEOREM NothingByHalves == Spec => AllOrNothing
<1>1. CoordinatorInv /\ [Next]_vars =>
        [<<data.kv, data.version>>' # <<data.kv, data.version>> =>
          \/ executed' # executed
          \/ \E r \in Reqs : /\ call[r].kind \in {"put", "delete", "import"}
                            /\ pc[r] # "idle" /\ pc'[r] = "idle"]_vars
  <2> SUFFICES ASSUME CoordinatorInv, [Next]_vars,
                      <<data'.kv, data'.version>> # <<data.kv, data.version>>
               PROVE  \/ executed' # executed
                      \/ \E r \in Reqs : /\ call[r].kind \in {"put", "delete", "import"}
                                        /\ pc[r] # "idle" /\ pc'[r] = "idle"
    OBVIOUS
  <2>1. PICK r \in Reqs : CommitTx(r) \/ KVPut(r) \/ KVDelete(r) \/ CommitImport(r)
    BY WhereRecordsChange
  <2>2. CASE CommitTx(r)
    <3>1. executed \in [TxIDs -> Nat] /\ tx[r].tx_id \in TxIDs
      BY <2>2, RunningCopy DEF CommitTx, CoordinatorInv, TypeOK, Transaction
    <3>2. executed'[tx[r].tx_id] = executed[tx[r].tx_id] + 1
      BY <2>2, <3>1 DEF CommitTx
    <3>3. QED
      BY <3>1, <3>2
  <2>3. CASE KVPut(r) \/ KVDelete(r) \/ CommitImport(r)
    <3>1. pc'[r] = "idle"
      BY <2>3 DEF KVPut, KVDelete, CommitImport, Return, CoordinatorInv, TypeOK
    <3>2. QED
      BY <2>3, <3>1 DEF KVPut, KVDelete, CommitImport, Importing
  <2>4. QED
    BY <2>1, <2>2, <2>3
<1>2. QED
  BY <1>1, CoordinatorInvariant, PTL DEF Spec, AllOrNothing

\* The end of an import does what its records, one after the other, do at once.
LEMMA CommitImportSerial ==
  ASSUME IsolationInv, NEW r \in Reqs, CommitImport(r)
  PROVE  Serial!SerialNext
<1> DEFINE c == call[r]
           s == SpaceOf[c.p]
           base == ImportBase(c, data.kv[s])
           puts == Puts(c, base)
<1>1. /\ Importing(r) /\ Len(results[r]) = Len(c.recs) /\ data' = atx[r]
      /\ data \in SnapshotType /\ atx[r] \in SnapshotType
  BY DEF CommitImport, IsolationInv, CoordinatorInv, TypeOK
<1>2. /\ c \in ImportCall /\ s \in Spaces /\ c.recs \in Seq(ImportRecordType)
      /\ c.recs \in Imports /\ c.mode \in ImportModes
  BY <1>1, CallKinds, SpaceAssumption, ImportAssumption
     DEF IsolationInv, CoordinatorInv, RequestOK, Importing, ImportCall
<1>3. Len(puts) = Len(c.recs) /\ Len(puts) \in Nat
  BY <1>2, PutsFields
<1>4. WorkedOff(atx[r], data, s, puts, Len(puts), base)
  BY <1>1, <1>3 DEF IsolationInv, ImportCurrent
<1> HIDE DEF puts
<1>5. /\ data'.kv = [data.kv EXCEPT ![s] = Serial!SpaceAfter(puts, base, data.version)]
      /\ data'.version = data.version + Cardinality(Serial!Writes(puts))
  BY <1>1, <1>2, <1>3, <1>4, AllWorkedOff
<1>6. Serial!SerialImport(s, c.recs, c.mode)
  BY <1>5, SameCardinality DEF Serial!SerialImport, puts, Puts, Kept, ImportBase
<1>7. QED
  BY <1>2, <1>6 DEF Serial!SerialNext, Serial!ImportModes, ImportModes

\* Records and versions change as SerialKV says, one whole put, delete,
\* transaction or import at a time, whatever overlaps (coordinator.go, storage.go).
THEOREM StoreIsSerial == Spec => ImplementsSerialKV
<1>1. Init => Serial!SerialInit
  <2> SUFFICES ASSUME Init PROVE Serial!SerialInit
    OBVIOUS
  <2>1. data \in SnapshotType
    BY BootAssumption DEF Init, SoundSnapshot
  <2>2. QED
    BY <2>1, SnapshotFields DEF Serial!SerialInit, Serial!Space, Serial!KVRecord,
       Space, KVRecord
<1>2. IsolationInv /\ [Next]_vars => [Serial!SerialNext]_(Serial!serialVars)
  <2> SUFFICES ASSUME IsolationInv, [Next]_vars,
                      <<data'.kv, data'.version>> # <<data.kv, data.version>>
               PROVE  Serial!SerialNext
    BY DEF Serial!serialVars
  <2>1. CoordinatorInv /\ data \in SnapshotType
    BY DEF IsolationInv, CoordinatorInv, TypeOK
  <2>2. PICK r \in Reqs : CommitTx(r) \/ KVPut(r) \/ KVDelete(r) \/ CommitImport(r)
    BY <2>1, WhereRecordsChange
  <2>3. CASE CommitTx(r)
    <3>1. /\ tx[r] \in Transaction /\ Received(tx[r]) = 1..tx[r].total
          /\ SpaceOfTx(tx[r]) \in Spaces
      BY <2>1, <2>3, RunningCopy DEF CommitTx
    <3>2. tx[r].total \in 1..MaxOps /\ OpsOf(tx[r]) \in [1..tx[r].total -> Fragments]
      BY <3>1, OpsFields
    <3>3. Serial!SerialTransact(SpaceOfTx(tx[r]), OpsOf(tx[r]))
      BY <2>3, CommitTxSerial
    <3>4. QED
      BY <3>1, <3>2, <3>3 DEF Serial!SerialNext
  <2>4. CASE KVPut(r)
    <3> DEFINE c == call[r]
    <3>1. /\ SpaceOf[c.p] \in Spaces /\ c.key \in Keys
          /\ c.ct \in ContentTypes /\ c.body \in Bodies
      BY <2>1, <2>4, CallKinds, SpaceAssumption DEF KVPut, CoordinatorInv, RequestOK, PutCall
    <3>2. Serial!SerialPut(SpaceOf[c.p], c.key, c.ct, c.body)
      BY <2>4 DEF KVPut, PutInto, Serial!SerialPut
    <3>3. QED
      BY <3>1, <3>2 DEF Serial!SerialNext
  <2>5. CASE KVDelete(r)
    <3> DEFINE s == SpaceOf[call[r].p]
    <3>1. s \in Spaces /\ call[r].key \in Keys
      BY <2>1, <2>5, CallKinds, SpaceAssumption
         DEF KVDelete, CoordinatorInv, RequestOK, DeleteCall
    <3>2. Present(data, s, call[r].key) /\ data' = DeleteFrom(data, s, call[r].key)
      BY <2>5 DEF KVDelete
    <3>3. Serial!SerialDelete(s, call[r].key)
      BY <3>2 DEF Present, DeleteFrom, Serial!SerialDelete
    <3>4. QED
      BY <3>1, <3>3 DEF Serial!SerialNext
  <2>6. CASE CommitImport(r)
    BY <2>6, CommitImportSerial
  <2>7. QED
    BY <2>2, <2>3, <2>4, <2>5, <2>6
<1>3. QED
  BY <1>1, <1>2, IsolationInvariant, PTL DEF Spec, ImplementsSerialKV, Serial!SerialSpec

=============================================================================
