--------------------------- MODULE SnapshotProofs ---------------------------
(***************************************************************************)
(* Facts about the operators of Snapshot: that they keep a snapshot a      *)
(* snapshot, what they do to the versions of its records, and what it      *)
(* means for a transaction to be complete.                                 *)
(***************************************************************************)
EXTENDS Snapshot, FiniteSetTheorems, TLAPS

\* The store a process starts with on a new path is a snapshot.
LEMMA EmptySnapshotType == EmptySnapshot \in SnapshotType
  BY DEF EmptySnapshot, SnapshotType, Space

\* Replacing one record of one userspace.
LEMMA RecordChangeType ==
  ASSUME NEW kv \in [Spaces -> Space], NEW s \in Spaces, NEW k \in Keys,
         NEW rec \in KVRecord \cup {NoRec}
  PROVE  [kv EXCEPT ![s][k] = rec] \in [Spaces -> Space]
<1>1. [kv[s] EXCEPT ![k] = rec] \in Space
  BY DEF Space
<1>2. QED
  BY <1>1

\* The three fields of a snapshot.
LEMMA SnapshotFields ==
  ASSUME NEW d \in SnapshotType
  PROVE  /\ d.version \in Nat
         /\ d.kv \in [Spaces -> Space]
         /\ d.txs \in [TxIDs -> Transaction \cup {NoTx}]
  BY DEF SnapshotType

\* putInto stores a record with a positive version.
LEMMA PutIntoType ==
  ASSUME NEW d \in SnapshotType, NEW s \in Spaces, NEW k \in Keys,
         NEW ct \in ContentTypes, NEW body \in Bodies
  PROVE  PutInto(d, s, k, ct, body) \in SnapshotType
<1>1. [ct |-> ct, body |-> body, ver |-> d.version + 1] \in KVRecord
  BY SnapshotFields DEF KVRecord
<1>2. [d.kv EXCEPT ![s][k] = [ct |-> ct, body |-> body, ver |-> d.version + 1]]
        \in [Spaces -> Space]
  BY <1>1, SnapshotFields, RecordChangeType
<1>3. QED
  BY <1>2, SnapshotFields DEF PutInto, SnapshotType

\* AtomicTx.Delete.
LEMMA DeleteFromType ==
  ASSUME NEW d \in SnapshotType, NEW s \in Spaces, NEW k \in Keys
  PROVE  DeleteFrom(d, s, k) \in SnapshotType
<1>1. [d.kv EXCEPT ![s][k] = NoRec] \in [Spaces -> Space]
  BY SnapshotFields, RecordChangeType
<1>2. QED
  BY <1>1, SnapshotFields DEF DeleteFrom, SnapshotType

\* The emptied userspace of a replacing import.
LEMMA ClearSpaceType ==
  ASSUME NEW d \in SnapshotType, NEW s \in Spaces
  PROVE  ClearSpace(d, s) \in SnapshotType
<1>1. [k \in Keys |-> NoRec] \in Space
  BY DEF Space
<1>2. QED
  BY <1>1 DEF ClearSpace, SnapshotType

\* SaveTx.
LEMMA StoreTxType ==
  ASSUME NEW d \in SnapshotType, NEW t \in Transaction
  PROVE  StoreTx(d, t) \in SnapshotType
  BY DEF StoreTx, SnapshotType, Transaction

\* What is known of the fields of an operation a client may send.
LEMMA FragmentType ==
  ASSUME NEW op \in Fragments
  PROVE  /\ op.type \in OpTypes
         /\ op.key \in Keys
         /\ op.type = "PUT" => op.ct \in ContentTypes /\ op.body \in Bodies
  BY FragmentAssumption DEF TxOperation, WellFormed

\* One operation of an execution keeps the clone a snapshot.
LEMMA ApplyType ==
  ASSUME NEW d \in SnapshotType, NEW s \in Spaces, NEW op \in Fragments
  PROVE  Apply(d, s, op) \in SnapshotType
<1>1. CASE op.type = "PUT"
  <2>1. Apply(d, s, op) = PutInto(d, s, op.key, op.ct, op.body)
    BY <1>1 DEF Apply
  <2>2. QED
    BY <1>1, <2>1, FragmentType, PutIntoType
<1>2. CASE op.type = "DELETE"
  <2>1. Apply(d, s, op) = DeleteFrom(d, s, op.key)
    BY <1>2 DEF Apply
  <2>2. QED
    BY <2>1, FragmentType, DeleteFromType
<1>3. CASE op.type \notin {"PUT", "DELETE"}
  BY <1>3 DEF Apply
<1>4. QED
  BY <1>1, <1>2, <1>3

\* Every report is an outcome.
LEMMA ReportType ==
  ASSUME NEW status \in OutcomeStatus, NEW ver \in Nat,
         NEW ct \in ContentTypes \cup {NoType}, NEW body \in Bodies \cup {NoBody}
  PROVE  Report(status, ver, ct, body) \in Outcome
  BY DEF Report, Outcome

\* An operation that succeeds reports an outcome: GET and HEAD have a record to
\* report, because an absent one makes them fail.
LEMMA OutcomeOfType ==
  ASSUME NEW d \in SnapshotType, NEW s \in Spaces, NEW op \in Fragments,
         Succeeds(d, s, op)
  PROVE  OutcomeOf(d, s, op) \in Outcome
<1>0. op.type \in OpTypes /\ op.key \in Keys
  BY FragmentType
<1>1. CASE op.type \in {"PUT", "DELETE"}
  <2>1. OutcomeOf(d, s, op) = Report("ok", d.version + 1, NoType, NoBody)
    BY <1>1 DEF OutcomeOf
  <2>2. d.version + 1 \in Nat
    BY DEF SnapshotType
  <2>3. QED
    BY <2>1, <2>2, ReportType DEF OutcomeStatus
<1>2. CASE op.type \in {"GET", "HEAD"}
  <2>1. d.kv[s][op.key] \in KVRecord
    BY <1>0, <1>2 DEF Succeeds, Present, SnapshotType, Space
  <2>2. d.kv[s][op.key].ver \in Nat /\ d.kv[s][op.key].ct \in ContentTypes
          /\ d.kv[s][op.key].body \in Bodies
    BY <2>1 DEF KVRecord
  <2>3. CASE op.type = "GET"
    <3>1. OutcomeOf(d, s, op) = Report("ok", d.kv[s][op.key].ver,
                                       d.kv[s][op.key].ct, d.kv[s][op.key].body)
      BY <2>3 DEF OutcomeOf
    <3>2. QED
      BY <2>2, <3>1, ReportType DEF OutcomeStatus
  <2>4. CASE op.type = "HEAD"
    <3>1. OutcomeOf(d, s, op) = Report("ok", d.kv[s][op.key].ver,
                                       d.kv[s][op.key].ct, NoBody)
      BY <2>4 DEF OutcomeOf
    <3>2. QED
      BY <2>2, <3>1, ReportType DEF OutcomeStatus
  <2>5. QED
    BY <1>2, <2>3, <2>4
<1>3. CASE op.type = "EXISTS"
  <2>1. OutcomeOf(d, s, op) =
          Report(IF d.kv[s][op.key] # NoRec THEN "ok" ELSE "missing", 0, NoType, NoBody)
    BY <1>3 DEF OutcomeOf
  <2>2. (IF d.kv[s][op.key] # NoRec THEN "ok" ELSE "missing") \in OutcomeStatus
    BY DEF OutcomeStatus
  <2>3. QED
    BY <2>1, <2>2, ReportType
<1>4. QED
  BY <1>0, <1>1, <1>2, <1>3 DEF OpTypes

\* What a transaction reports of the operation that failed is an outcome.
LEMMA MissingType == Missing \in Outcome
  BY ReportType DEF Missing, OutcomeStatus

\* Importing a record keeps the clone a snapshot, and its fate is an outcome.
LEMMA ImportIntoType ==
  ASSUME NEW d \in SnapshotType, NEW s \in Spaces, NEW mode \in ImportModes,
         NEW rec \in ImportRecordType
  PROVE  /\ ImportInto(d, s, rec, mode) \in SnapshotType
         /\ ImportOutcome(d, s, rec, mode) \in Outcome
<1>1. rec.key \in Keys /\ rec.ct \in ContentTypes /\ rec.body \in Bodies
  BY DEF ImportRecordType
<1>2. ImportInto(d, s, rec, mode) \in SnapshotType
  BY <1>1, PutIntoType DEF ImportInto
<1>3. (IF Skipped(d, s, rec, mode) THEN "skipped"
       ELSE IF Present(d, s, rec.key) THEN "replaced" ELSE "imported")
        \in OutcomeStatus
  BY DEF OutcomeStatus
<1>4. ImportOutcome(d, s, rec, mode) \in Outcome
  BY <1>3, ReportType DEF ImportOutcome
<1>5. QED
  BY <1>2, <1>4

-----------------------------------------------------------------------------

\* A transaction that holds as many fragments as it was created for, none out
\* of range, holds them all.
LEMMA CompleteMeansAll ==
  ASSUME NEW t \in Transaction, Received(t) \subseteq 1..t.total
  PROVE  Complete(t) <=> Received(t) = 1..t.total
<1>1. t.total \in Nat
  BY MaxOpsAssumption DEF Transaction
<1>2. IsFiniteSet(1..t.total) /\ Cardinality(1..t.total) = t.total
  <2> DEFINE n == t.total
  <2>1. 1 \in Int /\ n \in Int
    BY <1>1
  <2> HIDE DEF n
  <2>2. /\ IsFiniteSet(1..n)
        /\ Cardinality(1..n) = IF 1 > n THEN 0 ELSE n - 1 + 1
    BY ONLY <2>1, FS_Interval
  <2>3. QED
    BY <1>1, <2>2 DEF n
<1>3. Cardinality(Received(t)) = t.total => Received(t) = 1..t.total
  BY <1>2, FS_Subset
<1>4. QED
  BY <1>2, <1>3 DEF Complete

-----------------------------------------------------------------------------

\* A write takes a version nobody has.
LEMMA PutIntoDistinct ==
  ASSUME NEW d \in SnapshotType, DistinctVersions(d),
         NEW s \in Spaces, NEW k \in Keys,
         NEW ct \in ContentTypes, NEW body \in Bodies
  PROVE  DistinctVersions(PutInto(d, s, k, ct, body))
<1> DEFINE n == PutInto(d, s, k, ct, body)
           new == [ct |-> ct, body |-> body, ver |-> d.version + 1]
<1>1. d.version \in Nat /\ n.version = d.version + 1
  BY SnapshotFields DEF PutInto
<1>2. \A s1 \in Spaces, k1 \in Keys :
        n.kv[s1][k1] = IF s1 = s /\ k1 = k THEN new ELSE d.kv[s1][k1]
  BY SnapshotFields DEF PutInto, Space
<1>3. new.ver = d.version + 1
  OBVIOUS
<1>4. \A s1 \in Spaces, k1 \in Keys :
        d.kv[s1][k1] # NoRec => d.kv[s1][k1].ver \in Nat /\ d.kv[s1][k1].ver <= d.version
  BY SnapshotFields DEF DistinctVersions, Space, KVRecord
<1> HIDE DEF n, new
<1>5. ASSUME NEW s1 \in Spaces, NEW s2 \in Spaces, NEW k1 \in Keys, NEW k2 \in Keys,
             n.kv[s1][k1] # NoRec
      PROVE  /\ n.kv[s1][k1].ver <= n.version
             /\ (n.kv[s2][k2] # NoRec /\ n.kv[s1][k1].ver = n.kv[s2][k2].ver)
                  => (s1 = s2 /\ k1 = k2)
  <2>1. CASE s1 = s /\ k1 = k /\ s2 = s /\ k2 = k
    BY <1>1, <1>2, <1>3, <2>1
  <2>2. CASE s1 = s /\ k1 = k /\ ~(s2 = s /\ k2 = k)
    BY <1>1, <1>2, <1>3, <1>4, <2>2
  <2>3. CASE ~(s1 = s /\ k1 = k) /\ s2 = s /\ k2 = k
    BY <1>1, <1>2, <1>3, <1>4, <1>5, <2>3
  <2>4. CASE ~(s1 = s /\ k1 = k) /\ ~(s2 = s /\ k2 = k)
    <3>1. n.kv[s1][k1] = d.kv[s1][k1] /\ n.kv[s2][k2] = d.kv[s2][k2]
      BY <1>2, <2>4
    <3>2. (d.kv[s2][k2] # NoRec /\ d.kv[s1][k1].ver = d.kv[s2][k2].ver)
            => (s1 = s2 /\ k1 = k2)
      BY <1>5, <3>1 DEF DistinctVersions
    <3>3. QED
      BY <1>1, <1>4, <1>5, <3>1, <3>2
  <2>5. QED
    BY <2>1, <2>2, <2>3, <2>4
<1>6. DistinctVersions(n)
  BY <1>5 DEF DistinctVersions
<1>7. QED
  BY <1>6 DEF n

\* Taking records away, and moving the counter on, keeps versions distinct.
LEMMA FewerDistinct ==
  ASSUME NEW d \in SnapshotType, DistinctVersions(d),
         NEW e \in SnapshotType, e.version >= d.version,
         \A s \in Spaces, k \in Keys : e.kv[s][k] \in {NoRec, d.kv[s][k]}
  PROVE  DistinctVersions(e)
<1>1. \A s \in Spaces, k \in Keys :
        e.kv[s][k] # NoRec => /\ d.kv[s][k] # NoRec /\ e.kv[s][k] = d.kv[s][k]
                              /\ d.kv[s][k].ver \in Nat
                              /\ d.kv[s][k].ver <= d.version
  BY SnapshotFields DEF DistinctVersions, Space, KVRecord
<1>2. d.version \in Nat /\ e.version \in Nat
  BY SnapshotFields
<1>3. ASSUME NEW s1 \in Spaces, NEW s2 \in Spaces, NEW k1 \in Keys, NEW k2 \in Keys,
             e.kv[s1][k1] # NoRec
      PROVE  /\ e.kv[s1][k1].ver <= e.version
             /\ (e.kv[s2][k2] # NoRec /\ e.kv[s1][k1].ver = e.kv[s2][k2].ver)
                  => (s1 = s2 /\ k1 = k2)
  <2>1. e.kv[s1][k1].ver <= e.version
    BY <1>1, <1>2, <1>3
  <2>2. (d.kv[s2][k2] # NoRec /\ d.kv[s1][k1].ver = d.kv[s2][k2].ver)
          => (s1 = s2 /\ k1 = k2)
    BY <1>1, <1>3 DEF DistinctVersions
  <2>3. QED
    BY <1>1, <1>3, <2>1, <2>2
<1>4. QED
  BY <1>3 DEF DistinctVersions

\* A delete takes a version too, and leaves no record that carries it.
LEMMA DeleteFromDistinct ==
  ASSUME NEW d \in SnapshotType, DistinctVersions(d), NEW s \in Spaces, NEW k \in Keys
  PROVE  DistinctVersions(DeleteFrom(d, s, k))
<1>1. DeleteFrom(d, s, k).version >= d.version
  BY SnapshotFields DEF DeleteFrom
<1>2. \A s1 \in Spaces, k1 \in Keys :
        DeleteFrom(d, s, k).kv[s1][k1] \in {NoRec, d.kv[s1][k1]}
  BY SnapshotFields DEF DeleteFrom, Space
<1>3. QED
  BY <1>1, <1>2, DeleteFromType, FewerDistinct

\* Emptying a userspace keeps the versions of the others distinct.
LEMMA ClearSpaceDistinct ==
  ASSUME NEW d \in SnapshotType, DistinctVersions(d), NEW s \in Spaces
  PROVE  DistinctVersions(ClearSpace(d, s))
<1>1. ClearSpace(d, s).version >= d.version
  BY SnapshotFields DEF ClearSpace, SnapshotType
<1>2. \A s1 \in Spaces, k1 \in Keys :
        ClearSpace(d, s).kv[s1][k1] \in {NoRec, d.kv[s1][k1]}
  BY SnapshotFields DEF ClearSpace, SnapshotType, Space
<1>3. QED
  BY <1>1, <1>2, ClearSpaceType, FewerDistinct

\* Saving a transaction touches no record.
LEMMA StoreTxDistinct ==
  ASSUME NEW d \in SnapshotType, DistinctVersions(d), NEW t \in Transaction
  PROVE  DistinctVersions(StoreTx(d, t))
  BY DEF StoreTx, DistinctVersions, SnapshotType

\* One operation of an execution keeps versions distinct.
LEMMA ApplyDistinct ==
  ASSUME NEW d \in SnapshotType, DistinctVersions(d), NEW s \in Spaces,
         NEW op \in Fragments
  PROVE  DistinctVersions(Apply(d, s, op))
<1>1. CASE op.type = "PUT"
  <2>1. Apply(d, s, op) = PutInto(d, s, op.key, op.ct, op.body)
    BY <1>1 DEF Apply
  <2>2. QED
    BY <1>1, <2>1, FragmentType, PutIntoDistinct
<1>2. CASE op.type = "DELETE"
  <2>1. Apply(d, s, op) = DeleteFrom(d, s, op.key)
    BY <1>2 DEF Apply
  <2>2. QED
    BY <2>1, FragmentType, DeleteFromDistinct
<1>3. CASE op.type \notin {"PUT", "DELETE"}
  BY <1>3 DEF Apply
<1>4. QED
  BY <1>1, <1>2, <1>3

\* Importing one record keeps versions distinct.
LEMMA ImportIntoDistinct ==
  ASSUME NEW d \in SnapshotType, DistinctVersions(d), NEW s \in Spaces,
         NEW mode \in ImportModes, NEW rec \in ImportRecordType
  PROVE  DistinctVersions(ImportInto(d, s, rec, mode))
<1>1. rec.key \in Keys /\ rec.ct \in ContentTypes /\ rec.body \in Bodies
  BY DEF ImportRecordType
<1>2. QED
  BY <1>1, PutIntoDistinct DEF ImportInto

-----------------------------------------------------------------------------

\* A store that starts empty is sound.
LEMMA EmptySnapshotSound == SoundSnapshot(EmptySnapshot)
<1>1. DistinctVersions(EmptySnapshot)
  BY DEF DistinctVersions, EmptySnapshot
<1>2. \A id \in TxIDs : EmptySnapshot.txs[id] = NoTx
  BY DEF EmptySnapshot
<1>3. QED
  BY <1>1, <1>2, EmptySnapshotType DEF SoundSnapshot

\* SaveTx of a sound transaction keeps the store sound.
LEMMA StoreTxSound ==
  ASSUME NEW d, SoundSnapshot(d), NEW t \in Transaction, Sound(t)
  PROVE  SoundSnapshot(StoreTx(d, t))
<1>1. d \in SnapshotType /\ DistinctVersions(d)
  BY DEF SoundSnapshot
<1>2. t.tx_id \in TxIDs
  BY DEF Transaction
<1>3. \A id \in TxIDs :
        StoreTx(d, t).txs[id] = IF id = t.tx_id THEN t ELSE d.txs[id]
  BY <1>1, <1>2 DEF StoreTx, SnapshotType
<1>4. \A id \in TxIDs :
        StoreTx(d, t).txs[id] # NoTx =>
          StoreTx(d, t).txs[id].tx_id = id /\ Sound(StoreTx(d, t).txs[id])
  BY <1>3 DEF SoundSnapshot
<1>5. QED
  BY <1>1, <1>4, StoreTxType, StoreTxDistinct DEF SoundSnapshot

\* Whatever keeps versions distinct and leaves the transactions alone keeps the
\* store sound.
LEMMA SameTxsSound ==
  ASSUME NEW d, SoundSnapshot(d), NEW e \in SnapshotType, DistinctVersions(e),
         e.txs = d.txs
  PROVE  SoundSnapshot(e)
  BY DEF SoundSnapshot

\* putInto keeps the store sound.
LEMMA PutIntoSound ==
  ASSUME NEW d, SoundSnapshot(d), NEW s \in Spaces, NEW k \in Keys,
         NEW ct \in ContentTypes, NEW body \in Bodies
  PROVE  SoundSnapshot(PutInto(d, s, k, ct, body))
<1>1. d \in SnapshotType /\ DistinctVersions(d)
  BY DEF SoundSnapshot
<1>2. PutInto(d, s, k, ct, body).txs = d.txs
  BY DEF PutInto
<1>3. QED
  BY <1>1, <1>2, PutIntoType, PutIntoDistinct, SameTxsSound

\* AtomicTx.Delete keeps the store sound.
LEMMA DeleteFromSound ==
  ASSUME NEW d, SoundSnapshot(d), NEW s \in Spaces, NEW k \in Keys
  PROVE  SoundSnapshot(DeleteFrom(d, s, k))
<1>1. d \in SnapshotType /\ DistinctVersions(d)
  BY DEF SoundSnapshot
<1>2. DeleteFrom(d, s, k).txs = d.txs
  BY DEF DeleteFrom
<1>3. QED
  BY <1>1, <1>2, DeleteFromType, DeleteFromDistinct, SameTxsSound

\* A replacing import starts from a sound store.
LEMMA ClearSpaceSound ==
  ASSUME NEW d, SoundSnapshot(d), NEW s \in Spaces
  PROVE  SoundSnapshot(ClearSpace(d, s))
<1>1. d \in SnapshotType /\ DistinctVersions(d)
  BY DEF SoundSnapshot
<1>2. ClearSpace(d, s).txs = d.txs
  BY <1>1 DEF ClearSpace, SnapshotType
<1>3. QED
  BY <1>1, <1>2, ClearSpaceType, ClearSpaceDistinct, SameTxsSound

\* One operation of an execution keeps the clone sound.
LEMMA ApplySound ==
  ASSUME NEW d, SoundSnapshot(d), NEW s \in Spaces, NEW op \in Fragments
  PROVE  SoundSnapshot(Apply(d, s, op))
<1>1. d \in SnapshotType /\ DistinctVersions(d)
  BY DEF SoundSnapshot
<1>2. Apply(d, s, op).txs = d.txs
  BY DEF Apply, PutInto, DeleteFrom
<1>3. QED
  BY <1>1, <1>2, ApplyType, ApplyDistinct, SameTxsSound

\* Importing one record keeps the clone sound.
LEMMA ImportIntoSound ==
  ASSUME NEW d, SoundSnapshot(d), NEW s \in Spaces, NEW mode \in ImportModes,
         NEW rec \in ImportRecordType
  PROVE  SoundSnapshot(ImportInto(d, s, rec, mode))
<1>1. d \in SnapshotType /\ DistinctVersions(d)
  BY DEF SoundSnapshot
<1>2. ImportInto(d, s, rec, mode).txs = d.txs
  BY DEF ImportInto, PutInto
<1>3. QED
  BY <1>1, <1>2, ImportIntoType, ImportIntoDistinct, SameTxsSound

=============================================================================
