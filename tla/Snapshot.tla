------------------------------ MODULE Snapshot ------------------------------
(***************************************************************************)
(* The data of storage.Store (internal/storage/storage.go) and the         *)
(* functions that read and change it.  A snapshot is what the Go struct    *)
(* `snapshot` holds: a global version counter, the records of every        *)
(* userspace, and the transactions.  Credentials live in the same struct   *)
(* but no operation of this module touches them.                           *)
(*                                                                         *)
(* Every operator is pure: the specifications that EXTEND this module say  *)
(* which snapshot is changed (the shared one, or a private clone) and in   *)
(* which critical section.                                                 *)
(***************************************************************************)
EXTENDS Integers, FiniteSets, Sequences

CONSTANTS
    Principals,     \* the (user_id, userspace_id) pairs requests come from
    Spaces,         \* userspace ids
    SpaceOf,        \* the userspace of each principal
    Keys,
    ContentTypes,
    Bodies,         \* values, standing for the bytes and for their hash
    OpIDs,          \* the client's X-KV-Op-Id values
    Fragments,      \* the operations clients may send
    TxIDs,
    MaxOps,         \* Coordinator.maxOps
    Digests,        \* the tx_digest values clients send
    NoRec, NoOp, NoTx, NoDigest, NoResult, NoBody, NoType

OpTypes == {"PUT", "GET", "HEAD", "EXISTS", "DELETE"}

TxOperation ==
    [op_id: OpIDs, type: OpTypes, key: Keys,
     ct: ContentTypes \cup {NoType}, body: Bodies \cup {NoBody}]

\* A PUT always carries a value and a content type (handleAddOp refuses an
\* empty body and defaults the type); the other operations carry neither.
WellFormed(op) ==
    IF op.type = "PUT" THEN op.ct \in ContentTypes /\ op.body \in Bodies
                       ELSE op.ct = NoType /\ op.body = NoBody

ASSUME SpaceAssumption == SpaceOf \in [Principals -> Spaces]
ASSUME MaxOpsAssumption == MaxOps \in Nat \ {0}
ASSUME FragmentAssumption ==
    Fragments \subseteq {op \in TxOperation : WellFormed(op)}
ASSUME NullAssumption ==
    /\ NoBody \notin Bodies /\ NoType \notin ContentTypes
    /\ NoRec \notin [ct: ContentTypes, body: Bodies, ver: Nat]
    /\ NoOp \notin Fragments
    /\ NoDigest \notin Digests

-----------------------------------------------------------------------------
(* Types.                                                                  *)

KVRecord == [ct: ContentTypes, body: Bodies, ver: Nat \ {0}]

OutcomeStatus == {"ok", "missing", "imported", "replaced", "skipped"}

\* TxOperationResult, or the fate of one imported record.
Outcome ==
    [status: OutcomeStatus, ver: Nat,
     ct: ContentTypes \cup {NoType}, body: Bodies \cup {NoBody}]

TxStatus == {"pending", "waiting_for_ops", "committed", "aborted", "expired"}

TxResult == [status: {"committed", "aborted"}, results: Seq(Outcome)]

ASSUME NoResultAssumption == NoResult \notin TxResult

OpMap == [1..MaxOps -> Fragments \cup {NoOp}]

Transaction ==
    [tx_id: TxIDs, owner: Principals, total: 1..MaxOps, status: TxStatus,
     deadline: Int, commit_received: BOOLEAN, digest: Digests \cup {NoDigest},
     ops: OpMap, result: TxResult \cup {NoResult}]

ASSUME NoTxAssumption == NoTx \notin Transaction

Space == [Keys -> KVRecord \cup {NoRec}]

SnapshotType ==
    [version: Nat, kv: [Spaces -> Space],
     txs: [TxIDs -> Transaction \cup {NoTx}]]

EmptySnapshot ==
    [version |-> 0,
     kv  |-> [s \in Spaces |-> [k \in Keys |-> NoRec]],
     txs |-> [id \in TxIDs |-> NoTx]]

-----------------------------------------------------------------------------
(* Records of a userspace.                                                 *)

Present(d, s, k) == d.kv[s][k] # NoRec

\* Mistaken variant of PutInto (see "mutants" in PROJECT.json): the counter
\* stays behind.
PutIntoNoCount(d, s, k, ct, body) ==
    [version |-> d.version, txs |-> d.txs,
     kv |-> [d.kv EXCEPT ![s][k] =
               [ct |-> ct, body |-> body, ver |-> d.version + 1]]]

PutInto(d, s, k, ct, body) ==
    [version |-> d.version + 1, txs |-> d.txs,
     kv |-> [d.kv EXCEPT ![s][k] =
               [ct |-> ct, body |-> body, ver |-> d.version + 1]]]

DeleteFrom(d, s, k) ==
    [version |-> d.version + 1, txs |-> d.txs,
     kv |-> [d.kv EXCEPT ![s][k] = NoRec]]

ClearSpace(d, s) == [d EXCEPT !.kv[s] = [k \in Keys |-> NoRec]]

-----------------------------------------------------------------------------
(* One operation of a transaction, on the snapshot d of userspace s: when  *)
(* it succeeds, what it leaves behind and what it reports.                 *)

Succeeds(d, s, op) ==
    op.type \in {"GET", "HEAD", "DELETE"} => Present(d, s, op.key)

Apply(d, s, op) ==
    CASE op.type = "PUT"    -> PutInto(d, s, op.key, op.ct, op.body)
      [] op.type = "DELETE" -> DeleteFrom(d, s, op.key)
      [] OTHER              -> d

Report(status, ver, ct, body) ==
    [status |-> status, ver |-> ver, ct |-> ct, body |-> body]

OutcomeOf(d, s, op) ==
    LET rec == d.kv[s][op.key]
    IN  CASE op.type \in {"PUT", "DELETE"} ->
               Report("ok", d.version + 1, NoType, NoBody)
          [] op.type = "GET"  -> Report("ok", rec.ver, rec.ct, rec.body)
          [] op.type = "HEAD" -> Report("ok", rec.ver, rec.ct, NoBody)
          [] op.type = "EXISTS" ->
               Report(IF rec # NoRec THEN "ok" ELSE "missing", 0, NoType, NoBody)

Missing == Report("missing", 0, NoType, NoBody)

-----------------------------------------------------------------------------
(* Importing one record into userspace s.                                  *)

ImportModes == {"replace", "merge-overwrite", "merge-skip"}

ImportRecordType == [key: Keys, ct: ContentTypes, body: Bodies]

Skipped(d, s, rec, mode) == mode = "merge-skip" /\ Present(d, s, rec.key)

ImportInto(d, s, rec, mode) ==
    IF Skipped(d, s, rec, mode)
    THEN d
    ELSE PutInto(d, s, rec.key, rec.ct, rec.body)

ImportOutcome(d, s, rec, mode) ==
    Report(IF Skipped(d, s, rec, mode) THEN "skipped"
           ELSE IF Present(d, s, rec.key) THEN "replaced" ELSE "imported",
           0, NoType, NoBody)

-----------------------------------------------------------------------------
(* Transactions of a snapshot.                                             *)

StoreTx(d, t) == [d EXCEPT !.txs[t.tx_id] = t]

Received(t) == {seq \in 1..MaxOps : t.ops[seq] # NoOp}

Complete(t) == Cardinality(Received(t)) = t.total

Live(t) == t.status \in {"pending", "waiting_for_ops"}

\* The digest covers seq, op id, type, key and body hash: not the content type.
Digest(t) ==
    [seq \in 1..MaxOps |->
        IF t.ops[seq] = NoOp
        THEN NoOp
        ELSE [op_id |-> t.ops[seq].op_id, type |-> t.ops[seq].type,
              key |-> t.ops[seq].key, body |-> t.ops[seq].body]]

-----------------------------------------------------------------------------
(* What a store that only the program wrote looks like.                    *)

\* No two records share a version, and none is ahead of the counter.
DistinctVersions(d) ==
    \A s1, s2 \in Spaces, k1, k2 \in Keys :
        LET r1 == d.kv[s1][k1]  r2 == d.kv[s2][k2]
        IN  r1 # NoRec =>
              /\ r1.ver <= d.version
              /\ (r2 # NoRec /\ r1.ver = r2.ver) => (s1 = s2 /\ k1 = k2)

\* A transaction does not still wait with all it was waiting for.
Parked(t) == ~(Live(t) /\ t.commit_received /\ Complete(t))

InRange(t) == Received(t) \subseteq 1..t.total

\* A committed transaction holds every fragment and one outcome for each.
CommittedWhole(t) ==
    t.status = "committed" =>
        /\ Received(t) = 1..t.total
        /\ t.result # NoResult /\ Len(t.result.results) = t.total

Sound(t) == InRange(t) /\ Parked(t) /\ CommittedWhole(t)

SoundSnapshot(d) ==
    /\ d \in SnapshotType
    /\ DistinctVersions(d)
    /\ \A id \in TxIDs :
          d.txs[id] # NoTx => d.txs[id].tx_id = id /\ Sound(d.txs[id])

=============================================================================
