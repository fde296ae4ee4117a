------------------------- MODULE TransactionProofs -------------------------
(***************************************************************************)
(* What becomes of one transaction.  The deadlines first, which hold       *)
(* whatever requests run together; then what the API promises as long as   *)
(* requests do not overlap: fragments are kept, outcomes are final, and a  *)
(* transaction is executed once.                                           *)
(***************************************************************************)
EXTENDS TxCoordinatorProofs

-----------------------------------------------------------------------------
(* What may become of a transaction.                                       *)

\* u is what one request, or the cleaner, may make of the transaction t.
Follows(t, u) ==
    /\ u.tx_id = t.tx_id /\ u.owner = t.owner
    /\ u.total = t.total /\ u.deadline = t.deadline
    /\ t.status # "committed"
    /\ t.commit_received => u.commit_received
    /\ \A seq \in Received(t) : u.ops[seq] = t.ops[seq]
    /\ Live(u) => Live(t)
    /\ ~Live(t) => u \in {t, [t EXCEPT !.status = "aborted"]}

LEMMA FollowsTrans ==
  ASSUME NEW t \in Transaction, NEW u, NEW v, Follows(t, u), Follows(u, v)
  PROVE  Follows(t, v)
<1>1. Received(t) \subseteq Received(u)
  BY DEF Follows, Received
<1>2. ASSUME ~Live(t)
      PROVE  v \in {t, [t EXCEPT !.status = "aborted"]}
  <2> DEFINE e == [t EXCEPT !.status = "aborted"]
  <2>1. [e EXCEPT !.status = "aborted"] = e
    BY DEF Transaction
  <2>2. u \in {t, e} /\ v \in {u, [u EXCEPT !.status = "aborted"]}
    BY <1>2 DEF Follows
  <2> HIDE DEF e
  <2>3. v \in {t, e, [t EXCEPT !.status = "aborted"]}
    BY <2>1, <2>2
  <2>4. QED
    BY <2>3 DEF e
<1>3. QED
  BY <1>1, <1>2 DEF Follows

\* It may be ended; once it has ended, only an abort may still mark it.
LEMMA EndedFollows ==
  ASSUME NEW t \in Transaction, t.status # "committed",
         NEW status \in {"aborted", "expired"}, Live(t) \/ status = "aborted"
  PROVE  /\ Follows(t, [t EXCEPT !.status = status])
         /\ ~Live([t EXCEPT !.status = status])
         /\ [t EXCEPT !.status = status].status # "committed"
  BY DEF Follows, Live, Transaction

\* It may get a fragment it does not have.
LEMMA WithFragmentFollows ==
  ASSUME NEW t \in Transaction, Live(t), NEW seq \in 1..t.total, t.ops[seq] = NoOp,
         NEW op \in Fragments
  PROVE  /\ Follows(t, WithFragment(t, seq, op))
         /\ WithFragment(t, seq, op).status # "committed"
         /\ Live(WithFragment(t, seq, op))
<1> DEFINE w == WithFragment(t, seq, op)
           ops == [t.ops EXCEPT ![seq] = op]
<1>1. /\ w.tx_id = t.tx_id /\ w.owner = t.owner /\ w.total = t.total
      /\ w.deadline = t.deadline /\ w.commit_received = t.commit_received
      /\ w.ops = ops /\ w.status \in {"pending", "waiting_for_ops"}
  BY DEF WithFragment, Transaction
<1>2. \A i \in Received(t) : ops[i] = t.ops[i]
  BY DEF Received, Transaction, OpMap
<1> HIDE DEF w, ops
<1>3. Follows(t, w) /\ w.status # "committed" /\ Live(w)
  BY <1>1, <1>2 DEF Follows, Live
<1>4. QED
  BY <1>3 DEF w

\* It may be told to commit.
LEMMA WithCommitFollows ==
  ASSUME NEW t \in Transaction, Live(t), NEW digest
  PROVE  /\ Follows(t, WithCommit(t, digest))
         /\ WithCommit(t, digest).status # "committed"
         /\ Live(WithCommit(t, digest))
<1> DEFINE w == WithCommit(t, digest)
<1>1. /\ w.tx_id = t.tx_id /\ w.owner = t.owner /\ w.total = t.total
      /\ w.deadline = t.deadline /\ w.commit_received = TRUE
      /\ w.ops = t.ops /\ w.status = "waiting_for_ops"
  BY DEF WithCommit, Transaction
<1> HIDE DEF w
<1>2. Follows(t, w) /\ w.status # "committed" /\ Live(w)
  BY <1>1 DEF Follows, Live
<1>3. QED
  BY <1>2 DEF w

\* What execute(t) goes on with is t, or t aborted.
LEMMA ExecuteShape ==
  ASSUME NEW r \in Reqs, NEW u \in Transaction, u.status # "committed", Execute(r, u)
  PROVE  \/ GoOn(r, "lock", u)
         \/ \E v : GoOn(r, "save", v) /\ Follows(u, v) /\ ~Live(v) /\ v.status # "committed"
<1>1. CASE DigestMismatch(u)
  <2> DEFINE v == [u EXCEPT !.status = "aborted"]
  <2>1. GoOn(r, "save", v)
    BY <1>1 DEF Execute
  <2>2. Follows(u, v) /\ ~Live(v) /\ v.status # "committed"
    BY EndedFollows
  <2> HIDE DEF v
  <2>3. QED
    BY <2>1, <2>2
<1>2. CASE ~DigestMismatch(u)
  BY <1>2 DEF Execute
<1>3. QED
  BY <1>1, <1>2

-----------------------------------------------------------------------------
(* What a request has of the transaction.                                  *)

\* The copy a request goes on with after its decision: a new transaction, or
\* what may become of the one it had; a live one, or one that is going to be
\* executed, only of one that had not fallen due.
LEMMA DecisionShape ==
  ASSUME CoordinatorInv, NEW r \in Reqs, Decide(r), ~Return(r), ~CreateTx(r)
  PROVE  /\ call[r].kind \in {"add", "commit", "result", "abort"}
         /\ tx[r] \in Transaction
         /\ \E p, t :
               /\ p \in {"save", "lock"} /\ GoOn(r, p, t)
               /\ Follows(tx[r], t) /\ t.status # "committed"
               /\ (p = "lock" \/ Live(t)) => Mutable(tx[r])
               /\ p = "lock" => call[r].kind \in {"add", "commit"} /\ Live(t)
<1>1. ~(ReadResult(r) \/ AddRefused(r) \/ CommitRefused(r) \/ AbortRefused(r))
  BY DEF ReadResult, AddRefused, CommitRefused, AbortRefused
<1>2. /\ pc[r] = "decide"
      /\ call[r].kind \in {"add", "commit", "result", "abort"}
  BY <1>1 DEF Decide, Deciding, ExpireOnUse, AddConflict, AddOp, Commit, Abort
<1>3. tx[r] \in Transaction
  BY <1>2, DecidingCopy
<1>4. CASE ExpireOnUse(r) \/ AddConflict(r) \/ Abort(r)
  <2>1. tx[r].status # "committed"
    BY <1>4 DEF ExpireOnUse, AddConflict, Abort, Due, Mutable, Live, Abortable
  <2>2. PICK status \in {"aborted", "expired"} :
          /\ GoOn(r, "save", [tx[r] EXCEPT !.status = status])
          /\ Live(tx[r]) \/ status = "aborted"
    BY <1>4 DEF ExpireOnUse, AddConflict, Abort, Due
  <2> DEFINE e == [tx[r] EXCEPT !.status = status]
  <2>3. Follows(tx[r], e) /\ ~Live(e) /\ e.status # "committed"
    BY <1>3, <2>1, <2>2, EndedFollows
  <2>4. GoOn(r, "save", e)
    BY <2>2
  <2> HIDE DEF e
  <2>5. QED
    BY <1>2, <1>3, <2>3, <2>4
<1>5. CASE AddOp(r) \/ Commit(r)
  <2>1. Mutable(tx[r]) /\ Live(tx[r]) /\ call[r].kind \in {"add", "commit"}
    BY <1>5 DEF AddOp, Commit, Mutable, Deciding
  <2>2. PICK t \in Transaction :
          /\ Follows(tx[r], t) /\ t.status # "committed" /\ Live(t)
          /\ IF Ready(t) THEN Execute(r, t) ELSE GoOn(r, "save", t)
    <3>1. CASE AddOp(r)
      <4> DEFINE t == WithFragment(tx[r], call[r].seq, call[r].op)
      <4>1. /\ call[r].kind = "add"
            /\ call[r].seq \in 1..tx[r].total /\ tx[r].ops[call[r].seq] = NoOp
            /\ IF Ready(t) THEN Execute(r, t) ELSE GoOn(r, "save", t)
        BY <3>1 DEF AddOp, Deciding
      <4>2. call[r].op \in Fragments
        BY <1>2, <4>1, CallKinds DEF CoordinatorInv, RequestOK, AddCall
      <4>3. t \in Transaction
        BY <1>2, <4>1, <4>2, DecidingCopy, WithFragmentOpen
      <4>4. Follows(tx[r], t) /\ t.status # "committed" /\ Live(t)
        BY <1>3, <2>1, <4>1, <4>2, WithFragmentFollows
      <4> HIDE DEF t
      <4>5. QED
        BY <4>1, <4>3, <4>4
    <3>2. CASE Commit(r)
      <4> DEFINE t == WithCommit(tx[r], call[r].digest)
      <4>1. /\ call[r].kind = "commit"
            /\ IF Ready(t) THEN Execute(r, t) ELSE GoOn(r, "save", t)
        BY <3>2 DEF Commit, Deciding
      <4>2. call[r].digest \in Digests \cup {NoDigest}
        BY <1>2, <4>1, CallKinds DEF CoordinatorInv, RequestOK, CommitCall
      <4>3. t \in Transaction
        BY <1>2, <4>1, <4>2, DecidingCopy, WithCommitOpen
      <4>4. Follows(tx[r], t) /\ t.status # "committed" /\ Live(t)
        BY <1>3, <2>1, WithCommitFollows
      <4> HIDE DEF t
      <4>5. QED
        BY <4>1, <4>3, <4>4
    <3>3. QED
      BY <1>5, <3>1, <3>2
  <2>3. CASE Ready(t)
    <3>1. CASE GoOn(r, "lock", t)
      BY <1>2, <1>3, <2>1, <2>2, <3>1
    <3>2. CASE \E v : /\ GoOn(r, "save", v) /\ Follows(t, v)
                      /\ ~Live(v) /\ v.status # "committed"
      BY <1>2, <1>3, <2>1, <2>2, <3>2, FollowsTrans
    <3>3. QED
      BY <2>2, <2>3, <3>1, <3>2, ExecuteShape
  <2>4. CASE ~Ready(t)
    BY <1>2, <1>3, <2>1, <2>2, <2>4
  <2>5. QED
    BY <2>3, <2>4
<1>6. QED
  BY <1>1, <1>4, <1>5 DEF Decide

-----------------------------------------------------------------------------
(* What the other steps of a request do to transactions.                   *)

\* Records do not concern the transactions of a snapshot.
LEMMA TxsKept ==
  ASSUME NEW d \in SnapshotType, NEW s
  PROVE  /\ \A k, ct, body : PutInto(d, s, k, ct, body).txs = d.txs
         /\ \A k : DeleteFrom(d, s, k).txs = d.txs
         /\ ClearSpace(d, s).txs = d.txs
         /\ \A op \in Fragments : Apply(d, s, op).txs = d.txs
<1>1. /\ \A k, ct, body : PutInto(d, s, k, ct, body).txs = d.txs
      /\ \A k : DeleteFrom(d, s, k).txs = d.txs
  BY DEF PutInto, DeleteFrom
<1>2. ClearSpace(d, s).txs = d.txs
  BY DEF ClearSpace, SnapshotType
<1>3. ASSUME NEW op \in Fragments PROVE Apply(d, s, op).txs = d.txs
  <2>1. CASE op.type = "PUT"
    BY <1>1, <2>1 DEF Apply
  <2>2. CASE op.type = "DELETE"
    BY <1>1, <2>2 DEF Apply
  <2>3. CASE op.type \notin {"PUT", "DELETE"}
    BY <2>3 DEF Apply
  <2>4. QED
    BY <2>1, <2>2, <2>3
<1>4. QED
  BY <1>1, <1>2, <1>3

\* A step on the clone: it is made, or it gets on.
LEMMA WorkShape ==
  ASSUME CoordinatorInv, NEW r \in Reqs,
         BeginTx(r) \/ RunOp(r) \/ BeginImport(r) \/ ImportRecord(r) \/ BeginRead(r)
  PROVE  /\ UNCHANGED <<data, now, call, tx, sweep, executed>>
         /\ pc[r] \in {"lock", "run"} /\ pc'[r] = "run"
         /\ atx'[r].txs = IF pc[r] = "lock" THEN data.txs ELSE atx[r].txs
<1>1. /\ data \in SnapshotType /\ atx \in [Reqs -> SnapshotType]
      /\ atx[r] \in SnapshotType /\ pc \in [Reqs -> PC]
  BY DEF CoordinatorInv, TypeOK
<1>2. CASE BeginTx(r) \/ BeginRead(r)
  BY <1>1, <1>2 DEF BeginTx, BeginRead, CloneOf
<1>3. CASE BeginImport(r)
  BY <1>1, <1>3, TxsKept DEF BeginImport, CloneOf
<1>4. CASE RunOp(r)
  <2>1. NextOp(r) \in Fragments
    BY <1>4, RunningOp DEF RunOp
  <2>2. /\ pc[r] = "run" /\ UNCHANGED <<data, now, pc, call, tx, sweep, executed>>
        /\ atx'[r] = Apply(atx[r], SpaceOfTx(tx[r]), NextOp(r))
    BY <1>1, <1>4 DEF RunOp, Running
  <2>3. atx'[r].txs = atx[r].txs
    <3>1. \A s : Apply(atx[r], s, NextOp(r)).txs = atx[r].txs
      BY <1>1, <2>1, TxsKept
    <3>2. QED
      BY <2>2, <3>1
  <2>4. QED
    BY <2>2, <2>3
<1>5. CASE ImportRecord(r)
  <2> DEFINE s == SpaceOf[call[r].p]
             rec == call[r].recs[Len(results[r]) + 1]
  <2>1. /\ pc[r] = "run" /\ UNCHANGED <<data, now, pc, call, tx, sweep, executed>>
        /\ atx'[r] = ImportInto(atx[r], s, rec, call[r].mode)
    BY <1>1, <1>5 DEF ImportRecord, Importing
  <2> HIDE DEF s, rec
  <2>2. atx'[r].txs = atx[r].txs
    <3>1. \A mode : ImportInto(atx[r], s, rec, mode).txs = atx[r].txs
      BY DEF ImportInto, PutInto
    <3>2. QED
      BY <2>1, <3>1
  <2>3. QED
    BY <2>1, <2>2
<1>6. QED
  BY <1>2, <1>3, <1>4, <1>5

\* The end of a request that is not about a transaction.
LEMMA KVEndShape ==
  ASSUME CoordinatorInv, NEW r \in Reqs,
         KVPut(r) \/ KVDelete(r) \/ CommitImport(r) \/ EndRead(r)
  PROVE  /\ Return(r) /\ UNCHANGED <<now, sweep, executed>>
         /\ data'.txs = data.txs \/ (pc[r] = "run" /\ data'.txs = atx[r].txs)
<1>1. data \in SnapshotType
  BY DEF CoordinatorInv, TypeOK
<1>2. CASE KVPut(r)
  BY <1>1, <1>2, TxsKept DEF KVPut
<1>3. CASE KVDelete(r)
  BY <1>1, <1>3, TxsKept DEF KVDelete
<1>4. CASE CommitImport(r) \/ EndRead(r)
  BY <1>4 DEF CommitImport, Importing, EndRead
<1>5. QED
  BY <1>2, <1>3, <1>4

\* The end of one that has decided about a transaction: it stores its copy ...
LEMMA SaveShape ==
  ASSUME CoordinatorInv, NEW r \in Reqs, Save(r)
  PROVE  /\ pc[r] = "save" /\ Return(r) /\ UNCHANGED <<now, sweep, executed>>
         /\ tx[r] \in Transaction
         /\ data'.txs = [data.txs EXCEPT ![tx[r].tx_id] = tx[r]]
  BY DEF Save, StoreTx, CoordinatorInv, RequestOK, TypeOK, SnapshotType

\* ... or what has become of it in its execution.
LEMMA TxEndShape ==
  ASSUME CoordinatorInv, NEW r \in Reqs, FailTx(r) \/ CommitTx(r)
  PROVE  /\ Running(r) /\ Return(r) /\ UNCHANGED <<now, sweep>>
         /\ tx[r] \in Transaction
         /\ \E u \in Transaction :
               /\ u.tx_id = tx[r].tx_id /\ u.owner = tx[r].owner
               /\ u.total = tx[r].total /\ u.deadline = tx[r].deadline
               /\ u.commit_received = tx[r].commit_received /\ u.ops = tx[r].ops
               /\ \/ /\ u.status = "aborted" /\ executed' = executed
                     /\ data'.txs = [data.txs EXCEPT ![u.tx_id] = u]
                  \/ /\ u.status = "committed"
                     /\ executed' = [executed EXCEPT ![u.tx_id] = @ + 1]
                     /\ data'.txs = [atx[r].txs EXCEPT ![u.tx_id] = u]
<1>1. /\ Running(r) /\ Return(r) /\ UNCHANGED <<now, sweep>>
  BY DEF FailTx, CommitTx
<1>2. /\ data \in SnapshotType /\ atx[r] \in SnapshotType
      /\ tx[r] \in Transaction /\ results[r] \in Seq(Outcome)
      /\ Received(tx[r]) = 1..tx[r].total
  BY <1>1, RunningCopy DEF CoordinatorInv, TypeOK
<1>3. CASE FailTx(r)
  <2> DEFINE u == Finished(r, "aborted", Append(results[r], Missing))
  <2>1. u \in Transaction
    <3>1. Append(results[r], Missing) \in Seq(Outcome)
      BY <1>2, MissingType
    <3>2. QED
      BY <1>2, <3>1, FinishedSound
  <2>2. /\ u.tx_id = tx[r].tx_id /\ u.owner = tx[r].owner
        /\ u.total = tx[r].total /\ u.deadline = tx[r].deadline
        /\ u.commit_received = tx[r].commit_received /\ u.ops = tx[r].ops
        /\ u.status = "aborted"
    BY <1>2 DEF Finished, Transaction
  <2>3. data' = StoreTx(data, u) /\ executed' = executed
    BY <1>3 DEF FailTx, RolledBack
  <2> HIDE DEF u
  <2>4. data'.txs = [data.txs EXCEPT ![u.tx_id] = u]
    BY <1>2, <2>3 DEF StoreTx, SnapshotType
  <2>5. QED
    BY <1>1, <1>2, <2>1, <2>2, <2>3, <2>4
<1>4. CASE CommitTx(r)
  <2> DEFINE u == Finished(r, "committed", results[r])
  <2>1. u \in Transaction
    BY <1>2, <1>4, FinishedSound DEF CommitTx, AllRun
  <2>2. /\ u.tx_id = tx[r].tx_id /\ u.owner = tx[r].owner
        /\ u.total = tx[r].total /\ u.deadline = tx[r].deadline
        /\ u.commit_received = tx[r].commit_received /\ u.ops = tx[r].ops
        /\ u.status = "committed"
    BY <1>2 DEF Finished, Transaction
  <2>3. /\ data' = StoreTx(atx[r], u)
        /\ executed' = [executed EXCEPT ![u.tx_id] = @ + 1]
    BY <1>4, <2>2 DEF CommitTx
  <2> HIDE DEF u
  <2>4. data'.txs = [atx[r].txs EXCEPT ![u.tx_id] = u]
    BY <1>2, <2>3 DEF StoreTx, SnapshotType
  <2>5. QED
    BY <1>1, <1>2, <2>1, <2>2, <2>3, <2>4
<1>5. QED
  BY <1>3, <1>4

\* A pass of the cleaner stores nothing but expired transactions.
LEMMA SweepShape ==
  ASSUME CoordinatorInv, NEW t \in sweep, SweepOne(t)
  PROVE  /\ UNCHANGED <<lock, now, locals, events, executed>> /\ sweep' = sweep \ {t}
         /\ t \in Transaction
         /\ \/ data' = data
            \/ \E u \in Transaction :
                  /\ Live(t) /\ u = [t EXCEPT !.status = "expired"]
                  /\ data'.txs = [data.txs EXCEPT ![u.tx_id] = u]
<1>1. t \in Transaction /\ data \in SnapshotType
  BY DEF CoordinatorInv, TypeOK
<1>2. /\ UNCHANGED <<lock, now, locals, events, executed>> /\ sweep' = sweep \ {t}
  BY DEF SweepOne
<1>3. CASE Due(t)
  <2> DEFINE u == [t EXCEPT !.status = "expired"]
  <2>1. u \in Transaction /\ u = [t EXCEPT !.status = "expired"]
    BY <1>1 DEF Transaction, TxStatus
  <2>2. data' = StoreTx(data, u) /\ Live(t)
    BY <1>3 DEF SweepOne, Due
  <2> HIDE DEF u
  <2>3. data'.txs = [data.txs EXCEPT ![u.tx_id] = u]
    BY <1>1, <2>2 DEF StoreTx, SnapshotType
  <2>4. QED
    BY <1>1, <1>2, <2>1, <2>2, <2>3
<1>4. CASE ~Due(t)
  BY <1>1, <1>2, <1>4 DEF SweepOne
<1>5. QED
  BY <1>3, <1>4

-----------------------------------------------------------------------------
(* Late executions.                                                        *)

\* Nobody comes to wait with a transaction whose deadline has passed, and
\* whoever waits with one was waiting before.
LEMMA NextSettled ==
  ASSUME CoordinatorInv, [Next]_vars, NEW id \in TxIDs, NEW i \in 0..MaxNow,
         now >= i, ~WaitsWithOld(id, i)
  PROVE  now' >= i /\ ~WaitsWithOld(id, i)'
<1>1. /\ pc \in [Reqs -> PC] /\ tx \in [Reqs -> Transaction \cup {NoTx}]
      /\ call \in [Reqs -> Calls \cup {NoCall}] /\ now \in Int
  BY DEF CoordinatorInv, TypeOK
<1>2. now' >= i
  <2>1. ASSUME NEW r \in Reqs, Step(r) \/ \E c \in Calls : Start(r, c)
        PROVE  now' = now
    <3>1. CASE LoadForCreate(r) \/ LoadOwned(r) \/ Decide(r)
      BY <3>1, DecideShape DEF Private
    <3>2. CASE Save(r) \/ FailTx(r) \/ CommitTx(r)
      BY <3>2, SaveShape, TxEndShape
    <3>3. CASE KVPut(r) \/ KVDelete(r) \/ CommitImport(r) \/ EndRead(r)
      BY <3>3, KVEndShape
    <3>4. CASE BeginTx(r) \/ RunOp(r) \/ BeginImport(r) \/ ImportRecord(r) \/ BeginRead(r)
      BY <3>4, WorkShape
    <3>5. QED
      BY <2>1, <3>1, <3>2, <3>3, <3>4 DEF Step, Start
  <2>2. CASE Cleaner \/ Restart \/ UNCHANGED vars
    BY <2>2 DEF Cleaner, ListDue, SweepOne, Restart, vars
  <2>3. CASE Tick
    BY <1>1, <2>3 DEF Tick
  <2>4. QED
    BY <2>1, <2>2, <2>3 DEF Next
<1>3. ASSUME NEW r \in Reqs,
             pc'[r] \in {"lock", "run"}, call'[r].kind \in {"add", "commit"},
             tx'[r].tx_id = id, tx'[r].deadline < i
      PROVE  FALSE
  <2>1. ~(pc[r] \in {"lock", "run"} /\ call'[r] = call[r] /\ tx'[r] = tx[r])
    BY <1>3 DEF WaitsWithOld
  <2>2. ~(Cleaner \/ Tick \/ Restart \/ UNCHANGED vars)
    BY <1>3, <2>1 DEF Cleaner, ListDue, SweepOne, Tick, Restart, vars, locals
  <2>3. \A c \in Calls : ~Start(r, c)
    BY <1>1, <1>3 DEF Start
  <2>4. Step(r)
    BY <1>3, <2>1, <2>2, <2>3, OtherLocals DEF Next
  <2>5. ~Return(r)
    BY <1>1, <1>3 DEF Return
  <2>6. ~(LoadForCreate(r) \/ LoadOwned(r) \/ CreateTx(r))
    BY <1>1, <1>3, <2>5 DEF LoadForCreate, LoadOwned, CreateTx, GoOn
  <2>7. Decide(r)
    <3>1. ~(Save(r) \/ FailTx(r) \/ CommitTx(r))
      BY <2>5 DEF Save, FailTx, CommitTx
    <3>2. ~(KVPut(r) \/ KVDelete(r) \/ CommitImport(r) \/ EndRead(r))
      BY <2>5, KVEndShape
    <3>3. ~(BeginTx(r) \/ RunOp(r) \/ BeginImport(r) \/ ImportRecord(r) \/ BeginRead(r))
      BY <2>1, WorkShape
    <3>4. QED
      BY <2>4, <2>6, <3>1, <3>2, <3>3 DEF Step
  <2>8. PICK p, t :
          /\ GoOn(r, p, t) /\ Follows(tx[r], t)
          /\ p \in {"save", "lock"}
          /\ p = "lock" => Mutable(tx[r])
    BY <2>5, <2>6, <2>7, DecisionShape
  <2>9. pc'[r] = p /\ tx'[r] = t
    BY <1>1, <2>8 DEF GoOn
  <2>10. t.deadline = tx[r].deadline /\ ~(now > tx[r].deadline)
    BY <1>3, <2>8, <2>9 DEF Follows, Mutable, Due
  <2>11. tx[r].deadline \in Int
    BY <2>6, <2>5, <2>7, DecisionShape DEF Transaction
  <2>12. QED
    BY <1>1, <1>3, <2>9, <2>10, <2>11
<1>4. QED
  BY <1>2, <1>3 DEF WaitsWithOld

\* Only the wait for the lock makes an execution late: however fragments,
\* commits, the clock, the cleaner and restarts are interleaved, a transaction
\* nobody waits to execute when its deadline has passed is never executed again
\* (mutable, expireIfNeeded, execute).
THEOREM LateOnlyByTheWait == Spec => LateOnlyByWaiting
<1> SUFFICES ASSUME NEW id \in TxIDs, NEW i \in 0..MaxNow
             PROVE  Spec => [](now >= i /\ ~WaitsWithOld(id, i) => []~ExecutesOld(id, i))
  BY DEF LateOnlyByWaiting
<1> DEFINE Settled == now >= i /\ ~WaitsWithOld(id, i)
<1>1. CoordinatorInv /\ Settled /\ [Next]_vars => Settled'
  BY NextSettled
<1>2. Settled => ~ExecutesOld(id, i)
  BY DEF WaitsWithOld, ExecutesOld, Running
<1>3. QED
  BY <1>1, <1>2, CoordinatorInvariant, PTL DEF Spec

-----------------------------------------------------------------------------
(* Bounded deadlines.                                                      *)

\* A live transaction at instant i has no more time left than the limit.
WithinLimit(t, i) == (t # NoTx /\ Live(t)) => t.deadline <= i + MaxTimeout

AllWithin(txs, i) == \A id \in TxIDs : WithinLimit(txs[id], i)

\* In the store, in every clone and in every copy.
DeadlineInv ==
    /\ AllWithin(data.txs, now)
    /\ \A r \in Reqs : WithinLimit(tx[r], now) /\ AllWithin(atx[r].txs, now)

\* The store file was left by a process with the same limit, no later than now.
BootDeadlines ==
    \A d \in Boots, id \in TxIDs :
        (d.txs[id] # NoTx /\ Live(d.txs[id])) => d.txs[id].deadline <= MaxTimeout

LEMMA StoredWithin ==
  ASSUME NEW txs \in [TxIDs -> Transaction \cup {NoTx}], NEW i, AllWithin(txs, i),
         NEW u \in Transaction, WithinLimit(u, i)
  PROVE  AllWithin([txs EXCEPT ![u.tx_id] = u], i)
  BY DEF AllWithin

\* A request that ends leaves nothing behind.
LEMMA ReturnWithin ==
  ASSUME CoordinatorInv, NEW r \in Reqs, Return(r)
  PROVE  WithinLimit(tx'[r], now) /\ AllWithin(atx'[r].txs, now)
<1>1. tx'[r] = NoTx /\ atx'[r] = EmptySnapshot
  BY DEF Return, CoordinatorInv, TypeOK
<1>2. QED
  BY <1>1 DEF WithinLimit, AllWithin, EmptySnapshot

\* The new transaction has the default timeout or one the limit allows.
LEMMA CreateWithin ==
  ASSUME CoordinatorInv, NEW r \in Reqs, CreateTx(r)
  PROVE  WithinLimit(tx'[r], now) /\ atx'[r] = atx[r]
<1>1. call[r] \in CreateCall /\ Timeout(call[r]) <= MaxTimeout
  BY CallKinds DEF CreateTx, Deciding, CoordinatorInv, RequestOK, ValidCreate
<1>2. tx'[r].deadline = now + Timeout(call[r]) /\ atx'[r] = atx[r]
  BY DEF CreateTx, GoOn, CoordinatorInv, TypeOK
<1>3. Timeout(call[r]) \in Int
  <2>1. Duration(call[r].timeout_ms) \in Int
    BY <1>1, DurationType, TimeAssumption DEF CreateCall
  <2>2. QED
    BY <2>1, TimeAssumption DEF Timeout
<1>4. now \in Int /\ MaxTimeout \in Int
  BY TimeAssumption DEF CoordinatorInv, TypeOK
<1>5. QED
  BY <1>1, <1>2, <1>3, <1>4 DEF WithinLimit

\* Whatever a request does, no deadline is moved away.
LEMMA StepWithin ==
  ASSUME CoordinatorInv, DeadlineInv, NEW r \in Reqs,
         Step(r) \/ \E c \in Calls : Start(r, c)
  PROVE  /\ now' = now /\ AllWithin(data'.txs, now)
         /\ WithinLimit(tx'[r], now) /\ AllWithin(atx'[r].txs, now)
<1>0. /\ pc \in [Reqs -> PC] /\ tx \in [Reqs -> Transaction \cup {NoTx}]
      /\ data.txs \in [TxIDs -> Transaction \cup {NoTx}]
      /\ atx[r].txs \in [TxIDs -> Transaction \cup {NoTx}]
      /\ AllWithin(data.txs, now) /\ WithinLimit(tx[r], now)
      /\ AllWithin(atx[r].txs, now)
  BY DEF CoordinatorInv, TypeOK, SnapshotType, DeadlineInv
<1>1. CASE \E c \in Calls : Start(r, c)
  BY <1>0, <1>1 DEF Start
<1>2. CASE LoadForCreate(r) \/ LoadOwned(r)
  <2>1. UNCHANGED <<data, now>>
    BY <1>2 DEF LoadForCreate, LoadOwned, Private
  <2>2. CASE Return(r)
    BY <1>0, <2>1, <2>2, ReturnWithin
  <2>3. CASE GoOn(r, "decide", NoTx)
    BY <1>0, <2>1, <2>3 DEF GoOn, WithinLimit
  <2>4. CASE GoOn(r, "decide", data.txs[call[r].tx_id]) /\ LoadOwned(r)
    <3>1. call[r] \in Calls /\ call[r].kind \in {"add", "commit", "abort", "result"}
      BY <2>4 DEF LoadOwned, CoordinatorInv, RequestOK
    <3>2. call[r].tx_id \in TxIDs
      BY <3>1, CallAssumption
        DEF TxCall, KVCall, CreateCall, AddCall, CommitCall, AbortCall,
            ResultCall, ImportCall, PutCall, DeleteCall, ReadCall
    <3>3. tx'[r] = data.txs[call[r].tx_id] /\ atx'[r] = atx[r]
      BY <1>0, <2>4 DEF GoOn
    <3>4. QED
      BY <1>0, <2>1, <3>2, <3>3 DEF AllWithin
  <2>5. QED
    BY <1>2, <2>2, <2>3, <2>4 DEF LoadForCreate, LoadOwned
<1>3. CASE Decide(r)
  <2>1. UNCHANGED <<data, now>>
    BY <1>3, DecideShape DEF Private
  <2>2. CASE Return(r)
    BY <1>0, <2>1, <2>2, ReturnWithin
  <2>3. CASE CreateTx(r)
    BY <1>0, <2>1, <2>3, CreateWithin
  <2>4. CASE ~Return(r) /\ ~CreateTx(r)
    <3>1. PICK p, t : GoOn(r, p, t) /\ Follows(tx[r], t)
      BY <1>3, <2>4, DecisionShape
    <3>2. tx'[r] = t /\ atx'[r] = atx[r] /\ tx[r] # NoTx
      BY <1>0, <1>3, <2>4, <3>1, NoTxAssumption, DecisionShape DEF GoOn
    <3>3. WithinLimit(t, now)
      BY <1>0, <3>1, <3>2 DEF Follows, WithinLimit
    <3>4. QED
      BY <1>0, <2>1, <3>2, <3>3
  <2>5. QED
    BY <2>2, <2>3, <2>4
<1>4. CASE Save(r)
  <2>1. /\ now' = now /\ Return(r) /\ tx[r] \in Transaction
        /\ data'.txs = [data.txs EXCEPT ![tx[r].tx_id] = tx[r]]
    BY <1>4, SaveShape
  <2>2. AllWithin([data.txs EXCEPT ![tx[r].tx_id] = tx[r]], now)
    BY <1>0, <2>1, StoredWithin
  <2>3. QED
    BY <2>1, <2>2, ReturnWithin
<1>5. CASE FailTx(r) \/ CommitTx(r)
  <2>1. PICK u \in Transaction :
          /\ u.status \in {"aborted", "committed"}
          /\ \/ data'.txs = [data.txs EXCEPT ![u.tx_id] = u]
             \/ data'.txs = [atx[r].txs EXCEPT ![u.tx_id] = u]
    BY <1>5, TxEndShape
  <2>2. WithinLimit(u, now)
    BY <2>1 DEF WithinLimit, Live
  <2>3. AllWithin(data'.txs, now)
    <3>1. \A txs \in {data.txs, atx[r].txs} : AllWithin([txs EXCEPT ![u.tx_id] = u], now)
      BY <1>0, <2>2, StoredWithin
    <3>2. QED
      BY <2>1, <3>1
  <2>4. QED
    BY <1>5, <2>3, TxEndShape, ReturnWithin
<1>6. CASE KVPut(r) \/ KVDelete(r) \/ CommitImport(r) \/ EndRead(r)
  BY <1>0, <1>6, KVEndShape, ReturnWithin
<1>7. CASE BeginTx(r) \/ RunOp(r) \/ BeginImport(r) \/ ImportRecord(r) \/ BeginRead(r)
  <2>1. /\ UNCHANGED <<data, now, tx>>
        /\ atx'[r].txs = data.txs \/ atx'[r].txs = atx[r].txs
    BY <1>7, WorkShape
  <2>2. QED
    BY <1>0, <2>1
<1>8. QED
  BY <1>1, <1>2, <1>3, <1>4, <1>5, <1>6, <1>7 DEF Step

LEMMA NextWithin ==
  ASSUME CoordinatorInv, DeadlineInv, [Next]_vars
  PROVE  DeadlineInv'
<1>1. /\ data.txs \in [TxIDs -> Transaction \cup {NoTx}] /\ now \in Int
      /\ AllWithin(data.txs, now)
  BY DEF CoordinatorInv, TypeOK, SnapshotType, DeadlineInv
<1>2. ASSUME NEW q \in Reqs, Step(q) \/ \E c \in Calls : Start(q, c)
      PROVE  DeadlineInv'
  <2>1. /\ now' = now /\ AllWithin(data'.txs, now)
        /\ WithinLimit(tx'[q], now) /\ AllWithin(atx'[q].txs, now)
    BY <1>2, StepWithin
  <2>2. ASSUME NEW r \in Reqs
        PROVE  WithinLimit(tx'[r], now) /\ AllWithin(atx'[r].txs, now)
    BY <1>2, <2>1, OtherLocals DEF DeadlineInv
  <2>3. QED
    BY <2>1, <2>2 DEF DeadlineInv
<1>3. ASSUME NEW t \in sweep, SweepOne(t) PROVE DeadlineInv'
  <2>1. UNCHANGED <<now, tx, atx>>
    BY <1>3, SweepShape DEF locals
  <2>2. CASE data' = data
    BY <2>1, <2>2 DEF DeadlineInv
  <2>3. ASSUME NEW u \in Transaction, u = [t EXCEPT !.status = "expired"],
               data'.txs = [data.txs EXCEPT ![u.tx_id] = u]
        PROVE  DeadlineInv'
    <3>1. t \in Transaction
      BY <1>3, SweepShape
    <3>2. u.status = "expired"
      BY <2>3, <3>1 DEF Transaction
    <3>3. WithinLimit(u, now)
      BY <3>2 DEF WithinLimit, Live
    <3>4. AllWithin([data.txs EXCEPT ![u.tx_id] = u], now)
      BY <1>1, <3>3, StoredWithin
    <3>5. AllWithin(data'.txs, now)
      BY <2>3, <3>4
    <3>6. QED
      BY <2>1, <3>5 DEF DeadlineInv
  <2>4. QED
    BY <1>3, <2>2, <2>3, SweepShape
<1>4. CASE ListDue \/ UNCHANGED vars
  BY <1>4 DEF ListDue, vars, locals, DeadlineInv
<1>5. CASE Tick
  <2>1. now' = now + 1 /\ UNCHANGED <<data, tx, atx>>
    BY <1>5 DEF Tick, locals
  <2>2. \A t \in Transaction \cup {NoTx} : WithinLimit(t, now) => WithinLimit(t, now + 1)
    BY <1>1, TimeAssumption DEF WithinLimit, Transaction
  <2>3. /\ tx \in [Reqs -> Transaction \cup {NoTx}]
        /\ \A r \in Reqs : atx[r].txs \in [TxIDs -> Transaction \cup {NoTx}]
    BY DEF CoordinatorInv, TypeOK, SnapshotType
  <2>4. QED
    BY <1>1, <2>1, <2>2, <2>3 DEF DeadlineInv, AllWithin
<1>6. CASE Restart
  BY <1>6 DEF Restart, DeadlineInv, WithinLimit, AllWithin, EmptySnapshot
<1>7. QED
  BY <1>2, <1>3, <1>4, <1>5, <1>6 DEF Next, Cleaner

\* A deadline is never further ahead than the limit, for every timeout_ms, the
\* ones whose product wraps around included, and whatever copies of earlier
\* states are stored late (handleCreateTx, CreateTx, SaveTx).
THEOREM DeadlinesAreBounded ==
  ASSUME BootDeadlines
  PROVE  Spec => []DeadlineBounded
<1>1. Init => DeadlineInv
  <2> SUFFICES ASSUME Init PROVE DeadlineInv
    OBVIOUS
  <2>1. AllWithin(data.txs, now)
    BY TimeAssumption DEF Init, BootDeadlines, AllWithin, WithinLimit
  <2>2. QED
    BY <2>1 DEF Init, DeadlineInv, WithinLimit, AllWithin, EmptySnapshot
<1>2. CoordinatorInv /\ DeadlineInv /\ [Next]_vars => DeadlineInv'
  BY NextWithin
<1>3. DeadlineInv => DeadlineBounded
  BY DEF DeadlineInv, AllWithin, WithinLimit, DeadlineBounded
<1>4. QED
  BY <1>1, <1>2, <1>3, CoordinatorInvariant, PTL DEF Spec

-----------------------------------------------------------------------------
(* One request at a time.                                                  *)

Stored(t) == data.txs[t.tx_id]

\* Requests, and passes of the cleaner, do not overlap.
Alone ==
    /\ \A q, r \in Reqs : (pc[q] # "idle" /\ pc[r] # "idle") => q = r
    /\ \A r \in Reqs : pc[r] # "idle" => sweep = {}

\* The copies the cleaner holds are what is stored.
SweepCurrent == \A t \in sweep : Live(t) /\ Stored(t) = t

\* The copy a request has is the stored transaction, or what has become of it
\* in this request; the clone of an execution has all the others.
Current(r) ==
    /\ Deciding(r, "create") => data.txs[call[r].tx_id] = NoTx
    /\ (pc[r] = "decide" /\ call[r].kind # "create") => Stored(tx[r]) = tx[r]
    /\ pc[r] = "save" =>
          /\ tx[r].status # "committed"
          /\ Stored(tx[r]) = NoTx \/ Follows(Stored(tx[r]), tx[r])
    /\ (pc[r] \in {"lock", "run"} /\ call[r].kind \in {"add", "commit"}) =>
          Stored(tx[r]) # NoTx /\ Follows(Stored(tx[r]), tx[r]) /\ Live(tx[r])
    /\ pc[r] = "run" => atx[r].txs = data.txs

SequentialInv ==
    /\ Alone /\ SweepCurrent
    /\ \A r \in Reqs : Current(r)
    /\ ExecutedOnce

\* Who stores the transaction of that id: a request that has it, and ends with
\* this step, or the cleaner.
ActsOn(id) ==
    \/ \E r \in Reqs : /\ pc[r] \in {"save", "run"} /\ pc'[r] = "idle"
                      /\ tx[r] # NoTx /\ tx[r].tx_id = id
    \/ \E t \in sweep \ sweep' : t.tx_id = id

\* What a step does to the transactions: nothing, or it stores one, which is
\* new or what may become of the one in its place.
StoresOne(u) ==
    /\ data'.txs = [data.txs EXCEPT ![u.tx_id] = u]
    /\ Stored(u) = NoTx \/ Follows(Stored(u), u)
    /\ executed' = IF u.status = "committed"
                   THEN [executed EXCEPT ![u.tx_id] = @ + 1]
                   ELSE executed
    /\ ActsOn(u.tx_id)

TxChange ==
    \/ data'.txs = data.txs /\ executed' = executed
    \/ \E u \in Transaction : StoresOne(u)

LEMMA NobodyUnderWay ==
  ASSUME MaxInFlight = 1, Alone, InFlight < MaxInFlight
  PROVE  sweep = {} /\ \A r \in Reqs : pc[r] = "idle"
<1> DEFINE S == {r \in Reqs : pc[r] # "idle"}
<1>1. CASE S = {}
  <2>1. Cardinality(S) = 0
    BY <1>1, FS_EmptySet
  <2>2. QED
    BY <1>1, <2>1 DEF InFlight
<1>2. ASSUME NEW q \in S PROVE FALSE
  <2>1. S = {q}
    BY <1>2 DEF Alone
  <2>2. Cardinality(S) = 1
    BY <2>1, FS_Singleton
  <2>3. QED
    BY <2>2 DEF InFlight
<1>3. QED
  BY <1>1, <1>2

\* A request begins with what is stored, and goes on with what may become of it.
LEMMA LoadIsCurrent ==
  ASSUME CoordinatorInv, NEW r \in Reqs, LoadForCreate(r) \/ LoadOwned(r)
  PROVE  Current(r)' /\ TxChange
<1>1. /\ pc \in [Reqs -> PC] /\ tx \in [Reqs -> Transaction \cup {NoTx}]
      /\ pc[r] = "load" /\ call[r] \in Calls
  BY DEF CoordinatorInv, TypeOK, RequestOK, LoadForCreate, LoadOwned
<1>2. data' = data /\ executed' = executed
  BY DEF LoadForCreate, LoadOwned, Private
<1>3. CASE Return(r)
  BY <1>1, <1>2, <1>3 DEF Return, Current, Deciding, TxChange
<1>4. CASE LoadForCreate(r) /\ ~Return(r)
  <2>1. /\ call[r].kind = "create" /\ Unused(call[r].tx_id)
        /\ GoOn(r, "decide", NoTx)
    BY <1>4 DEF LoadForCreate
  <2>2. pc'[r] = "decide" /\ call'[r] = call[r]
    BY <1>1, <2>1 DEF GoOn
  <2>3. QED
    BY <1>2, <2>1, <2>2 DEF Current, Deciding, TxChange, Unused
<1>5. CASE LoadOwned(r) /\ ~Return(r)
  <2> DEFINE t == data.txs[call[r].tx_id]
  <2>1. /\ call[r].kind \in {"add", "commit", "abort", "result"}
        /\ t # NoTx /\ GoOn(r, "decide", t)
    BY <1>5 DEF LoadOwned, Owned
  <2>2. call[r].tx_id \in TxIDs
    BY <1>1, <2>1, CallAssumption
      DEF TxCall, KVCall, CreateCall, AddCall, CommitCall, AbortCall,
          ResultCall, ImportCall, PutCall, DeleteCall, ReadCall
  <2>3. t.tx_id = call[r].tx_id
    BY <2>1, <2>2 DEF CoordinatorInv, SoundSnapshot
  <2>4. pc'[r] = "decide" /\ call'[r] = call[r] /\ tx'[r] = t
    BY <1>1, <2>1 DEF GoOn
  <2>5. QED
    BY <1>2, <2>1, <2>3, <2>4 DEF Current, Deciding, TxChange, Stored
<1>6. QED
  BY <1>3, <1>4, <1>5

LEMMA DecisionIsCurrent ==
  ASSUME CoordinatorInv, NEW r \in Reqs, Current(r), Decide(r)
  PROVE  Current(r)' /\ TxChange
<1>1. /\ pc \in [Reqs -> PC] /\ tx \in [Reqs -> Transaction \cup {NoTx}]
      /\ pc[r] = "decide"
  BY DEF CoordinatorInv, TypeOK, Decide, Deciding, CreateTx, ExpireOnUse, ReadResult,
         AddRefused, AddConflict, AddOp, CommitRefused, Commit, AbortRefused, Abort
<1>2. data' = data /\ executed' = executed
  BY DecideShape DEF Private
<1>3. CASE Return(r)
  BY <1>1, <1>2, <1>3 DEF Return, Current, Deciding, TxChange
<1>4. CASE CreateTx(r)
  <2>1. data.txs[call[r].tx_id] = NoTx
    BY <1>4 DEF CreateTx, Current
  <2>2. /\ pc'[r] = "save" /\ tx'[r].tx_id = call[r].tx_id
        /\ tx'[r].status = "pending"
    BY <1>1, <1>4 DEF CreateTx, GoOn
  <2>3. QED
    BY <1>2, <2>1, <2>2 DEF Current, Deciding, TxChange, Stored
<1>5. CASE ~Return(r) /\ ~CreateTx(r)
  <2>1. /\ call[r].kind \in {"add", "commit", "result", "abort"}
        /\ tx[r] \in Transaction
    BY <1>5, DecisionShape
  <2>2. PICK p, t :
          /\ p \in {"save", "lock"} /\ GoOn(r, p, t)
          /\ Follows(tx[r], t) /\ t.status # "committed"
          /\ p = "lock" => Live(t)
    BY <1>5, DecisionShape
  <2>3. pc'[r] = p /\ tx'[r] = t /\ t.tx_id = tx[r].tx_id
    BY <1>1, <2>2 DEF GoOn, Follows
  <2>4. Stored(tx[r]) = tx[r]
    BY <1>1, <2>1 DEF Current
  <2>5. data'.txs[t.tx_id] = tx[r] /\ tx[r] # NoTx
    BY <1>2, <2>1, <2>3, <2>4, NoTxAssumption DEF Stored
  <2>6. QED
    BY <1>2, <2>2, <2>3, <2>5 DEF Current, Deciding, TxChange, Stored
<1>6. QED
  BY <1>3, <1>4, <1>5

LEMMA WorkIsCurrent ==
  ASSUME CoordinatorInv, NEW r \in Reqs, Current(r),
         BeginTx(r) \/ RunOp(r) \/ BeginImport(r) \/ ImportRecord(r) \/ BeginRead(r)
  PROVE  Current(r)' /\ TxChange
<1>1. /\ UNCHANGED <<data, call, tx, executed>>
      /\ pc[r] \in {"lock", "run"} /\ pc'[r] = "run"
      /\ atx'[r].txs = data.txs
  BY WorkShape DEF Current
<1>2. QED
  BY <1>1 DEF Current, Deciding, TxChange, Stored

\* What a request, or the cleaner, stores when it ends.
LEMMA EndIsCurrent ==
  ASSUME CoordinatorInv, NEW r \in Reqs, Current(r),
         \/ Save(r) \/ FailTx(r) \/ CommitTx(r)
         \/ KVPut(r) \/ KVDelete(r) \/ CommitImport(r) \/ EndRead(r)
  PROVE  Current(r)' /\ TxChange
<1>1. Return(r) /\ pc \in [Reqs -> PC]
  BY SaveShape, TxEndShape, KVEndShape DEF CoordinatorInv, TypeOK
<1>2. pc'[r] = "idle"
  BY <1>1 DEF Return
<1>3. Current(r)'
  BY <1>2 DEF Current, Deciding
<1>4. CASE KVPut(r) \/ KVDelete(r) \/ CommitImport(r) \/ EndRead(r)
  <2>1. executed' = executed /\ data'.txs = data.txs
    BY <1>4, KVEndShape DEF Current
  <2>2. QED
    BY <1>3, <2>1 DEF TxChange
<1>5. CASE Save(r)
  <2>1. /\ pc[r] = "save" /\ executed' = executed /\ tx[r] \in Transaction
        /\ data'.txs = [data.txs EXCEPT ![tx[r].tx_id] = tx[r]]
    BY <1>5, SaveShape
  <2>2. /\ tx[r].status # "committed"
        /\ Stored(tx[r]) = NoTx \/ Follows(Stored(tx[r]), tx[r])
    BY <2>1 DEF Current
  <2>3. ActsOn(tx[r].tx_id)
    BY <1>2, <2>1, NoTxAssumption DEF ActsOn
  <2>4. StoresOne(tx[r])
    BY <2>1, <2>2, <2>3 DEF StoresOne
  <2>5. QED
    BY <1>3, <2>1, <2>4 DEF TxChange
<1>6. CASE FailTx(r) \/ CommitTx(r)
  <2>1. /\ pc[r] = "run" /\ call[r].kind \in {"add", "commit"}
        /\ tx[r] \in Transaction
    BY <1>6, TxEndShape DEF Running
  <2>2. PICK u \in Transaction :
          /\ u.tx_id = tx[r].tx_id /\ u.owner = tx[r].owner
          /\ u.total = tx[r].total /\ u.deadline = tx[r].deadline
          /\ u.commit_received = tx[r].commit_received /\ u.ops = tx[r].ops
          /\ \/ /\ u.status = "aborted" /\ executed' = executed
                /\ data'.txs = [data.txs EXCEPT ![u.tx_id] = u]
             \/ /\ u.status = "committed"
                /\ executed' = [executed EXCEPT ![u.tx_id] = @ + 1]
                /\ data'.txs = [atx[r].txs EXCEPT ![u.tx_id] = u]
    BY <1>6, TxEndShape
  <2>3. Follows(Stored(tx[r]), tx[r]) /\ Live(tx[r]) /\ atx[r].txs = data.txs
    BY <2>1 DEF Current
  <2>4. Follows(Stored(u), u)
    <3>1. Stored(u) = Stored(tx[r]) /\ ~Live(u)
      BY <2>2 DEF Stored, Live
    <3>2. QED
      BY <2>2, <2>3, <3>1 DEF Follows
  <2>5. ActsOn(u.tx_id)
    BY <1>2, <2>1, <2>2, NoTxAssumption DEF ActsOn
  <2>6. StoresOne(u)
    BY <2>2, <2>3, <2>4, <2>5 DEF StoresOne
  <2>7. QED
    BY <1>3, <2>6 DEF TxChange
<1>7. QED
  BY <1>4, <1>5, <1>6

LEMMA SweepIsCurrent ==
  ASSUME CoordinatorInv, SweepCurrent, NEW t \in sweep, SweepOne(t)
  PROVE  SweepCurrent' /\ TxChange
<1>1. /\ UNCHANGED executed /\ sweep' = sweep \ {t} /\ t \in Transaction
  BY SweepShape DEF locals
<1>2. CASE data' = data
  BY <1>1, <1>2 DEF SweepCurrent, TxChange, Stored
<1>3. ASSUME NEW u \in Transaction, u = [t EXCEPT !.status = "expired"],
             data'.txs = [data.txs EXCEPT ![u.tx_id] = u]
      PROVE  SweepCurrent' /\ TxChange
  <2>1. Live(t) /\ Stored(t) = t /\ t.status # "committed"
    BY DEF SweepCurrent, Live
  <2>2. /\ u.tx_id = t.tx_id /\ u.status # "committed"
        /\ Follows(t, u)
    BY <1>1, <1>3, <2>1, EndedFollows DEF Transaction
  <2>3. Follows(Stored(u), u) /\ ActsOn(u.tx_id)
    BY <1>1, <2>1, <2>2 DEF Stored, ActsOn
  <2>4. StoresOne(u)
    BY <1>1, <1>3, <2>2, <2>3 DEF StoresOne
  <2>5. ASSUME NEW v \in sweep \ {t} PROVE Live(v) /\ data'.txs[v.tx_id] = v
    <3>1. Live(v) /\ Stored(v) = v
      BY DEF SweepCurrent
    <3>2. v.tx_id # t.tx_id
      BY <2>1, <3>1 DEF Stored
    <3>3. data'.txs[v.tx_id] = data.txs[v.tx_id]
      <4>1. v.tx_id \in TxIDs /\ data.txs \in [TxIDs -> Transaction \cup {NoTx}]
        BY DEF CoordinatorInv, TypeOK, SnapshotType, Transaction
      <4>2. QED
        BY <1>3, <2>2, <3>2, <4>1
    <3>4. QED
      BY <3>1, <3>3 DEF Stored
  <2>6. SweepCurrent'
    BY <1>1, <2>5 DEF SweepCurrent, Stored
  <2>7. QED
    BY <2>4, <2>6 DEF TxChange
<1>4. QED
  BY <1>2, <1>3, SweepShape

\* Every step, with all the requests in view.
LEMMA NextSequential ==
  ASSUME MaxInFlight = 1, CoordinatorInv, SequentialInv, [Next]_vars
  PROVE  /\ Alone' /\ SweepCurrent' /\ \A r \in Reqs : Current(r)'
         /\ TxChange
<1>0. pc \in [Reqs -> PC]
  BY DEF CoordinatorInv, TypeOK
<1>1. ASSUME NEW r \in Reqs, Step(r)
      PROVE  /\ Alone' /\ SweepCurrent' /\ \A q \in Reqs : Current(q)'
             /\ TxChange
  <2>1. Current(r)' /\ TxChange
    BY <1>1, LoadIsCurrent, DecisionIsCurrent, WorkIsCurrent, EndIsCurrent
      DEF Step, SequentialInv
  <2>2. pc[r] # "idle"
    BY <1>1 DEF Step, LoadForCreate, LoadOwned, Decide, Deciding, CreateTx, ExpireOnUse,
        ReadResult, AddRefused, AddConflict, AddOp, CommitRefused, Commit, AbortRefused,
        Abort, Save, BeginTx, RunOp, FailTx, CommitTx, Running, KVPut, KVDelete,
        BeginImport, ImportRecord, Importing, CommitImport, BeginRead, EndRead
  <2>3. ASSUME NEW q \in Reqs, q # r
        PROVE  pc'[q] = "idle"
    BY <1>1, <2>2, <2>3, OtherLocals DEF SequentialInv, Alone
  <2>4. sweep' = {}
    <3>1. sweep' = sweep
      <4>1. CASE LoadForCreate(r) \/ LoadOwned(r) \/ Decide(r)
        BY <4>1, DecideShape DEF Private
      <4>2. CASE Save(r) \/ FailTx(r) \/ CommitTx(r)
        BY <4>2, SaveShape, TxEndShape
      <4>3. CASE KVPut(r) \/ KVDelete(r) \/ CommitImport(r) \/ EndRead(r)
        BY <4>3, KVEndShape
      <4>4. CASE BeginTx(r) \/ RunOp(r) \/ BeginImport(r) \/ ImportRecord(r) \/ BeginRead(r)
        BY <4>4, WorkShape
      <4>5. QED
        BY <1>1, <4>1, <4>2, <4>3, <4>4 DEF Step
    <3>2. QED
      BY <2>2, <3>1 DEF SequentialInv, Alone
  <2>5. Alone' /\ SweepCurrent'
    BY <2>3, <2>4 DEF Alone, SweepCurrent
  <2>6. \A q \in Reqs : q # r => Current(q)'
    BY <2>3 DEF Current, Deciding
  <2>7. QED
    BY <2>1, <2>5, <2>6
<1>2. ASSUME NEW r \in Reqs, NEW c \in Calls, Start(r, c)
      PROVE  /\ Alone' /\ SweepCurrent' /\ \A q \in Reqs : Current(q)'
             /\ TxChange
  <2>1. sweep = {} /\ \A q \in Reqs : pc[q] = "idle"
    BY <1>2, NobodyUnderWay DEF Start, SequentialInv
  <2>2. /\ pc'[r] \in {"lock", "load"}
        /\ (pc'[r] = "lock") => c.kind \in {"import", "put", "delete", "read"}
        /\ call'[r] = c
        /\ \A q \in Reqs : q # r => pc'[q] = "idle"
        /\ UNCHANGED <<data, sweep, executed>>
    BY <1>0, <1>2, <2>1 DEF Start, CoordinatorInv, TypeOK
  <2>3. QED
    BY <2>1, <2>2 DEF Alone, SweepCurrent, Current, Deciding, TxChange
<1>3. ASSUME NEW t \in sweep, SweepOne(t)
      PROVE  /\ Alone' /\ SweepCurrent' /\ \A q \in Reqs : Current(q)'
             /\ TxChange
  <2>1. SweepCurrent' /\ TxChange
    BY <1>3, SweepIsCurrent DEF SequentialInv
  <2>2. \A q \in Reqs : pc'[q] = "idle"
    BY <1>3, SweepShape DEF SequentialInv, Alone, locals
  <2>3. QED
    BY <2>1, <2>2 DEF Alone, Current, Deciding
<1>4. CASE ListDue
  <2>1. \A q \in Reqs : pc'[q] = "idle"
    BY <1>4, NobodyUnderWay DEF ListDue, SequentialInv, locals
  <2>2. SweepCurrent'
    BY <1>4 DEF ListDue, SweepCurrent, Stored, CoordinatorInv, SoundSnapshot
  <2>3. TxChange
    BY <1>4 DEF ListDue, TxChange
  <2>4. QED
    BY <2>1, <2>2, <2>3 DEF Alone, Current, Deciding
<1>5. CASE Tick \/ UNCHANGED vars
  BY <1>5 DEF Tick, vars, locals, SequentialInv, Alone, SweepCurrent, Current, Deciding,
             TxChange, Stored
<1>6. CASE Restart
  BY <1>6 DEF Restart, Alone, SweepCurrent, Current, Deciding, TxChange
<1>7. QED
  BY <1>1, <1>2, <1>3, <1>4, <1>5, <1>6 DEF Next, Cleaner

\* What becomes of the transaction of one id, and how often it was executed.
LEMMA OfOneId ==
  ASSUME CoordinatorInv, TxChange, NEW id \in TxIDs
  PROVE  \/ data'.txs[id] = data.txs[id] /\ executed'[id] = executed[id]
         \/ /\ data'.txs[id] # NoTx /\ ActsOn(id)
            /\ data.txs[id] = NoTx \/ Follows(data.txs[id], data'.txs[id])
            /\ executed'[id] = IF data'.txs[id].status = "committed"
                               THEN executed[id] + 1 ELSE executed[id]
<1>1. /\ data.txs \in [TxIDs -> Transaction \cup {NoTx}]
      /\ executed \in [TxIDs -> Nat]
  BY DEF CoordinatorInv, TypeOK, SnapshotType
<1>2. ASSUME NEW u \in Transaction, StoresOne(u), u.tx_id = id
      PROVE  /\ data'.txs[id] # NoTx /\ ActsOn(id)
             /\ data.txs[id] = NoTx \/ Follows(data.txs[id], data'.txs[id])
             /\ executed'[id] = IF data'.txs[id].status = "committed"
                                THEN executed[id] + 1 ELSE executed[id]
  <2>1. data'.txs[id] = u /\ u # NoTx
    BY <1>1, <1>2, NoTxAssumption DEF StoresOne
  <2>2. executed'[id] = IF u.status = "committed" THEN executed[id] + 1 ELSE executed[id]
    BY <1>1, <1>2 DEF StoresOne
  <2>3. QED
    BY <1>2, <2>1, <2>2 DEF StoresOne, Stored
<1>3. ASSUME NEW u \in Transaction, StoresOne(u), u.tx_id # id
      PROVE  data'.txs[id] = data.txs[id] /\ executed'[id] = executed[id]
  BY <1>1, <1>3 DEF StoresOne
<1>4. QED
  BY <1>2, <1>3 DEF TxChange

LEMMA NextExecutedOnce ==
  ASSUME CoordinatorInv, ExecutedOnce, TxChange
  PROVE  ExecutedOnce'
<1> SUFFICES ASSUME NEW id \in TxIDs
             PROVE  executed'[id] = IF data'.txs[id] # NoTx /\ data'.txs[id].status = "committed"
                                    THEN 1 ELSE 0
  BY DEF ExecutedOnce
<1>1. CASE data'.txs[id] = data.txs[id] /\ executed'[id] = executed[id]
  BY <1>1 DEF ExecutedOnce
<1>2. CASE /\ data'.txs[id] # NoTx
           /\ data.txs[id] = NoTx \/ Follows(data.txs[id], data'.txs[id])
           /\ executed'[id] = IF data'.txs[id].status = "committed"
                              THEN executed[id] + 1 ELSE executed[id]
  <2>1. executed[id] = 0
    BY <1>2 DEF ExecutedOnce, Follows
  <2>2. QED
    BY <1>2, <2>1
<1>3. QED
  BY <1>1, <1>2, OfOneId

\* As long as requests do not overlap, the copy a request decides about is the
\* transaction that is stored, until it stores what has become of it.
LEMMA SequentialInvariant ==
  ASSUME MaxInFlight = 1
  PROVE  Spec => [](CoordinatorInv /\ SequentialInv)
<1>1. Init => SequentialInv
  BY DEF Init, SequentialInv, Alone, SweepCurrent, Current, Deciding,
         ExecutedOnce
<1>2. CoordinatorInv /\ SequentialInv /\ [Next]_vars => SequentialInv'
  BY NextSequential, NextExecutedOnce DEF SequentialInv
<1>3. QED
  BY <1>1, <1>2, CoordinatorInvariant, PTL DEF Spec

\* And every step does to the transactions what one request may do.
LEMMA EveryStep ==
  ASSUME MaxInFlight = 1
  PROVE  Spec => [][CoordinatorInv /\ TxChange]_vars
<1>1. CoordinatorInv /\ SequentialInv /\ [Next]_vars => [CoordinatorInv /\ TxChange]_vars
  BY NextSequential
<1>2. QED
  BY <1>1, SequentialInvariant, PTL DEF Spec

-----------------------------------------------------------------------------
(* The promises.                                                           *)

\* However often a commit or a fragment is sent again, a transaction is
\* executed once if it is stored as committed and else never (Commit, AddOp,
\* execute), as long as requests do not overlap.
THEOREM TransactionsExecuteOnce ==
  ASSUME MaxInFlight = 1
  PROVE  Spec => []ExecutedOnce
<1>1. SequentialInv => ExecutedOnce
  BY DEF SequentialInv
<1>2. QED
  BY <1>1, SequentialInvariant, PTL

\* No fragment the store has taken is dropped or replaced (AddOp).
THEOREM FragmentsAreKept ==
  ASSUME MaxInFlight = 1
  PROVE  Spec => FragmentsKept
<1> DEFINE Kept == \A id \in TxIDs : data.txs[id] # NoTx =>
                      \A seq \in Received(data.txs[id]) :
                          /\ data'.txs[id] # NoTx
                          /\ data'.txs[id].ops[seq] = data.txs[id].ops[seq]
<1>1. ASSUME CoordinatorInv, TxChange PROVE Kept
  BY <1>1, OfOneId DEF Follows
<1>2. [CoordinatorInv /\ TxChange]_vars => [Kept]_vars
  BY <1>1
<1>3. QED
  BY <1>2, EveryStep, PTL DEF FragmentsKept

\* A committed transaction and its stored result never change (mutable, Abort).
THEOREM CommitsAreFinal ==
  ASSUME MaxInFlight = 1
  PROVE  Spec => CommittedIsFinal
<1> DEFINE Final == \A id \in TxIDs :
                      (data.txs[id] # NoTx /\ data.txs[id].status = "committed") =>
                          data'.txs[id] = data.txs[id]
<1>1. ASSUME CoordinatorInv, TxChange PROVE Final
  BY <1>1, OfOneId DEF Follows
<1>2. [CoordinatorInv /\ TxChange]_vars => [Final]_vars
  BY <1>1
<1>3. QED
  BY <1>2, EveryStep, PTL DEF CommittedIsFinal

\* Executions and imports, which replace the whole snapshot, change no
\* transaction but the one they execute (AtomicTx.Commit).
THEOREM OthersAreUntouched ==
  ASSUME MaxInFlight = 1
  PROVE  Spec => OthersUntouched
<1> DEFINE Touched == \A id \in TxIDs : data'.txs[id] # data.txs[id] =>
             \/ \E r \in Reqs : /\ pc[r] \in {"save", "run"} /\ pc'[r] = "idle"
                               /\ tx[r] # NoTx /\ tx[r].tx_id = id
             \/ \E t \in sweep \ sweep' : t.tx_id = id
<1>1. ASSUME CoordinatorInv, TxChange PROVE Touched
  BY <1>1, OfOneId DEF ActsOn
<1>2. [CoordinatorInv /\ TxChange]_vars => [Touched]_vars
  BY <1>1
<1>3. QED
  BY <1>2, EveryStep, PTL DEF OthersUntouched

\* A tx_id keeps its owner, its number of operations and its deadline
\* (CreateTx, loadOwned).
THEOREM IdsStayBound ==
  ASSUME MaxInFlight = 1
  PROVE  Spec => IdBound
<1> DEFINE Bound == \A id \in TxIDs : data.txs[id] # NoTx =>
             /\ data'.txs[id] # NoTx
             /\ data'.txs[id].owner = data.txs[id].owner
             /\ data'.txs[id].total = data.txs[id].total
             /\ data'.txs[id].deadline = data.txs[id].deadline
<1>1. ASSUME CoordinatorInv, TxChange PROVE Bound
  BY <1>1, OfOneId DEF Follows
<1>2. [CoordinatorInv /\ TxChange]_vars => [Bound]_vars
  BY <1>1
<1>3. QED
  BY <1>2, EveryStep, PTL DEF IdBound

\* A commit that was taken is remembered until the last fragment arrives
\* (Commit, AddOp).
THEOREM CommitsAreRemembered ==
  ASSUME MaxInFlight = 1
  PROVE  Spec => CommitRemembered
<1> DEFINE Remembered == \A id \in TxIDs :
              (data.txs[id] # NoTx /\ data.txs[id].commit_received) =>
                  (data'.txs[id] # NoTx /\ data'.txs[id].commit_received)
<1>1. ASSUME CoordinatorInv, TxChange PROVE Remembered
  BY <1>1, OfOneId DEF Follows
<1>2. [CoordinatorInv /\ TxChange]_vars => [Remembered]_vars
  BY <1>1
<1>3. QED
  BY <1>2, EveryStep, PTL DEF CommitRemembered

\* Repeated fragments, commits and aborts, the cleaner and the execution of
\* other transactions leave a transaction that was aborted or has expired as it
\* is, but for an abort, which marks an expired one as aborted (mutable, Abort).
THEOREM EndedTransactionsStayEnded ==
  ASSUME MaxInFlight = 1
  PROVE  Spec => EndedStaysEnded
<1> DEFINE Ended == \A id \in TxIDs :
              (data.txs[id] # NoTx /\ data.txs[id].status \in {"aborted", "expired"}) =>
                  data'.txs[id] \in {data.txs[id],
                                     [data.txs[id] EXCEPT !.status = "aborted"]}
<1>1. ASSUME CoordinatorInv, TxChange PROVE Ended
  BY <1>1, OfOneId DEF Follows, Live
<1>2. [CoordinatorInv /\ TxChange]_vars => [Ended]_vars
  BY <1>1
<1>3. QED
  BY <1>2, EveryStep, PTL DEF EndedStaysEnded

=============================================================================
