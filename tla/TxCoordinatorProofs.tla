------------------------ MODULE TxCoordinatorProofs ------------------------
(***************************************************************************)
(* CoordinatorInv is an inductive invariant of TxCoordinator, for every    *)
(* set of requests, principals, userspaces, keys, fragments and            *)
(* transactions, and for every number of requests at a time.  Type         *)
(* correctness, LockDiscipline, VersionsDistinct and NothingStuck follow.  *)
(***************************************************************************)
EXTENDS TxProperties, SnapshotProofs

-----------------------------------------------------------------------------
(* Transactions.                                                           *)

\* Ending a transaction without executing it leaves it sound, whether or not
\* it was waiting with all it waited for.
LEMMA EndedSound ==
  ASSUME NEW t \in Transaction, InRange(t), NEW status \in {"aborted", "expired"}
  PROVE  /\ [t EXCEPT !.status = status] \in Transaction
         /\ Sound([t EXCEPT !.status = status])
<1> DEFINE e == [t EXCEPT !.status = status]
<1>1. e \in Transaction
  BY DEF Transaction, TxStatus
<1>2. e.status = status /\ e.ops = t.ops /\ e.total = t.total
  BY DEF Transaction
<1>3. Received(e) = Received(t)
  BY <1>2 DEF Received
<1>4. InRange(e) /\ Parked(e) /\ CommittedWhole(e)
  BY <1>2, <1>3 DEF InRange, Parked, CommittedWhole, Live
<1>5. QED
  BY <1>1, <1>4 DEF Sound

\* A transaction that is ready has all its fragments, and one that is live and
\* not ready may be stored.
LEMMA ReadyOrSound ==
  ASSUME NEW t \in Transaction, InRange(t), Live(t)
  PROVE  /\ Ready(t) => Received(t) = 1..t.total
         /\ ~Ready(t) => Sound(t)
<1>1. Ready(t) => Received(t) = 1..t.total
  BY CompleteMeansAll DEF InRange, Ready
<1>2. ~Ready(t) => Sound(t)
  BY DEF Ready, Sound, Parked, CommittedWhole, Live
<1>3. QED
  BY <1>1, <1>2

\* What AddOp makes of the copy it read.
LEMMA WithFragmentOpen ==
  ASSUME NEW t \in Transaction, InRange(t), NEW seq \in 1..t.total,
         NEW op \in Fragments
  PROVE  /\ WithFragment(t, seq, op) \in Transaction
         /\ InRange(WithFragment(t, seq, op))
         /\ Live(WithFragment(t, seq, op))
<1> DEFINE w == WithFragment(t, seq, op)
           st == IF t.commit_received THEN "waiting_for_ops" ELSE "pending"
           ops == [t.ops EXCEPT ![seq] = op]
<1>1. t.total \in 1..MaxOps /\ t.ops \in OpMap
  BY DEF Transaction
<1>2. seq \in 1..MaxOps
  BY <1>1, MaxOpsAssumption
<1>3. ops \in OpMap
  BY <1>1, <1>2 DEF OpMap
<1>4. st \in TxStatus /\ st \in {"pending", "waiting_for_ops"}
  BY DEF TxStatus
<1>5. w = [[t EXCEPT !.ops = ops] EXCEPT !.status = st]
  BY DEF WithFragment, Transaction
<1> HIDE DEF ops, st
<1>6. w \in Transaction
  BY <1>3, <1>4, <1>5 DEF Transaction
<1>7. w.ops = ops /\ w.status = st /\ w.total = t.total
  BY <1>5 DEF Transaction
<1>8. Received(w) \subseteq Received(t) \cup {seq}
  BY <1>1, <1>7 DEF Received, ops, OpMap
<1>9. InRange(w)
  BY <1>7, <1>8 DEF InRange
<1>10. Live(w)
  BY <1>4, <1>7 DEF Live
<1>11. QED
  BY <1>6, <1>9, <1>10

\* What Commit makes of the copy it read.
LEMMA WithCommitOpen ==
  ASSUME NEW t \in Transaction, InRange(t), NEW digest \in Digests \cup {NoDigest}
  PROVE  /\ WithCommit(t, digest) \in Transaction
         /\ InRange(WithCommit(t, digest))
         /\ Live(WithCommit(t, digest))
<1> DEFINE w == WithCommit(t, digest)
<1>1. w = [[[t EXCEPT !.commit_received = TRUE] EXCEPT !.digest = digest]
             EXCEPT !.status = "waiting_for_ops"]
  BY DEF WithCommit, Transaction
<1>2. w \in Transaction
  BY <1>1 DEF Transaction, TxStatus
<1>3. w.ops = t.ops /\ w.status = "waiting_for_ops" /\ w.total = t.total
  BY <1>1 DEF Transaction
<1>4. Received(w) = Received(t)
  BY <1>3 DEF Received
<1>5. QED
  BY <1>2, <1>3, <1>4 DEF InRange, Live

\* The transaction CreateTx stores.
LEMMA CreatedSound ==
  ASSUME NEW c \in CreateCall, ValidCreate(c), NEW deadline \in Int
  PROVE  LET t == [tx_id |-> c.tx_id, owner |-> c.p, total |-> c.total,
                   status |-> "pending", deadline |-> deadline,
                   commit_received |-> FALSE, digest |-> NoDigest,
                   ops |-> [seq \in 1..MaxOps |-> NoOp], result |-> NoResult]
         IN  t \in Transaction /\ Sound(t)
<1> DEFINE ops == [seq \in 1..MaxOps |-> NoOp]
           t == [tx_id |-> c.tx_id, owner |-> c.p, total |-> c.total,
                 status |-> "pending", deadline |-> deadline,
                 commit_received |-> FALSE, digest |-> NoDigest,
                 ops |-> ops, result |-> NoResult]
<1>1. c.tx_id \in TxIDs /\ c.p \in Principals /\ c.total \in 1..MaxOps
  BY DEF CreateCall, ValidCreate
<1>2. ops \in OpMap
  BY DEF OpMap
<1>3. t \in Transaction
  BY <1>1, <1>2 DEF Transaction, TxStatus
<1>4. Received(t) = {}
  BY DEF Received
<1>5. InRange(t) /\ Parked(t) /\ CommittedWhole(t)
  BY <1>4 DEF InRange, Parked, CommittedWhole
<1>6. QED
  BY <1>3, <1>5 DEF Sound

\* The transaction an execution leaves, whole or failed.
LEMMA FinishedSound ==
  ASSUME NEW r \in Reqs, tx[r] \in Transaction,
         Received(tx[r]) = 1..tx[r].total,
         NEW status \in {"committed", "aborted"}, NEW outcomes \in Seq(Outcome),
         status = "committed" => Len(outcomes) = tx[r].total
  PROVE  /\ Finished(r, status, outcomes) \in Transaction
         /\ Sound(Finished(r, status, outcomes))
<1> DEFINE t == tx[r]
           result == [status |-> status, results |-> outcomes]
           f == Finished(r, status, outcomes)
<1>1. result \in TxResult /\ result.results = outcomes
  BY DEF TxResult
<1>2. f = [[t EXCEPT !.status = status] EXCEPT !.result = result]
  BY DEF Finished, Transaction
<1> HIDE DEF result
<1>3. f \in Transaction
  BY <1>1, <1>2 DEF Transaction, TxStatus
<1>4. /\ f.ops = t.ops /\ f.total = t.total
      /\ f.status = status /\ f.result = result
  BY <1>1, <1>2 DEF Transaction
<1>5. Received(f) = 1..f.total
  BY <1>4 DEF Received
<1>6. result # NoResult
  BY <1>1, NoResultAssumption
<1>7. InRange(f) /\ Parked(f) /\ CommittedWhole(f)
  BY <1>1, <1>4, <1>5, <1>6 DEF InRange, Parked, CommittedWhole, Live
<1>8. QED
  BY <1>3, <1>7 DEF Sound

-----------------------------------------------------------------------------
(* Requests, and the two halves of the invariant.                          *)

\* The fields of a request are those of its kind.
LEMMA CallKinds ==
  ASSUME NEW c \in Calls
  PROVE  /\ c.kind = "create" => c \in CreateCall
         /\ c.kind = "add"    => c \in AddCall
         /\ c.kind = "commit" => c \in CommitCall
         /\ c.kind = "import" => c \in ImportCall
         /\ c.kind = "put"    => c \in PutCall
         /\ c.kind = "delete" => c \in DeleteCall
<1>1. c \in TxCall \/ c \in KVCall
  BY CallAssumption
<1>2. QED
  BY <1>1 DEF TxCall, KVCall, CreateCall, AddCall, CommitCall, AbortCall,
              ResultCall, ImportCall, PutCall, DeleteCall, ReadCall

\* What all requests share.
Shared ==
    /\ SoundSnapshot(data)
    /\ lock \in Reqs \cup {Free}
    /\ now \in 0..MaxNow
    /\ sweep \subseteq Transaction
    /\ \A t \in sweep : Sound(t)
    /\ events \in Nat
    /\ executed \in [TxIDs -> Nat]

\* What each has of its own.
Locals ==
    /\ pc \in [Reqs -> PC]
    /\ call \in [Reqs -> Calls \cup {NoCall}]
    /\ tx \in [Reqs -> Transaction \cup {NoTx}]
    /\ atx \in [Reqs -> SnapshotType]
    /\ results \in [Reqs -> Seq(Outcome)]
    /\ \A r \in Reqs : RequestOK(r)

\* The invariant in its parts, which the actions disturb one at a time.
LEMMA InvParts == CoordinatorInv <=> Shared /\ Locals /\ LockDiscipline
  BY DEF CoordinatorInv, TypeOK, Shared, Locals, SoundSnapshot

\* A request that ends has nothing left to rely on.
LEMMA ReturnLocals ==
  ASSUME Locals, NEW r \in Reqs, Return(r)
  PROVE  /\ Locals'
         /\ pc'[r] = "idle" /\ \A q \in Reqs \ {r} : pc'[q] = pc[q]
<1>1. /\ pc' \in [Reqs -> PC]
      /\ call' \in [Reqs -> Calls \cup {NoCall}]
      /\ tx' \in [Reqs -> Transaction \cup {NoTx}]
      /\ atx' \in [Reqs -> SnapshotType]
      /\ results' \in [Reqs -> Seq(Outcome)]
  BY EmptySnapshotType DEF Locals, Return, PC
<1>2. ASSUME NEW q \in Reqs PROVE RequestOK(q)'
  <2>1. CASE q = r
    <3>1. pc'[q] = "idle" /\ atx'[q] = EmptySnapshot /\ results'[q] = <<>>
      BY <2>1 DEF Locals, Return
    <3>2. QED
      BY <3>1, EmptySnapshotSound DEF RequestOK, Deciding
  <2>2. CASE q # r
    <3>1. /\ pc'[q] = pc[q] /\ call'[q] = call[q] /\ tx'[q] = tx[q]
          /\ atx'[q] = atx[q] /\ results'[q] = results[q]
      BY <2>2 DEF Locals, Return
    <3>2. QED
      BY <3>1 DEF Locals, RequestOK, Deciding
  <2>3. QED
    BY <2>1, <2>2
<1>3. QED
  BY <1>1, <1>2 DEF Locals, Return

\* A request goes on with a copy of the transaction that its next step may rely on.
LEMMA GoOnLocals ==
  ASSUME Locals, NEW r \in Reqs, pc[r] \in {"load", "decide"},
         NEW p \in {"decide", "save", "lock"}, NEW t \in Transaction \cup {NoTx},
         GoOn(r, p, t),
         (p = "decide" /\ call[r].kind = "create") => ValidCreate(call[r]),
         (p = "save" \/ (p = "decide" /\ call[r].kind # "create")) =>
            t \in Transaction /\ Sound(t),
         p = "lock" => t \in Transaction /\ Received(t) = 1..t.total
  PROVE  /\ Locals'
         /\ pc'[r] = p /\ \A q \in Reqs \ {r} : pc'[q] = pc[q]
<1>1. /\ pc' \in [Reqs -> PC]
      /\ call' \in [Reqs -> Calls \cup {NoCall}]
      /\ tx' \in [Reqs -> Transaction \cup {NoTx}]
      /\ atx' \in [Reqs -> SnapshotType]
      /\ results' \in [Reqs -> Seq(Outcome)]
  BY DEF Locals, GoOn, PC
<1>2. ASSUME NEW q \in Reqs PROVE RequestOK(q)'
  <2>1. CASE q = r
    <3>1. /\ pc'[q] = p /\ tx'[q] = t /\ call'[q] = call[q]
          /\ atx'[q] = atx[q] /\ results'[q] = results[q]
      BY <2>1 DEF Locals, GoOn
    <3>2. /\ SoundSnapshot(atx[q]) /\ call[q] \in Calls /\ results[q] = <<>>
      BY <2>1 DEF Locals, RequestOK
    <3>3. t \in Transaction => Len(<<>>) <= t.total
      BY MaxOpsAssumption DEF Transaction
    <3>4. QED
      BY <2>1, <3>1, <3>2, <3>3 DEF RequestOK, Deciding
  <2>2. CASE q # r
    <3>1. /\ pc'[q] = pc[q] /\ call'[q] = call[q] /\ tx'[q] = tx[q]
          /\ atx'[q] = atx[q] /\ results'[q] = results[q]
      BY <2>2 DEF Locals, GoOn
    <3>2. QED
      BY <3>1 DEF Locals, RequestOK, Deciding
  <2>3. QED
    BY <2>1, <2>2
<1>3. QED
  BY <1>1, <1>2 DEF Locals, GoOn

\* One way a step of a request leaves what is shared alone: it ends.
LEMMA ReturnPrivate ==
  ASSUME CoordinatorInv, NEW r \in Reqs, Return(r), Private, pc[r] # "run"
  PROVE  CoordinatorInv'
<1>1. Shared /\ Locals /\ LockDiscipline
  BY InvParts
<1>2. Locals' /\ pc'[r] = "idle" /\ \A q \in Reqs \ {r} : pc'[q] = pc[q]
  BY <1>1, ReturnLocals
<1>3. Shared'
  BY <1>1 DEF Shared, Private
<1>4. LockDiscipline'
  BY <1>1, <1>2 DEF LockDiscipline, Private
<1>5. QED
  BY <1>2, <1>3, <1>4 DEF CoordinatorInv, TypeOK, Shared, Locals, SoundSnapshot

\* The other: it goes on to its next step.
LEMMA GoOnPrivate ==
  ASSUME CoordinatorInv, NEW r \in Reqs, pc[r] \in {"load", "decide"},
         NEW p \in {"decide", "save", "lock"}, NEW t \in Transaction \cup {NoTx},
         GoOn(r, p, t), Private,
         (p = "decide" /\ call[r].kind = "create") => ValidCreate(call[r]),
         (p = "save" \/ (p = "decide" /\ call[r].kind # "create")) =>
            t \in Transaction /\ Sound(t),
         p = "lock" => t \in Transaction /\ Received(t) = 1..t.total
  PROVE  CoordinatorInv'
<1>1. Shared /\ Locals /\ LockDiscipline
  BY InvParts
<1>2. Locals' /\ pc'[r] = p /\ \A q \in Reqs \ {r} : pc'[q] = pc[q]
  BY <1>1, GoOnLocals
<1>3. Shared'
  BY <1>1 DEF Shared, Private
<1>4. LockDiscipline'
  BY <1>1, <1>2 DEF LockDiscipline, Private
<1>5. QED
  BY <1>2, <1>3, <1>4 DEF CoordinatorInv, TypeOK, Shared, Locals, SoundSnapshot

-----------------------------------------------------------------------------
(* The steps of a request, one lemma for each group of actions.            *)

\* What a request that decides about a stored transaction has in hand.
LEMMA DecidingCopy ==
  ASSUME CoordinatorInv, NEW r \in Reqs, pc[r] = "decide",
         call[r].kind # "create"
  PROVE  tx[r] \in Transaction /\ Sound(tx[r]) /\ InRange(tx[r])
  BY DEF CoordinatorInv, RequestOK, Sound

\* A new request.
LEMMA StartKeepsInv ==
  ASSUME CoordinatorInv, NEW r \in Reqs, NEW c \in Calls, Start(r, c)
  PROVE  CoordinatorInv'
<1>1. Shared /\ Locals /\ LockDiscipline
  BY InvParts
<1>2. Shared'
  BY <1>1 DEF Shared, Start
<1>3. /\ pc' \in [Reqs -> PC]
      /\ call' \in [Reqs -> Calls \cup {NoCall}]
      /\ UNCHANGED <<tx, atx, results, lock>>
      /\ pc'[r] \in {"load", "lock"} /\ call'[r] = c /\ pc[r] = "idle"
      /\ pc'[r] = "load" <=> c.kind \notin {"import", "put", "delete", "read"}
      /\ \A q \in Reqs \ {r} : pc'[q] = pc[q] /\ call'[q] = call[q]
  BY <1>1 DEF Locals, Start, PC
<1>4. ASSUME NEW q \in Reqs PROVE RequestOK(q)'
  <2>1. CASE q = r
    BY <1>1, <1>3, <2>1 DEF Locals, RequestOK, Deciding
  <2>2. CASE q # r
    BY <1>1, <1>3, <2>2 DEF Locals, RequestOK, Deciding
  <2>3. QED
    BY <2>1, <2>2
<1>5. Locals'
  BY <1>1, <1>3, <1>4 DEF Locals
<1>6. LockDiscipline'
  BY <1>1, <1>3 DEF LockDiscipline
<1>7. QED
  BY <1>2, <1>5, <1>6 DEF CoordinatorInv, TypeOK, Shared, Locals, SoundSnapshot

\* GetTx gives a copy of a transaction the store holds.
LEMMA LoadKeepsInv ==
  ASSUME CoordinatorInv, NEW r \in Reqs, LoadForCreate(r) \/ LoadOwned(r)
  PROVE  CoordinatorInv'
<1>1. CASE LoadForCreate(r)
  <2>1. /\ pc[r] = "load" /\ Private /\ call[r].kind = "create"
        /\ Return(r) \/ (GoOn(r, "decide", NoTx) /\ ValidCreate(call[r]))
    BY <1>1 DEF LoadForCreate
  <2>2. QED
    BY <2>1, ReturnPrivate, GoOnPrivate
<1>2. CASE LoadOwned(r)
  <2> DEFINE t == data.txs[call[r].tx_id]
  <2>1. /\ pc[r] = "load" /\ Private
        /\ call[r].kind \in {"add", "commit", "abort", "result"}
        /\ Return(r) \/ (GoOn(r, "decide", t) /\ t # NoTx)
    BY <1>2 DEF LoadOwned, Owned
  <2>2. call[r] \in Calls
    BY <2>1 DEF CoordinatorInv, RequestOK
  <2>3. call[r].tx_id \in TxIDs
    BY <2>1, <2>2, CallAssumption
      DEF TxCall, KVCall, CreateCall, AddCall, CommitCall, AbortCall,
          ResultCall, ImportCall, PutCall, DeleteCall, ReadCall
  <2>4. t # NoTx => t \in Transaction /\ Sound(t)
    BY <2>3 DEF CoordinatorInv, SoundSnapshot, SnapshotType
  <2>5. QED
    BY <2>1, <2>4, ReturnPrivate, GoOnPrivate
<1>3. QED
  BY <1>1, <1>2

\* Whatever timeout_ms is, what is left of it in 64 bits is a duration.
LEMMA DurationType ==
  ASSUME NEW ms \in Int
  PROVE  Duration(ms) \in -HalfRange..(HalfRange - 1)
<1> DEFINE n == ms * NanosPerMilli + HalfRange
           w == 2 * HalfRange
<1>1. n \in Int /\ w \in Nat \ {0} /\ HalfRange \in Nat
  BY TimeAssumption
<1>2. Duration(ms) = (n % w) - HalfRange
  BY DEF Duration
<1> HIDE DEF n
<1>3. n % w \in 0..(w - 1)
  <2> HIDE DEF w
  <2>1. QED
    BY <1>1
<1>4. QED
  BY <1>1, <1>2, <1>3

\* CreateTx decides to store a new transaction.
LEMMA CreateKeepsInv ==
  ASSUME CoordinatorInv, NEW r \in Reqs, CreateTx(r)
  PROVE  CoordinatorInv'
<1> DEFINE c == call[r]
           t == [tx_id |-> c.tx_id, owner |-> c.p, total |-> c.total,
                 status |-> "pending", deadline |-> now + Timeout(c),
                 commit_received |-> FALSE, digest |-> NoDigest,
                 ops |-> [seq \in 1..MaxOps |-> NoOp], result |-> NoResult]
<1>1. /\ pc[r] = "decide" /\ c.kind = "create"
      /\ GoOn(r, "save", t) /\ Private
  BY DEF CreateTx, Deciding
<1>2. c \in CreateCall /\ ValidCreate(c)
  BY <1>1, CallKinds DEF CoordinatorInv, RequestOK, Deciding
<1>3. now + Timeout(c) \in Int
  <2>1. c.timeout_ms \in Int /\ now \in Int /\ DefaultTimeout \in Int
    BY <1>2, TimeAssumption DEF CoordinatorInv, TypeOK, CreateCall
  <2>2. Duration(c.timeout_ms) \in Int
    BY <2>1, DurationType
  <2>3. QED
    BY <2>1, <2>2 DEF Timeout
<1>4. t \in Transaction /\ Sound(t)
  BY <1>2, <1>3, CreatedSound
<1> HIDE DEF t
<1>5. QED
  BY <1>1, <1>4, GoOnPrivate

\* execute(t) of a transaction that has all its fragments.
LEMMA ExecuteKeepsInv ==
  ASSUME CoordinatorInv, NEW r \in Reqs, pc[r] = "decide",
         NEW t \in Transaction, Received(t) = 1..t.total,
         Execute(r, t), Private
  PROVE  CoordinatorInv'
<1>1. InRange(t)
  BY DEF InRange
<1>2. CASE DigestMismatch(t)
  <2>1. GoOn(r, "save", [t EXCEPT !.status = "aborted"])
    BY <1>2 DEF Execute
  <2>2. [t EXCEPT !.status = "aborted"] \in Transaction
          /\ Sound([t EXCEPT !.status = "aborted"])
    BY <1>1, EndedSound
  <2>3. QED
    BY <2>1, <2>2, GoOnPrivate
<1>3. CASE ~DigestMismatch(t)
  BY <1>3, GoOnPrivate DEF Execute
<1>4. QED
  BY <1>2, <1>3

\* AddOp and Commit with a copy that is live: either it is ready and executed,
\* or it is saved.
LEMMA ReadyOrSavedKeepsInv ==
  ASSUME CoordinatorInv, NEW r \in Reqs, pc[r] = "decide",
         NEW t \in Transaction, InRange(t), Live(t), Private,
         IF Ready(t) THEN Execute(r, t) ELSE GoOn(r, "save", t)
  PROVE  CoordinatorInv'
<1>1. CASE Ready(t)
  BY <1>1, ReadyOrSound, ExecuteKeepsInv
<1>2. CASE ~Ready(t)
  BY <1>2, ReadyOrSound, GoOnPrivate
<1>3. QED
  BY <1>1, <1>2

\* Every decision: the copy it goes on with is ended, or still waits for
\* something, or has all its fragments and goes to execution.
LEMMA DecideKeepsInv ==
  ASSUME CoordinatorInv, NEW r \in Reqs, Decide(r)
  PROVE  CoordinatorInv'
<1>1. pc[r] = "decide" /\ Private
  BY DEF Decide, Deciding, CreateTx, ExpireOnUse, ReadResult, AddRefused,
         AddConflict, AddOp, CommitRefused, Commit, AbortRefused, Abort
<1>2. CASE CreateTx(r)
  BY <1>2, CreateKeepsInv
<1>3. CASE ReadResult(r) \/ AddRefused(r) \/ CommitRefused(r) \/ AbortRefused(r)
  <2>1. Return(r)
    BY <1>3 DEF ReadResult, AddRefused, CommitRefused, AbortRefused
  <2>2. QED
    BY <1>1, <2>1, ReturnPrivate
<1>4. CASE ExpireOnUse(r) \/ AddConflict(r) \/ Abort(r)
  <2>1. call[r].kind # "create"
    BY <1>4 DEF ExpireOnUse, AddConflict, Abort, Deciding
  <2>2. PICK status \in {"aborted", "expired"} :
          GoOn(r, "save", [tx[r] EXCEPT !.status = status])
    BY <1>4 DEF ExpireOnUse, AddConflict, Abort
  <2> DEFINE e == [tx[r] EXCEPT !.status = status]
  <2>3. e \in Transaction /\ Sound(e)
    BY <1>1, <2>1, DecidingCopy, EndedSound
  <2> HIDE DEF e
  <2>4. GoOn(r, "save", e)
    BY <2>2 DEF e
  <2>5. QED
    BY <1>1, <2>3, <2>4, GoOnPrivate
<1>5. CASE AddOp(r)
  <2> DEFINE t == WithFragment(tx[r], call[r].seq, call[r].op)
  <2>1. /\ call[r].kind = "add"
        /\ call[r].seq \in 1..tx[r].total
        /\ IF Ready(t) THEN Execute(r, t) ELSE GoOn(r, "save", t)
    BY <1>5 DEF AddOp, Deciding
  <2>2. call[r].op \in Fragments
    BY <1>1, <2>1, CallKinds DEF CoordinatorInv, RequestOK, AddCall
  <2>3. t \in Transaction /\ InRange(t) /\ Live(t)
    BY <1>1, <2>1, <2>2, DecidingCopy, WithFragmentOpen
  <2> HIDE DEF t
  <2>4. QED
    BY <1>1, <2>1, <2>3, ReadyOrSavedKeepsInv
<1>6. CASE Commit(r)
  <2> DEFINE t == WithCommit(tx[r], call[r].digest)
  <2>1. /\ call[r].kind = "commit"
        /\ IF Ready(t) THEN Execute(r, t) ELSE GoOn(r, "save", t)
    BY <1>6 DEF Commit, Deciding
  <2>2. call[r].digest \in Digests \cup {NoDigest}
    BY <1>1, <2>1, CallKinds DEF CoordinatorInv, RequestOK, CommitCall
  <2>3. t \in Transaction /\ InRange(t) /\ Live(t)
    BY <1>1, <2>1, <2>2, DecidingCopy, WithCommitOpen
  <2> HIDE DEF t
  <2>4. QED
    BY <1>1, <2>1, <2>3, ReadyOrSavedKeepsInv
<1>7. QED
  BY <1>2, <1>3, <1>4, <1>5, <1>6 DEF Decide

\* A request that ends by changing the store, and gives back the lock if it
\* held it.
LEMMA PublishKeepsInv ==
  ASSUME CoordinatorInv, NEW r \in Reqs, Return(r), SoundSnapshot(data'),
         UNCHANGED <<now, sweep, events>>, executed' \in [TxIDs -> Nat],
         IF pc[r] = "run" THEN lock' = Free ELSE lock' = lock
  PROVE  CoordinatorInv'
<1>1. Shared /\ Locals /\ LockDiscipline
  BY InvParts
<1>2. Locals' /\ pc'[r] = "idle" /\ \A q \in Reqs \ {r} : pc'[q] = pc[q]
  BY <1>1, ReturnLocals
<1>3. Shared'
  BY <1>1 DEF Shared
<1>4. LockDiscipline'
  BY <1>1, <1>2, ReqAssumption DEF LockDiscipline
<1>5. QED
  BY <1>2, <1>3, <1>4 DEF CoordinatorInv, TypeOK, Shared, Locals, SoundSnapshot

\* A request that takes the lock when nobody has it, and clones the store.
LEMMA BeginKeepsInv ==
  ASSUME CoordinatorInv, NEW r \in Reqs, pc[r] = "lock", lock = Free,
         NEW d \in SnapshotType, SoundSnapshot(d),
         lock' = r, atx' = [atx EXCEPT ![r] = d], pc' = [pc EXCEPT ![r] = "run"],
         UNCHANGED <<data, now, call, tx, results, sweep, events, executed>>
  PROVE  CoordinatorInv'
<1>1. Shared /\ Locals /\ LockDiscipline
  BY InvParts
<1>2. Shared'
  BY <1>1 DEF Shared
<1>3. /\ pc' \in [Reqs -> PC] /\ atx' \in [Reqs -> SnapshotType]
      /\ pc'[r] = "run" /\ atx'[r] = d
      /\ \A q \in Reqs \ {r} : pc'[q] = pc[q] /\ atx'[q] = atx[q]
  BY <1>1 DEF Locals, PC
<1>4. ASSUME NEW q \in Reqs PROVE RequestOK(q)'
  <2>1. CASE q = r
    BY <1>1, <1>3, <2>1 DEF Locals, RequestOK, Deciding
  <2>2. CASE q # r
    BY <1>1, <1>3, <2>2 DEF Locals, RequestOK, Deciding
  <2>3. QED
    BY <2>1, <2>2
<1>5. Locals'
  BY <1>1, <1>3, <1>4 DEF Locals
<1>6. LockDiscipline'
  BY <1>1, <1>3, ReqAssumption DEF LockDiscipline
<1>7. QED
  BY <1>2, <1>5, <1>6 DEF CoordinatorInv, TypeOK, Shared, Locals, SoundSnapshot

\* A request that holds the lock changes its clone and records an outcome.
LEMMA RunKeepsInv ==
  ASSUME CoordinatorInv, NEW r \in Reqs, pc[r] = "run",
         NEW d \in SnapshotType, SoundSnapshot(d), NEW out \in Outcome,
         call[r].kind \in {"add", "commit"} => Len(results[r]) < tx[r].total,
         atx' = [atx EXCEPT ![r] = d],
         results' = [results EXCEPT ![r] = Append(results[r], out)],
         UNCHANGED <<data, lock, now, pc, call, tx, sweep, events, executed>>
  PROVE  CoordinatorInv'
<1>1. Shared /\ Locals /\ LockDiscipline
  BY InvParts
<1>2. Shared'
  BY <1>1 DEF Shared
<1>3. results[r] \in Seq(Outcome)
  BY <1>1 DEF Locals
<1>4. /\ Append(results[r], out) \in Seq(Outcome)
      /\ Len(Append(results[r], out)) = Len(results[r]) + 1
  BY <1>3
<1>5. /\ atx' \in [Reqs -> SnapshotType] /\ results' \in [Reqs -> Seq(Outcome)]
      /\ atx'[r] = d /\ results'[r] = Append(results[r], out)
      /\ \A q \in Reqs \ {r} : atx'[q] = atx[q] /\ results'[q] = results[q]
  BY <1>1, <1>4 DEF Locals
<1>6. ASSUME NEW q \in Reqs PROVE RequestOK(q)'
  <2>1. CASE q = r
    <3>1. SoundSnapshot(atx'[q]) /\ call[q] \in Calls
      BY <1>1, <1>5, <2>1 DEF Locals, RequestOK
    <3>2. call[r].kind \in {"add", "commit"} =>
            /\ tx[r] \in Transaction /\ Received(tx[r]) = 1..tx[r].total
            /\ Len(results[r]) + 1 <= tx[r].total
      <4>1. Len(results[r]) \in Nat
        BY <1>3
      <4>2. tx[r] \in Transaction => tx[r].total \in Nat
        BY MaxOpsAssumption DEF Transaction
      <4>3. QED
        BY <1>1, <4>1, <4>2 DEF Locals, RequestOK
    <3>3. QED
      BY <1>4, <1>5, <2>1, <3>1, <3>2 DEF RequestOK, Deciding
  <2>2. CASE q # r
    BY <1>1, <1>5, <2>2 DEF Locals, RequestOK, Deciding
  <2>3. QED
    BY <2>1, <2>2
<1>7. Locals'
  BY <1>1, <1>5, <1>6 DEF Locals
<1>8. LockDiscipline'
  BY <1>1 DEF LockDiscipline
<1>9. QED
  BY <1>2, <1>7, <1>8 DEF CoordinatorInv, TypeOK, Shared, Locals, SoundSnapshot

\* What a request that executes a transaction has in hand.
LEMMA RunningCopy ==
  ASSUME CoordinatorInv, NEW r \in Reqs, Running(r)
  PROVE  /\ tx[r] \in Transaction
         /\ Received(tx[r]) = 1..tx[r].total
         /\ Len(results[r]) \in 0..tx[r].total
         /\ SpaceOfTx(tx[r]) \in Spaces
         /\ SoundSnapshot(atx[r]) /\ results[r] \in Seq(Outcome)
<1>1. /\ tx[r] \in Transaction /\ Received(tx[r]) = 1..tx[r].total
      /\ Len(results[r]) <= tx[r].total
      /\ SoundSnapshot(atx[r]) /\ results[r] \in Seq(Outcome)
  BY DEF CoordinatorInv, TypeOK, RequestOK, Running
<1>2. tx[r].total \in Nat /\ tx[r].owner \in Principals
  BY <1>1, MaxOpsAssumption DEF Transaction
<1>3. QED
  BY <1>1, <1>2, SpaceAssumption DEF SpaceOfTx

\* It has an operation to run as long as it has not run them all.
LEMMA RunningOp ==
  ASSUME CoordinatorInv, NEW r \in Reqs, Running(r), ~AllRun(r)
  PROVE  NextOp(r) \in Fragments /\ Len(results[r]) < tx[r].total
<1> DEFINE i == Len(results[r]) + 1
<1>1. tx[r] \in Transaction /\ tx[r].total \in 1..MaxOps /\ MaxOps \in Nat
  BY RunningCopy, MaxOpsAssumption DEF Transaction
<1>2. i \in 1..tx[r].total /\ i \in 1..MaxOps /\ Len(results[r]) < tx[r].total
  BY <1>1, RunningCopy DEF AllRun
<1>3. tx[r].ops \in OpMap
  BY <1>1 DEF Transaction
<1>4. tx[r].ops[i] # NoOp
  BY <1>2, RunningCopy DEF Received
<1>5. QED
  BY <1>2, <1>3, <1>4 DEF NextOp, OpMap

\* The steps of a transaction's execution.
LEMMA ExecutionKeepsInv ==
  ASSUME CoordinatorInv, NEW r \in Reqs,
         BeginTx(r) \/ RunOp(r) \/ FailTx(r) \/ CommitTx(r)
  PROVE  CoordinatorInv'
<1>1. CASE BeginTx(r)
  <2>1. SoundSnapshot(data) /\ data \in SnapshotType
    BY DEF CoordinatorInv, SoundSnapshot
  <2>2. QED
    BY <1>1, <2>1, BeginKeepsInv DEF BeginTx, CanLock, CloneOf
<1>2. CASE RunOp(r)
  <2> DEFINE s == SpaceOfTx(tx[r])
             d == Apply(atx[r], s, NextOp(r))
             out == OutcomeOf(atx[r], s, NextOp(r))
  <2>1. /\ Running(r) /\ ~AllRun(r) /\ pc[r] = "run"
        /\ Succeeds(atx[r], s, NextOp(r))
        /\ UNCHANGED <<data, lock, now, pc, call, tx, sweep, events, executed>>
    BY <1>2 DEF RunOp, View, Running
  <2>2. /\ atx \in [Reqs -> SnapshotType] /\ results \in [Reqs -> Seq(Outcome)]
    BY DEF CoordinatorInv, TypeOK
  <2>3. /\ atx' = [atx EXCEPT ![r] = d]
        /\ results' = [results EXCEPT ![r] = Append(results[r], out)]
    BY <1>2, <2>2 DEF RunOp, View
  <2>4. SoundSnapshot(atx[r]) /\ s \in Spaces /\ NextOp(r) \in Fragments
          /\ Len(results[r]) < tx[r].total
    BY <2>1, RunningCopy, RunningOp
  <2>5. SoundSnapshot(d) /\ d \in SnapshotType
    BY <2>4, ApplySound DEF SoundSnapshot
  <2>6. out \in Outcome
    BY <2>1, <2>4, OutcomeOfType DEF SoundSnapshot
  <2> HIDE DEF d, out
  <2>7. QED
    BY <2>1, <2>3, <2>4, <2>5, <2>6, RunKeepsInv
<1>3. CASE FailTx(r)
  <2> DEFINE f == Finished(r, "aborted", Append(results[r], Missing))
  <2>1. /\ Running(r) /\ pc[r] = "run" /\ data' = StoreTx(data, f)
        /\ lock' = Free /\ Return(r) /\ UNCHANGED <<now, sweep, events, executed>>
    BY <1>3 DEF FailTx, RolledBack, Unlock, Running
  <2>2. Append(results[r], Missing) \in Seq(Outcome)
    BY <2>1, RunningCopy, MissingType
  <2>3. f \in Transaction /\ Sound(f)
    BY <2>1, <2>2, RunningCopy, FinishedSound
  <2> HIDE DEF f
  <2>4. SoundSnapshot(data')
    BY <2>1, <2>3, StoreTxSound DEF CoordinatorInv
  <2>5. QED
    BY <2>1, <2>4, PublishKeepsInv DEF CoordinatorInv, TypeOK
<1>4. CASE CommitTx(r)
  <2> DEFINE f == Finished(r, "committed", results[r])
  <2>1. /\ Running(r) /\ AllRun(r) /\ pc[r] = "run" /\ data' = StoreTx(atx[r], f)
        /\ executed' = [executed EXCEPT ![tx[r].tx_id] = @ + 1]
        /\ lock' = Free /\ Return(r) /\ UNCHANGED <<now, sweep, events>>
    BY <1>4 DEF CommitTx, Unlock, Running
  <2>2. f \in Transaction /\ Sound(f)
    BY <2>1, RunningCopy, FinishedSound DEF AllRun
  <2> HIDE DEF f
  <2>3. SoundSnapshot(data')
    BY <2>1, <2>2, RunningCopy, StoreTxSound
  <2>4. executed' \in [TxIDs -> Nat]
    <3>1. executed \in [TxIDs -> Nat] /\ tx[r].tx_id \in TxIDs
      BY <2>1, RunningCopy DEF CoordinatorInv, TypeOK, Transaction
    <3>2. executed[tx[r].tx_id] + 1 \in Nat
      BY <3>1
    <3>3. QED
      BY <2>1, <3>1, <3>2
  <2>5. QED
    BY <2>1, <2>3, <2>4, PublishKeepsInv
<1>5. QED
  BY <1>1, <1>2, <1>3, <1>4

\* The KV handlers and the import.
LEMMA KVKeepsInv ==
  ASSUME CoordinatorInv, NEW r \in Reqs,
         KVPut(r) \/ KVDelete(r) \/ BeginImport(r) \/ ImportRecord(r)
           \/ CommitImport(r) \/ BeginRead(r) \/ EndRead(r)
  PROVE  CoordinatorInv'
<1>0. /\ SoundSnapshot(data) /\ data \in SnapshotType
      /\ SoundSnapshot(atx[r]) /\ executed \in [TxIDs -> Nat]
      /\ atx \in [Reqs -> SnapshotType] /\ results \in [Reqs -> Seq(Outcome)]
  BY DEF CoordinatorInv, SoundSnapshot, RequestOK, TypeOK
<1>1. CASE KVPut(r)
  <2> DEFINE c == call[r]
  <2>1. /\ pc[r] = "lock" /\ c.kind = "put" /\ Return(r)
        /\ data' = PutInto(data, SpaceOf[c.p], c.key, c.ct, c.body)
        /\ UNCHANGED <<lock, now, sweep, events, executed>>
    BY <1>1 DEF KVPut
  <2>2. /\ SpaceOf[c.p] \in Spaces /\ c.key \in Keys
        /\ c.ct \in ContentTypes /\ c.body \in Bodies
    BY <2>1, CallKinds, SpaceAssumption DEF CoordinatorInv, RequestOK, PutCall
  <2>3. SoundSnapshot(data')
    BY <1>0, <2>1, <2>2, PutIntoSound
  <2>4. QED
    BY <1>0, <2>1, <2>3, PublishKeepsInv
<1>2. CASE KVDelete(r)
  <2> DEFINE s == SpaceOf[call[r].p]
  <2>1. /\ pc[r] = "lock" /\ call[r].kind = "delete" /\ Return(r)
        /\ data' = data \/ data' = DeleteFrom(data, s, call[r].key)
        /\ UNCHANGED <<lock, now, sweep, events, executed>>
    BY <1>2 DEF KVDelete
  <2>2. s \in Spaces /\ call[r].key \in Keys
    BY <2>1, CallKinds, SpaceAssumption DEF CoordinatorInv, RequestOK, DeleteCall
  <2>3. SoundSnapshot(data')
    BY <1>0, <2>1, <2>2, DeleteFromSound
  <2>4. QED
    BY <1>0, <2>1, <2>3, PublishKeepsInv
<1>3. CASE BeginImport(r)
  <2> DEFINE d == IF call[r].mode = "replace"
                  THEN ClearSpace(data, SpaceOf[call[r].p]) ELSE data
  <2>1. /\ pc[r] = "lock" /\ call[r].kind = "import" /\ lock = Free /\ lock' = r
        /\ atx' = [atx EXCEPT ![r] = d] /\ pc' = [pc EXCEPT ![r] = "run"]
        /\ UNCHANGED <<data, now, call, tx, results, sweep, events, executed>>
    BY <1>3 DEF BeginImport, CanLock, CloneOf
  <2>2. SpaceOf[call[r].p] \in Spaces
    BY <2>1, CallKinds, SpaceAssumption DEF CoordinatorInv, RequestOK, ImportCall
  <2>3. SoundSnapshot(d) /\ d \in SnapshotType
    <3>1. SoundSnapshot(d)
      BY <1>0, <2>2, ClearSpaceSound
    <3>2. QED
      BY <3>1 DEF SoundSnapshot
  <2> HIDE DEF d
  <2>4. QED
    BY <2>1, <2>3, BeginKeepsInv
<1>4. CASE ImportRecord(r)
  <2> DEFINE c == call[r]
             s == SpaceOf[c.p]
             rec == c.recs[Len(results[r]) + 1]
             d == ImportInto(atx[r], s, rec, c.mode)
             out == ImportOutcome(atx[r], s, rec, c.mode)
  <2>1. /\ pc[r] = "run" /\ c.kind = "import" /\ Len(results[r]) < Len(c.recs)
        /\ atx' = [atx EXCEPT ![r] = d]
        /\ results' = [results EXCEPT ![r] = Append(results[r], out)]
        /\ UNCHANGED <<data, lock, now, pc, call, tx, sweep, events, executed>>
    BY <1>0, <1>4 DEF ImportRecord, Importing
  <2>2. c \in ImportCall
    BY <2>1, CallKinds DEF CoordinatorInv, RequestOK
  <2>3. s \in Spaces /\ c.mode \in ImportModes /\ c.recs \in Seq(ImportRecordType)
    BY <2>2, SpaceAssumption, ImportAssumption DEF ImportCall
  <2>4. rec \in ImportRecordType
    <3>1. Len(results[r]) \in Nat
      BY <1>0
    <3>2. Len(results[r]) + 1 \in 1..Len(c.recs)
      BY <2>1, <2>3, <3>1
    <3>3. QED
      BY <2>3, <3>2
  <2>5. atx[r] \in SnapshotType
    BY <1>0
  <2>6. SoundSnapshot(d) /\ d \in SnapshotType /\ out \in Outcome
    BY <1>0, <2>3, <2>4, <2>5, ImportIntoSound, ImportIntoType
  <2> HIDE DEF d, out
  <2>7. QED
    BY <2>1, <2>6, RunKeepsInv
<1>5. CASE CommitImport(r)
  BY <1>0, <1>5, PublishKeepsInv DEF CommitImport, Importing, Unlock
<1>6. CASE BeginRead(r)
  BY <1>0, <1>6, BeginKeepsInv DEF BeginRead, CanLock
<1>7. CASE EndRead(r)
  <2>1. SoundSnapshot(data') /\ executed' \in [TxIDs -> Nat]
    BY <1>0, <1>7 DEF EndRead
  <2>2. QED
    BY <1>7, <2>1, PublishKeepsInv DEF EndRead, Unlock
<1>8. QED
  BY <1>1, <1>2, <1>3, <1>4, <1>5, <1>6, <1>7

\* One step of a request.
LEMMA StepKeepsInv ==
  ASSUME CoordinatorInv, NEW r \in Reqs, Step(r)
  PROVE  CoordinatorInv'
<1>1. CASE Save(r)
  <2>1. /\ pc[r] = "save" /\ data' = StoreTx(data, tx[r]) /\ Return(r)
        /\ UNCHANGED <<lock, now, sweep, events, executed>>
    BY <1>1 DEF Save
  <2>2. tx[r] \in Transaction /\ Sound(tx[r]) /\ SoundSnapshot(data)
    BY <2>1 DEF CoordinatorInv, RequestOK
  <2>3. SoundSnapshot(data')
    BY <2>1, <2>2, StoreTxSound
  <2>4. QED
    BY <2>1, <2>3, PublishKeepsInv DEF CoordinatorInv, TypeOK
<1>2. QED
  BY <1>1, LoadKeepsInv, DecideKeepsInv, ExecutionKeepsInv, KVKeepsInv DEF Step

-----------------------------------------------------------------------------
(* What a step of a request leaves alone.                                  *)

\* Before its execution a request does nothing that others see: it ends or goes
\* on with a copy.
LEMMA DecideShape ==
  ASSUME NEW r \in Reqs, LoadForCreate(r) \/ LoadOwned(r) \/ Decide(r)
  PROVE  /\ Private
         /\ Return(r) \/ \E p \in {"decide", "save", "lock"} : \E t : GoOn(r, p, t)
<1>1. CASE LoadForCreate(r) \/ LoadOwned(r)
  BY <1>1 DEF LoadForCreate, LoadOwned
<1>2. CASE CreateTx(r) \/ ExpireOnUse(r) \/ AddConflict(r) \/ Abort(r)
  BY <1>2 DEF CreateTx, ExpireOnUse, AddConflict, Abort
<1>3. CASE ReadResult(r) \/ AddRefused(r) \/ CommitRefused(r) \/ AbortRefused(r)
  BY <1>3 DEF ReadResult, AddRefused, CommitRefused, AbortRefused
<1>4. CASE AddOp(r) \/ Commit(r)
  BY <1>4 DEF AddOp, Commit, Execute
<1>5. QED
  BY <1>1, <1>2, <1>3, <1>4 DEF Decide

\* A request changes no other's locals.
LEMMA OtherLocals ==
  ASSUME CoordinatorInv, NEW r \in Reqs, NEW q \in Reqs, q # r,
         Step(q) \/ \E c \in Calls : Start(q, c)
  PROVE  /\ pc'[r] = pc[r] /\ call'[r] = call[r] /\ tx'[r] = tx[r]
         /\ atx'[r] = atx[r] /\ results'[r] = results[r]
<1>1. /\ pc \in [Reqs -> PC] /\ call \in [Reqs -> Calls \cup {NoCall}]
      /\ tx \in [Reqs -> Transaction \cup {NoTx}]
      /\ atx \in [Reqs -> SnapshotType] /\ results \in [Reqs -> Seq(Outcome)]
  BY DEF CoordinatorInv, TypeOK
<1>2. CASE Return(q)
  BY <1>1, <1>2 DEF Return
<1>3. CASE \E p, t : GoOn(q, p, t)
  BY <1>1, <1>3 DEF GoOn
<1>4. CASE \E c \in Calls : Start(q, c)
  BY <1>1, <1>4 DEF Start
<1>5. CASE BeginTx(q) \/ BeginImport(q) \/ BeginRead(q)
  BY <1>1, <1>5 DEF BeginTx, BeginImport, BeginRead
<1>6. CASE RunOp(q) \/ ImportRecord(q)
  BY <1>1, <1>6 DEF RunOp, ImportRecord
<1>7. CASE FailTx(q) \/ CommitTx(q) \/ Save(q) \/ KVPut(q) \/ KVDelete(q)
             \/ CommitImport(q) \/ EndRead(q)
  BY <1>2, <1>7 DEF FailTx, CommitTx, Save, KVPut, KVDelete, CommitImport, EndRead
<1>8. QED
  BY <1>2, <1>3, <1>4, <1>5, <1>6, <1>7, DecideShape DEF Step

-----------------------------------------------------------------------------
(* The cleaner, the clock, a restart, and the theorem.                     *)

\* A pass of the cleaner over the transactions.
LEMMA CleanerKeepsInv ==
  ASSUME CoordinatorInv, Cleaner
  PROVE  CoordinatorInv'
<1>1. Shared /\ Locals /\ LockDiscipline
  BY InvParts
<1>2. UNCHANGED <<lock, now, locals, events, executed>>
  BY DEF Cleaner, ListDue, SweepOne
<1>3. Locals' /\ LockDiscipline'
  BY <1>1, <1>2 DEF Locals, LockDiscipline, locals, RequestOK, Deciding
<1>4. CASE ListDue
  <2>1. \A id \in TxIDs :
          data.txs[id] # NoTx => data.txs[id] \in Transaction /\ Sound(data.txs[id])
    BY <1>1 DEF Shared, SoundSnapshot, SnapshotType
  <2>2. sweep' \subseteq Transaction /\ (\A t \in sweep' : Sound(t)) /\ data' = data
    BY <1>4, <2>1 DEF ListDue
  <2>3. Shared'
    BY <1>1, <1>2, <2>2 DEF Shared
  <2>4. QED
    BY <1>3, <2>3 DEF CoordinatorInv, TypeOK, Shared, Locals, SoundSnapshot
<1>5. ASSUME NEW t \in sweep, SweepOne(t) PROVE CoordinatorInv'
  <2> DEFINE e == [t EXCEPT !.status = "expired"]
  <2>1. /\ sweep' = sweep \ {t}
        /\ data' = data \/ data' = StoreTx(data, e)
    BY <1>5 DEF SweepOne
  <2>2. e \in Transaction /\ Sound(e)
    BY <1>1, EndedSound DEF Shared, Sound
  <2> HIDE DEF e
  <2>3. SoundSnapshot(data')
    BY <1>1, <2>1, <2>2, StoreTxSound DEF Shared
  <2>4. Shared'
    BY <1>1, <1>2, <2>1, <2>3 DEF Shared
  <2>5. QED
    BY <1>3, <2>4 DEF CoordinatorInv, TypeOK, Shared, Locals, SoundSnapshot
<1>6. QED
  BY <1>4, <1>5 DEF Cleaner

\* The clock, and a restart, which drops every request where it was.
LEMMA OutsideKeepsInv ==
  ASSUME CoordinatorInv, Tick \/ Restart
  PROVE  CoordinatorInv'
<1>1. Shared /\ Locals /\ LockDiscipline
  BY InvParts
<1>2. CASE Tick
  <2>1. UNCHANGED <<data, lock, locals, sweep, events, executed>> /\ now' \in 0..MaxNow
    BY <1>1, <1>2, TimeAssumption DEF Tick, Shared
  <2>2. Locals' /\ LockDiscipline'
    BY <1>1, <2>1 DEF Locals, LockDiscipline, locals, RequestOK, Deciding
  <2>3. Shared'
    BY <1>1, <2>1 DEF Shared
  <2>4. QED
    BY <2>2, <2>3 DEF CoordinatorInv, TypeOK, Shared, Locals, SoundSnapshot
<1>3. CASE Restart
  <2>1. \A r \in Reqs : RequestOK(r)'
    BY <1>3, EmptySnapshotSound DEF Restart, RequestOK, Deciding
  <2>2. Locals'
    BY <1>3, <2>1, EmptySnapshotType DEF Restart, Locals, PC
  <2>3. Shared' /\ LockDiscipline'
    BY <1>1, <1>3, ReqAssumption DEF Restart, Shared, LockDiscipline
  <2>4. QED
    BY <2>2, <2>3 DEF CoordinatorInv, TypeOK, Shared, Locals, SoundSnapshot
<1>4. QED
  BY <1>2, <1>3

\* The process starts with what the store file holds and no request.
LEMMA InitInv == Init => CoordinatorInv
<1> SUFFICES ASSUME Init PROVE CoordinatorInv
  OBVIOUS
<1>1. SoundSnapshot(data)
  BY BootAssumption DEF Init
<1>2. executed \in [TxIDs -> Nat]
  BY DEF Init
<1>3. Shared
  BY <1>1, <1>2, TimeAssumption DEF Init, Shared
<1>4. \A r \in Reqs : RequestOK(r)
  BY EmptySnapshotSound DEF Init, RequestOK, Deciding
<1>5. Locals
  BY <1>4, EmptySnapshotType DEF Init, Locals, PC
<1>6. LockDiscipline
  BY ReqAssumption DEF Init, LockDiscipline
<1>7. QED
  BY <1>3, <1>5, <1>6, InvParts

\* Every store, clone and copy is sound in every reachable state, whatever
\* requests run together (coordinator.go, storage.go).
THEOREM CoordinatorInvariant == Spec => []CoordinatorInv
<1>1. CoordinatorInv /\ [Next]_vars => CoordinatorInv'
  <2> SUFFICES ASSUME CoordinatorInv, [Next]_vars PROVE CoordinatorInv'
    OBVIOUS
  <2>1. CASE Next
    BY <2>1, StepKeepsInv, StartKeepsInv, CleanerKeepsInv, OutsideKeepsInv DEF Next
  <2>2. CASE UNCHANGED vars
    BY <2>2 DEF vars, CoordinatorInv, TypeOK, LockDiscipline, RequestOK, Deciding
  <2>3. QED
    BY <2>1, <2>2
<1>2. QED
  BY <1>1, InitInv, PTL DEF Spec

\* Types are kept (every handler of coordinator.go and httpapi).
THEOREM TypeCorrectness == Spec => []TypeOK
<1>1. CoordinatorInv => TypeOK
  BY DEF CoordinatorInv
<1>2. QED
  BY <1>1, CoordinatorInvariant, PTL

\* The global lock is held by exactly the request that executes or imports, on
\* every path through execute and the handlers, restarts included (serial.go).
THEOREM GlobalLock == Spec => []LockDiscipline
<1>1. CoordinatorInv => LockDiscipline
  BY DEF CoordinatorInv
<1>2. QED
  BY <1>1, CoordinatorInvariant, PTL

\* No two records share a version, and none is ahead of the counter, although
\* executions and imports replace the whole store by a clone (storage.go).
THEOREM VersionsStayDistinct == Spec => []VersionsDistinct
<1>1. CoordinatorInv => VersionsDistinct
  BY DEF CoordinatorInv, SoundSnapshot, VersionsDistinct
<1>2. QED
  BY <1>1, CoordinatorInvariant, PTL

\* No transaction is left waiting with everything it waits for, and a committed
\* one is whole, however fragments and commits are interleaved (AddOp, Commit).
THEOREM NoTransactionStuck == Spec => []NothingStuck
<1>1. CoordinatorInv => NothingStuck
  BY DEF CoordinatorInv, SoundSnapshot, NothingStuck, Sound
<1>2. QED
  BY <1>1, CoordinatorInvariant, PTL

=============================================================================
