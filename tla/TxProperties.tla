---------------------------- MODULE TxProperties ----------------------------
(***************************************************************************)
(* The properties of TxCoordinator.  The first group holds however many    *)
(* requests run together.  The second is what the API promises about one   *)
(* transaction; it holds as long as requests do not overlap, and           *)
(* overlapping requests break it, because GetTx and SaveTx are separate    *)
(* critical sections.  The third is about progress.                        *)
(***************************************************************************)
EXTENDS TxCoordinator

\* The operations of a transaction, in the order execute runs them.
OpsOf(t) == [seq \in 1..t.total |-> t.ops[seq]]

Serial == INSTANCE SerialKV WITH kv <- data.kv, version <- data.version

\* The first n operations of the execution of request r.
Done(r) == SubSeq(OpsOf(tx[r]), 1, Len(results[r]))

\* The global lock is held by exactly the request that is between BeginAtomic
\* and Commit: two never are, and no path (a failed operation, an import, a
\* restart) leaves it held (serial.go, the deferred Unlock of every holder).
LockDiscipline == \A r \in Reqs : lock = r <=> pc[r] = "run"

\* While a transaction executes, its private clone is at every moment the
\* shared store as it is NOW with the operations run so far applied to it: no
\* KV write, import or other execution slips in between BeginAtomic and Commit
\* (coordinator.go execute, and the handlers that take the global lock).
CloneIsCurrent ==
    \A r \in Reqs : Running(r) =>
        LET s == SpaceOfTx(tx[r])
        IN  /\ atx[r].kv = [data.kv EXCEPT ![s] =
                              Serial!SpaceAfter(Done(r), @, data.version)]
            /\ atx[r].version =
                 data.version + Cardinality(Serial!Writes(Done(r)))

\* Versions order the writes of the whole store: no two records, of whatever
\* userspaces, carry the same version, and none is ahead of the counter
\* (putInto, AtomicTx.ImportUserspace, and the clone that replaces the store).
VersionsDistinct == DistinctVersions(data)

\* No stored transaction is stuck: one that has been told to commit and has
\* all its fragments is never left waiting, whichever of the two came last and
\* however the requests interleaved; and a committed one has every fragment
\* and one outcome for each (AddOp, Commit, execute).
NothingStuck ==
    \A id \in TxIDs : data.txs[id] # NoTx =>
        Parked(data.txs[id]) /\ CommittedWhole(data.txs[id])

\* Committing is atomic and isolated: the step that executes a transaction to
\* the end changes its owner's userspace exactly as its operations run one
\* after the other on the store of that very moment would, and the result it
\* stores is what those operations would have reported (execute).
CommitIsSerial ==
    [][\A id \in TxIDs : executed'[id] # executed[id] =>
          LET t == data'.txs[id]
              s == SpaceOfTx(t)
          IN  /\ Serial!SerialTransact(s, OpsOf(t))
              /\ \A i \in 1..t.total :
                    t.result.results[i] =
                      Serial!ExpectedOutcome(OpsOf(t), i, data.kv[s], data.version)]_vars

\* All or nothing: a step that changes records or takes versions either
\* executes a transaction to the end, or finishes a put, a delete or an import.
\* A transaction that fails at any of its operations, is aborted, expires, or
\* is cut short by a restart leaves the store as it was (execute, Rollback).
AllOrNothing ==
    [][<<data.kv, data.version>>' # <<data.kv, data.version>> =>
          \/ executed' # executed
          \/ \E r \in Reqs : /\ call[r].kind \in {"put", "delete", "import"}
                            /\ pc[r] # "idle" /\ pc'[r] = "idle"]_vars

\* The records and versions of the store change only as SerialKV allows:
\* one whole put, delete, transaction or import at a time.
ImplementsSerialKV == Serial!SerialSpec

-----------------------------------------------------------------------------
(* The invariant the proofs go by (TxCoordinatorProofs).                   *)

\* What a request may rely on at each of its steps.  A copy that is going to be
\* saved is one the store may hold; one that is going to be executed has every
\* fragment, although it is marked as waiting.
RequestOK(r) ==
    /\ SoundSnapshot(atx[r])
    /\ pc[r] # "idle" => call[r] \in Calls
    /\ pc[r] # "run" => results[r] = <<>>
    /\ Deciding(r, "create") => ValidCreate(call[r])
    /\ (pc[r] = "save" \/ (pc[r] = "decide" /\ call[r].kind # "create")) =>
          tx[r] \in Transaction /\ Sound(tx[r])
    /\ (pc[r] \in {"lock", "run"} /\ call[r].kind \in {"add", "commit"}) =>
          /\ tx[r] \in Transaction
          /\ Received(tx[r]) = 1..tx[r].total
          /\ Len(results[r]) <= tx[r].total

\* The shared store, every private clone, every copy a request is about to save
\* and every copy the cleaner holds are sound, whatever requests overlap: no
\* interleaving of GetTx, SaveTx and AtomicTx.Commit makes a store of another kind.
CoordinatorInv ==
    /\ TypeOK
    /\ LockDiscipline
    /\ SoundSnapshot(data)
    /\ \A t \in sweep : Sound(t)
    /\ \A r \in Reqs : RequestOK(r)

-----------------------------------------------------------------------------
(* What the API promises about a transaction, one request at a time.       *)

\* A fragment the store has taken is never dropped or replaced: later
\* fragments, commits, conflicts and executions keep it (AddOp).
FragmentsKept ==
    [][\A id \in TxIDs : data.txs[id] # NoTx =>
          \A seq \in Received(data.txs[id]) :
              /\ data'.txs[id] # NoTx
              /\ data'.txs[id].ops[seq] = data.txs[id].ops[seq]]_vars

\* A committed transaction is final: its status and its stored result are what
\* every later commit or result request reads (Abort, mutable, cleaner).
CommittedIsFinal ==
    [][\A id \in TxIDs :
          (data.txs[id] # NoTx /\ data.txs[id].status = "committed") =>
              data'.txs[id] = data.txs[id]]_vars

\* A transaction is executed to the end once when it is stored as committed,
\* and otherwise never: retried commits and fragments do not apply it again,
\* and no applied transaction is reported as anything but committed.
ExecutedOnce ==
    \A id \in TxIDs :
        executed[id] = IF data.txs[id] # NoTx /\ data.txs[id].status = "committed"
                       THEN 1 ELSE 0

\* A stored transaction changes only by a request that named it, or by the
\* cleaner's pass over it: executing one transaction, or importing, leaves all
\* others as they are although it replaces the whole snapshot (AtomicTx.Commit).
OthersUntouched ==
    [][\A id \in TxIDs : data'.txs[id] # data.txs[id] =>
          \/ \E r \in Reqs : /\ pc[r] \in {"save", "run"} /\ pc'[r] = "idle"
                            /\ tx[r] # NoTx /\ tx[r].tx_id = id
          \/ \E t \in sweep \ sweep' : t.tx_id = id]_vars

\* A tx_id belongs for good to the principal that created it, with the number
\* of operations and the deadline it was created with (CreateTx, loadOwned).
IdBound ==
    [][\A id \in TxIDs : data.txs[id] # NoTx =>
          /\ data'.txs[id] # NoTx
          /\ data'.txs[id].owner = data.txs[id].owner
          /\ data'.txs[id].total = data.txs[id].total
          /\ data'.txs[id].deadline = data.txs[id].deadline]_vars

\* Once a commit has been taken the transaction waits for its missing fragments
\* and nothing makes it forget the commit (Commit, AddOp).
CommitRemembered ==
    [][\A id \in TxIDs :
          (data.txs[id] # NoTx /\ data.txs[id].commit_received) =>
              (data'.txs[id] # NoTx /\ data'.txs[id].commit_received)]_vars

\* A transaction that was aborted or has expired keeps its fragments, its digest
\* and its result whatever comes for it again, and is never executed; only an
\* abort may still turn an expired one into an aborted one (mutable, Abort).
EndedStaysEnded ==
    [][\A id \in TxIDs :
          (data.txs[id] # NoTx /\ data.txs[id].status \in {"aborted", "expired"}) =>
              data'.txs[id] \in {data.txs[id],
                                [data.txs[id] EXCEPT !.status = "aborted"]}]_vars

\* A deadline is never further ahead than the limit of the configuration, for
\* any timeout_ms, also one whose product wraps around (handleCreateTx, CreateTx).
DeadlineBounded ==
    \A id \in TxIDs : (data.txs[id] # NoTx /\ Live(data.txs[id])) =>
        data.txs[id].deadline <= now + MaxTimeout

\* A request waits for the lock, or holds it, to execute the transaction id
\* whose deadline is before instant i.
WaitsWithOld(id, i) ==
    \E r \in Reqs : /\ pc[r] \in {"lock", "run"} /\ call[r].kind \in {"add", "commit"}
                    /\ tx[r].tx_id = id /\ tx[r].deadline < i

ExecutesOld(id, i) ==
    \E r \in Reqs : Running(r) /\ tx[r].tx_id = id /\ tx[r].deadline < i

\* The wait for the lock is the only way to be late: once a deadline has passed
\* with nobody waiting to execute the transaction, it is never executed again,
\* neither from a copy read in time, nor on a repeated commit or a last fragment,
\* nor after a restart that finds it still open (mutable, execute, ExpireDue).
LateOnlyByWaiting ==
    \A id \in TxIDs, i \in 0..MaxNow :
        [](now >= i /\ ~WaitsWithOld(id, i) => []~ExecutesOld(id, i))

\* What the documents say of timeout_ms: none above the limit is accepted.
TimeoutsWithinLimit ==
    \A r \in Reqs : Deciding(r, "create") =>
        call[r].timeout_ms * NanosPerMilli <= MaxTimeout

\* No transaction starts to execute after its deadline (execute, expireIfNeeded).
ExecutesBeforeDeadline ==
    [][\A r \in Reqs : BeginTx(r) => now <= tx[r].deadline]_vars

-----------------------------------------------------------------------------
(* Progress.                                                               *)

\* Every request is answered: nobody waits for the global lock for ever, and
\* no holder keeps it (serial.go, every handler).
EveryRequestReturns ==
    \A r \in Reqs : pc[r] # "idle" ~> pc[r] = "idle"

\* Nothing stays open after its deadline: the cleaner, or a request that meets
\* it first, ends it (StartCleaner, ExpireDue, expireIfNeeded).
DueExpires ==
    \A id \in TxIDs :
        (data.txs[id] # NoTx /\ Live(data.txs[id]) /\ now > data.txs[id].deadline)
            ~> (data.txs[id] # NoTx /\ ~Live(data.txs[id]))

=============================================================================
