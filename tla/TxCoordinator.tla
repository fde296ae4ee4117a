--------------------------- MODULE TxCoordinator ---------------------------
(***************************************************************************)
(* The transaction coordinator (internal/tx/coordinator.go), its cleaner   *)
(* (cleaner.go) and the KV and import handlers (internal/httpapi) that     *)
(* share storage.Store with it.                                            *)
(*                                                                         *)
(* Every HTTP request runs in a goroutine of its own.  Two mutexes order   *)
(* them: Store.mu, held for the length of one Store method, persistence    *)
(* included, so that one Store call is one step here; and the global lock  *)
(* (lock/serial.go), which KV writes, imports and the EXECUTION of a       *)
(* transaction hold, and which creating, adding to, committing, aborting,  *)
(* reading and expiring a transaction do NOT.  Those read a copy of the    *)
(* transaction in one step (GetTx), look at the clock and decide in        *)
(* another, and write the whole copy back in a third (SaveTx).             *)
(*                                                                         *)
(* An execution works on a private clone of the whole snapshot and ends by *)
(* putting the clone in the snapshot's place.                              *)
(***************************************************************************)
EXTENDS Snapshot

CONSTANTS
    Reqs,           \* request goroutines
    Free,           \* the value of lock when nobody holds the global lock
    DefaultTimeout, \* Coordinator.defaultTimeout
    MaxTimeout,     \* Coordinator.maxTimeout
    NanosPerMilli,  \* time.Millisecond
    HalfRange,      \* 2^63: a time.Duration is in -HalfRange..HalfRange-1
    Imports,        \* the batches of records an import may carry
    Calls,          \* the requests clients may send
    Boots,          \* the snapshots the store file may hold at startup
    MaxEvents,      \* bound: requests sent, and restarts, in a behaviour
    MaxInFlight,    \* bound: requests (and cleaner passes) at any one time
    MaxNow          \* bound: the last instant of the clock

CreateCall == [kind: {"create"}, p: Principals, tx_id: TxIDs,
               total: Int, timeout_ms: Int]
AddCall    == [kind: {"add"}, p: Principals, tx_id: TxIDs, seq: Int,
               op: Fragments]
CommitCall == [kind: {"commit"}, p: Principals, tx_id: TxIDs, total: Int,
               digest: Digests \cup {NoDigest}]
AbortCall  == [kind: {"abort"}, p: Principals, tx_id: TxIDs]
ResultCall == [kind: {"result"}, p: Principals, tx_id: TxIDs]
ImportCall == [kind: {"import"}, p: Principals, mode: ImportModes,
               recs: Imports]
PutCall    == [kind: {"put"}, p: Principals, key: Keys, ct: ContentTypes,
               body: Bodies]
DeleteCall == [kind: {"delete"}, p: Principals, key: Keys]
ReadCall   == [kind: {"read"}, p: Principals]

TxCall == CreateCall \cup AddCall \cup CommitCall \cup AbortCall \cup ResultCall
KVCall == ImportCall \cup PutCall \cup DeleteCall \cup ReadCall

NoCall == [kind |-> "none"]

ASSUME ReqAssumption == Free \notin Reqs
ASSUME CallAssumption == Calls \subseteq TxCall \cup KVCall
ASSUME ImportAssumption == Imports \subseteq Seq(ImportRecordType)
ASSUME TimeAssumption ==
    /\ DefaultTimeout \in Int /\ MaxTimeout \in Int /\ MaxNow \in Nat
    /\ NanosPerMilli \in Nat \ {0} /\ HalfRange \in Nat \ {0}

\* What earlier lifetimes of the process can have left in the store file.
ASSUME BootAssumption == \A d \in Boots : SoundSnapshot(d)

-----------------------------------------------------------------------------

VARIABLES
    data,       \* Store.data, what Store.mu protects
    lock,       \* who holds the global lock
    now,        \* the clock
    pc,         \* where each request is
    call,       \* the request it serves
    tx,         \* its copy of the transaction
    atx,        \* its AtomicTx: the private clone of data
    results,    \* the outcomes of its execution (or import) so far
    sweep,      \* the copies ListTxs gave the cleaner, not yet examined
    events,     \* how many requests were sent and restarts happened
    executed    \* history: how often each transaction was executed to the end

locals == <<pc, call, tx, atx, results>>
vars   == <<data, lock, now, pc, call, tx, atx, results, sweep, events, executed>>

PC == {"idle", "load", "decide", "save", "lock", "run"}

Init ==
    /\ data \in Boots
    /\ lock = Free
    /\ now = 0
    /\ pc = [r \in Reqs |-> "idle"]
    /\ call = [r \in Reqs |-> NoCall]
    /\ tx = [r \in Reqs |-> NoTx]
    /\ atx = [r \in Reqs |-> EmptySnapshot]
    /\ results = [r \in Reqs |-> <<>>]
    /\ sweep = {}
    /\ events = 0
    /\ executed = [id \in TxIDs |->
                     IF data.txs[id] # NoTx /\ data.txs[id].status = "committed"
                     THEN 1 ELSE 0]

-----------------------------------------------------------------------------
(* Control of a request.                                                   *)

InFlight == Cardinality({r \in Reqs : pc[r] # "idle"})
              + (IF sweep = {} THEN 0 ELSE 1)

Start(r, c) ==
    /\ pc[r] = "idle"
    /\ events < MaxEvents
    /\ InFlight < MaxInFlight
    /\ events' = events + 1
    /\ call' = [call EXCEPT ![r] = c]
    /\ pc' = [pc EXCEPT ![r] =
                IF c.kind \in {"import", "put", "delete", "read"} THEN "lock" ELSE "load"]
    /\ UNCHANGED <<data, lock, now, tx, atx, results, sweep, executed>>

\* The reply is written and the goroutine ends; its locals are gone.
Return(r) ==
    /\ pc' = [pc EXCEPT ![r] = "idle"]
    /\ call' = [call EXCEPT ![r] = NoCall]
    /\ tx' = [tx EXCEPT ![r] = NoTx]
    /\ atx' = [atx EXCEPT ![r] = EmptySnapshot]
    /\ results' = [results EXCEPT ![r] = <<>>]

\* Go on to step p with t as the copy of the transaction.
GoOn(r, p, t) ==
    /\ pc' = [pc EXCEPT ![r] = p]
    /\ tx' = [tx EXCEPT ![r] = t]
    /\ UNCHANGED <<call, atx, results>>

\* Nothing outside the request's own locals changes.
Private == UNCHANGED <<data, lock, now, sweep, events, executed>>

-----------------------------------------------------------------------------
(* GetTx, with the checks CreateTx and loadOwned make on what it returns.  *)

\* timeout_ms as handleCreateTx converts it: the product wraps around.
Duration(ms) == ((ms * NanosPerMilli + HalfRange) % (2 * HalfRange)) - HalfRange

Timeout(c) ==
    IF Duration(c.timeout_ms) <= 0 THEN DefaultTimeout ELSE Duration(c.timeout_ms)

\* Mistaken variant: milliseconds are compared with a limit in nanoseconds.
ValidCreateMixedUnits(c) == c.total \in 1..MaxOps /\ c.timeout_ms <= MaxTimeout

ValidCreate(c) == c.total \in 1..MaxOps /\ Timeout(c) <= MaxTimeout

\* Mistaken variant: the id of an ended transaction may be used again.
UnusedOrEnded(id) == data.txs[id] = NoTx \/ ~Live(data.txs[id])

Unused(id) == data.txs[id] = NoTx

\* CreateTx goes on only for an id nobody uses; otherwise it returns the
\* existing transaction, or refuses.
LoadForCreate(r) ==
    /\ pc[r] = "load" /\ call[r].kind = "create"
    /\ IF ValidCreate(call[r]) /\ Unused(call[r].tx_id)
       THEN GoOn(r, "decide", NoTx)
       ELSE Return(r)
    /\ Private

Owned(t, p) == t # NoTx /\ t.owner = p

LoadOwned(r) ==
    /\ pc[r] = "load" /\ call[r].kind \in {"add", "commit", "abort", "result"}
    /\ LET t == data.txs[call[r].tx_id]
       IN  IF Owned(t, call[r].p) THEN GoOn(r, "decide", t) ELSE Return(r)
    /\ Private

-----------------------------------------------------------------------------
(* The decision: the clock is read, and the copy examined and changed.     *)

\* Mistaken variant: a transaction that waits after its commit never falls due.
DuePendingOnly(t) == t.status = "pending" /\ now > t.deadline

Due(t) == Live(t) /\ now > t.deadline

Deciding(r, kind) == pc[r] = "decide" /\ call[r].kind = kind

CreateTx(r) ==
    /\ Deciding(r, "create")
    /\ LET c == call[r]
       IN  GoOn(r, "save",
                [tx_id |-> c.tx_id, owner |-> c.p, total |-> c.total,
                 status |-> "pending", deadline |-> now + Timeout(c),
                 commit_received |-> FALSE, digest |-> NoDigest,
                 ops |-> [seq \in 1..MaxOps |-> NoOp], result |-> NoResult])
    /\ Private

\* expireIfNeeded, on the way of AddOp, Commit and GetResult (not of Abort).
\* Commit answers for a committed transaction first, but that one is not live.
ExpireOnUse(r) ==
    /\ pc[r] = "decide" /\ call[r].kind \in {"add", "commit", "result"}
    /\ Due(tx[r])
    /\ GoOn(r, "save", [tx[r] EXCEPT !.status = "expired"])
    /\ Private

ReadResult(r) ==
    /\ Deciding(r, "result")
    /\ ~Due(tx[r])
    /\ Return(r)
    /\ Private

\* execute(t): a digest that does not match aborts the transaction before the
\* global lock is taken; otherwise the request waits for the lock.
DigestMismatch(t) == t.digest # NoDigest /\ t.digest # Digest(t)

Execute(r, t) ==
    IF DigestMismatch(t)
    THEN GoOn(r, "save", [t EXCEPT !.status = "aborted"])
    ELSE GoOn(r, "lock", t)

\* Mistaken variants: a committed transaction may still be changed; an ended
\* one may as long as its deadline is ahead; the deadline is not looked at.
MutableIfCommitted(t) == t.status \notin {"aborted", "expired"} /\ ~Due(t)
MutableBeforeDeadline(t) == t.status # "committed" /\ now <= t.deadline
MutableAnyTime(t) == Live(t)

Mutable(t) == Live(t) /\ ~Due(t)

\* AddOp refuses a finished transaction or a seq out of range, and has nothing
\* to do for a fragment it already has.
AddRefused(r) ==
    /\ Deciding(r, "add")
    /\ ~Due(tx[r])
    /\ (Live(tx[r]) /\ call[r].seq \in 1..tx[r].total) =>
          tx[r].ops[call[r].seq] = call[r].op
    /\ Return(r)
    /\ Private

AddConflict(r) ==
    /\ Deciding(r, "add")
    /\ Mutable(tx[r])
    /\ call[r].seq \in 1..tx[r].total
    /\ tx[r].ops[call[r].seq] \notin {NoOp, call[r].op}
    /\ GoOn(r, "save", [tx[r] EXCEPT !.status = "aborted"])
    /\ Private

\* Mistaken variants: a fragment takes the place of all the others; it puts the
\* transaction back to where it was before the commit.
WithFragmentAlone(t, seq, op) ==
    [t EXCEPT !.ops = [i \in 1..MaxOps |-> IF i = seq THEN op ELSE NoOp],
              !.status = IF t.commit_received THEN "waiting_for_ops" ELSE "pending"]
WithFragmentForgetful(t, seq, op) ==
    [t EXCEPT !.ops[seq] = op, !.status = "pending", !.commit_received = FALSE]

WithFragment(t, seq, op) ==
    [t EXCEPT !.ops[seq] = op,
              !.status = IF t.commit_received THEN "waiting_for_ops" ELSE "pending"]

\* Mistaken variant: the last fragment is not counted.
ReadyOffByOne(t) == t.commit_received /\ Cardinality(Received(t)) > t.total

Ready(t) == t.commit_received /\ Complete(t)

AddOp(r) ==
    /\ Deciding(r, "add")
    /\ Mutable(tx[r])
    /\ call[r].seq \in 1..tx[r].total
    /\ tx[r].ops[call[r].seq] = NoOp
    /\ LET t == WithFragment(tx[r], call[r].seq, call[r].op)
       IN  IF Ready(t)
           THEN Execute(r, t)
           ELSE GoOn(r, "save", t)
    /\ Private

CommitRefused(r) ==
    /\ Deciding(r, "commit")
    /\ ~Due(tx[r])
    /\ ~Live(tx[r]) \/ call[r].total \notin {0, tx[r].total}
    /\ Return(r)
    /\ Private

WithCommit(t, digest) ==
    [t EXCEPT !.commit_received = TRUE, !.digest = digest,
              !.status = "waiting_for_ops"]

Commit(r) ==
    /\ Deciding(r, "commit")
    /\ Mutable(tx[r])
    /\ call[r].total \in {0, tx[r].total}
    /\ LET t == WithCommit(tx[r], call[r].digest)
       IN  IF Ready(t) THEN Execute(r, t) ELSE GoOn(r, "save", t)
    /\ Private

\* Mistaken variant: only an expired transaction cannot be aborted.
AbortableIfCommitted(t) == t.status # "expired"

\* Abort looks neither at the deadline nor at any status but committed.
Abortable(t) == t.status # "committed"

AbortRefused(r) ==
    /\ Deciding(r, "abort")
    /\ ~Abortable(tx[r])
    /\ Return(r)
    /\ Private

Abort(r) ==
    /\ Deciding(r, "abort")
    /\ Abortable(tx[r])
    /\ GoOn(r, "save", [tx[r] EXCEPT !.status = "aborted"])
    /\ Private

\* Store.SaveTx of the whole copy, and the request returns.
Save(r) ==
    /\ pc[r] = "save"
    /\ data' = StoreTx(data, tx[r])
    /\ Return(r)
    /\ UNCHANGED <<lock, now, sweep, events, executed>>

-----------------------------------------------------------------------------
(* The execution of a transaction, under the global lock.                  *)

\* Serializable.  Mistaken variants: it lets everybody in; it stays locked.
NoLock == TRUE
CanLock == lock = Free
KeepLock == lock' = lock
Unlock == lock' = Free

\* cloneSnapshot copies everything.  Mistaken variant: all but the transactions.
CloneWithoutTxs(d) == [d EXCEPT !.txs = [id \in TxIDs |-> NoTx]]
CloneOf(d) == d

\* lock.Lock and BeginAtomic: nothing the request does between the two can be
\* told apart from waiting a little longer for the lock.
BeginTx(r) ==
    /\ pc[r] = "lock" /\ call[r].kind \in {"add", "commit"}
    /\ CanLock
    /\ lock' = r
    /\ atx' = [atx EXCEPT ![r] = CloneOf(data)]
    /\ pc' = [pc EXCEPT ![r] = "run"]
    /\ UNCHANGED <<data, now, call, tx, results, sweep, events, executed>>

Running(r) == pc[r] = "run" /\ call[r].kind \in {"add", "commit"}

SpaceOfTx(t) == SpaceOf[t.owner]

NextOp(r) == tx[r].ops[Len(results[r]) + 1]

AllRun(r) == Len(results[r]) = tx[r].total

\* The snapshot an operation reads.  Mistaken variant: the shared one.
ViewShared(r) == data
View(r) == atx[r]

RunOp(r) ==
    /\ Running(r) /\ ~AllRun(r)
    /\ Succeeds(View(r), SpaceOfTx(tx[r]), NextOp(r))
    /\ atx' = [atx EXCEPT ![r] = Apply(@, SpaceOfTx(tx[r]), NextOp(r))]
    /\ results' = [results EXCEPT ![r] =
                     Append(@, OutcomeOf(View(r), SpaceOfTx(tx[r]), NextOp(r)))]
    /\ UNCHANGED <<data, lock, now, pc, call, tx, sweep, events, executed>>

Finished(r, status, outcomes) ==
    [tx[r] EXCEPT !.status = status,
                  !.result = [status |-> status, results |-> outcomes]]

\* AtomicTx.Rollback: what is left of the execution.  Mistaken variant: all of it.
RolledBackNot(r) == atx[r]
RolledBack(r) == data

\* An operation fails: the clone is dropped, the transaction saved as aborted.
FailTx(r) ==
    /\ Running(r) /\ ~AllRun(r)
    /\ ~Succeeds(View(r), SpaceOfTx(tx[r]), NextOp(r))
    /\ data' = StoreTx(RolledBack(r), Finished(r, "aborted", Append(results[r], Missing)))
    /\ Unlock
    /\ Return(r)
    /\ UNCHANGED <<now, sweep, events, executed>>

\* AtomicTx.Commit: the clone, with the committed transaction in it, replaces
\* the shared snapshot whole.
CommitTx(r) ==
    /\ Running(r) /\ AllRun(r)
    /\ data' = StoreTx(atx[r], Finished(r, "committed", results[r]))
    /\ executed' = [executed EXCEPT ![tx[r].tx_id] = @ + 1]
    /\ Unlock
    /\ Return(r)
    /\ UNCHANGED <<now, sweep, events>>

-----------------------------------------------------------------------------
(* The KV handlers, the import and the export, under the global lock.      *)

KVPut(r) ==
    /\ pc[r] = "lock" /\ call[r].kind = "put"
    /\ CanLock
    /\ LET c == call[r]
       IN  data' = PutInto(data, SpaceOf[c.p], c.key, c.ct, c.body)
    /\ Return(r)
    /\ UNCHANGED <<lock, now, sweep, events, executed>>

KVDelete(r) ==
    /\ pc[r] = "lock" /\ call[r].kind = "delete"
    /\ CanLock
    /\ LET s == SpaceOf[call[r].p]
       IN  data' = IF Present(data, s, call[r].key)
                   THEN DeleteFrom(data, s, call[r].key)
                   ELSE data
    /\ Return(r)
    /\ UNCHANGED <<lock, now, sweep, events, executed>>

BeginImport(r) ==
    /\ pc[r] = "lock" /\ call[r].kind = "import"
    /\ CanLock
    /\ lock' = r
    /\ atx' = [atx EXCEPT ![r] =
                 IF call[r].mode = "replace"
                 THEN ClearSpace(CloneOf(data), SpaceOf[call[r].p])
                 ELSE CloneOf(data)]
    /\ pc' = [pc EXCEPT ![r] = "run"]
    /\ UNCHANGED <<data, now, call, tx, results, sweep, events, executed>>

Importing(r) == pc[r] = "run" /\ call[r].kind = "import"

ImportRecord(r) ==
    /\ Importing(r)
    /\ Len(results[r]) < Len(call[r].recs)
    /\ LET rec == call[r].recs[Len(results[r]) + 1]
           s == SpaceOf[call[r].p]
       IN  /\ atx' = [atx EXCEPT ![r] = ImportInto(@, s, rec, call[r].mode)]
           /\ results' = [results EXCEPT ![r] =
                            Append(@, ImportOutcome(atx[r], s, rec, call[r].mode))]
    /\ UNCHANGED <<data, lock, now, pc, call, tx, sweep, events, executed>>

CommitImport(r) ==
    /\ Importing(r)
    /\ Len(results[r]) = Len(call[r].recs)
    /\ data' = atx[r]
    /\ Unlock
    /\ Return(r)
    /\ UNCHANGED <<now, sweep, events, executed>>

\* Get, head, the lists and the export.  The answer is written to the client
\* before the deferred Unlock: a client that does not take it keeps the lock.
BeginRead(r) ==
    /\ pc[r] = "lock" /\ call[r].kind = "read"
    /\ CanLock
    /\ lock' = r
    /\ atx' = [atx EXCEPT ![r] = data]
    /\ pc' = [pc EXCEPT ![r] = "run"]
    /\ UNCHANGED <<data, now, call, tx, results, sweep, events, executed>>

EndRead(r) ==
    /\ pc[r] = "run" /\ call[r].kind = "read"
    /\ Unlock
    /\ Return(r)
    /\ UNCHANGED <<data, now, sweep, events, executed>>

-----------------------------------------------------------------------------
(* The cleaner, the clock, and a restart of the process.                   *)

\* ExpireDue lists copies of every transaction; the finished ones are left
\* alone whatever the time, so only the live ones are kept here.
ListDue ==
    /\ sweep = {}
    /\ InFlight < MaxInFlight
    /\ sweep' = {data.txs[id] : id \in {i \in TxIDs : data.txs[i] # NoTx /\ Live(data.txs[i])}}
    /\ UNCHANGED <<data, lock, now, locals, events, executed>>

SweepOne(t) ==
    /\ t \in sweep
    /\ sweep' = sweep \ {t}
    /\ data' = IF Due(t) THEN StoreTx(data, [t EXCEPT !.status = "expired"])
                         ELSE data
    /\ UNCHANGED <<lock, now, locals, events, executed>>

Tick ==
    /\ now < MaxNow
    /\ now' = now + 1
    /\ UNCHANGED <<data, lock, locals, sweep, events, executed>>

\* The process dies and storage.Open reads the file back.  Every Store call
\* above ends with the file written, so the data is what it was.
Restart ==
    /\ InFlight > 0
    /\ events < MaxEvents
    /\ events' = events + 1
    /\ lock' = Free
    /\ pc' = [r \in Reqs |-> "idle"]
    /\ call' = [r \in Reqs |-> NoCall]
    /\ tx' = [r \in Reqs |-> NoTx]
    /\ atx' = [r \in Reqs |-> EmptySnapshot]
    /\ results' = [r \in Reqs |-> <<>>]
    /\ sweep' = {}
    /\ UNCHANGED <<data, now, executed>>

-----------------------------------------------------------------------------

\* One step of a request that is already under way.
Decide(r) ==
    \/ CreateTx(r) \/ ExpireOnUse(r) \/ ReadResult(r)
    \/ AddRefused(r) \/ AddConflict(r) \/ AddOp(r)
    \/ CommitRefused(r) \/ Commit(r)
    \/ AbortRefused(r) \/ Abort(r)

Step(r) ==
    \/ LoadForCreate(r) \/ LoadOwned(r)
    \/ Decide(r)
    \/ Save(r)
    \/ BeginTx(r) \/ RunOp(r) \/ FailTx(r) \/ CommitTx(r)
    \/ KVPut(r) \/ KVDelete(r)
    \/ BeginImport(r) \/ ImportRecord(r) \/ CommitImport(r)
    \/ BeginRead(r) \/ EndRead(r)

Cleaner == ListDue \/ \E t \in sweep : SweepOne(t)

Next ==
    \/ \E r \in Reqs : Step(r) \/ \E c \in Calls : Start(r, c)
    \/ Cleaner
    \/ Tick
    \/ Restart

Spec == Init /\ [][Next]_vars

\* Every goroutine is scheduled, the cleaner's ticker keeps firing, and clients
\* take their answers (EndRead) or go away.  Weak fairness is enough for the
\* lock: its holders release it, and no more than MaxEvents requests may take
\* it first.
Fairness ==
    /\ \A r \in Reqs : WF_vars(Step(r))
    /\ WF_vars(Cleaner)

FairSpec == Spec /\ Fairness

\* The same, but a client may leave its answer where it is (the server sets no
\* limit to writing one).
StalledSpec ==
    /\ Spec
    /\ \A r \in Reqs : WF_vars(Step(r) /\ ~EndRead(r))
    /\ WF_vars(Cleaner)

-----------------------------------------------------------------------------
(* What the coordinator keeps whatever requests run together.              *)

TypeOK ==
    /\ data \in SnapshotType
    /\ lock \in Reqs \cup {Free}
    /\ now \in 0..MaxNow
    /\ pc \in [Reqs -> PC]
    /\ call \in [Reqs -> Calls \cup {NoCall}]
    /\ tx \in [Reqs -> Transaction \cup {NoTx}]
    /\ atx \in [Reqs -> SnapshotType]
    /\ results \in [Reqs -> Seq(Outcome)]
    /\ sweep \subseteq Transaction
    /\ events \in Nat
    /\ executed \in [TxIDs -> Nat]

=============================================================================
