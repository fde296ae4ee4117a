# A verification project for httpkvdb

httpkvdb is a key-value store behind HTTP, written in Go: values under keys in
per-user *userspaces*, transactions whose operations arrive as separate, unordered
requests, import and export, API keys and tokens, and an administration of
userspaces. One process keeps everything in memory and in one JSON file.

This directory holds TLA+ modules that model it, TLC configurations that check the
models on small instances, and proofs, checked by TLAPS, of what holds for every
value of the parameters. Line numbers below are those of the Go sources;
`PROJECT.json` maps every definition to its lines.

## 1. The system

| part | state it keeps | operations |
|---|---|---|
| store, `internal/storage/storage.go` | one `snapshot` (version counter, records by userspace, transactions, credentials) under `Store.mu`; the file `httpkvdb.json`, its `.tmp`, and a mirror tree with one file per value | `Put`, `Delete`, `SaveTx`, `GetTx`, `ListTxs`, `BeginAtomic`/`Commit`/`Rollback`, `ImportUserspace`, the userspace and credential methods; each write ends in `persistLocked` |
| transaction coordinator, `internal/tx/coordinator.go` | none of its own: works on copies of transactions | `CreateTx`, `AddOp`, `Commit`, `Abort`, `GetResult`, `execute`, `ExpireDue` |
| cleaner, `internal/tx/cleaner.go` | a ticker | calls `ExpireDue` |
| global lock, `internal/lock/serial.go` | one mutex | held by KV handlers, imports, exports, administrative handlers and `execute` |
| authenticator, `internal/auth/auth.go` | a cache from credential to principal, with times, under a mutex of its own | headers and tokens, look-up, entry with eviction, `Invalidate` |
| HTTP handlers, `internal/httpapi` | none | one goroutine per request |
| export format, `internal/importexport` | none | `Encode`, `Decode` |
| router and CORS, `internal/httpapi/router.go`, `cors.go` | none | what is answered without a credential; which handler serves a path |
| configuration, metrics, web console, scripts | nothing the rest depends on | |

**How they interact.** A request is authenticated (cache, then store, then cache
again), then served. Reads and writes of records take the global lock around one
`Store` call. The coordinator takes the global lock for the execution of a
transaction only; everything else it does is `GetTx` (a copy), a decision with a
look at the clock, and `SaveTx` (the whole copy back), with no lock across the
three. An execution or import clones the whole snapshot, works on the clone and puts
it in the snapshot's place. Administrative handlers change the store under the
global lock and then empty the authenticator's cache.

**What is hard.** Read-modify-write of transactions without a lock; a clone that
replaces everything while `SaveTx` goes on next to it; decisions made before a wait
for the lock; a memory that changes before persisting fails, and is read meanwhile; a
mirror rewritten after the file; a cache filled between another request's change and
its invalidation, and shared by two kinds of credentials; requests let in before what
they act on is deleted; paths that are decoded twice and matched by prefixes;
deadlines computed in 64 bits, and the cleaner; an answer written while the global
lock is held; restarts anywhere. `PROJECT.json` lists each of these under `hazards` at
its line, with the properties that watch it.

**What makes each part correct.**

* store and lock: records and versions change as if each put, delete, import and
  transaction happened alone, at once; versions are unique; the lock is always released.
* coordinator: an acknowledged fragment or commit is not lost; a transaction is
  executed at most once, all or nothing, with all its fragments in order of `seq`;
  what was committed is final, and what was aborted or expired keeps its fragments and
  result and never executes; an id belongs to who created it; none stays stuck.
* file: what was answered, or shown by a read, is on disk, after any crash; the file
  is never half written.
* export and import: what is imported is what was exported, however much later; a
  damaged file changes nothing; a file brings in nothing a PUT could not have stored.
* gateway: who is let in is who he says, and works in his own userspace; trust in the
  cache ends.
* accounts: a removed credential is refused; a deleted userspace is gone; the cache
  holds nothing that was removed before its entry was looked up.

## 2. The modules

| module | what it is | code |
|---|---|---|
| `Snapshot` | types and pure operators: records, one transaction operation, one imported record, transactions of a snapshot, and what a *sound* snapshot is | `storage.go`, `model.go` |
| `SerialKV` | abstract specification: a key-value store in which each put, delete, transaction and import is one step on the state of that moment. The effect of a batch is *defined* record by record from the last write to each key, not by running it | – |
| `TxCoordinator` | coordinator, cleaner, global lock, KV reads and writes and imports as concurrent requests over a shared snapshot | `coordinator.go`, `cleaner.go`, `serial.go`, `kv_handlers.go`, `tx_handlers.go`, `import_export_handlers.go` |
| `TxProperties` | its properties, the refinement of `SerialKV` and the inductive invariant | |
| `StoreFiles` | `persistLocked`, the mirror and `load`, one system call at a time, with errors and crashes; what reads show meanwhile | `storage.go:449-538`, `kv_handlers.go` |
| `Gateway` | a request from its arrival to its handler: CORS, headers, tokens, cache and clock, routes, userspace and key of the path | `cors.go`, `auth.go`, `router.go`, and the dispatching handlers |
| `Accounts` | credentials, authenticator's cache, administration, and requests already let in | `auth.go`, `admin_handlers.go`, `storage.go:71-248, 304-326`, `main.go` |
| `Exchange` | the file format with the sizes of its parts, and files that are exported, kept, damaged or made elsewhere, and imported | `importexport/`, `import_export_handlers.go`, `kv_handlers.go`, `validate.go`, `storage.go:281-302, 393-428` |
| `SnapshotProofs`, `TxCoordinatorProofs`, `IsolationProofs`, `TransactionProofs` | lemmas about the operators; the invariant of `TxCoordinator`; that it implements `SerialKV`; deadlines, and the promises about one transaction | |
| `StoreFilesProofs`, `AccountsProofs`, `GatewayProofs`, `ExchangeProofs` | theorems about these modules | |
| `MCTx`, `MCFiles`, `MCAccounts`, `MCGateway`, `MCExchange` | instances for TLC | |

**State and actions of `TxCoordinator`.** `data` is `Store.data`; since `Store.mu`
covers a whole method with its persisting, one `Store` call is one action. `lock`
is the global lock. Per request: `pc`, `call`, `tx` (its copy), `atx` (the
private clone), `results`. `sweep` holds the copies the cleaner has listed and not
yet looked at. `now` is the clock. A request goes `load` (`GetTx` and the checks on
its result) → `decide` (`AddOp`, `Commit`, `Abort`, `CreateTx`, `ExpireOnUse` …:
the clock is read and the copy changed) → `save` (`SaveTx`), or `decide` → `lock`
→ `run` (`BeginTx`, one `RunOp` per operation, then `CommitTx` or `FailTx`). Puts,
deletes, imports and reads begin at `lock`. A read keeps the lock until its answer is
written (`BeginRead`, `EndRead`), as the deferred `Unlock` does. `Duration` is the
64-bit product of `timeout_ms` and a million, with a smaller width for TLC. `Restart` clears everything but `data`: in this
module every `Store` call ends with the file written; the calls that do not are the
subject of `StoreFiles`. `executed` is a history variable.

**`StoreFiles`.** `mem`, `file`, `tmp` are *images*: a snapshot and the set of
changes in it, each change with the versions its own writes took. `persistLocked` is `WriteTmp`, `Rename`, `ClearMirror`,
`MirrorRecord` for each record in any order, `Answer`. Each may fail (then the
request is refused, with memory changed), and the process may crash before, within
or after each. A mirror file's name is the key, escaped when it is not safe, with the
extension of the content type. Repeating a commit answers from memory; `Read` shows
what memory holds, once `Store.mu` is free.

**`Accounts`.** `store` and `disk` hold credentials, the domain of the userspace
map, and whose each transaction is; `cache` is the authenticator's. A request goes
`lookup` → `resolve` → `remember` → `act`; creation, deletion and rotation keep the
lock from the change until `Invalidate`. An import or an execution (`BeginAtomic`,
`EndAtomic`) clones and puts back the whole store. Transactions are saved by the other
requests for them too (`GetTx`, `SaveTx`: `CreateTx` and `AddOp`, `Commit`, `Abort`,
`GetResult`, as kinds `tx` and `txop`) and by the cleaner, which lists them (`ListDue`)
and then saves one copy after another or not (`SweepOne`); what a transaction holds is
left out. `Expire` is an entry's time to live running out. A user is identified with its userspace. History
variables hold what the properties speak about: what was revoked (`revoked`) and
deleted (`deleted`), which requests were sent with a credential already revoked
(`late`), which keys clients know (`told`), and which credentials and userspaces had a
request already let in, or a transaction already listed by the cleaner, when they were
removed (`raced`).

**`Gateway`.** `creds` is the store's part of `Authenticator.store`, `cache` has the
time each entry ends, `now` is the clock. A request goes `lookup` → `resolve` →
`remember` → `serve` → `answer`; `Presented` picks the credential from its headers,
`Dispatch` is `v1` with the handlers that only dispatch: it yields the operation, the
userspace and the key the last handler is called with. A path is a sequence of
segments; `Decode` undoes one URL encoding, and is applied where net/http and the
handlers do. An administrator's change of a credential is `ChangeCredential` and, when
it was persisted, `Invalidate`. `made`, `arrived` and `known` are history:
for a credential, `known` is the last instant at which the store had it or a request had
the store's answer for it and had still to enter it into the cache. `Accounts`
has the same critical sections under every change the administration makes; here
they are under every way to present a credential.

**`Exchange`.** `kv` and `version` are the store's, `file` is what a client holds. A
file is a count, encoded records and the checksum of these; a record has the length of
its content type as written (16 bits) beside the type itself, and sizes are the bytes
of the code, so that the limits meet as they do there. Each handler is one action: an
import decodes what no other request can change and is atomic in the store. `origin`
and `saved` are history: whether the file is an export, damaged or foreign, and what
was exported. Time is the number of events.

What the models leave out on purpose: hashes are the values they are hashes of;
time stamps, wording and metrics.

## 3. The runs

| run | instance and bounds | what it shows |
|---|---|---|
| `isolation` | a two-operation transaction of any two operations and another of the same userspace are complete at the start; two requests in flight of three sent, from commits, puts, deletes, reads and imports in every mode | the lock discipline, that the clone is always current, that commits are serial and all or nothing, and that the whole implements `SerialKV` |
| `lifecycle` | one transaction, two requests in flight, four requests or restarts, deadlines and cleaner; timeouts of 4 bits, among them ones that wrap around | the inductive invariant and `NothingStuck` under every race; no deadline beyond the limit |
| `sequential` | two transactions, one request (or cleaner pass) at a time, five requests or restarts | all the promises of the API about a transaction |
| `progress` | fairness; two in flight, three events, reads among them | every request returns; everything past its deadline is ended; what nobody waits to execute when its deadline passes is never executed later |
| `durable` | three keys, one unsafe as a file name and one too long, three changes of every kind, errors and crashes anywhere | durability of what was answered and of what was read; no version for two changes that clients were answered or shown as done (versions of rolled-back transactions and of failed writes, which results and reads may tell, *are* given out again); a file that never goes back, a complete mirror |
| `accounts` | two requests in flight, of four requests, restarts and passes of the cleaner; from writes, imports and transactions of a user and every act of an administrator; a cache of one entry, failing disk | a removed credential never comes back into store, file or clone; one key per userspace; a removed credential lets nobody in, and a deleted userspace is gone, except where a request of the same user, or a pass of the cleaner over his transactions, was already under way during the removal (and for the credentials of the configuration, which a restart adds again) |
| `gateway` | two requests in flight of three requests and changes of credentials, with every header, token and route; names that are both key and subject; a cache of one entry that lives for one tick | nobody acts as somebody else, or outside his userspace unless as administrator; no entry is trusted past its time |
| `exchange` | two userspaces, empty or filled by an earlier lifetime, four events; content types of 10, 16, 256 and 65546 bytes, a value that leaves no room for the rest of a file; five foreign files | an intact export restores what was exported, in each mode; damaged files are refused; stored records are as a PUT would store them; the reported counts are right; an export is refused only for its size or a content type above 255 bytes |

The runs that end in a **violation** each show a disagreement between the code and
what its documents say. The findings of `PROJECT.json` quote both sides.

| run | what happens |
|---|---|
| `executed_twice` | two commits at once both execute the transaction |
| `lost_commit` | a commit refused because persisting failed is reported as committed when repeated, and gone after a crash |
| `long_key` | a valid key is too long for a file name; it, and every later write, is refused after being stored |
| `percent_key` | a key that contains an escape is stored under another name by its path than by the header of a transaction |

Further scenarios have a configuration of their own and are not among the regular
runs; each ends in a violation of the property it checks. The first five are
variants of the race above: a copy that is older than what it overwrites.

| configuration | property | what happens |
|---|---|---|
| `MCTx_lost_fragment` | `FragmentsKept` | of two fragments added at once one is lost, both acknowledged |
| `MCTx_other_overwritten` | `OthersUntouched` | an execution undoes what was stored meanwhile for other transactions |
| `MCTx_undone_commit` | `CommittedIsFinal` | an abort overwrites a transaction committed after the abort loaded it (docs/SPEC.md:677) |
| `MCTx_taken_over_id` | `IdBound` | two principals create one id at once; the second takes it over |
| `MCTx_forgotten_commit` | `CommitRemembered` | a fragment loaded before a commit and saved after it erases the commit |
| `MCTx_late_execution` | `ExecutesBeforeDeadline` | a commit waits for the lock past the deadline and executes |
| `MCTx_wrapped_timeout` | `TimeoutsWithinLimit` | a `timeout_ms` above the limit is taken because its product wraps around (docs/SPEC.md:483) |
| `MCTx_slow_reader` | `EveryRequestReturns` | a client that does not take its answer keeps the global lock, and nobody else is answered |
| `MCFiles_clashing_names` | `MirrorComplete` | two keys share a mirror file |
| `MCAccounts_stale_entry` | `RemovedIsRefused` | a look-up made before a rotation is entered into the cache after it was emptied, and the old key works until the entry's time is up (docs/SPEC.md:891) |
| `MCAccounts_key_is_back` | `RemovalOutlivesRestart` | the configured key, rotated away, is added again at the next start (docs/SPEC.md:1340) |
| `MCAccounts_space_is_back` | `DeletedIsGone` | a write let in before its userspace was deleted creates it again |
| `MCExchange_refused_export` | `ExportsAreAccepted` | an export is refused by the importer (docs/SPEC.md:1260) |

**Bounds and why they are enough.** Each race above needs two requests and at most
three; hence two in flight. `MaxEvents` (requests sent and
restarts, and in `Accounts` passes of the cleaner) is one or two
more than the longest scenario a property needs: create, two fragments, commit and
one more is five. Instances start from stores that earlier lifetimes can have left
(checked by an assumption: `SoundSnapshot`), so that few requests reach the races.
Two operations per transaction are the least with an order, a first success and a
later failure, and a missing fragment. `MaxNow` is past every deadline, and past the
time to live of a cache entry. One cache entry forces eviction. `HalfRange` is
so small that some product wraps below zero and another into the limit. `SYMMETRY` is used for request identities only, and not in
runs with liveness. Deadlock is not checked: when all events are used up and every
request has returned, the system rests.

**Fairness.** `FairSpec` assumes weak fairness of each request's steps (the Go
scheduler runs every goroutine) and of the cleaner (its ticker keeps firing and its
goroutine has no other exit than the end of the process). A step of a request is also
the writing of its answer: clients are assumed to take it or to go away, because the
server sets no time limit (`main.go:51`); `StalledSpec` drops this assumption for
reads, and then `EveryRequestReturns` fails. The clock is not forced.
Weak fairness is enough for the lock: its holder always releases it, and finitely
many requests can take it first; Go's mutex hands over to a waiter that has starved.
Neither restarts nor the arrival of requests are assumed.

Every property of a passing run has a mutant: a plausible mistake (a lost reset, an
off-by-one, a lock not taken) written next to the correct definition as a *mistaken
variant*, with which TLC finds the property violated.

## 4. The proofs

The theorems hold for any values of the constants, that is, any number of requests,
principals, keys, operations, credentials and so on, and any bounds. Where one holds
under a further condition only, the table names it, and the text below says what
happens without it.

| module | theorem | statement |
|---|---|---|
| `TxCoordinatorProofs` | `CoordinatorInvariant` | `Spec => []CoordinatorInv` |
| | `TypeCorrectness` | `Spec => []TypeOK` |
| | `GlobalLock` | `Spec => []LockDiscipline` |
| | `VersionsStayDistinct` | `Spec => []VersionsDistinct` |
| | `NoTransactionStuck` | `Spec => []NothingStuck` |
| `IsolationProofs` | `IsolationInvariant` | `Spec => []IsolationInv` |
| | `ExecutionsStayCurrent` | `Spec => []CloneIsCurrent` |
| | `CommitsAreSerial` | `Spec => CommitIsSerial` |
| | `NothingByHalves` | `Spec => AllOrNothing` |
| | `StoreIsSerial` | `Spec => ImplementsSerialKV` |
| `TransactionProofs` | `LateOnlyByTheWait` | `Spec => LateOnlyByWaiting` |
| | `DeadlinesAreBounded` | `Spec => []DeadlineBounded`, if `BootDeadlines` |
| | `TransactionsExecuteOnce` | `Spec => []ExecutedOnce`, if `MaxInFlight = 1` |
| | `FragmentsAreKept` | `Spec => FragmentsKept`, if `MaxInFlight = 1` |
| | `CommitsAreFinal` | `Spec => CommittedIsFinal`, if `MaxInFlight = 1` |
| | `OthersAreUntouched` | `Spec => OthersUntouched`, if `MaxInFlight = 1` |
| | `IdsStayBound` | `Spec => IdBound`, if `MaxInFlight = 1` |
| | `CommitsAreRemembered` | `Spec => CommitRemembered`, if `MaxInFlight = 1` |
| | `EndedTransactionsStayEnded` | `Spec => EndedStaysEnded`, if `MaxInFlight = 1` |
| `StoreFilesProofs` | `FilesInvariant` | `FilesSpec => []FilesInv` |
| | `FileStaysWhole` | `FilesSpec => []FilesTypeOK` |
| | `AnswersAreKept` | `FilesSpec => []AnsweredIsDurable` |
| | `ReadsAreKept` | `FilesSpec => []ReadIsDurable` |
| | `VersionsToldOnce` | `FilesSpec => []VersionsNotReused` |
| | `FileOnlyGrows` | `FilesSpec => FileNeverGoesBack` |
| | `MirrorInvariant` | `FilesSpec => []MirrorInv` |
| | `MirrorsAreComplete` | `FilesSpec => MirrorComplete`, if `NamesDiffer` |
| | `RepeatedUnlessFailed` | `FilesSpec => []RepeatedInv` |
| | `OnlyDisksRefuse` | `FilesSpec => []RefusedByDiskOnly`, if `LongKeys = {}` |
| | `RepeatedCommitsAreKept` | `FilesSpec => []RepeatedIsDurable`, if also `Faults = FALSE` |
| `AccountsProofs` | `AccountsInvariant` | `AccountsSpec => []AccountsInv` |
| | `CacheStaysSmall` | `AccountsSpec => []AccountsTypeOK` |
| | `RemovalIsFinal` | `AccountsSpec => []RemovedStaysRemoved` |
| | `KeysStayAlone` | `AccountsSpec => []OneKeyEach` |
| | `RemovedAreRefused` | `AccountsSpec => []OnlyRacesLetIn` |
| | `DeletionIsWhole` | `AccountsSpec => []OnlyRacesBringBack` |
| `GatewayProofs` | `GatewayInvariant` | `Spec => []GatewayInv` |
| | `NobodyActsAsAnother` | `Spec => []LetInAsOwn` |
| | `EachInItsOwnSpace` | `Spec => []OwnSpaceOnly` |
| | `CacheStaysBounded` | `Spec => []GatewayTypeOK` |
| | `TrustInCacheEnds` | `Spec => TrustEnds` |
| | `KeysKeepTheirNames` | `Spec => []KeyEncodedOnce`, if every request has `NoEscapeLeft` |
| `ExchangeProofs` | `ExchangesAreTyped` | `ExchangeSpec => []ExchangeTypeOK` |
| | `ImportsValidateLikePut` | `ExchangeSpec => []StoredLikePut` |
| | `DamageIsDetected` | `ExchangeSpec => []DamagedRefused` |
| | `ExportsAreReadable` | `ExchangeSpec => []RefusedOnlyForSize` |
| | `ImportsRestoreExports` | `ExchangeSpec => RestoresExport` |
| | `ReportsAddUp` | `ExchangeSpec => ReportTellsTruth` |

**Assumptions** are the named `ASSUME`s of the modules: the constants have their
types, the null values are none of the real ones, requests and fragments are well
formed as the handlers make them, and the store found at the start is one which
only this program wrote (sound, with one key per userspace, and with records that a
PUT could have left). Limits, sizes and times are whole numbers; of a file somebody
sends it is assumed only that it is a sequence of records, with any lengths, types and
checksums. A key in a path is one segment, whatever slashes it has.

**Conditions.** These delimit a race or a fault which section 3 shows; under them the
promise that TLC finds violated there is a theorem:

* `MaxInFlight = 1`: requests and passes of the cleaner do not overlap, in any number
  and order, with restarts between them. With two at once each of these promises is
  violated (`executed_twice` and the configurations after it), and the properties of
  `CoordinatorInv` and `IsolationInv` are those that hold all the same.
* `NamesDiffer`: no two keys have one mirror file name, whatever their content types.
  `MCFiles_clashing_names` shows what happens otherwise. The mirror's invariant needs
  no such condition.
* `LongKeys = {}`, and `Faults = FALSE`: no key is too long for a file name, the disk
  works. `long_key` and `lost_commit` are what happens otherwise; `RepeatedUnlessFailed`
  says what is left without these conditions.
* `NoEscapeLeft`: decoding the last segment of a path a second time changes nothing.
  `percent_key` is what happens otherwise.

`BootDeadlines` says that a transaction found at the start is within the limit of its
configuration: a limit that was lowered in between does not bind older transactions.

None of the properties is inductive alone. What follows is why each inductive
invariant is what it is.

**`CoordinatorInv`.** What the store will hold is decided earlier, on a copy; so the
invariant says of every copy that is about to be saved (`pc = "save"`), of every copy
the cleaner holds, and of every private clone that it is sound too. A copy that waits
to be executed is *not* parked (it is complete and committed, but still marked as
live), so for those the invariant says instead that every fragment is there; the two
kinds are told apart by `pc`. `CommittedWhole` needs that the number of outcomes never
exceeds `total` while the execution runs. `DistinctVersions` of a clone is preserved
by each operation (lemmas on `PutInto`, `DeleteFrom`, `ClearSpace`, `ImportInto`). With
this every interleaving of `GetTx`, `SaveTx` and `AtomicTx.Commit` is harmless *for
these properties*: they hold of each copy by itself. The promises violated in section 3
are those that relate a copy to what was stored meanwhile.

**`IsolationInv`** adds what the clone is, compared with the store of *now*: the first
`n` operations worked off on it (`ExecutionCurrent`), with the outcomes `SerialKV`
expects and no failed one among them, and the same for the records of an import
(`ImportCurrent`), of which a `merge` leaves out the keys it found. It holds because
records and versions of the store change only with the lock free or by its holder
(`LockDiscipline` of `CoordinatorInv`), and because one more operation is one more
write in the definitions of `SerialKV` (the lemmas `WritesStep`, `RecordStep`).
`SerialKV` defines the effect of a batch from the *last* write to each key, the code
runs the operations one after the other: the lemmas are where the two meet. The step
that ends an execution or import is then one step of `SerialKV`, all others stutter.

**`FilesInv`.** While the process is up, memory holds all the file holds, and the file
all memory holds except what failed or is being written (`Kept`); a clone holds the
same changes of records and credentials as memory, because only `SaveTx` runs next to
it (`Tied`); and the temporary file that is about to be renamed is memory. So a change
that is in the file stays in it, whichever image takes the place of which. For the
versions it says besides of memory, clone and file each that its counter is not behind
the versions of its changes and that no two of these share one (`Counted`, `Apart`):
a change takes the versions after the counter of the image it is made to. That is enough,
because what clients know to be done is in the file, all of it in one image; two changes
of different images do share versions, when one failed and a crash took it back.

**`MirrorInv`.** While the mirror is written, a record is either still in `todo` or has
a file under its name with the value of some record of that name; nothing else has a
file. `ClearMirror` establishes it for an empty mirror and all records to do. With
`NamesDiffer` "some record of that name" is that record, and at the end `todo` is empty.
`RepeatedInv` says that a commit answered from memory is in the file or was told to
have failed; it follows from `FilesInv`.

**`AccountsInv`.** Store, disk and the clone of an import or execution know nothing of
what was removed (`Sound`); the clone does because its holder has the global lock, as
the administration does. Of a removal that is stored but not answered yet
(`pc = "invalidate"`) it says that the credentials are already out of store and file.
Entries of the cache, and look-ups under way, are of credentials not removed, or of
those `raced`: it is `Invalidate` that makes this true, for what was entered before.
The copies of the cleaner (`SweepOK`) are nobody's whose userspace must be gone, because
`Invalidate` counts those it listed as `raced`, and a deleted userspace has no
transactions to list.

**`GatewayInv`.** An entry of the cache, and a request under way, stand for a
credential that was in the store and for its principal; the request carries it in a
header and, if it is a token, the token was in force on arrival. `TrustInv` adds the
clock: what is in force (in the store, or still to be entered by a request that looked
it up) is `known` now, and an entry ends no later than its time to live after its
credential was last `known`, also when its removal never emptied the cache. The bound on the cache needs that the set of entries is
finite and that an entry is dropped *before* the new one is added. For the names of
keys, `DoneInv` says that what a handler was called for is `Dispatch` of its request;
the rest is about `Dispatch` as a function: on each route the key is the last segment
of the path (or the header), decoded by net/http and then once more.

**`SequentialInv`.** What a request holds is the stored transaction, or what one
operation makes of it (`Current`): each copy a request is about to save, and each it
waits with for the lock, `Follows` the stored one. `Follows` is the order all seven
promises have in common: same owner, number of operations and deadline, no fragment or
commit forgotten, an end not undone, and nothing of what has ended changed but the
`expired` that an abort turns into `aborted`. It is kept because nobody else is between the
load and the save (`Alone`), the cleaner included (`SweepCurrent`), and a clone has all
other transactions as they are. So each step changes nothing or stores one transaction
that follows the one in its place (`TxChange`), and the promises are read off that.
`LateOnlyByTheWait` and `DeadlinesAreBounded` hold for any number of requests: the first
because nobody comes to wait for the lock with a transaction that has fallen due
(`NextSettled`), the second because each copy, clone and deadline to be is within the
limit (`DeadlineInv`), products that wrap around included.

**`ExchangeInv`.** Where a file comes from tells what it holds: an export is the
encoding of what was saved, a damaged file has a checksum of something else, any other
is `Seal` of what its maker put in. The last answer fits the file. The actions run
folds over any number of records (`RecordBytes`, `SortedKeys`, `ImportAll`). The
library's induction takes an operator and cannot be used, so `SetInduction` proves
induction for *sets* of numbers from the finiteness of bounded ones, `FoldSteps` gives
the sequence of intermediate results of a fold from its recursive definition, and
`ReachesKeeps` carries a sequence of sets along it: set `G[i]` is what the result may
be after `i` records. What an import does to a record is `ImportSkips` and
`ImportStores`; that a list which has each key once restores all of them
(`ImportRestores`), that counts add up (`ImportCounts`) and that what is stored is as a
PUT would store it (`ImportIsLikePut`) are three choices of `G`.

`SnapshotProofs` has the lemmas on the operators: each keeps types and soundness;
a complete transaction has exactly the fragments `1..total`.

**Only model-checked**: liveness (`EveryRequestReturns`, `DueExpires`), because fairness
and `ENABLED` are out of the prover's reach. Every other property of a passing run is a
theorem. The violations of section 3 are TLC's.

## 5. Not modelled

* The loss of power: no `fsync` is issued, so what survives it depends on the file
  system. Crashes are crashes of the process.
* Hashing, the check of signatures, the parsing of configuration, and whether a
  string is UTF-8 or JSON: pure functions of their input.
* The cleaning of paths by `http.ServeMux`: it is the library's, and redirects before
  any handler of this program sees the path.
* Shutdown with a time limit: for the store it is a crash of what is still running.
* `TxResultRetentionMS` is read by nothing: results are kept for ever
  (docs/SPEC.md:775 plans their removal).
* Metrics, request ids, headers and wording of answers, the web console and scripts.

## 6. Plan

Done: every module of section 2, with its runs; the proofs of section 4.

Left, in this order:

1. Which of the promises of `SequentialInv` hold with requests that overlap but are for
   different transactions: a condition weaker than `MaxInFlight = 1`.
2. That the import of `Exchange` (`ImportRecord`) and the one of the coordinator
   (`ImportInto` of `Snapshot`) do the same to a record.

## 7. Running it

    tlc -config MCTx_isolation.cfg MCTx
    tlc -config MCFiles_durable.cfg MCFiles
    tlc -config MCAccounts_concurrent.cfg MCAccounts
    tlc -config MCGateway_gateway.cfg MCGateway
    tlc -config MCExchange_exchange.cfg MCExchange
    tlapm TxCoordinatorProofs.tla

and likewise for the other configurations and for the proof modules `SnapshotProofs`,
`IsolationProofs`, `TransactionProofs`, `StoreFilesProofs`, `AccountsProofs`,
`GatewayProofs` and `ExchangeProofs`.
