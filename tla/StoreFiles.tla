----------------------------- MODULE StoreFiles -----------------------------
(***************************************************************************)
(* How storage.Store reaches the disk (internal/storage/storage.go,        *)
(* persistLocked and load), with input/output errors and crashes of the    *)
(* process between any two system calls.                                   *)
(*                                                                         *)
(* A Store method changes the snapshot in memory first and then, still     *)
(* holding Store.mu, writes all of it to a temporary file, renames that    *)
(* over httpkvdb.json, removes the mirror tree userspaces/ and writes one  *)
(* file per record into it again.  An error at any of these steps is what  *)
(* the caller gets, and memory is not put back.                            *)
(*                                                                         *)
(* Changes are numbered as a history: each image of the store, in memory   *)
(* or on disk, says which changes it holds.                                *)
(***************************************************************************)
EXTENDS Snapshot

CONSTANTS
    UnsafeKeys,     \* keys with characters a file name may not have
    LongKeys,       \* keys whose file name the file system refuses as too long
    Batches,        \* pairs of records a transaction or an import may write
    Faults,         \* whether the disk may fail
    Torn,           \* the contents of a file written in part
    NoImage, Nobody,
    MaxChanges      \* bound: changes in a behaviour

Kinds == {"kv", "tx", "import", "save", "admin"}

\* A change, with the versions its own writes took from the counter.
Change == [n: 1..MaxChanges, kind: Kinds, vers: SUBSET Nat]

Image == [d: SnapshotType, has: SUBSET Change]

ASSUME FilesAssumption ==
    /\ UnsafeKeys \subseteq Keys /\ LongKeys \subseteq Keys
    /\ Batches \subseteq ImportRecordType \X ImportRecordType
    /\ Faults \in BOOLEAN /\ MaxChanges \in Nat
    /\ Torn \notin Image /\ NoImage \notin Image /\ Torn # NoImage
    /\ Torn \notin Bodies /\ Torn # NoBody /\ Nobody \notin Change

VARIABLES
    mem,        \* Store.data
    file,       \* httpkvdb.json
    tmp,        \* httpkvdb.json.tmp
    mirror,     \* the files under userspaces/
    phase,      \* how far persistLocked is; "ready" when Store.mu is free
    todo,       \* the records not yet mirrored
    serving,    \* the change whose request waits for persistLocked
    clone,      \* the AtomicTx of the holder of the global lock
    count,      \* changes made so far
    answered,   \* history: changes answered as done
    repeated,   \* history: commits answered as done from memory alone
    seen,       \* history: changes a read has shown, but for those that failed
    failed      \* history: changes answered with an error

filesVars == <<mem, file, tmp, mirror, phase, todo, serving, clone, count,
               answered, repeated, seen, failed>>

-----------------------------------------------------------------------------
(* The names of the mirror.                                                *)

\* Keys and file names are sequences of parts.
Extension(ct) ==
    CASE ct = "text/plain"               -> <<".txt">>
      [] ct = "application/json"         -> <<".json">>
      [] ct = "application/octet-stream" -> <<".bin">>
      [] OTHER                           -> <<>>

FileName(key, ct) ==
    (IF key \in UnsafeKeys THEN <<"k_", key>> ELSE key) \o Extension(ct)

Paths == Spaces \X {FileName(k, ct) : k \in Keys, ct \in ContentTypes}

NoFiles == [path \in Paths |-> NoBody]

PathOf(d, s, k) == <<s, FileName(k, d.kv[s][k].ct)>>

RecordsOf(d) == {r \in Spaces \X Keys : Present(d, r[1], r[2])}

EmptyImage == [d |-> EmptySnapshot, has |-> {}]

-----------------------------------------------------------------------------

FilesInit ==
    /\ mem = EmptyImage
    /\ file = NoImage /\ tmp = NoImage /\ mirror = NoFiles
    /\ phase = "down" /\ todo = {} /\ serving = Nobody /\ clone = NoImage
    /\ count = 0
    /\ answered = {} /\ repeated = {} /\ seen = {} /\ failed = {}

OnDisk == <<file, tmp, mirror>>
History == <<answered, repeated, seen, failed>>

-----------------------------------------------------------------------------
(* The Store methods: memory changes, and persistLocked begins.            *)

\* The change that makes the snapshot d of a base image, where persistLocked is
\* to start from.
Begin(kind, base, d) ==
    /\ count < MaxChanges
    /\ count' = count + 1
    /\ LET c == [n |-> count + 1, kind |-> kind,
                 vers |-> (base.d.version + 1)..d.version]
       IN  serving' = c /\ mem' = [d |-> d, has |-> base.has \cup {c}]
    /\ phase' = "write"
    /\ UNCHANGED <<OnDisk, todo, History>>

\* Requests that change records or credentials hold the global lock, so none
\* runs while another has a clone.  Mistaken variant: the lock is not looked at.
Unlocked == phase = "ready"
Exclusive == phase = "ready" /\ clone = NoImage

PutRecord(s, k, ct, body) ==
    /\ Exclusive
    /\ Begin("kv", mem, PutInto(mem.d, s, k, ct, body))
    /\ UNCHANGED clone

DeleteRecord(s, k) ==
    /\ Exclusive
    /\ Present(mem.d, s, k)
    /\ Begin("kv", mem, DeleteFrom(mem.d, s, k))
    /\ UNCHANGED clone

\* Bootstrap, UpsertAPIKeyHash, CreateUserspace, ReplaceUserspaceAPIKeyHash.
ChangeCredentials ==
    /\ Exclusive
    /\ Begin("admin", mem, mem.d)
    /\ UNCHANGED clone

DeleteUserspace(s) ==
    /\ Exclusive
    /\ Begin("admin", mem, ClearSpace(mem.d, s))
    /\ UNCHANGED clone

\* SaveTx does not take the global lock.
SaveTx ==
    /\ phase = "ready"
    /\ Begin("save", mem, mem.d)
    /\ UNCHANGED clone

BeginAtomic ==
    /\ Exclusive
    /\ clone' = mem
    /\ UNCHANGED <<mem, OnDisk, phase, todo, serving, count, History>>

Rollback ==
    /\ phase = "ready" /\ clone # NoImage
    /\ clone' = NoImage
    /\ UNCHANGED <<mem, OnDisk, phase, todo, serving, count, History>>

WriteBoth(d, s, pair) ==
    PutInto(PutInto(d, s, pair[1].key, pair[1].ct, pair[1].body),
            s, pair[2].key, pair[2].ct, pair[2].body)

\* AtomicTx.Commit of an executed transaction or of an import.
CommitAtomic(s, pair, kind) ==
    /\ phase = "ready" /\ clone # NoImage
    /\ Begin(kind, clone, WriteBoth(clone.d, s, pair))
    /\ clone' = NoImage

-----------------------------------------------------------------------------
(* persistLocked, one system call at a time.                               *)

At(p) == phase = p

\* The request is answered with the error of the step that failed.
Refuse ==
    /\ phase' = IF serving = Nobody THEN "down" ELSE "ready"
    /\ serving' = Nobody /\ todo' = {}
    /\ failed' = failed \cup ({serving} \ {Nobody})
    /\ UNCHANGED <<count, answered, repeated, seen, clone>>

MayFail == Faults = TRUE

WriteTmp ==
    /\ At("write")
    /\ \/ /\ tmp' = mem /\ phase' = "rename"
          /\ UNCHANGED <<todo, serving, count, clone, History>>
       \/ MayFail /\ tmp' \in {tmp, Torn} /\ Refuse
    /\ UNCHANGED <<mem, file, mirror>>

\* Mistaken variant: the file is written in place, and may be left half done.
RenameInPlace == file' \in {tmp, Torn} /\ tmp' = tmp
RenameTmp == file' = tmp /\ tmp' = NoImage

Rename ==
    /\ At("rename")
    /\ \/ /\ RenameTmp /\ phase' = "clear"
          /\ UNCHANGED <<todo, serving, count, clone, History>>
       \/ MayFail /\ UNCHANGED <<file, tmp>> /\ Refuse
    /\ UNCHANGED <<mem, mirror>>

\* os.RemoveAll may stop half way.
SomeRemoved ==
    \E gone \in SUBSET Paths :
        mirror' = [p \in Paths |-> IF p \in gone THEN NoBody ELSE mirror[p]]

\* Mistaken variant: the tree is not removed first.
NotCleared == mirror
Cleared == NoFiles

ClearMirror ==
    /\ At("clear")
    /\ \/ /\ mirror' = Cleared
          /\ phase' = "mirror" /\ todo' = RecordsOf(mem.d)
          /\ UNCHANGED <<serving, count, clone, History>>
       \/ MayFail /\ SomeRemoved /\ Refuse
    /\ UNCHANGED <<mem, file, tmp>>

\* Records are visited in no fixed order (Go ranges over maps at random).
MirrorRecord(s, k) ==
    LET path == PathOf(mem.d, s, k)
    IN  /\ At("mirror") /\ <<s, k>> \in todo
        /\ \/ /\ k \notin LongKeys
              /\ mirror' = [mirror EXCEPT ![path] = mem.d.kv[s][k].body]
              /\ todo' = todo \ {<<s, k>>}
              /\ UNCHANGED <<phase, serving, count, clone, History>>
           \/ /\ k \in LongKeys
              /\ UNCHANGED mirror
              /\ Refuse
           \/ /\ MayFail
              /\ \E left \in {mirror[path], Torn} :
                    mirror' = [mirror EXCEPT ![path] = left]
              /\ Refuse
        /\ UNCHANGED <<mem, file, tmp>>

\* Mistaken variant: the request is answered as soon as memory has changed.
DoneEarly == phase \in {"write", "rename", "clear", "mirror"}
Done == At("mirror") /\ todo = {}

\* SaveTx answers too, but other changes may overwrite it (see TxCoordinator),
\* and the credentials are not in an image: neither is counted as answered.
Answer ==
    /\ Done
    /\ answered' = IF serving # Nobody /\ serving.kind \in {"kv", "tx", "import"}
                   THEN answered \cup {serving}
                   ELSE answered
    /\ phase' = "ready" /\ serving' = Nobody /\ todo' = {}
    /\ UNCHANGED <<mem, OnDisk, clone, count, repeated, seen, failed>>

\* A commit, or a result request, for a transaction memory holds as committed.
RepeatCommit(c) ==
    /\ phase = "ready"
    /\ c \in mem.has /\ c.kind = "tx"
    /\ repeated' = repeated \cup {c}
    /\ UNCHANGED <<mem, OnDisk, phase, todo, serving, clone, count,
                   answered, seen, failed>>

\* GET, HEAD, the listings and the export read memory under the global lock and
\* Store.mu, which persistLocked keeps until it returns.  Transactions are not
\* what they show.  Mistaken variant: a reader does not wait for Store.mu.
ReadableEarly == phase # "down"
Readable == phase = "ready"

Read ==
    /\ Readable /\ clone = NoImage
    /\ seen' = seen \cup {c \in mem.has \ failed : c.kind # "save"}
    /\ UNCHANGED <<mem, OnDisk, phase, todo, serving, clone, count,
                   answered, repeated, failed>>

-----------------------------------------------------------------------------
(* A crash of the process, wherever it is, and storage.Open.               *)

Crash ==
    /\ phase # "down"
    /\ \/ At("write") /\ tmp' \in {tmp, Torn} /\ UNCHANGED mirror
       \/ At("clear") /\ SomeRemoved /\ UNCHANGED tmp
       \/ /\ At("mirror")
          /\ \/ UNCHANGED mirror
             \/ \E r \in {q \in todo : q[2] \notin LongKeys} :
                  mirror' = [mirror EXCEPT ![PathOf(mem.d, r[1], r[2])] = Torn]
          /\ UNCHANGED tmp
       \/ phase \in {"ready", "rename"} /\ UNCHANGED <<tmp, mirror>>
    /\ mem' = EmptyImage /\ clone' = NoImage
    /\ phase' = "down" /\ todo' = {} /\ serving' = Nobody
    /\ UNCHANGED <<file, count, History>>

\* Mistaken variant: the counter starts again from nothing.
LoadedFromZero == [file EXCEPT !.d.version = 0]
Loaded == file

\* load: a store that is not there yet is created; one that is, is read whole,
\* and the mirror is left as it is.
Open ==
    /\ At("down")
    /\ file # Torn
    /\ IF file = NoImage
       THEN mem' = EmptyImage /\ phase' = "write"
       ELSE mem' = Loaded /\ phase' = "ready"
    /\ UNCHANGED <<OnDisk, todo, serving, clone, count, History>>

-----------------------------------------------------------------------------

Method ==
    \/ \E s \in Spaces, k \in Keys :
          \/ \E ct \in ContentTypes, body \in Bodies : PutRecord(s, k, ct, body)
          \/ DeleteRecord(s, k)
    \/ ChangeCredentials
    \/ \E s \in Spaces : DeleteUserspace(s)
    \/ SaveTx
    \/ BeginAtomic
    \/ Rollback
    \/ \E s \in Spaces, pair \in Batches, kind \in {"import", "tx"} :
          CommitAtomic(s, pair, kind)

Persist ==
    \/ WriteTmp
    \/ Rename
    \/ ClearMirror
    \/ \E s \in Spaces, k \in Keys : MirrorRecord(s, k)
    \/ Answer

FilesNext ==
    \/ Method
    \/ Persist
    \/ \E c \in mem.has : RepeatCommit(c)
    \/ Read
    \/ Crash
    \/ Open

FilesSpec == FilesInit /\ [][FilesNext]_filesVars

-----------------------------------------------------------------------------

\* The file is absent or whole, never written in part.
FilesTypeOK ==
    /\ mem \in Image
    /\ file \in Image \cup {NoImage}
    /\ tmp \in Image \cup {NoImage, Torn}
    /\ mirror \in [Paths -> Bodies \cup {NoBody, Torn}]
    /\ phase \in {"down", "ready", "write", "rename", "clear", "mirror"}
    /\ todo \subseteq Spaces \X Keys
    /\ serving \in Change \cup {Nobody}
    /\ clone \in Image \cup {NoImage}
    /\ count \in 0..MaxChanges
    /\ answered \subseteq Change /\ repeated \subseteq Change
    /\ seen \subseteq Change /\ failed \subseteq Change

OnFile(c) == file # NoImage /\ c \in file.has

\* What was answered as done by the request that did it survives a crash at any
\* moment, after any input/output errors (persistLocked, load).
AnsweredIsDurable == \A c \in answered : OnFile(c)

\* What a read has shown is on disk, so that no crash takes back what a client
\* has seen, unless its own writer was told that it failed (handleGet).
ReadIsDurable == \A c \in seen : OnFile(c)

\* The changes clients know to be done: by the answer to the one that made them,
\* by a read, or by the answer to a repeated commit.
KnownDone == answered \cup seen \cup (repeated \ failed)

\* No version stands for two changes that clients know to be done, although a
\* change that failed keeps its version in memory until a crash takes it back
\* (putInto, load).  Given out again, and so not spoken of, are the versions in
\* the result of a transaction that was rolled back (execute), and those of a
\* write that failed, which reads and repeated commits show until the crash.
VersionsNotReused ==
    \A c1, c2 \in KnownDone : c1 # c2 => c1.vers \cap c2.vers = {}

\* The file never goes back: no write of records or credentials that reached it
\* is undone by a later one, an error or a crash.  (A transaction saved while
\* another executes may be: see OthersUntouched of TxProperties.)
FileNeverGoesBack ==
    [][file # NoImage =>
          \A c \in file.has : c.kind # "save" => OnFile(c)']_filesVars

\* When a request is answered, the mirror has the value of every record under
\* the record's name and no other file (syncUserspaceFilesLocked).
MirrorComplete ==
    [][Answer =>
          /\ \A r \in RecordsOf(mem.d) :
                mirror[PathOf(mem.d, r[1], r[2])] = mem.d.kv[r[1]][r[2]].body
          /\ \A path \in Paths : mirror[path] # NoBody =>
                \E r \in RecordsOf(mem.d) : path = PathOf(mem.d, r[1], r[2])]_filesVars

\* A commit that is answered as done from memory, on a retry or by a request for
\* the result, survives a crash too (Commit, GetResult).
RepeatedIsDurable == \A c \in repeated : OnFile(c)

\* As long as the disk works no request is refused by the store.
RefusedByDiskOnly == failed # {} => Faults

=============================================================================
