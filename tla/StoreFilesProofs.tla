-------------------------- MODULE StoreFilesProofs --------------------------
(***************************************************************************)
(* What persistLocked and load promise, for any keys, values, batches and  *)
(* names, any number of changes, disk errors and crashes: what was         *)
(* answered or shown is on disk, the file never goes back, and no version  *)
(* stands for two changes that clients know to be done.                    *)
(***************************************************************************)
EXTENDS StoreFiles, SnapshotProofs

\* Changes of records and credentials: the global lock orders these alone.
NonSaves(has) == {c \in has : c.kind # "save"}

\* A step of persistLocked is under way.
Writing == phase \in {"write", "rename", "clear", "mirror"}

\* What memory, the clone and the request under way have to do with each other.
Tied ==
    /\ ~Writing => serving = Nobody
    /\ serving # Nobody => serving \in mem.has
    /\ clone # NoImage =>
          /\ NonSaves(clone.has) = NonSaves(mem.has)
          /\ \/ phase = "ready"
             \/ Writing /\ serving # Nobody /\ serving.kind = "save"
    /\ phase = "rename" => tmp = mem
    /\ phase \in {"clear", "mirror"} => file = mem
    /\ phase = "mirror" => todo \subseteq RecordsOf(mem.d)

\* Memory holds all the file holds, and the file all of memory but what failed
\* or is being written.
Kept ==
    phase # "down" =>
        \A c \in Change : c.kind # "save" =>
            /\ OnFile(c) => c \in mem.has
            /\ c \in mem.has => OnFile(c) \/ c \in failed \/ c = serving

Durable == \A c \in KnownDone : OnFile(c) /\ c.kind # "save"

\* The versions of an image's changes are behind its counter, each given to one
\* change.
Apart(i) ==
    /\ \A c \in i.has : \A v \in c.vers : v <= i.d.version
    /\ \A c1, c2 \in i.has : c1 # c2 => c1.vers \cap c2.vers = {}

Counted ==
    /\ Apart(mem)
    /\ clone # NoImage => Apart(clone)
    /\ file # NoImage => Apart(file)

FilesInv ==
    FilesTypeOK /\ Tied /\ Kept /\ Durable /\ Counted

-----------------------------------------------------------------------------
(* Facts about the parts.                                                  *)

\* An image is a snapshot and a set of changes, and not one of the nulls.
LEMMA ImageFields ==
  ASSUME NEW i \in Image
  PROVE  /\ i.d \in SnapshotType /\ i.has \in SUBSET Change
         /\ i # NoImage /\ i # Torn
         /\ i.d.version \in Nat
<1>1. i.d \in SnapshotType /\ i.has \in SUBSET Change
  BY DEF Image
<1>2. QED
  BY <1>1, SnapshotFields, FilesAssumption

\* A record of a snapshot has a path in the mirror and a value.
LEMMA RecordPath ==
  ASSUME NEW d \in SnapshotType, NEW s \in Spaces, NEW k \in Keys, Present(d, s, k)
  PROVE  PathOf(d, s, k) \in Paths /\ d.kv[s][k].body \in Bodies
<1>1. d.kv[s][k] \in KVRecord
  BY SnapshotFields DEF Present, Space
<1>2. d.kv[s][k].ct \in ContentTypes /\ d.kv[s][k].body \in Bodies
  BY <1>1 DEF KVRecord
<1>3. FileName(k, d.kv[s][k].ct) \in {FileName(kk, ct) : kk \in Keys, ct \in ContentTypes}
  BY <1>2
<1>4. QED
  BY <1>2, <1>3 DEF PathOf, Paths

LEMMA PathsHaveRecords ==
  ASSUME NEW d, NEW r \in RecordsOf(d)
  PROVE  r \in Spaces \X Keys /\ Present(d, r[1], r[2])
  BY DEF RecordsOf

\* Two records of a batch written one after the other.
LEMMA WriteBothType ==
  ASSUME NEW d \in SnapshotType, NEW s \in Spaces, NEW pair \in Batches
  PROVE  /\ WriteBoth(d, s, pair) \in SnapshotType
         /\ WriteBoth(d, s, pair).version = d.version + 2
<1>1. pair[1] \in ImportRecordType /\ pair[2] \in ImportRecordType
  BY FilesAssumption
<1>2. /\ pair[1].key \in Keys /\ pair[1].ct \in ContentTypes /\ pair[1].body \in Bodies
      /\ pair[2].key \in Keys /\ pair[2].ct \in ContentTypes /\ pair[2].body \in Bodies
  BY <1>1 DEF ImportRecordType
<1> DEFINE one == PutInto(d, s, pair[1].key, pair[1].ct, pair[1].body)
           two == PutInto(one, s, pair[2].key, pair[2].ct, pair[2].body)
<1>3. one \in SnapshotType /\ one.version = d.version + 1
  BY <1>2, PutIntoType DEF PutInto
<1> HIDE DEF one
<1>4. two \in SnapshotType /\ two.version = one.version + 1
  BY <1>2, <1>3, PutIntoType DEF PutInto
<1>5. two.version = d.version + 2
  BY <1>3, <1>4, SnapshotFields
<1>6. WriteBoth(d, s, pair) = two
  BY DEF WriteBoth, one
<1>7. QED
  BY <1>4, <1>5, <1>6

LEMMA KnownAreChanges == ASSUME FilesTypeOK PROVE KnownDone \subseteq Change
  BY DEF FilesTypeOK, KnownDone

\* A change takes the versions that follow those of the image it is made to.
LEMMA NewVersions ==
  ASSUME NEW base \in Image, Apart(base), NEW d \in SnapshotType, NEW c \in Change,
         d.version >= base.d.version,
         c.vers = (base.d.version + 1)..d.version
  PROVE  Apart([d |-> d, has |-> base.has \cup {c}])
<1>1. /\ base.d.version \in Nat /\ base.has \in SUBSET Change
      /\ d.version \in Nat
  BY ImageFields, SnapshotFields
<1>2. \A x \in Change : x.vers \subseteq Nat
  BY DEF Change
<1>3. \A x \in base.has : \A v \in x.vers : v \in Nat /\ v <= base.d.version
  BY <1>1, <1>2 DEF Apart
<1>4. \A v \in c.vers : v \in Nat /\ base.d.version < v /\ v <= d.version
  BY <1>1
<1>5. \A x \in base.has : x.vers \cap c.vers = {}
  BY <1>1, <1>3, <1>4
<1>6. \A x \in base.has \cup {c} : \A v \in x.vers : v <= d.version
  BY <1>1, <1>3, <1>4
<1>7. \A c1, c2 \in base.has \cup {c} : c1 # c2 => c1.vers \cap c2.vers = {}
  BY <1>5 DEF Apart
<1>8. QED
  BY <1>6, <1>7 DEF Apart

-----------------------------------------------------------------------------
(* The changes of memory.                                                  *)

\* A change of memory, made to an image that lacks no record's change.
LEMMA BeginKeeps ==
  ASSUME FilesInv, phase = "ready",
         NEW kind \in Kinds, NEW d \in SnapshotType, NEW base \in Image,
         NonSaves(base.has) = NonSaves(mem.has),
         Apart(base), d.version >= base.d.version,
         \/ clone = NoImage /\ clone' = NoImage
         \/ clone' = clone /\ kind = "save"
         \/ clone' = NoImage,
         Begin(kind, base, d)
  PROVE  FilesInv'
<1> DEFINE c == [n |-> count + 1, kind |-> kind,
                 vers |-> (base.d.version + 1)..d.version]
<1>0. base.d.version \in Nat /\ d.version \in Nat /\ base.has \in SUBSET Change
  BY ImageFields, SnapshotFields
<1>1. c \in Change /\ c.kind = kind /\ c # Nobody
  <2>1. count + 1 \in 1..MaxChanges
    BY FilesAssumption DEF Begin, FilesInv, FilesTypeOK
  <2>2. (base.d.version + 1)..d.version \in SUBSET Nat
    BY <1>0
  <2>3. c \in Change
    BY <2>1, <2>2 DEF Change
  <2>4. QED
    BY <2>3, FilesAssumption
<1>2. /\ serving' = c
      /\ mem' = [d |-> d, has |-> base.has \cup {c}]
      /\ phase' = "write" /\ count' = count + 1 /\ count + 1 \in 0..MaxChanges
      /\ UNCHANGED <<file, tmp, mirror, todo, answered, repeated, seen, failed>>
  BY FilesAssumption DEF Begin, OnDisk, History, FilesInv, FilesTypeOK
<1>12. Apart(mem')
  BY <1>1, <1>2, NewVersions
<1> HIDE DEF c
<1>3. mem' \in Image /\ mem'.d = d /\ mem'.has = base.has \cup {c}
  BY <1>0, <1>1, <1>2 DEF Image
<1>4. FilesTypeOK'
  BY <1>1, <1>2, <1>3 DEF FilesInv, FilesTypeOK
<1>5. Tied'
  <2>1. (clone # NoImage => NonSaves(clone.has) = NonSaves(mem.has))'
    BY <1>1, <1>3 DEF FilesInv, Tied, NonSaves
  <2>2. QED
    BY <1>1, <1>2, <1>3, <2>1 DEF FilesInv, Tied, Writing
<1>6. Kept'
  <2>1. \A x \in Change : x.kind # "save" => (x \in base.has <=> x \in mem.has)
    BY DEF NonSaves
  <2>2. serving = Nobody /\ \A x \in Change : x # Nobody
    BY FilesAssumption DEF FilesInv, Tied, Writing
  <2>3. QED
    BY <1>2, <1>3, <2>1, <2>2 DEF FilesInv, Kept, OnFile
<1>7. Durable'
  BY <1>2 DEF FilesInv, Durable, OnFile, KnownDone
<1>8. Counted'
  BY <1>2, <1>12 DEF FilesInv, Counted, Apart
<1>9. QED
  BY <1>4, <1>5, <1>6, <1>7, <1>8 DEF FilesInv

\* A change of the memory the store has, or of the clone that commits.
LEMMA MethodKeeps ==
  ASSUME FilesInv, Method
  PROVE  FilesInv'
<1>0. /\ mem \in Image /\ mem.d \in SnapshotType /\ mem.d.version \in Nat
      /\ Apart(mem)
      /\ NonSaves(mem.has) = NonSaves(mem.has)
  BY ImageFields DEF FilesInv, FilesTypeOK, Counted
<1>2. CASE \E s \in Spaces, k \in Keys :
             \/ \E ct \in ContentTypes, body \in Bodies : PutRecord(s, k, ct, body)
             \/ DeleteRecord(s, k)
  <2>1. PICK s \in Spaces, k \in Keys :
             \/ \E ct \in ContentTypes, body \in Bodies : PutRecord(s, k, ct, body)
             \/ DeleteRecord(s, k)
    BY <1>2
  <2>2. CASE \E ct \in ContentTypes, body \in Bodies : PutRecord(s, k, ct, body)
    <3>1. PICK ct \in ContentTypes, body \in Bodies : PutRecord(s, k, ct, body)
      BY <2>2
    <3> DEFINE d == PutInto(mem.d, s, k, ct, body)
    <3>2. d \in SnapshotType /\ d.version = mem.d.version + 1
      BY <1>0, PutIntoType DEF PutInto
    <3>3. /\ phase = "ready" /\ clone = NoImage /\ clone' = NoImage
          /\ Begin("kv", mem, d)
      BY <3>1 DEF PutRecord, Exclusive
    <3> HIDE DEF d
    <3>4. QED
      BY <1>0, <3>2, <3>3, BeginKeeps DEF Kinds
  <2>3. CASE DeleteRecord(s, k)
    <3> DEFINE d == DeleteFrom(mem.d, s, k)
    <3>1. d \in SnapshotType /\ d.version = mem.d.version + 1
      BY <1>0, DeleteFromType DEF DeleteFrom
    <3>2. /\ phase = "ready" /\ clone = NoImage /\ clone' = NoImage
          /\ Begin("kv", mem, d)
      BY <2>3 DEF DeleteRecord, Exclusive
    <3> HIDE DEF d
    <3>3. QED
      BY <1>0, <3>1, <3>2, BeginKeeps DEF Kinds
  <2>4. QED
    BY <2>1, <2>2, <2>3
<1>3. CASE ChangeCredentials
  <2>1. /\ phase = "ready" /\ clone = NoImage /\ clone' = NoImage
        /\ Begin("admin", mem, mem.d)
    BY <1>3 DEF ChangeCredentials, Exclusive
  <2>2. QED
    BY <1>0, <2>1, BeginKeeps DEF Kinds
<1>4. CASE \E s \in Spaces : DeleteUserspace(s)
  <2>1. PICK s \in Spaces : DeleteUserspace(s)
    BY <1>4
  <2> DEFINE d == ClearSpace(mem.d, s)
  <2>2. d \in SnapshotType /\ d.version = mem.d.version
    BY <1>0, ClearSpaceType DEF ClearSpace, SnapshotType
  <2>3. /\ phase = "ready" /\ clone = NoImage /\ clone' = NoImage
        /\ Begin("admin", mem, d)
    BY <2>1 DEF DeleteUserspace, Exclusive
  <2> HIDE DEF d
  <2>4. QED
    BY <1>0, <2>2, <2>3, BeginKeeps DEF Kinds
<1>5. CASE SaveTx
  <2>1. /\ phase = "ready" /\ clone' = clone /\ Begin("save", mem, mem.d)
    BY <1>5 DEF SaveTx
  <2>2. QED
    BY <1>0, <2>1, BeginKeeps DEF Kinds
<1>6. CASE BeginAtomic
  <2>1. /\ phase = "ready" /\ clone' = mem
        /\ UNCHANGED <<mem, file, tmp, mirror, phase, todo, serving, count,
                       answered, repeated, seen, failed>>
    BY <1>6 DEF BeginAtomic, Exclusive, OnDisk, History
  <2>2. FilesTypeOK' /\ Tied'
    BY <1>0, <2>1 DEF FilesInv, FilesTypeOK, Tied, Writing
  <2>3. Kept' /\ Durable' /\ Counted'
    BY <2>1 DEF FilesInv, Kept, Durable, OnFile, KnownDone, Counted, Apart
  <2>4. QED
    BY <2>2, <2>3 DEF FilesInv
<1>7. CASE Rollback
  <2>1. /\ clone' = NoImage
        /\ UNCHANGED <<mem, file, tmp, mirror, phase, todo, serving, count,
                       answered, repeated, seen, failed>>
    BY <1>7 DEF Rollback, OnDisk, History
  <2>2. FilesTypeOK' /\ Tied'
    BY <2>1 DEF FilesInv, FilesTypeOK, Tied, Writing
  <2>3. Kept' /\ Durable' /\ Counted'
    BY <2>1 DEF FilesInv, Kept, Durable, OnFile, KnownDone, Counted, Apart
  <2>4. QED
    BY <2>2, <2>3 DEF FilesInv
<1>8. CASE \E s \in Spaces, pair \in Batches, kind \in {"import", "tx"} :
             CommitAtomic(s, pair, kind)
  <2>1. PICK s \in Spaces, pair \in Batches, kind \in {"import", "tx"} :
             CommitAtomic(s, pair, kind)
    BY <1>8
  <2>2. clone # NoImage /\ phase = "ready" /\ clone' = NoImage
    BY <2>1 DEF CommitAtomic
  <2>3. clone \in Image
    BY <2>2 DEF FilesInv, FilesTypeOK
  <2>4. clone.d \in SnapshotType /\ clone.d.version \in Nat /\ clone.has \in SUBSET Change
    BY <2>3, ImageFields
  <2> DEFINE d == WriteBoth(clone.d, s, pair)
  <2>5. d \in SnapshotType /\ d.version = clone.d.version + 2
    BY <2>4, WriteBothType
  <2>6. Begin(kind, clone, d)
    BY <2>1 DEF CommitAtomic
  <2> HIDE DEF d
  <2>7. Apart(clone)
    BY <2>2 DEF FilesInv, Counted
  <2>8. NonSaves(clone.has) = NonSaves(mem.has)
    BY <2>2 DEF FilesInv, Tied
  <2>9. kind \in Kinds /\ d.version >= clone.d.version
    BY <2>4, <2>5 DEF Kinds
  <2>10. QED
    BY <2>2, <2>3, <2>5, <2>6, <2>7, <2>8, <2>9, BeginKeeps
<1>9. QED
  BY <1>2, <1>3, <1>4, <1>5, <1>6, <1>7, <1>8 DEF Method

-----------------------------------------------------------------------------
(* persistLocked.                                                          *)

\* The request under way is answered with an error: its change is in memory,
\* may or may not be on disk, and is now known to have failed.
LEMMA RefuseKeeps ==
  ASSUME FilesInv, Writing, Refuse,
         tmp' \in Image \cup {NoImage, Torn},
         mirror' \in [Paths -> Bodies \cup {NoBody, Torn}],
         UNCHANGED <<mem, file>>
  PROVE  FilesInv'
<1>1. /\ phase' = IF serving = Nobody THEN "down" ELSE "ready"
      /\ serving' = Nobody /\ todo' = {}
      /\ failed' = failed \cup ({serving} \ {Nobody})
      /\ UNCHANGED <<count, answered, repeated, seen, clone>>
  BY DEF Refuse
<1>2. FilesTypeOK'
  BY <1>1 DEF FilesInv, FilesTypeOK
<1>3. Tied'
  BY <1>1 DEF FilesInv, Tied, Writing
<1>4. Kept'
  <2>1. ASSUME phase' # "down", NEW c \in Change, c.kind # "save"
        PROVE  /\ OnFile(c)' => c \in mem.has
               /\ c \in mem.has => OnFile(c)' \/ c \in failed' \/ c = serving'
    BY <1>1, <2>1, FilesAssumption DEF FilesInv, Kept, OnFile, Writing
  <2>2. QED
    BY <2>1 DEF Kept
<1>5. Durable' /\ Counted'
  BY <1>1 DEF FilesInv, Durable, OnFile, KnownDone, Counted, Apart, Writing
<1>6. QED
  BY <1>2, <1>3, <1>4, <1>5 DEF FilesInv

LEMMA WriteTmpKeeps == ASSUME FilesInv, WriteTmp PROVE FilesInv'
<1>0. phase = "write" /\ Writing /\ UNCHANGED <<mem, file, mirror>>
  BY DEF WriteTmp, At, Writing
<1>1. CASE /\ tmp' = mem /\ phase' = "rename"
           /\ UNCHANGED <<todo, serving, count, clone, History>>
  <2>1. FilesTypeOK' /\ Tied'
    BY <1>0, <1>1 DEF FilesInv, FilesTypeOK, Tied, Writing, History
  <2>2. Kept' /\ Durable' /\ Counted'
    BY <1>0, <1>1 DEF FilesInv, Kept, Durable, OnFile, KnownDone,
                      Counted, Apart, History
  <2>3. QED
    BY <2>1, <2>2 DEF FilesInv
<1>2. CASE tmp' \in {tmp, Torn} /\ Refuse
  <2>1. tmp' \in Image \cup {NoImage, Torn}
        /\ mirror' \in [Paths -> Bodies \cup {NoBody, Torn}]
    BY <1>0, <1>2 DEF FilesInv, FilesTypeOK
  <2>2. QED
    BY <1>0, <1>2, <2>1, RefuseKeeps
<1>3. QED
  BY <1>1, <1>2 DEF WriteTmp

\* The file takes the place of memory's image, which holds all that was there.
LEMMA RenameKeeps ==
  ASSUME FilesInv, Rename
  PROVE  /\ FilesInv'
         /\ \A c \in Change : OnFile(c) /\ c.kind # "save" => OnFile(c)'
<1>0. phase = "rename" /\ Writing /\ UNCHANGED <<mem, mirror>>
  BY DEF Rename, At, Writing
<1>1. CASE /\ RenameTmp /\ phase' = "clear"
           /\ UNCHANGED <<todo, serving, count, clone, History>>
  <2>1. file' = mem /\ tmp' = NoImage /\ mem \in Image /\ mem # NoImage
    BY <1>0, <1>1, ImageFields DEF RenameTmp, FilesInv, FilesTypeOK, Tied
  <2>2. \A c \in Change : OnFile(c)' <=> c \in mem.has
    BY <2>1 DEF OnFile
  <2>3. \A c \in Change : OnFile(c) /\ c.kind # "save" => OnFile(c)'
    BY <1>0, <2>2 DEF FilesInv, Kept
  <2>4. FilesTypeOK' /\ Tied'
    BY <1>0, <1>1, <2>1 DEF FilesInv, FilesTypeOK, Tied, Writing, History
  <2>5. Kept'
    BY <1>0, <1>1, <2>2 DEF FilesInv, Kept, History
  <2>6. Durable'
    <3>1. KnownDone \subseteq Change /\ KnownDone' = KnownDone
      BY <1>1, KnownAreChanges DEF FilesInv, KnownDone, History
    <3>2. QED
      BY <2>3, <3>1 DEF FilesInv, Durable
  <2>7. Counted'
    BY <1>0, <1>1, <2>1 DEF FilesInv, Counted, Apart, History
  <2>8. QED
    BY <2>3, <2>4, <2>5, <2>6, <2>7 DEF FilesInv
<1>2. CASE UNCHANGED <<file, tmp>> /\ Refuse
  <2>1. tmp' \in Image \cup {NoImage, Torn}
        /\ mirror' \in [Paths -> Bodies \cup {NoBody, Torn}]
    BY <1>0, <1>2 DEF FilesInv, FilesTypeOK
  <2>2. QED
    BY <1>0, <1>2, <2>1, RefuseKeeps DEF OnFile
<1>3. QED
  BY <1>1, <1>2 DEF Rename

LEMMA SomeRemovedType ==
  ASSUME FilesTypeOK, SomeRemoved
  PROVE  mirror' \in [Paths -> Bodies \cup {NoBody, Torn}]
  BY DEF FilesTypeOK, SomeRemoved

LEMMA ClearMirrorKeeps == ASSUME FilesInv, ClearMirror PROVE FilesInv'
<1>0. phase = "clear" /\ Writing /\ UNCHANGED <<mem, file, tmp>>
  BY DEF ClearMirror, At, Writing
<1>1. CASE /\ mirror' = Cleared
           /\ phase' = "mirror" /\ todo' = RecordsOf(mem.d)
           /\ UNCHANGED <<serving, count, clone, History>>
  <2>1. mirror' \in [Paths -> Bodies \cup {NoBody, Torn}]
    BY <1>1 DEF Cleared, NoFiles
  <2>2. todo' \subseteq Spaces \X Keys
    BY <1>1 DEF RecordsOf
  <2>3. FilesTypeOK' /\ Tied'
    BY <1>0, <1>1, <2>1, <2>2 DEF FilesInv, FilesTypeOK, Tied, Writing, History
  <2>4. Kept' /\ Durable' /\ Counted'
    BY <1>0, <1>1 DEF FilesInv, Kept, Durable, OnFile, KnownDone,
                      Counted, Apart, History
  <2>5. QED
    BY <2>3, <2>4 DEF FilesInv
<1>2. CASE SomeRemoved /\ Refuse
  <2>1. tmp' \in Image \cup {NoImage, Torn}
        /\ mirror' \in [Paths -> Bodies \cup {NoBody, Torn}]
    BY <1>0, <1>2, SomeRemovedType DEF FilesInv, FilesTypeOK
  <2>2. QED
    BY <1>0, <1>2, <2>1, RefuseKeeps
<1>3. QED
  BY <1>1, <1>2 DEF ClearMirror

LEMMA MirrorRecordKeeps ==
  ASSUME FilesInv, NEW s \in Spaces, NEW k \in Keys, MirrorRecord(s, k)
  PROVE  FilesInv'
<1> DEFINE path == PathOf(mem.d, s, k)
           body == mem.d.kv[s][k].body
<1>0. /\ phase = "mirror" /\ Writing /\ <<s, k>> \in todo
      /\ UNCHANGED <<mem, file, tmp>>
      /\ \/ /\ mirror' = [mirror EXCEPT ![path] = body]
            /\ todo' = todo \ {<<s, k>>}
            /\ UNCHANGED <<phase, serving, count, clone, History>>
         \/ UNCHANGED mirror /\ Refuse
         \/ /\ \E left \in {mirror[path], Torn} :
                  mirror' = [mirror EXCEPT ![path] = left]
            /\ Refuse
  BY DEF MirrorRecord, At, Writing
<1>1. path \in Paths /\ body \in Bodies
  <2>1. <<s, k>> \in RecordsOf(mem.d)
    BY <1>0 DEF FilesInv, Tied
  <2>2. Present(mem.d, s, k)
    BY <2>1 DEF RecordsOf
  <2>3. mem.d \in SnapshotType
    BY ImageFields DEF FilesInv, FilesTypeOK
  <2>4. QED
    BY <2>2, <2>3, RecordPath
<1> HIDE DEF path, body
<1>2. mirror \in [Paths -> Bodies \cup {NoBody, Torn}]
  BY DEF FilesInv, FilesTypeOK
<1>3. tmp' \in Image \cup {NoImage, Torn}
  BY <1>0 DEF FilesInv, FilesTypeOK
<1>4. mirror' \in [Paths -> Bodies \cup {NoBody, Torn}]
  BY <1>0, <1>1, <1>2
<1>5. CASE Refuse
  BY <1>0, <1>3, <1>4, <1>5, RefuseKeeps
<1>6. CASE /\ todo' = todo \ {<<s, k>>}
           /\ UNCHANGED <<phase, serving, count, clone, History>>
  <2>1. FilesTypeOK' /\ Tied'
    BY <1>0, <1>4, <1>6 DEF FilesInv, FilesTypeOK, Tied, Writing, History
  <2>2. Kept' /\ Durable' /\ Counted'
    BY <1>0, <1>6 DEF FilesInv, Kept, Durable, OnFile, KnownDone,
                      Counted, Apart, History
  <2>3. QED
    BY <2>1, <2>2 DEF FilesInv
<1>7. QED
  BY <1>0, <1>5, <1>6

\* The file now has the change.
LEMMA AnswerKeeps == ASSUME FilesInv, Answer PROVE FilesInv'
<1> DEFINE tells == serving # Nobody /\ serving.kind \in {"kv", "tx", "import"}
<1>0. /\ phase = "mirror" /\ phase' = "ready" /\ serving' = Nobody /\ todo' = {}
      /\ answered' = IF tells THEN answered \cup {serving} ELSE answered
      /\ UNCHANGED <<mem, file, tmp, mirror, clone, count, repeated, seen, failed>>
  BY DEF Answer, Done, At, OnDisk
<1>1. file = mem /\ file # NoImage
  BY <1>0, ImageFields DEF FilesInv, FilesTypeOK, Tied
<1>2. tells => serving \in Change /\ serving \in file.has
  BY <1>0, <1>1 DEF FilesInv, FilesTypeOK, Tied
<1>3. FilesTypeOK'
  BY <1>0, <1>2 DEF FilesInv, FilesTypeOK
<1>4. Tied'
  BY <1>0 DEF FilesInv, Tied, Writing
<1>5. Kept'
  BY <1>0, <1>1 DEF FilesInv, Kept, OnFile
<1>6. Durable'
  <2>1. \A c \in KnownDone' : c \in KnownDone \/ (tells /\ c = serving)
    BY <1>0 DEF KnownDone
  <2>2. QED
    BY <1>0, <1>1, <1>2, <2>1 DEF FilesInv, Durable, OnFile
<1>7. Counted'
  BY <1>0 DEF FilesInv, Counted, Apart
<1>8. QED
  BY <1>3, <1>4, <1>5, <1>6, <1>7 DEF FilesInv

-----------------------------------------------------------------------------
(* Everything else.                                                        *)

\* What memory shows while nothing is being written is on file or has failed.
LEMMA ShownIsKept ==
  ASSUME FilesInv, phase = "ready", NEW c \in mem.has, c.kind # "save"
  PROVE  c \in Change /\ (OnFile(c) \/ c \in failed)
<1>1. c \in Change
  BY ImageFields DEF FilesInv, FilesTypeOK
<1>2. serving = Nobody /\ c # Nobody
  BY <1>1, FilesAssumption DEF FilesInv, Tied, Writing
<1>3. QED
  BY <1>1, <1>2 DEF FilesInv, Kept

LEMMA ReadKeeps == ASSUME FilesInv, Read PROVE FilesInv'
<1>0. /\ phase = "ready" /\ seen' = seen \cup {c \in mem.has \ failed : c.kind # "save"}
      /\ UNCHANGED <<mem, file, tmp, mirror, phase, todo, serving, clone, count,
                     answered, repeated, failed>>
  BY DEF Read, Readable, OnDisk
<1>1. mem.has \in SUBSET Change
  BY ImageFields DEF FilesInv, FilesTypeOK
<1>2. \A c \in mem.has \ failed : c.kind # "save" => OnFile(c)
  BY <1>0, ShownIsKept
<1>3. FilesTypeOK' /\ Tied'
  BY <1>0, <1>1 DEF FilesInv, FilesTypeOK, Tied, Writing
<1>4. Durable'
  <2>1. \A c \in KnownDone' : \/ c \in KnownDone
                              \/ c \in mem.has \ failed /\ c.kind # "save"
    BY <1>0 DEF KnownDone
  <2>2. QED
    BY <1>0, <1>2, <2>1 DEF FilesInv, Durable, OnFile
<1>5. Kept' /\ Counted'
  BY <1>0 DEF FilesInv, Kept, OnFile, Counted, Apart
<1>6. QED
  BY <1>3, <1>4, <1>5 DEF FilesInv

LEMMA RepeatCommitKeeps ==
  ASSUME FilesInv, NEW c \in mem.has, RepeatCommit(c)
  PROVE  FilesInv'
<1>0. /\ phase = "ready" /\ c.kind = "tx" /\ repeated' = repeated \cup {c}
      /\ UNCHANGED <<mem, file, tmp, mirror, phase, todo, serving, clone, count,
                     answered, seen, failed>>
  BY DEF RepeatCommit, OnDisk
<1>1. c \in Change /\ (OnFile(c) \/ c \in failed)
  BY <1>0, ShownIsKept
<1>2. FilesTypeOK' /\ Tied'
  BY <1>0, <1>1 DEF FilesInv, FilesTypeOK, Tied, Writing
<1>3. Durable'
  <2>1. \A x \in KnownDone' : x \in KnownDone \/ (x = c /\ c \notin failed)
    BY <1>0 DEF KnownDone
  <2>2. QED
    BY <1>0, <1>1, <2>1 DEF FilesInv, Durable, OnFile
<1>4. Kept' /\ Counted'
  BY <1>0 DEF FilesInv, Kept, OnFile, Counted, Apart
<1>5. QED
  BY <1>2, <1>3, <1>4 DEF FilesInv

LEMMA EmptyImageType == EmptyImage \in Image /\ Apart(EmptyImage)
  BY EmptySnapshotType DEF EmptyImage, Image, Apart

\* The file survives whatever else is lost.
LEMMA CrashKeeps == ASSUME FilesInv, Crash PROVE FilesInv'
<1>0. /\ phase # "down" /\ mem' = EmptyImage /\ clone' = NoImage
      /\ phase' = "down" /\ todo' = {} /\ serving' = Nobody
      /\ UNCHANGED <<file, count, answered, repeated, seen, failed>>
  BY DEF Crash, History
<1>1. /\ tmp' \in Image \cup {NoImage, Torn}
      /\ mirror' \in [Paths -> Bodies \cup {NoBody, Torn}]
  <2>1. /\ tmp \in Image \cup {NoImage, Torn}
        /\ mirror \in [Paths -> Bodies \cup {NoBody, Torn}]
    BY DEF FilesInv, FilesTypeOK
  <2>2. CASE At("write") /\ tmp' \in {tmp, Torn} /\ UNCHANGED mirror
    BY <2>1, <2>2
  <2>3. CASE SomeRemoved /\ UNCHANGED tmp
    BY <2>1, <2>3, SomeRemovedType DEF FilesInv
  <2>4. CASE (\E r \in todo : mirror' = [mirror EXCEPT ![PathOf(mem.d, r[1], r[2])] = Torn])
             /\ UNCHANGED tmp
    BY <2>1, <2>4
  <2>5. CASE UNCHANGED <<tmp, mirror>>
    BY <2>1, <2>5
  <2>6. QED
    BY <2>2, <2>3, <2>4, <2>5 DEF Crash
<1>2. FilesTypeOK'
  BY <1>0, <1>1, EmptyImageType DEF FilesInv, FilesTypeOK
<1>3. Tied'
  BY <1>0 DEF Tied, Writing
<1>4. Kept' /\ Durable' /\ Counted'
  BY <1>0, EmptyImageType
     DEF FilesInv, Kept, Durable, OnFile, KnownDone, Counted, Apart
<1>5. QED
  BY <1>2, <1>3, <1>4 DEF FilesInv

\* Memory is what the file holds; with no file, nothing was answered.
LEMMA OpenKeeps == ASSUME FilesInv, Open PROVE FilesInv'
<1>0. /\ phase = "down"
      /\ UNCHANGED <<file, tmp, mirror, todo, serving, clone, count,
                     answered, repeated, seen, failed>>
  BY DEF Open, At, OnDisk, History
<1>1. serving = Nobody /\ clone = NoImage
  BY <1>0 DEF FilesInv, Tied, Writing
<1>2. CASE file = NoImage /\ mem' = EmptyImage /\ phase' = "write"
  <2>1. KnownDone = {} /\ KnownDone' = KnownDone
    BY <1>0, <1>2 DEF FilesInv, Durable, OnFile, KnownDone
  <2>2. FilesTypeOK' /\ Tied'
    BY <1>0, <1>1, <1>2, EmptyImageType DEF FilesInv, FilesTypeOK, Tied, Writing
  <2>3. Kept'
    BY <1>0, <1>2 DEF Kept, OnFile, EmptyImage
  <2>4. Durable' /\ Counted'
    BY <1>0, <1>1, <1>2, <2>1, EmptyImageType DEF Durable, Counted, Apart
  <2>5. QED
    BY <2>2, <2>3, <2>4 DEF FilesInv
<1>3. CASE file # NoImage /\ mem' = file /\ phase' = "ready"
  <2>1. FilesTypeOK' /\ Tied'
    BY <1>0, <1>1, <1>3 DEF FilesInv, FilesTypeOK, Tied, Writing
  <2>2. Kept' /\ Durable' /\ Counted'
    BY <1>0, <1>1, <1>3
       DEF FilesInv, Kept, Durable, OnFile, KnownDone, Counted, Apart
  <2>3. QED
    BY <2>1, <2>2 DEF FilesInv
<1>4. QED
  BY <1>2, <1>3 DEF Open, Loaded

-----------------------------------------------------------------------------
(* The invariant, and what follows from it.                                *)

LEMMA InitHolds == ASSUME FilesInit PROVE FilesInv
<1>1. NoFiles \in [Paths -> Bodies \cup {NoBody, Torn}]
  BY DEF NoFiles
<1>2. 0 \in 0..MaxChanges
  BY FilesAssumption
<1>3. FilesTypeOK
  BY <1>1, <1>2, EmptyImageType DEF FilesInit, FilesTypeOK
<1>4. Tied /\ Kept /\ Durable /\ Counted
  BY EmptyImageType DEF FilesInit, Tied, Writing, Kept, Durable, KnownDone, Counted
<1>5. QED
  BY <1>3, <1>4 DEF FilesInv

LEMMA StepKeeps == ASSUME FilesInv, [FilesNext]_filesVars PROVE FilesInv'
<1>1. CASE Method
  BY <1>1, MethodKeeps
<1>2. CASE WriteTmp \/ Rename \/ ClearMirror \/ Answer
  BY <1>2, WriteTmpKeeps, RenameKeeps, ClearMirrorKeeps, AnswerKeeps
<1>3. CASE \E s \in Spaces, k \in Keys : MirrorRecord(s, k)
  BY <1>3, MirrorRecordKeeps
<1>4. CASE \E c \in mem.has : RepeatCommit(c)
  BY <1>4, RepeatCommitKeeps
<1>5. CASE Read \/ Crash \/ Open
  BY <1>5, ReadKeeps, CrashKeeps, OpenKeeps
<1>6. CASE UNCHANGED filesVars
  <2>1. FilesTypeOK' /\ Tied'
    BY <1>6 DEF filesVars, FilesInv, FilesTypeOK, Tied, Writing
  <2>2. Kept' /\ Durable' /\ Counted'
    BY <1>6 DEF filesVars, FilesInv, Kept, Durable, OnFile, KnownDone,
                Counted, Apart
  <2>3. QED
    BY <2>1, <2>2 DEF FilesInv
<1>7. QED
  BY <1>1, <1>2, <1>3, <1>4, <1>5, <1>6 DEF FilesNext, Persist

\* Wherever disk errors and crashes strike, memory, clone, file and what clients
\* were told keep to each other (persistLocked, load): the inductive invariant.
THEOREM FilesInvariant == FilesSpec => []FilesInv
<1>1. FilesInit => FilesInv
  BY InitHolds
<1>2. FilesInv /\ [FilesNext]_filesVars => FilesInv'
  BY StepKeeps
<1>3. QED
  BY <1>1, <1>2, PTL DEF FilesSpec

\* The file is whole or absent at any moment (persistLocked).
THEOREM FileStaysWhole == FilesSpec => []FilesTypeOK
<1>1. FilesInv => FilesTypeOK
  BY DEF FilesInv
<1>2. QED
  BY <1>1, FilesInvariant, PTL

\* What was answered as done is on disk (persistLocked, before it returns).
THEOREM AnswersAreKept == FilesSpec => []AnsweredIsDurable
<1>1. FilesInv => AnsweredIsDurable
  BY DEF FilesInv, Durable, KnownDone, AnsweredIsDurable
<1>2. QED
  BY <1>1, FilesInvariant, PTL

\* What a read has shown is on disk, but for changes known to have failed
\* (handleGet, under Store.mu).
THEOREM ReadsAreKept == FilesSpec => []ReadIsDurable
<1>1. FilesInv => ReadIsDurable
  BY DEF FilesInv, Durable, KnownDone, ReadIsDurable
<1>2. QED
  BY <1>1, FilesInvariant, PTL

\* No version stands for two changes that clients know to be done, also after
\* failed changes and crashes (putInto, load): those changes are all in the file.
THEOREM VersionsToldOnce == FilesSpec => []VersionsNotReused
<1>1. FilesInv => VersionsNotReused
  BY DEF FilesInv, Durable, Counted, Apart, OnFile, VersionsNotReused
<1>2. QED
  BY <1>1, FilesInvariant, PTL

\* A write that reached the file is never undone (persistLocked, Commit).
THEOREM FileOnlyGrows == FilesSpec => FileNeverGoesBack
<1>1. FilesInv /\ [FilesNext]_filesVars =>
        [file # NoImage =>
            \A c \in file.has : c.kind # "save" => OnFile(c)']_filesVars
  <2> SUFFICES ASSUME FilesInv, FilesNext, file # NoImage,
                      NEW c \in file.has, c.kind # "save"
               PROVE  OnFile(c)'
    OBVIOUS
  <2>0. OnFile(c) /\ c \in Change
    BY ImageFields DEF FilesInv, FilesTypeOK, OnFile
  <2>1. CASE Rename
    BY <2>0, <2>1, RenameKeeps
  <2>2. CASE Method
    <3>1. file' = file
      BY <2>2 DEF Method, PutRecord, DeleteRecord, ChangeCredentials,
                  DeleteUserspace, SaveTx, BeginAtomic, Rollback, CommitAtomic,
                  Begin, OnDisk
    <3>2. QED
      BY <2>0, <3>1 DEF OnFile
  <2>3. CASE \/ WriteTmp \/ ClearMirror \/ Answer \/ Read \/ Crash \/ Open
             \/ \E s \in Spaces, k \in Keys : MirrorRecord(s, k)
             \/ \E x \in mem.has : RepeatCommit(x)
    <3>1. file' = file
      BY <2>3 DEF WriteTmp, ClearMirror, Answer, Read, Crash, Open, MirrorRecord,
                  RepeatCommit, OnDisk
    <3>2. QED
      BY <2>0, <3>1 DEF OnFile
  <2>4. QED
    BY <2>1, <2>2, <2>3 DEF FilesNext, Persist
<1>2. QED
  BY <1>1, FilesInvariant, PTL DEF FilesSpec, FileNeverGoesBack

-----------------------------------------------------------------------------
(* The mirror.                                                             *)

Mirrored == RecordsOf(mem.d) \ todo

RecordPathOf(r) == PathOf(mem.d, r[1], r[2])
RecordBody(r) == mem.d.kv[r[1]][r[2]].body

\* While the mirror is written: it has no file but those of the records visited
\* so far, and under the name of each of them the value of one of that name.
MirrorInv ==
    phase = "mirror" =>
        /\ \A path \in Paths : mirror[path] # NoBody =>
              \E r \in Mirrored : path = RecordPathOf(r)
        /\ \A r \in Mirrored :
              \E q \in Mirrored : /\ RecordPathOf(q) = RecordPathOf(r)
                                  /\ mirror[RecordPathOf(q)] = RecordBody(q)

\* Two keys in use never have one file name, whatever their content types.
NamesDiffer ==
    \A k1, k2 \in Keys, ct1, ct2 \in ContentTypes :
        FileName(k1, ct1) = FileName(k2, ct2) => k1 = k2

LEMMA ClearMirrorMirrors == ASSUME ClearMirror PROVE MirrorInv'
<1>1. CASE /\ mirror' = Cleared
           /\ phase' = "mirror" /\ todo' = RecordsOf(mem.d) /\ mem' = mem
  <2>1. Mirrored' = {}
    BY <1>1 DEF Mirrored
  <2>2. \A path \in Paths : mirror'[path] = NoBody
    BY <1>1 DEF Cleared, NoFiles
  <2>3. QED
    BY <2>1, <2>2 DEF MirrorInv
<1>2. CASE Refuse
  BY <1>2 DEF Refuse, MirrorInv
<1>3. QED
  BY <1>1, <1>2 DEF ClearMirror

LEMMA MirrorRecordMirrors ==
  ASSUME FilesInv, MirrorInv, NEW s \in Spaces, NEW k \in Keys, MirrorRecord(s, k)
  PROVE  MirrorInv'
<1> DEFINE path == PathOf(mem.d, s, k)
           body == mem.d.kv[s][k].body
<1>1. CASE /\ mirror' = [mirror EXCEPT ![path] = body]
           /\ todo' = todo \ {<<s, k>>}
           /\ phase' = phase /\ mem' = mem
  <2>1. phase = "mirror" /\ <<s, k>> \in todo
    BY DEF MirrorRecord, At
  <2>2. <<s, k>> \in RecordsOf(mem.d)
    BY <2>1 DEF FilesInv, Tied
  <2>3. path \in Paths
    <3>1. Present(mem.d, s, k) /\ mem.d \in SnapshotType
      BY <2>2, ImageFields DEF RecordsOf, FilesInv, FilesTypeOK
    <3>2. QED
      BY <3>1, RecordPath
  <2>4. Mirrored' = Mirrored \cup {<<s, k>>}
    BY <1>1, <2>1, <2>2 DEF Mirrored
  <2>5. RecordPathOf(<<s, k>>) = path /\ RecordBody(<<s, k>>) = body
    BY DEF RecordPathOf, RecordBody
  <2> HIDE DEF path, body
  <2>6. /\ mirror'[path] = body
        /\ \A other \in Paths \ {path} : mirror'[other] = mirror[other]
    BY <1>1, <2>3 DEF FilesInv, FilesTypeOK
  <2>7. /\ \A other \in Paths : mirror[other] # NoBody =>
              \E r \in Mirrored : other = RecordPathOf(r)
        /\ \A r \in Mirrored :
              \E q \in Mirrored : /\ RecordPathOf(q) = RecordPathOf(r)
                                  /\ mirror[RecordPathOf(q)] = RecordBody(q)
    BY <2>1 DEF MirrorInv
  <2>8. \A r : RecordPathOf(r)' = RecordPathOf(r) /\ RecordBody(r)' = RecordBody(r)
    BY <1>1 DEF RecordPathOf, RecordBody
  <2>9. ASSUME NEW other \in Paths, mirror'[other] # NoBody
        PROVE  \E r \in Mirrored' : other = RecordPathOf(r)
    <3>1. CASE other = path
      BY <2>4, <2>5, <3>1
    <3>2. CASE other # path
      <4>1. mirror[other] # NoBody
        BY <2>6, <2>9, <3>2
      <4>2. QED
        BY <2>4, <2>7, <4>1
    <3>3. QED
      BY <3>1, <3>2
  <2>10. ASSUME NEW r \in Mirrored'
         PROVE  \E q \in Mirrored' : /\ RecordPathOf(q) = RecordPathOf(r)
                                     /\ mirror'[RecordPathOf(q)] = RecordBody(q)
    <3>1. CASE RecordPathOf(r) = path
      BY <2>4, <2>5, <2>6, <3>1
    <3>2. CASE RecordPathOf(r) # path
      <4>1. r \in Mirrored
        BY <2>4, <2>5, <3>2
      <4>2. PICK q \in Mirrored : /\ RecordPathOf(q) = RecordPathOf(r)
                                  /\ mirror[RecordPathOf(q)] = RecordBody(q)
        BY <2>7, <4>1
      <4>3. RecordPathOf(q) \in Paths
        <5>1. Present(mem.d, q[1], q[2]) /\ q \in Spaces \X Keys
          BY PathsHaveRecords DEF Mirrored
        <5>2. mem.d \in SnapshotType /\ q[1] \in Spaces /\ q[2] \in Keys
          BY <5>1, ImageFields DEF FilesInv, FilesTypeOK
        <5>3. QED
          BY <5>1, <5>2, RecordPath DEF RecordPathOf
      <4>4. mirror'[RecordPathOf(q)] = RecordBody(q)
        BY <2>6, <3>2, <4>2, <4>3
      <4>5. QED
        BY <2>4, <4>2, <4>4
    <3>3. QED
      BY <3>1, <3>2
  <2>11. QED
    BY <2>8, <2>9, <2>10 DEF MirrorInv
<1>2. CASE Refuse
  BY <1>2 DEF Refuse, MirrorInv
<1>3. QED
  BY <1>1, <1>2 DEF MirrorRecord

\* The other actions are not at the mirror.
LEMMA MirrorInvStep ==
  ASSUME FilesInv, MirrorInv, [FilesNext]_filesVars
  PROVE  MirrorInv'
<1>1. CASE Method
  <2>1. phase' # "mirror"
    BY <1>1 DEF Method, PutRecord, DeleteRecord, ChangeCredentials, DeleteUserspace,
                SaveTx, BeginAtomic, Rollback, CommitAtomic, Begin, Exclusive
  <2>2. QED
    BY <2>1 DEF MirrorInv
<1>2. CASE WriteTmp \/ Rename \/ Answer \/ Read \/ Crash \/ Open
  <2>1. phase' # "mirror"
    BY <1>2 DEF WriteTmp, Rename, Refuse, Answer, Read, Readable, Crash, Open
  <2>2. QED
    BY <2>1 DEF MirrorInv
<1>3. CASE ClearMirror
  BY <1>3, ClearMirrorMirrors
<1>4. ASSUME NEW s \in Spaces, NEW k \in Keys, MirrorRecord(s, k) PROVE MirrorInv'
  BY <1>4, MirrorRecordMirrors
<1>5. ASSUME NEW c \in mem.has, RepeatCommit(c) PROVE MirrorInv'
  BY <1>5 DEF RepeatCommit, MirrorInv
<1>6. CASE UNCHANGED filesVars
  BY <1>6 DEF filesVars, MirrorInv, Mirrored, RecordPathOf, RecordBody
<1>7. QED
  BY <1>1, <1>2, <1>3, <1>4, <1>5, <1>6 DEF FilesNext, Persist

\* While syncUserspaceFilesLocked writes the mirror, and whatever the names, each
\* record visited has a file with the value of a record of that name, and no
\* other file is there.
THEOREM MirrorInvariant == FilesSpec => []MirrorInv
<1>1. FilesInit => MirrorInv
  BY DEF FilesInit, MirrorInv
<1>2. FilesInv /\ MirrorInv /\ [FilesNext]_filesVars => MirrorInv'
  BY MirrorInvStep
<1>3. QED
  BY <1>1, <1>2, FilesInvariant, PTL DEF FilesSpec

\* A record of a snapshot is told by its name where names differ.
LEMMA PathTellsRecord ==
  ASSUME NamesDiffer, NEW d \in SnapshotType, NEW r \in RecordsOf(d), NEW q \in RecordsOf(d),
         PathOf(d, q[1], q[2]) = PathOf(d, r[1], r[2])
  PROVE  q = r
<1>1. /\ r \in Spaces \X Keys /\ Present(d, r[1], r[2])
      /\ q \in Spaces \X Keys /\ Present(d, q[1], q[2])
  BY PathsHaveRecords
<1>2. \A s \in Spaces, k \in Keys : Present(d, s, k) => d.kv[s][k].ct \in ContentTypes
  BY SnapshotFields DEF Present, Space, KVRecord
<1>3. q[1] = r[1] /\ FileName(q[2], d.kv[q[1]][q[2]].ct) = FileName(r[2], d.kv[r[1]][r[2]].ct)
  BY DEF PathOf
<1>4. q[2] = r[2]
  BY <1>1, <1>2, <1>3 DEF NamesDiffer
<1>5. QED
  BY <1>1, <1>3, <1>4

\* As long as no two keys have one file name, the mirror has every record, its
\* value, and nothing else, whenever a request is answered
\* (syncUserspaceFilesLocked).
THEOREM MirrorsAreComplete ==
  ASSUME NamesDiffer
  PROVE  FilesSpec => MirrorComplete
<1> DEFINE Faithful ==
             /\ \A r \in RecordsOf(mem.d) :
                   mirror[PathOf(mem.d, r[1], r[2])] = mem.d.kv[r[1]][r[2]].body
             /\ \A path \in Paths : mirror[path] # NoBody =>
                   \E r \in RecordsOf(mem.d) : path = PathOf(mem.d, r[1], r[2])
<1>1. FilesInv /\ MirrorInv /\ FilesNext => (Answer => Faithful)
  <2> SUFFICES ASSUME FilesInv, MirrorInv, Answer PROVE Faithful
    OBVIOUS
  <2>1. phase = "mirror" /\ todo = {}
    BY DEF Answer, Done, At
  <2>2. Mirrored = RecordsOf(mem.d)
    BY <2>1 DEF Mirrored
  <2>3. mem.d \in SnapshotType
    BY ImageFields DEF FilesInv, FilesTypeOK
  <2>4. ASSUME NEW r \in RecordsOf(mem.d)
        PROVE  mirror[PathOf(mem.d, r[1], r[2])] = mem.d.kv[r[1]][r[2]].body
    <3>1. PICK q \in RecordsOf(mem.d) : /\ RecordPathOf(q) = RecordPathOf(r)
                                        /\ mirror[RecordPathOf(q)] = RecordBody(q)
      BY <2>1, <2>2 DEF MirrorInv
    <3>2. q = r
      BY <2>3, <3>1, PathTellsRecord DEF RecordPathOf
    <3>3. QED
      BY <3>1, <3>2 DEF RecordPathOf, RecordBody
  <2>5. \A path \in Paths : mirror[path] # NoBody =>
           \E r \in RecordsOf(mem.d) : path = PathOf(mem.d, r[1], r[2])
    BY <2>1, <2>2 DEF MirrorInv, RecordPathOf
  <2>6. QED
    BY <2>4, <2>5
<1>2. FilesInv /\ MirrorInv /\ [FilesNext]_filesVars => [Answer => Faithful]_filesVars
  BY <1>1
<1>3. FilesSpec => [][Answer => Faithful]_filesVars
  <2> HIDE DEF Faithful
  <2>1. QED
    BY <1>2, FilesInvariant, MirrorInvariant, PTL DEF FilesSpec
<1>4. QED
  BY <1>3 DEF MirrorComplete

-----------------------------------------------------------------------------
(* Disks that work, and commits that are repeated.                         *)

\* A commit answered from memory is in the file, unless an earlier request for
\* it was told that it failed.
RepeatedInv == \A c \in repeated : OnFile(c) \/ c \in failed

\* A commit answered as done from memory (Commit, GetResult) is lost by a crash
\* only when persisting it had failed, and a client been told so.
THEOREM RepeatedUnlessFailed == FilesSpec => []RepeatedInv
<1>1. FilesInv => RepeatedInv
  BY DEF FilesInv, Durable, KnownDone, RepeatedInv
<1>2. QED
  BY <1>1, FilesInvariant, PTL

\* No request is refused by the store as long as the disk works and no key is
\* too long for a file name (persistLocked, syncUserspaceFilesLocked).
THEOREM OnlyDisksRefuse ==
  ASSUME LongKeys = {}
  PROVE  FilesSpec => []RefusedByDiskOnly
<1>1. FilesInit => RefusedByDiskOnly
  BY DEF FilesInit, RefusedByDiskOnly
<1>2. RefusedByDiskOnly /\ [FilesNext]_filesVars => RefusedByDiskOnly'
  <2> SUFFICES ASSUME RefusedByDiskOnly, [FilesNext]_filesVars, ~Faults
               PROVE  failed' = failed
    BY FilesAssumption DEF RefusedByDiskOnly
  <2>1. ~MayFail
    BY FilesAssumption DEF MayFail
  <2>2. CASE Persist
    BY <2>1, <2>2 DEF Persist, WriteTmp, Rename, ClearMirror, MirrorRecord, Answer, History
  <2>3. CASE ~Persist
    BY <2>3 DEF FilesNext, filesVars, Method, PutRecord, DeleteRecord, ChangeCredentials,
                DeleteUserspace, SaveTx, BeginAtomic, Rollback, CommitAtomic, Begin,
                RepeatCommit, Read, Crash, Open, History
  <2>4. QED
    BY <2>2, <2>3
<1>3. QED
  BY <1>1, <1>2, PTL DEF FilesSpec

\* With such a disk and such keys a commit answered as done is durable, however
\* often it is asked for and wherever the process crashes (Commit, GetResult).
THEOREM RepeatedCommitsAreKept ==
  ASSUME LongKeys = {}, Faults = FALSE
  PROVE  FilesSpec => []RepeatedIsDurable
<1>1. RepeatedInv /\ RefusedByDiskOnly => RepeatedIsDurable
  BY DEF RepeatedInv, RefusedByDiskOnly, RepeatedIsDurable
<1>2. QED
  BY <1>1, RepeatedUnlessFailed, OnlyDisksRefuse, PTL

=============================================================================
