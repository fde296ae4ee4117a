------------------------------ MODULE Exchange ------------------------------
(***************************************************************************)
(* Export and import: the file format of internal/importexport, and the    *)
(* handlers of internal/httpapi that hand files out and take them back,    *)
(* possibly much later, damaged on the way, or made by another program.    *)
(*                                                                         *)
(* The export runs under the global lock and the import of decoded         *)
(* records is one atomic transaction of the store (TxCoordinator has its   *)
(* steps); decoding reads nothing shared.  So a request is one action.     *)
(* Every Store call ends with the file written (StoreFiles has the rest).  *)
(* Sizes are the numbers of bytes they are in the code.  A hash is what it *)
(* is the hash of.  Time is the number of events so far.                   *)
(***************************************************************************)
EXTENDS Integers, Sequences, FiniteSets, SequencesExt

CONSTANTS
    Spaces,
    KeySeq,         \* the keys in the order of their bytes
    ContentTypes,
    Bodies,
    Size,           \* bytes of each key, content type and body
    ValueType,      \* storage.ValueType, for each content type
    ValidJSON,      \* the bodies that are JSON
    Stores,         \* the stores, [kv, version], that Open may find
    OtherRecords,   \* sequences of encoded records other programs send
    MaxKeySize,
    MaxValueSize,
    MaxEvents,      \* bound: requests and accidents
    NoRec, NoFile, NoAnswer

Keys == ToSet(KeySeq)

ValueTypes == {"string", "json", "binary"}

ASSUME SizeAssumption ==
    /\ Size \in [Keys \cup ContentTypes \cup Bodies -> Nat]
    /\ ValueType \in [ContentTypes -> ValueTypes]
    /\ ValidJSON \subseteq Bodies
ASSUME LimitAssumption ==
    MaxKeySize \in Nat /\ MaxValueSize \in Nat /\ MaxEvents \in Nat

KVRecord == [ct: ContentTypes, vt: ValueTypes, body: Bodies,
             ver: Nat \ {0}, created: Nat]

\* A record in a file, which other programs may have made.
EncodedRecord == [key: Keys, ct_len: Nat, ct: ContentTypes, vt: ValueTypes,
                  body: Bodies, created: Nat, sum: Bodies]

ASSUME RecordAssumption ==
    /\ KeySeq \in Seq(Keys) /\ OtherRecords \subseteq Seq(EncodedRecord)
    /\ NoRec \notin KVRecord

\* What handlers let through: storage.ValidateKey and storage.ValidateValue.
ValidKey(k) == Size[k] \in 1..MaxKeySize
ValidValue(ct, body) == ValueType[ct] = "json" => body \in ValidJSON

\* A record that a PUT could have left under k.
LikePut(k, rec) ==
    /\ ValidKey(k) /\ Size[rec.body] <= MaxValueSize
    /\ ValidValue(rec.ct, rec.body)
    /\ rec.vt = ValueType[rec.ct]

\* What earlier lifetimes of the process can have left in the store file.
ASSUME StoreAssumption ==
    \A d \in Stores :
        /\ d.kv \in [Spaces -> [Keys -> KVRecord \cup {NoRec}]] /\ d.version \in Nat
        /\ \A s \in Spaces, k \in Keys : d.kv[s][k] # NoRec =>
              LikePut(k, d.kv[s][k]) /\ d.kv[s][k].ver <= d.version

-----------------------------------------------------------------------------
(* The format.                                                             *)

HeaderSize == 8 + 4 + 8 + 8
FooterSize == 32

\* What a record occupies besides key, content type and value.
RecordOverhead == 4 + 2 + 1 + 8 + 8 + 8 + 8 + 32
MinEncodedRecordLen == RecordOverhead + 1
MaxContentTypeLen == 255
CtLenModulus == 2 ^ 16

\* The length of a content type is written in 16 bits, the type itself whole.
\* The version and the time of the last change are written too; the decoder
\* takes any and the import does not use them.
EncodeRecord(k, rec) ==
    [key |-> k, ct_len |-> Size[rec.ct] % CtLenModulus, ct |-> rec.ct,
     vt |-> rec.vt, body |-> rec.body, created |-> rec.created,
     sum |-> rec.body]

Seal(recs) == [count |-> Len(recs), recs |-> recs, sum |-> <<Len(recs), recs>>]

\* ExportUserspace sorts the records by key.
SortedKeys(space) ==
    FoldLeft(LAMBDA ks, k : IF space[k] # NoRec THEN Append(ks, k) ELSE ks,
             <<>>, KeySeq)

Encode(space) ==
    LET ks == SortedKeys(space)
    IN  Seal([i \in DOMAIN ks |-> EncodeRecord(ks[i], space[ks[i]])])

RecordBytes(recs) ==
    FoldLeft(LAMBDA n, e : n + RecordOverhead + Size[e.key] + Size[e.ct]
                             + Size[e.body], 0, recs)

FileSize(f) == HeaderSize + RecordBytes(f.recs) + FooterSize

\* A content type longer than its length says is read on as the type byte
\* and the length of the value, which eight printable characters make larger
\* than any limit.
ReadsRecord(e) ==
    /\ ValidKey(e.key)
    /\ e.ct_len <= MaxContentTypeLen
    /\ e.ct_len = Size[e.ct]
    /\ Size[e.body] <= MaxValueSize
    /\ e.sum = e.body
    /\ ValidValue(e.ct, e.body)

\* Variants of Decodes with a mistake (see "mutants" in PROJECT.json): the
\* checksum of the whole is not compared; as many records as the rest has
\* room for are too many.
DecodesUnsealed(f) ==
    /\ f.count <= RecordBytes(f.recs) \div MinEncodedRecordLen
    /\ f.count = Len(f.recs)
    /\ \A i \in DOMAIN f.recs : ReadsRecord(f.recs[i])
DecodesOneLess(f) ==
    /\ f.sum = <<f.count, f.recs>>
    /\ f.count < RecordBytes(f.recs) \div MinEncodedRecordLen
    /\ f.count = Len(f.recs)
    /\ \A i \in DOMAIN f.recs : ReadsRecord(f.recs[i])

\* Decode succeeds: the checksum of the whole, then the count, then each
\* record, and nothing after the last.
Decodes(f) ==
    /\ f.sum = <<f.count, f.recs>>
    /\ f.count <= RecordBytes(f.recs) \div MinEncodedRecordLen
    /\ f.count = Len(f.recs)
    /\ \A i \in DOMAIN f.recs : ReadsRecord(f.recs[i])

-----------------------------------------------------------------------------
(* AtomicTx.ImportUserspace: the records one after the other.              *)

ImportModes == {"replace", "merge-overwrite", "merge-skip"}

\* Variants of ImportRecord with a mistake: the value type of the file is
\* kept; the version of the snapshot is not advanced; a replaced record is
\* not counted as imported.
ImportRecordTyped(acc, e, mode) ==
    LET exists == acc.space[e.key] # NoRec
    IN  IF exists /\ mode = "merge-skip"
        THEN [acc EXCEPT !.skipped = @ + 1]
        ELSE [space |-> [acc.space EXCEPT ![e.key] =
                [ct |-> e.ct, vt |-> e.vt, body |-> e.body,
                 ver |-> acc.version + 1, created |-> e.created]],
              version  |-> acc.version + 1,
              imported |-> acc.imported + 1,
              replaced |-> acc.replaced + (IF exists THEN 1 ELSE 0),
              skipped  |-> acc.skipped]
ImportRecordNoCount(acc, e, mode) ==
    LET exists == acc.space[e.key] # NoRec
    IN  IF exists /\ mode = "merge-skip"
        THEN [acc EXCEPT !.skipped = @ + 1]
        ELSE [space |-> [acc.space EXCEPT ![e.key] =
                [ct |-> e.ct, vt |-> ValueType[e.ct], body |-> e.body,
                 ver |-> acc.version + 1, created |-> e.created]],
              version  |-> acc.version,
              imported |-> acc.imported + 1,
              replaced |-> acc.replaced + (IF exists THEN 1 ELSE 0),
              skipped  |-> acc.skipped]
ImportRecordUncounted(acc, e, mode) ==
    LET exists == acc.space[e.key] # NoRec
    IN  IF exists /\ mode = "merge-skip"
        THEN [acc EXCEPT !.skipped = @ + 1]
        ELSE [space |-> [acc.space EXCEPT ![e.key] =
                [ct |-> e.ct, vt |-> ValueType[e.ct], body |-> e.body,
                 ver |-> acc.version + 1, created |-> e.created]],
              version  |-> acc.version + 1,
              imported |-> acc.imported + (IF exists THEN 0 ELSE 1),
              replaced |-> acc.replaced + (IF exists THEN 1 ELSE 0),
              skipped  |-> acc.skipped]

\* The stored record has a version of its own, the value type its content
\* type stands for, and the creation time of the file.
ImportRecord(acc, e, mode) ==
    LET exists == acc.space[e.key] # NoRec
    IN  IF exists /\ mode = "merge-skip"
        THEN [acc EXCEPT !.skipped = @ + 1]
        ELSE [space |-> [acc.space EXCEPT ![e.key] =
                [ct |-> e.ct, vt |-> ValueType[e.ct], body |-> e.body,
                 ver |-> acc.version + 1, created |-> e.created]],
              version  |-> acc.version + 1,
              imported |-> acc.imported + 1,
              replaced |-> acc.replaced + (IF exists THEN 1 ELSE 0),
              skipped  |-> acc.skipped]

NoRecords == [k \in Keys |-> NoRec]

\* Variant with a mistake: the space is not emptied first.
ImportAllMerged(space, ver, recs, mode) ==
    FoldLeft(LAMBDA acc, e : ImportRecord(acc, e, mode),
             [space |-> space, version |-> ver, imported |-> 0, replaced |-> 0,
              skipped |-> 0], recs)

ImportAll(space, ver, recs, mode) ==
    FoldLeft(LAMBDA acc, e : ImportRecord(acc, e, mode),
             [space |-> IF mode = "replace" THEN NoRecords ELSE space,
              version |-> ver, imported |-> 0, replaced |-> 0, skipped |-> 0],
             recs)

-----------------------------------------------------------------------------

VARIABLES
    kv,         \* the records of each userspace
    version,    \* snapshot.Version
    file,       \* the file a client holds
    answer,     \* how the last import was answered
    events,     \* how many events there were; also the clock
    origin,     \* history: "export", "damaged" or "other": what file is
    saved       \* history: the records at the export file was made by

exchangeVars == <<kv, version, file, answer, events, origin, saved>>

ExchangeInit ==
    /\ \E d \in Stores : kv = d.kv /\ version = d.version
    /\ file = NoFile
    /\ answer = NoAnswer
    /\ events = 0
    /\ origin = "other"
    /\ saved = NoRecords

Tick == events < MaxEvents /\ events' = events + 1

Put(s, k, ct, body) ==
    /\ Tick
    /\ ValidKey(k) /\ Size[body] <= MaxValueSize /\ ValidValue(ct, body)
    /\ version' = version + 1
    /\ kv' = [kv EXCEPT ![s][k] =
                [ct |-> ct, vt |-> ValueType[ct], body |-> body,
                 ver |-> version + 1,
                 created |-> IF kv[s][k] = NoRec THEN events
                             ELSE kv[s][k].created]]
    /\ answer' = NoAnswer
    /\ UNCHANGED <<file, origin, saved>>

Delete(s, k) ==
    /\ Tick
    /\ kv[s][k] # NoRec
    /\ version' = version + 1
    /\ kv' = [kv EXCEPT ![s][k] = NoRec]
    /\ answer' = NoAnswer
    /\ UNCHANGED <<file, origin, saved>>

Export(s) ==
    /\ Tick
    /\ file' = Encode(kv[s])
    /\ origin' = "export" /\ saved' = kv[s]
    /\ answer' = NoAnswer
    /\ UNCHANGED <<kv, version>>

\* The file loses its end, or a byte of it changes; its checksums stay.
DamagedFiles(f) ==
    {[f EXCEPT !.recs = Front(@)], [f EXCEPT !.count = @ - 1],
     [f EXCEPT !.count = @ - 1, !.recs = Front(@)]}
      \cup {[f EXCEPT !.recs[1].ct = ct, !.recs[1].ct_len = Size[ct]] :
              ct \in ContentTypes \ {f.recs[1].ct}}
      \cup {[f EXCEPT !.recs[1].body = body] :
              body \in Bodies \ {f.recs[1].body}}

Damage ==
    /\ Tick
    /\ origin = "export" /\ file.recs # <<>>
    /\ file' \in DamagedFiles(file)
    /\ origin' = "damaged"
    /\ answer' = NoAnswer
    /\ UNCHANGED <<kv, version, saved>>

\* A file that another program made, to the same format.
Receive ==
    /\ Tick
    /\ \E recs \in OtherRecords : file' = Seal(recs)
    /\ origin' = "other"
    /\ answer' = NoAnswer
    /\ UNCHANGED <<kv, version, saved>>

\* handleImport: the body as a whole is limited to MaxValueSize.
Accepts(f) == FileSize(f) <= MaxValueSize /\ Decodes(f)

Answer(s, mode, accepted, res) ==
    [space |-> s, mode |-> mode, accepted |-> accepted,
     imported |-> res.imported, replaced |-> res.replaced,
     skipped |-> res.skipped]

Import(s, mode) ==
    /\ Tick
    /\ file # NoFile
    /\ IF Accepts(file)
       THEN LET res == ImportAll(kv[s], version, file.recs, mode)
            IN  /\ kv' = [kv EXCEPT ![s] = res.space]
                /\ version' = res.version
                /\ answer' = Answer(s, mode, TRUE, res)
       ELSE /\ answer' = Answer(s, mode, FALSE,
                            [imported |-> 0, replaced |-> 0, skipped |-> 0])
            /\ UNCHANGED <<kv, version>>
    /\ UNCHANGED <<file, origin, saved>>

ExchangeNext ==
    \/ \E s \in Spaces, k \in Keys, ct \in ContentTypes, body \in Bodies :
          Put(s, k, ct, body)
    \/ \E s \in Spaces, k \in Keys : Delete(s, k)
    \/ \E s \in Spaces : Export(s)
    \/ Damage
    \/ Receive
    \/ \E s \in Spaces, mode \in ImportModes : Import(s, mode)

ExchangeSpec == ExchangeInit /\ [][ExchangeNext]_exchangeVars

-----------------------------------------------------------------------------
(* Properties.                                                             *)

\* Types of the state: versions in the range of the counter, answers that
\* speak of a userspace and a mode there are.
ExchangeTypeOK ==
    /\ kv \in [Spaces -> [Keys -> KVRecord \cup {NoRec}]]
    /\ version \in Nat /\ events \in 0..MaxEvents
    /\ \A s \in Spaces, k \in Keys :
          kv[s][k] # NoRec => kv[s][k].ver <= version
    /\ answer # NoAnswer =>
          answer.space \in Spaces /\ answer.mode \in ImportModes
    /\ origin \in {"export", "damaged", "other"}
    /\ saved \in [Keys -> KVRecord \cup {NoRec}]

\* Whichever way a record came in, by a PUT or in a file of whatever origin,
\* it has a key, a value and a value type that a PUT could have given it
\* (storage.ValidateKey, ValidateValue and ValueType in both paths).
StoredLikePut ==
    \A s \in Spaces, k \in Keys :
        kv[s][k] # NoRec => LikePut(k, kv[s][k])

SameValue(r1, r2) ==
    \/ r1 = NoRec /\ r2 = NoRec
    \/ /\ r1 # NoRec /\ r2 # NoRec
       /\ r1.ct = r2.ct /\ r1.vt = r2.vt
       /\ r1.body = r2.body /\ r1.created = r2.created

\* An export accepted later restores what was exported then, with content
\* types, value types and creation times, under new versions; `replace'
\* leaves nothing else, the merging modes keep what is not in the file, and
\* `merge-skip' what was there before (docs/SPEC.md, sections 16.2, 22.2).
RestoresExport ==
    [][(answer' # NoAnswer /\ answer'.accepted /\ origin = "export") =>
        LET s == answer'.space
            Kept(k) ==
                /\ kv[s][k] # NoRec
                /\ \/ answer'.mode = "merge-skip"
                   \/ answer'.mode = "merge-overwrite" /\ saved[k] = NoRec
        IN  /\ \A k \in Keys :
                 IF Kept(k) THEN kv'[s][k] = kv[s][k]
                 ELSE /\ SameValue(kv'[s][k], saved[k])
                      /\ saved[k] # NoRec => kv'[s][k].ver > version
            /\ \A s2 \in Spaces \ {s} : kv'[s2] = kv[s2]]_exchangeVars

PresentIn(space) == {k \in Keys : space[k] # NoRec}

\* The ImportResult tells what was done, also for a file that has one key
\* twice: every record is imported or skipped, each imported one took a
\* version, and those that replaced none are the keys there are now more.
ReportTellsTruth ==
    [][(answer' # NoAnswer /\ answer'.accepted) =>
        LET s == answer'.space
            before == IF answer'.mode = "replace" THEN {} ELSE PresentIn(kv[s])
        IN  /\ answer'.imported + answer'.skipped = Len(file.recs)
            /\ version' = version + answer'.imported
            /\ Cardinality(PresentIn(kv'[s])) =
                 Cardinality(before) + answer'.imported - answer'.replaced
      ]_exchangeVars

\* A file that lost its end or of which anything changed is never accepted,
\* not even when what is left is a well-formed file.
DamagedRefused ==
    answer # NoAnswer /\ answer.accepted => origin # "damaged"

\* An intact export is refused for two reasons only: it is larger, as a
\* whole, than a value may be, or has a content type of more than 255 bytes.
RefusedOnlyForSize ==
    (answer # NoAnswer /\ ~answer.accepted /\ origin = "export") =>
        \/ FileSize(file) > MaxValueSize
        \/ \E k \in Keys : saved[k] # NoRec /\ Size[saved[k].ct] > 255

\* What the integration tests of docs/SPEC.md:1260 promise of every export:
\* imported into an empty userspace, the data is the same; so it is accepted.
ExportsAreAccepted ==
    (answer # NoAnswer /\ origin = "export") => answer.accepted

=============================================================================
