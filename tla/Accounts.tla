------------------------------ MODULE Accounts ------------------------------
(***************************************************************************)
(* Who may act on which userspace: the credentials in storage.Store, the   *)
(* authenticator's cache in front of them (internal/auth/auth.go), the     *)
(* handlers that create, delete and rotate (httpapi/admin_handlers.go),    *)
(* and the writes that requests already let in, and the cleaner of the     *)
(* transactions, still make.                                               *)
(*                                                                         *)
(* Four critical sections follow one another in a request with no lock     *)
(* held in between: the look-up in the cache, the look-up in the store,    *)
(* the entry into the cache, and what the request is for.  A handler that  *)
(* changes credentials holds the global lock until it has emptied the      *)
(* cache, but authentication takes no notice of that lock.                 *)
(*                                                                         *)
(* Records are in Snapshot; here a userspace is an entry of the map        *)
(* snapshot.Userspaces that is there or not.  A user is its userspace.     *)
(***************************************************************************)
EXTENDS Integers, FiniteSets

CONSTANTS
    Spaces,         \* userspace ids
    BootSpace,      \* KVHTTP_BOOTSTRAP_USERSPACE_ID
    BootKey,        \* KVHTTP_BOOTSTRAP_API_KEY (its hash)
    BootSubject,    \* KVHTTP_BOOTSTRAP_USER_ID: the subject of verified tokens
    NewKeys,        \* the keys newAPIKey may make
    TxIDs,
    Reqs,           \* request goroutines
    Calls,          \* the requests clients may send
    Stores,         \* what the store file may hold at startup
    MaxEntries,     \* Authenticator.max; no limit when not positive
    Faults,         \* whether persisting may fail
    MaxEvents,      \* bound: requests, restarts and passes of the cleaner
    MaxInFlight,    \* bound: requests at any one time
    NoOne, NoEntry, NoSpace, NoStore, Free

APIKeys == NewKeys \cup {BootKey}
Creds == APIKeys \cup {BootSubject}
BootCreds == {BootKey, BootSubject}

Principal == [space: Spaces, admin: BOOLEAN]

Store ==
    [creds: [Creds -> Principal \cup {NoOne}],  \* APIKeys and JWTSubjects
     spaces: SUBSET Spaces,                     \* the domain of Userspaces
     txs: [TxIDs -> Spaces \cup {NoSpace}]]     \* whose each transaction is

\* "tx" is CreateTx; "txop" is AddOp, Commit, Abort or GetResult.
WriteKinds == {"put", "import", "tx", "txop"}
AdminKinds == {"create", "delete", "rotate", "adminput"}

NoCall == [kind |-> "none"]

ASSUME BootAssumption ==
    /\ BootSpace \in Spaces
    /\ BootKey \notin NewKeys /\ BootSubject \notin NewKeys
    /\ BootKey # BootSubject
ASSUME NobodyAssumption ==
    /\ NoOne \notin Principal \cup Creds /\ NoSpace \notin Spaces
    /\ NoStore \notin Store /\ Free \notin Reqs
    /\ NoEntry \notin [p: Principal, fresh: BOOLEAN]

\* A store file is one that the program wrote: a userspace has one key of its own.
OneKey(d) ==
    \A c1, c2 \in NewKeys :
        (d.creds[c1] # NoOne /\ d.creds[c2] # NoOne
            /\ d.creds[c1].space = d.creds[c2].space) => c1 = c2

ASSUME StoresAssumption == Stores \subseteq {d \in Store : OneKey(d)}
ASSUME CallsAssumption ==
    Calls \subseteq [kind: WriteKinds \cup AdminKinds, cred: Creds,
                     space: Spaces, tx_id: TxIDs]
ASSUME BoundsAssumption ==
    MaxEntries \in Int /\ MaxEvents \in Nat /\ MaxInFlight \in Nat
      /\ Faults \in BOOLEAN

-----------------------------------------------------------------------------
(* What the Store methods do to a store.                                   *)

KeysOf(d, s) == {c \in APIKeys : d.creds[c] # NoOne /\ d.creds[c].space = s}

CredsOf(d, s) == {c \in Creds : d.creds[c] # NoOne /\ d.creds[c].space = s}

Exists(d, s) == s \in d.spaces \/ CredsOf(d, s) # {}

Without(d, cs) == [c \in Creds |-> IF c \in cs THEN NoOne ELSE d.creds[c]]

\* Bootstrap runs at every start and adds what is not there.
Bootstrap(d) ==
    [creds |-> [c \in Creds |->
                  IF c \in BootCreds /\ d.creds[c] = NoOne
                  THEN [space |-> BootSpace, admin |-> TRUE] ELSE d.creds[c]],
     spaces |-> d.spaces \cup {BootSpace}, txs |-> d.txs]

Written(d, s) == [d EXCEPT !.spaces = @ \cup {s}]

Saved(d, id, s) == [d EXCEPT !.txs[id] = s]

\* A key of s besides or instead of those in creds.
WithKey(d, creds, s, key) ==
    [creds |-> [creds EXCEPT ![key] = [space |-> s, admin |-> FALSE]],
     spaces |-> d.spaces \cup {s}, txs |-> d.txs]

CreateUserspace(d, s, key) == WithKey(d, d.creds, s, key)

\* Mistaken variant: the transactions of the userspace are left behind.
DeleteButTxs(d, s) ==
    [creds |-> Without(d, CredsOf(d, s)), spaces |-> d.spaces \ {s}, txs |-> d.txs]

DeleteUserspace(d, s) ==
    [creds |-> Without(d, CredsOf(d, s)), spaces |-> d.spaces \ {s},
     txs |-> [id \in TxIDs |-> IF d.txs[id] = s THEN NoSpace ELSE d.txs[id]]]

\* Mistaken variant: the old keys stay too.
AddAPIKey(d, s, key) == WithKey(d, d.creds, s, key)

\* The JWT subjects of the userspace stay.
ReplaceAPIKey(d, s, key) == WithKey(d, Without(d, KeysOf(d, s)), s, key)

EmptyStore == [creds |-> [c \in Creds |-> NoOne], spaces |-> {},
               txs |-> [id \in TxIDs |-> NoSpace]]

-----------------------------------------------------------------------------

VARIABLES
    store,      \* Store.data
    disk,       \* what the store file holds
    cache,      \* Authenticator.cache
    lock,       \* who holds the global lock
    pc,         \* where each request is
    call,       \* the request it serves
    who,        \* the principal it was let in as
    key,        \* the API key its handler made
    clone,      \* the clone an import or an execution works on
    sweep,      \* the transactions ListTxs gave the cleaner, each with its
                \* userspace, that it has not looked at yet
    events,     \* how many requests, restarts and passes there were
    of,         \* history: the userspace each credential was made for
    told,       \* history: the API keys clients know
    revoked,    \* history: credentials whose removal was answered
    late,       \* history: requests sent with a credential of `revoked'
    deleted,    \* history: userspaces whose deletion was answered
    raced       \* history: those, and credentials, that had a request let in,
                \* or a transaction listed by the cleaner, and not finished
                \* while their removal was being done

locals  == <<pc, call, who, key>>
history == <<of, told, revoked, late, deleted, raced>>
accountsVars == <<store, disk, cache, lock, locals, clone, sweep, events, history>>

AccountsInit ==
    /\ \E d \in Stores : store = Bootstrap(d)
    /\ disk = store
    /\ cache = [c \in Creds |-> NoEntry]
    /\ lock = Free
    /\ pc = [r \in Reqs |-> "idle"]
    /\ call = [r \in Reqs |-> NoCall]
    /\ who = [r \in Reqs |-> NoOne]
    /\ key = [r \in Reqs |-> NoOne]
    /\ clone = NoStore /\ sweep = {}
    /\ events = 0
    /\ of = [c \in Creds |-> IF store.creds[c] = NoOne THEN NoSpace
                             ELSE store.creds[c].space]
    /\ told = {c \in Creds : store.creds[c] # NoOne}
    /\ revoked = {} /\ late = {} /\ deleted = {} /\ raced = {}

-----------------------------------------------------------------------------
(* Control of a request.                                                   *)

InFlight == Cardinality({r \in Reqs : pc[r] # "idle"})

Start(r, c) ==
    /\ pc[r] = "idle" /\ c.cred \in told
    /\ events < MaxEvents /\ InFlight < MaxInFlight
    /\ events' = events + 1
    /\ pc' = [pc EXCEPT ![r] = "lookup"]
    /\ call' = [call EXCEPT ![r] = c]
    /\ late' = IF c.cred \in revoked THEN late \cup {r} ELSE late
    /\ UNCHANGED <<store, disk, cache, lock, who, key, clone, sweep,
                   of, told, revoked, deleted, raced>>

GoTo(r, p) == pc' = [pc EXCEPT ![r] = p]

Return(r) ==
    /\ GoTo(r, "idle")
    /\ call' = [call EXCEPT ![r] = NoCall]
    /\ who' = [who EXCEPT ![r] = NoOne]
    /\ key' = [key EXCEPT ![r] = NoOne]
    /\ late' = late \ {r}

\* Let in as p; the administration is closed to those without the role.
LetIn(r, p, next) ==
    IF call[r].kind \in AdminKinds /\ ~p.admin /\ next = "act"
    THEN Return(r)
    ELSE /\ GoTo(r, next)
         /\ who' = [who EXCEPT ![r] = p]
         /\ UNCHANGED <<call, key, late>>

-----------------------------------------------------------------------------
(* Authenticator.Authenticate and authenticateAPIKey.                      *)

Cached == {c \in Creds : cache[c] # NoEntry}

Hit(c) == c \in Cached /\ cache[c].fresh

\* getCache; an entry past its time is dropped.
LookUp(r) ==
    LET c == call[r].cred
    IN  /\ pc[r] = "lookup"
        /\ IF Hit(c)
           THEN LetIn(r, cache[c].p, "act") /\ UNCHANGED cache
           ELSE /\ GoTo(r, "resolve")
                /\ cache' = [cache EXCEPT ![c] = NoEntry]
                /\ UNCHANGED <<call, who, key, late>>
        /\ UNCHANGED <<store, disk, lock, clone, sweep, events, of, told, revoked, deleted, raced>>

\* ResolveAPIKeyHash, ResolveJWTSubject.
Resolve(r) ==
    LET p == store.creds[call[r].cred]
    IN  /\ pc[r] = "resolve"
        /\ IF p = NoOne THEN Return(r) ELSE LetIn(r, p, "remember")
        /\ UNCHANGED <<store, disk, cache, lock, clone, sweep, events,
                       of, told, revoked, deleted, raced>>

\* Mistaken variant: the limit is noticed one entry late.
FullOffByOne == MaxEntries > 0 /\ Cardinality(Cached) > MaxEntries
Full == MaxEntries > 0 /\ Cardinality(Cached) >= MaxEntries

\* setCache: any entry makes room when the cache is full.
Remember(r) ==
    LET c == call[r].cred
        entry == [p |-> who[r], fresh |-> TRUE]
    IN  /\ pc[r] = "remember"
        /\ IF Full
           THEN \E old \in Cached :
                   cache' = [[cache EXCEPT ![old] = NoEntry] EXCEPT ![c] = entry]
           ELSE cache' = [cache EXCEPT ![c] = entry]
        /\ LetIn(r, who[r], "act")
        /\ UNCHANGED <<store, disk, lock, clone, sweep, events, of, told, revoked, deleted, raced>>

\* The time to live of an entry passes.
Expire(c) ==
    /\ Hit(c)
    /\ cache' = [cache EXCEPT ![c].fresh = FALSE]
    /\ UNCHANGED <<store, disk, lock, locals, clone, sweep, events, history>>

-----------------------------------------------------------------------------
(* What requests are for.                                                  *)

At(r, kind) == pc[r] = "act" /\ call[r].kind = kind

\* Mistaken variant: the handlers of the administration do not take the lock.
NoLock == TRUE
CanLock == lock = Free

\* persistLocked may fail before or after the file was replaced; memory has
\* changed either way.
Change(d) ==
    /\ store' = d
    /\ disk' \in IF Faults THEN {disk, d} ELSE {d}

\* A write to the userspace the request was let in for, or, for an
\* administrator, the one the path names.
Target(r) == IF call[r].kind = "adminput" THEN call[r].space ELSE who[r].space

Put(r) ==
    /\ At(r, "put") \/ At(r, "adminput")
    /\ lock = Free
    /\ Change(Written(store, Target(r)))
    /\ deleted' = IF call[r].kind = "adminput" THEN deleted \ {Target(r)} ELSE deleted
    /\ Return(r)
    /\ UNCHANGED <<cache, lock, clone, sweep, events, of, told, revoked, raced>>

\* BeginAtomic of an import, or of an execution that waited for the lock.
BeginAtomic(r) ==
    /\ At(r, "import") \/ pc[r] = "execute"
    /\ lock = Free
    /\ lock' = r /\ clone' = store
    /\ GoTo(r, "commit")
    /\ UNCHANGED <<store, disk, cache, call, who, key, sweep, events, history>>

\* What an import or an execution puts in place: the clone takes the place of the
\* whole snapshot, credentials included, whether the operations wrote or only
\* read; an execution that fails is rolled back and saved with its outcome.
Outcomes(r) ==
    LET s == who[r].space
        Executed(d) == Saved(d, call[r].tx_id, s)
    IN  IF call[r].kind = "import" THEN {Written(clone, s)}
        ELSE {Executed(Written(clone, s)), Executed(clone), Executed(store)}

EndAtomic(r) ==
    /\ pc[r] = "commit"
    /\ \E d \in Outcomes(r) : Change(d)
    /\ lock' = Free /\ clone' = NoStore
    /\ Return(r)
    /\ UNCHANGED <<cache, sweep, events, of, told, revoked, deleted, raced>>

\* Userspaces changed by a handler that has not answered yet.
BeingAnswered == {call[q].space : q \in {o \in Reqs : pc[o] = "invalidate"}}

\* GetTx, then SaveTx, neither under the global lock.  CreateTx goes on when the
\* transaction is not there, the others when it is their own: to save their copy
\* of it, to execute it, or only to answer.
GetTx(r) ==
    LET owner == store.txs[call[r].tx_id]
    IN  /\ At(r, "tx") \/ At(r, "txop")
        /\ \/ /\ IF call[r].kind = "tx" THEN owner = NoSpace ELSE owner = who[r].space
              /\ \/ GoTo(r, "save")
                 \/ call[r].kind = "txop" /\ GoTo(r, "execute")
              /\ UNCHANGED <<call, who, key, late>>
           \/ /\ call[r].kind = "tx" => owner # NoSpace
              /\ Return(r)
        /\ UNCHANGED <<store, disk, cache, lock, clone, sweep, events,
                       of, told, revoked, deleted, raced>>

\* The copy of a transaction of s is saved, whatever became of s since.
SaveCopy(id, s) ==
    /\ Change(Saved(store, id, s))
    /\ raced' = raced \cup ({s} \cap BeingAnswered)

SaveTx(r) ==
    /\ pc[r] = "save"
    /\ SaveCopy(call[r].tx_id, who[r].space)
    /\ Return(r)
    /\ UNCHANGED <<cache, lock, clone, sweep, events, of, told, revoked, deleted>>

\* ExpireDue of the cleaner: ListTxs, and then one listed copy after another, of
\* which those past their deadline are saved as expired.
ListDue ==
    /\ sweep = {} /\ events < MaxEvents
    /\ events' = events + 1
    /\ sweep' = {<<id, store.txs[id]>> :
                    id \in {i \in TxIDs : store.txs[i] # NoSpace}}
    /\ UNCHANGED <<store, disk, cache, lock, locals, clone, history>>

SweepOne(t) ==
    /\ sweep' = sweep \ {t}
    /\ SaveCopy(t[1], t[2]) \/ UNCHANGED <<store, disk, raced>>
    /\ UNCHANGED <<cache, lock, locals, clone, events,
                   of, told, revoked, late, deleted>>

\* A key nobody has had before.
Made(k) == of[k] # NoSpace

\* The store has changed; when that was persisted the handler goes on to empty
\* the cache, still holding the lock, and otherwise answers with an error.
Changed(r, d, k) ==
    /\ store' = d
    /\ \/ /\ disk' = d
          /\ lock' = r
          /\ GoTo(r, "invalidate")
          /\ key' = [key EXCEPT ![r] = k]
          /\ UNCHANGED <<call, who, late>>
       \/ /\ Faults /\ disk' \in {disk, d}
          /\ Return(r)
          /\ UNCHANGED lock
    /\ of' = IF k = NoOne THEN of ELSE [of EXCEPT ![k] = call[r].space]
    /\ UNCHANGED <<cache, clone, sweep, events, told, revoked, raced>>

RefuseOnly(r) ==
    /\ Return(r)
    /\ UNCHANGED <<store, disk, cache, lock, clone, sweep, events,
                   of, told, revoked, deleted, raced>>

HandleCreate(r) ==
    LET s == call[r].space
    IN  /\ At(r, "create") /\ CanLock
        /\ \/ Exists(store, s) /\ RefuseOnly(r)
           \/ /\ ~Exists(store, s)
              /\ \E k \in NewKeys :
                    ~Made(k) /\ Changed(r, CreateUserspace(store, s, k), k)
              /\ deleted' = deleted \ {s}

HandleDelete(r) ==
    LET s == call[r].space
    IN  /\ At(r, "delete") /\ CanLock
        /\ \/ ~Exists(store, s) /\ RefuseOnly(r)
           \/ /\ Exists(store, s)
              /\ Changed(r, DeleteUserspace(store, s), NoOne)
              /\ UNCHANGED deleted

HandleRotate(r) ==
    LET s == call[r].space
    IN  /\ At(r, "rotate") /\ CanLock
        /\ \/ ~Exists(store, s) /\ RefuseOnly(r)
           \/ /\ Exists(store, s)
              /\ \E k \in NewKeys :
                    ~Made(k) /\ Changed(r, ReplaceAPIKey(store, s, k), k)
              /\ UNCHANGED deleted

\* The credentials that the request answered as done takes away.
TakenAway(r) ==
    {c \in Creds :
        /\ of[c] = call[r].space
        /\ \/ call[r].kind = "delete"
           \/ call[r].kind = "rotate" /\ c \in APIKeys \ {key[r]}}

\* Mistaken variant: the cache keeps what it has.
NotEmptied == cache
Emptied == [c \in Creds |-> NoEntry]

\* A credential resolved but not in the cache yet will be entered into it, what
\* was let in for the userspace will still be done, and what the cleaner listed
\* may still be saved.
InRace(r) ==
    LET others == {q \in Reqs : who[q] # NoOne} \ {r}
    IN  {call[q].cred : q \in {o \in others : pc[o] = "remember"}}
          \cup {who[q].space : q \in others} \cup {t[2] : t \in sweep}

Invalidate(r) ==
    /\ pc[r] = "invalidate"
    /\ cache' = Emptied
    /\ lock' = Free
    /\ revoked' = revoked \cup TakenAway(r)
    /\ deleted' = IF call[r].kind = "delete" THEN deleted \cup {call[r].space}
                                             ELSE deleted
    /\ raced' = raced \cup (InRace(r) \cap (TakenAway(r) \cup {call[r].space}))
    /\ told' = told \cup ({key[r]} \ {NoOne})
    /\ Return(r)
    /\ UNCHANGED <<store, disk, clone, sweep, events, of>>

-----------------------------------------------------------------------------

\* The process dies and starts again: requests and cache are gone, the file is
\* loaded, and Bootstrap adds the configured credentials that are not in it.
Restart ==
    /\ events < MaxEvents
    /\ events' = events + 1
    /\ store' = Bootstrap(disk) /\ disk' = Bootstrap(disk)
    /\ cache' = [c \in Creds |-> NoEntry]
    /\ lock' = Free /\ clone' = NoStore /\ sweep' = {}
    /\ pc' = [r \in Reqs |-> "idle"]
    /\ call' = [r \in Reqs |-> NoCall]
    /\ who' = [r \in Reqs |-> NoOne]
    /\ key' = [r \in Reqs |-> NoOne]
    /\ late' = {}
    /\ UNCHANGED <<of, told, revoked, deleted, raced>>

Step(r) ==
    \/ LookUp(r)
    \/ Resolve(r)
    \/ Remember(r)
    \/ Put(r)
    \/ BeginAtomic(r)
    \/ EndAtomic(r)
    \/ GetTx(r)
    \/ SaveTx(r)
    \/ HandleCreate(r)
    \/ HandleDelete(r)
    \/ HandleRotate(r)
    \/ Invalidate(r)

AccountsNext ==
    \/ \E r \in Reqs : (\E c \in Calls : Start(r, c)) \/ Step(r)
    \/ \E c \in Creds : Expire(c)
    \/ ListDue
    \/ \E t \in sweep : SweepOne(t)
    \/ Restart

AccountsSpec == AccountsInit /\ [][AccountsNext]_accountsVars

-----------------------------------------------------------------------------

\* Types; the cache never has more entries than its limit (setCache).
AccountsTypeOK ==
    /\ store \in Store /\ disk \in Store
    /\ cache \in [Creds -> [p: Principal, fresh: BOOLEAN] \cup {NoEntry}]
    /\ MaxEntries > 0 => Cardinality(Cached) <= MaxEntries
    /\ lock \in Reqs \cup {Free}
    /\ pc \in [Reqs -> {"idle", "lookup", "resolve", "remember", "act",
                        "save", "execute", "commit", "invalidate"}]
    /\ call \in [Reqs -> Calls \cup {NoCall}]
    /\ who \in [Reqs -> Principal \cup {NoOne}]
    /\ key \in [Reqs -> NewKeys \cup {NoOne}]
    /\ clone \in Store \cup {NoStore}
    /\ sweep \subseteq TxIDs \X Spaces
    /\ events \in 0..MaxEvents
    /\ of \in [Creds -> Spaces \cup {NoSpace}]
    /\ told \subseteq Creds /\ revoked \subseteq Creds
    /\ late \subseteq Reqs /\ deleted \subseteq Spaces
    /\ raced \subseteq Creds \cup Spaces

\* A credential whose removal was answered never comes back to memory or file,
\* whatever imports, failures and crashes follow (admin handlers, which take the
\* global lock because an import puts back a whole snapshot).  The configured
\* credentials do come back: see RemovalOutlivesRestart.
RemovedStaysRemoved ==
    \A c \in revoked \ BootCreds :
        store.creds[c] = NoOne /\ disk.creds[c] = NoOne

\* A userspace has one API key, whatever sequence of creations, rotations and
\* deletions, failed ones among them, came before; the bootstrap userspace may
\* have the configured key besides (CreateUserspace, ReplaceUserspaceAPIKeyHash).
OneKeyEach ==
    \A s \in Spaces :
        Cardinality(KeysOf(store, s) \ {BootKey}) <= 1

\* No request sent after the removal of its credential was answered is let in,
\* by the store or by a cache entry, except when an earlier request was just
\* then between the look-up in the store and the entry into the cache
\* (authenticateAPIKey, and Invalidate after every change).
OnlyRacesLetIn ==
    \A r \in late : who[r] # NoOne => call[r].cred \in BootCreds \cup raced

\* The same with no such exception: what the documents ask for.
RemovedIsRefused ==
    \A r \in late : who[r] # NoOne => call[r].cred \in BootCreds

\* And none for what Bootstrap adds at every start.
RemovalOutlivesRestart == \A r \in late : who[r] = NoOne

Gone(d, s) == ~Exists(d, s) /\ \A id \in TxIDs : d.txs[id] # s

\* Nothing is left of a userspace whose deletion was answered, in memory or in
\* the file, until an administrator creates it or writes to it again, except
\* through a request that was let in for it before, or a pass of the cleaner that
\* listed a transaction of it before (DeleteUserspace).
OnlyRacesBringBack ==
    \A s \in deleted \ ({BootSpace} \cup raced) : Gone(store, s) /\ Gone(disk, s)

\* The same with no such exception.
DeletedIsGone ==
    \A s \in deleted \ {BootSpace} : Gone(store, s) /\ Gone(disk, s)

=============================================================================
