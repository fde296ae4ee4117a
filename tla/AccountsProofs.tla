--------------------------- MODULE AccountsProofs ---------------------------
(***************************************************************************)
(* What removing a credential or a userspace is worth, for any userspaces, *)
(* credentials, calls and number of requests, any size of the cache, disk  *)
(* errors and restarts: the safety properties of Accounts.                 *)
(***************************************************************************)
EXTENDS Accounts, FiniteSetTheorems, TLAPS

\* The removals that nothing may undo.
Removed == revoked \ BootCreds
Left == deleted \ ({BootSpace} \cup raced)

\* A store, in memory, on disk or in a clone, given the userspaces credentials
\* were made for and what must not be in it.
Sound(d, made, rem, gone) ==
    /\ \A c \in NewKeys : d.creds[c] # NoOne => made[c] = d.creds[c].space
    /\ OneKey(d)
    /\ \A c \in rem : d.creds[c] = NoOne
    /\ \A s \in gone : Gone(d, s)

-----------------------------------------------------------------------------
(* What the Store methods keep.                                            *)

\* The parts of a store.
LEMMA StoreFields ==
  ASSUME NEW d \in Store
  PROVE  /\ d.creds \in [Creds -> Principal \cup {NoOne}]
         /\ d.spaces \in SUBSET Spaces
         /\ d.txs \in [TxIDs -> Spaces \cup {NoSpace}]
         /\ \A c \in Creds : d.creds[c] # NoOne => d.creds[c].space \in Spaces
  BY DEF Store, Principal

LEMMA CredsKinds ==
  /\ NewKeys \subseteq APIKeys /\ APIKeys \subseteq Creds
  /\ NewKeys \cap BootCreds = {} /\ Creds = NewKeys \cup BootCreds
  /\ BootCreds \subseteq Creds
  BY BootAssumption DEF APIKeys, Creds, BootCreds

\* Less to keep out is easier to keep out.
LEMMA SoundLess ==
  ASSUME NEW d, NEW made, NEW rem, NEW gone, Sound(d, made, rem, gone),
         NEW rem2 \in SUBSET rem, NEW gone2 \in SUBSET gone
  PROVE  Sound(d, made, rem2, gone2)
  BY DEF Sound

\* A key is made: it is in no store.
LEMMA SoundMade ==
  ASSUME NEW d \in Store, NEW made \in [Creds -> Spaces \cup {NoSpace}],
         NEW rem, NEW gone, Sound(d, made, rem, gone),
         NEW k \in NewKeys, made[k] = NoSpace, NEW s \in Spaces
  PROVE  /\ Sound(d, [made EXCEPT ![k] = s], rem, gone)
         /\ d.creds[k] = NoOne
<1>1. d.creds[k] = NoOne
  BY StoreFields, NobodyAssumption, CredsKinds DEF Sound
<1>2. \A c \in NewKeys : d.creds[c] # NoOne => [made EXCEPT ![k] = s][c] = made[c]
  BY <1>1, CredsKinds
<1>3. QED
  BY <1>1, <1>2 DEF Sound

LEMMA WrittenSound ==
  ASSUME NEW d \in Store, NEW made, NEW rem, NEW gone, Sound(d, made, rem, gone),
         NEW s \in Spaces, s \notin gone
  PROVE  Written(d, s) \in Store /\ Sound(Written(d, s), made, rem, gone)
<1>1. /\ Written(d, s) \in Store
      /\ Written(d, s).creds = d.creds /\ Written(d, s).txs = d.txs
      /\ Written(d, s).spaces = d.spaces \cup {s}
  BY DEF Written, Store
<1>2. QED
  BY <1>1 DEF Sound, OneKey, Gone, Exists, CredsOf

LEMMA SavedSound ==
  ASSUME NEW d \in Store, NEW made, NEW rem, NEW gone, Sound(d, made, rem, gone),
         NEW s \in Spaces, s \notin gone, NEW id \in TxIDs
  PROVE  /\ Saved(d, id, s) \in Store
         /\ Sound(Saved(d, id, s), made, rem, gone)
         /\ Saved(d, id, s).creds = d.creds /\ Saved(d, id, s).spaces = d.spaces
         /\ Saved(d, id, s).txs = [d.txs EXCEPT ![id] = s]
<1> DEFINE e == Saved(d, id, s)
<1>1. /\ e \in Store
      /\ e.creds = d.creds /\ e.spaces = d.spaces
      /\ e.txs = [d.txs EXCEPT ![id] = s]
  BY DEF Store, Saved
<1>2. d.txs \in [TxIDs -> Spaces \cup {NoSpace}]
  BY StoreFields
<1> HIDE DEF e
<1>3. \A g \in gone : Gone(d, g) => Gone(e, g)
  BY <1>1, <1>2 DEF Gone, Exists, CredsOf
<1>4. Sound(e, made, rem, gone)
  BY <1>1, <1>3 DEF Sound, OneKey
<1>5. QED
  BY <1>1, <1>4 DEF e

LEMMA BootstrapSound ==
  ASSUME NEW d \in Store, NEW made, NEW rem, NEW gone, Sound(d, made, rem, gone),
         rem \cap BootCreds = {}, BootSpace \notin gone, rem \subseteq Creds
  PROVE  Bootstrap(d) \in Store /\ Sound(Bootstrap(d), made, rem, gone)
<1> DEFINE e == Bootstrap(d)
           p == [space |-> BootSpace, admin |-> TRUE]
<1>1. /\ e.txs = d.txs /\ e.spaces = d.spaces \cup {BootSpace}
      /\ e.creds = [c \in Creds |-> IF c \in BootCreds /\ d.creds[c] = NoOne
                                    THEN p ELSE d.creds[c]]
  BY DEF Bootstrap
<1>2. p \in Principal /\ p.space = BootSpace
  BY BootAssumption DEF Principal
<1> HIDE DEF p
<1>9. p # NoOne
  BY <1>2, NobodyAssumption
<1>3. e \in Store
  <2>1. e.creds \in [Creds -> Principal \cup {NoOne}]
    BY <1>1, <1>2, StoreFields
  <2>2. e = [creds |-> e.creds, spaces |-> e.spaces, txs |-> e.txs]
    BY DEF Bootstrap
  <2> HIDE DEF e
  <2>3. e.spaces \in SUBSET Spaces /\ e.txs \in [TxIDs -> Spaces \cup {NoSpace}]
    BY <1>1, StoreFields, BootAssumption
  <2>4. QED
    BY <2>1, <2>2, <2>3 DEF Store
<1> HIDE DEF e
<1>4. \A c \in NewKeys \cup rem : e.creds[c] = d.creds[c]
  BY <1>1, CredsKinds
<1>5. ASSUME NEW g \in gone PROVE Gone(e, g)
  <2>1. Gone(d, g) /\ g # BootSpace
    BY DEF Sound
  <2>2. CredsOf(e, g) = {}
    BY <1>1, <1>2, <1>9, <2>1 DEF Gone, Exists, CredsOf
  <2>3. QED
    BY <1>1, <2>1, <2>2 DEF Gone, Exists
<1>6. Sound(e, made, rem, gone)
  BY <1>4, <1>5 DEF Sound, OneKey
<1>7. QED
  BY <1>3, <1>6 DEF e

\* A new key in the place of those in creds, which has no other of s.
LEMMA WithKeySound ==
  ASSUME NEW d \in Store, NEW made \in [Creds -> Spaces \cup {NoSpace}],
         NEW rem \in SUBSET Creds, NEW gone, Sound(d, made, rem, gone),
         NEW k \in NewKeys, made[k] = NoSpace, k \notin rem,
         NEW s \in Spaces, s \notin gone,
         NEW creds \in [Creds -> Principal \cup {NoOne}],
         \A c \in Creds : creds[c] \in {NoOne, d.creds[c]},
         \A c \in NewKeys : creds[c] # NoOne => creds[c].space # s
  PROVE  /\ WithKey(d, creds, s, k) \in Store
         /\ Sound(WithKey(d, creds, s, k), [made EXCEPT ![k] = s], rem, gone)
         /\ WithKey(d, creds, s, k).creds = [creds EXCEPT ![k] = [space |-> s, admin |-> FALSE]]
<1> DEFINE e == WithKey(d, creds, s, k)
           p == [space |-> s, admin |-> FALSE]
           m == [made EXCEPT ![k] = s]
<1>1. /\ e.txs = d.txs /\ e.spaces = d.spaces \cup {s}
      /\ e.creds = [creds EXCEPT ![k] = p]
      /\ e = [creds |-> e.creds, spaces |-> e.spaces, txs |-> e.txs]
  BY DEF WithKey
<1>2. p \in Principal /\ p.space = s
  BY DEF Principal
<1> HIDE DEF e, p
<1>3. k \in Creds /\ NewKeys \subseteq Creds
  BY CredsKinds
<1>4. e.creds \in [Creds -> Principal \cup {NoOne}]
  BY <1>1, <1>2
<1>5. e \in Store
  <2>1. e.spaces \in SUBSET Spaces /\ e.txs \in [TxIDs -> Spaces \cup {NoSpace}]
    BY <1>1, StoreFields
  <2>2. QED
    BY <1>1, <1>4, <2>1 DEF Store
<1>6. \A c \in Creds : c # k => e.creds[c] \in {NoOne, d.creds[c]} /\ m[c] = made[c]
  BY <1>1, <1>3
<1>7. e.creds[k] = p /\ m[k] = s
  BY <1>1, <1>3
<1>8. \A c \in NewKeys : e.creds[c] # NoOne => m[c] = e.creds[c].space
  BY <1>2, <1>3, <1>6, <1>7 DEF Sound
<1>9. OneKey(e)
  <2>1. \A c \in NewKeys \ {k} : e.creds[c] # NoOne => e.creds[c].space # s
    BY <1>1, <1>3
  <2>2. QED
    BY <1>2, <1>3, <1>6, <1>7, <2>1 DEF Sound, OneKey
<1>10. \A c \in rem : e.creds[c] = NoOne
  BY <1>6 DEF Sound
<1>11. ASSUME NEW g \in gone PROVE Gone(e, g)
  <2>1. Gone(d, g) /\ g # s
    BY DEF Sound
  <2>2. CredsOf(e, g) = {}
    BY <1>2, <1>6, <1>7, <2>1 DEF Gone, Exists, CredsOf
  <2>3. QED
    BY <1>1, <2>1, <2>2 DEF Gone, Exists
<1>12. Sound(e, m, rem, gone)
  BY <1>8, <1>9, <1>10, <1>11 DEF Sound
<1>13. QED
  BY <1>1, <1>5, <1>12 DEF e, p

\* What is left when credentials are taken away.
LEMMA WithoutLess ==
  ASSUME NEW d \in Store, NEW cs
  PROVE  /\ Without(d, cs) \in [Creds -> Principal \cup {NoOne}]
         /\ \A c \in Creds : Without(d, cs)[c] \in {NoOne, d.creds[c]}
         /\ \A c \in Creds : c \in cs => Without(d, cs)[c] = NoOne
  BY StoreFields DEF Without

LEMMA DeletedSound ==
  ASSUME NEW d \in Store, NEW made, NEW rem \in SUBSET Creds,
         NEW gone \in SUBSET Spaces, Sound(d, made, rem, gone), NEW s \in Spaces
  PROVE  /\ DeleteUserspace(d, s) \in Store
         /\ Sound(DeleteUserspace(d, s), made, rem, gone)
         /\ Gone(DeleteUserspace(d, s), s)
         /\ \A c \in NewKeys : made[c] = s => DeleteUserspace(d, s).creds[c] = NoOne
<1> DEFINE e == DeleteUserspace(d, s)
           w == Without(d, CredsOf(d, s))
<1>1. /\ e.creds = w /\ e.spaces = d.spaces \ {s}
      /\ e.txs = [id \in TxIDs |-> IF d.txs[id] = s THEN NoSpace ELSE d.txs[id]]
      /\ e = [creds |-> e.creds, spaces |-> e.spaces, txs |-> e.txs]
  BY DEF DeleteUserspace
<1>2. /\ w \in [Creds -> Principal \cup {NoOne}]
      /\ \A c \in Creds : w[c] \in {NoOne, d.creds[c]}
      /\ \A c \in CredsOf(d, s) : w[c] = NoOne
  BY WithoutLess DEF CredsOf
<1> HIDE DEF e, w
<1>3. NewKeys \subseteq Creds
  BY CredsKinds
<1>4. e \in Store
  <2>1. e.spaces \in SUBSET Spaces /\ e.txs \in [TxIDs -> Spaces \cup {NoSpace}]
    BY <1>1, StoreFields
  <2>2. QED
    BY <1>1, <1>2, <2>1 DEF Store
<1>5. \A c \in NewKeys : made[c] = s => e.creds[c] = NoOne
  BY <1>1, <1>2, <1>3 DEF Sound, CredsOf
<1>6. Gone(e, s)
  <2>1. CredsOf(e, s) = {}
    BY <1>1, <1>2 DEF CredsOf
  <2>2. \A id \in TxIDs : e.txs[id] # s
    BY <1>1, NobodyAssumption
  <2>3. QED
    BY <1>1, <2>1, <2>2 DEF Gone, Exists
<1>7. ASSUME NEW g \in gone PROVE Gone(e, g)
  <2>1. Gone(d, g)
    BY DEF Sound
  <2>2. CredsOf(e, g) = {}
    BY <1>1, <1>2, <2>1 DEF Gone, Exists, CredsOf
  <2>3. \A id \in TxIDs : e.txs[id] # g
    BY <1>1, <2>1, NobodyAssumption DEF Gone
  <2>4. QED
    BY <1>1, <2>1, <2>2, <2>3 DEF Gone, Exists
<1>8. Sound(e, made, rem, gone)
  BY <1>1, <1>2, <1>3, <1>7 DEF Sound, OneKey
<1>9. QED
  BY <1>4, <1>5, <1>6, <1>8 DEF e

-----------------------------------------------------------------------------
(* The invariant.                                                          *)

\* A handler about to answer has taken away what it says, on disk too.
Taken(r) ==
    /\ \A c \in TakenAway(r) \ BootCreds :
          store.creds[c] = NoOne /\ disk.creds[c] = NoOne
    /\ call[r].kind = "delete" =>
          \/ call[r].space \in raced
          \/ Gone(store, call[r].space) /\ Gone(disk, call[r].space)

\* A request: who holds the lock, and what was let in before the removal of its
\* credential or userspace is known to race with it.
InHand(r) ==
    /\ pc[r] # "idle" => call[r] \in Calls
    /\ who[r] = NoOne <=> pc[r] \in {"idle", "lookup", "resolve"}
    /\ pc[r] = "commit" =>
          lock = r /\ clone \in Store /\ Sound(clone, of, Removed, Left)
    /\ pc[r] = "invalidate" => lock = r /\ Taken(r)
    /\ r \in late => pc[r] # "idle" /\ call[r].cred \in revoked
    /\ (who[r] # NoOne /\ (r \in late \/ pc[r] = "remember")) =>
          call[r].cred \notin Removed \ raced
    /\ who[r] # NoOne => who[r].space \notin Left

LocalTypes ==
    /\ pc \in [Reqs -> {"idle", "lookup", "resolve", "remember", "act",
                        "save", "execute", "commit", "invalidate"}]
    /\ call \in [Reqs -> Calls \cup {NoCall}]
    /\ who \in [Reqs -> Principal \cup {NoOne}]
    /\ key \in [Reqs -> NewKeys \cup {NoOne}]
    /\ late \subseteq Reqs

CacheOK ==
    /\ cache \in [Creds -> [p: Principal, fresh: BOOLEAN] \cup {NoEntry}]
    /\ IsFiniteSet(Cached)
    /\ MaxEntries > 0 => Cardinality(Cached) <= MaxEntries

Trusted ==
    \A c \in Creds : cache[c] # NoEntry =>
        c \notin Removed \ raced /\ cache[c].p.space \notin Left

StoresOK ==
    /\ store \in Store /\ disk \in Store
    /\ Sound(store, of, Removed, Left) /\ Sound(disk, of, Removed, Left)
    /\ lock \in Reqs \cup {Free} /\ clone \in Store \cup {NoStore}
    /\ events \in 0..MaxEvents

HistoryOK ==
    /\ of \in [Creds -> Spaces \cup {NoSpace}]
    /\ told \subseteq Creds /\ revoked \subseteq Creds /\ deleted \subseteq Spaces
    /\ raced \subseteq Creds \cup Spaces
    /\ \A c \in Removed : of[c] # NoSpace

\* What the cleaner has listed and not looked at yet.
SweepOK == sweep \subseteq TxIDs \X Spaces /\ \A t \in sweep : t[2] \notin Left

AccountsInv ==
    /\ LocalTypes /\ CacheOK /\ Trusted /\ StoresOK /\ SweepOK /\ HistoryOK
    /\ \A r \in Reqs : InHand(r)

\* What a step of one request leaves the others.
OthersSame(r) ==
    \A q \in Reqs \ {r} :
        /\ UNCHANGED <<pc[q], call[q], who[q], key[q]>>
        /\ q \in late' <=> q \in late

-----------------------------------------------------------------------------
(* Facts about requests.                                                   *)

LEMMA CallFields ==
  ASSUME NEW c \in Calls
  PROVE  c.cred \in Creds /\ c.space \in Spaces /\ c.tx_id \in TxIDs
  BY CallsAssumption

LEMMA ReturnHand ==
  ASSUME AccountsInv, NEW r \in Reqs, Return(r)
  PROVE  InHand(r)' /\ LocalTypes' /\ OthersSame(r) /\ pc'[r] = "idle"
<1>1. /\ pc' = [pc EXCEPT ![r] = "idle"] /\ call' = [call EXCEPT ![r] = NoCall]
      /\ who' = [who EXCEPT ![r] = NoOne] /\ key' = [key EXCEPT ![r] = NoOne]
      /\ late' = late \ {r}
  BY DEF Return, GoTo
<1>2. /\ pc'[r] = "idle" /\ who'[r] = NoOne /\ r \notin late'
      /\ LocalTypes' /\ OthersSame(r)
  BY <1>1 DEF AccountsInv, LocalTypes, OthersSame
<1>3. QED
  BY <1>2 DEF InHand

LEMMA LetInHand ==
  ASSUME AccountsInv, NEW r \in Reqs, NEW p \in Principal,
         NEW next \in {"remember", "act"}, LetIn(r, p, next),
         pc[r] \in {"lookup", "resolve", "remember"},
         p.space \notin Left, call[r].cred \notin Removed \ raced,
         UNCHANGED <<revoked, deleted, raced>>
  PROVE  InHand(r)' /\ LocalTypes' /\ OthersSame(r)
<1>1. CASE Return(r)
  BY <1>1, ReturnHand
<1>2. CASE ~Return(r)
  <2>1. /\ pc' = [pc EXCEPT ![r] = next] /\ who' = [who EXCEPT ![r] = p]
        /\ UNCHANGED <<call, key, late>>
    BY <1>2 DEF LetIn, GoTo
  <2>2. /\ pc'[r] = next /\ who'[r] = p /\ call'[r] = call[r]
        /\ LocalTypes' /\ OthersSame(r)
    BY <2>1 DEF AccountsInv, LocalTypes, OthersSame
  <2>3. Removed' = Removed /\ Left' = Left /\ p # NoOne
    BY NobodyAssumption DEF Removed, Left
  <2>4. InHand(r)
    BY DEF AccountsInv
  <2>5. QED
    BY <2>1, <2>2, <2>3, <2>4 DEF InHand
<1>3. QED
  BY <1>1, <1>2

\* What another request's step must leave alone for this one.
LEMMA OthersKeep ==
  ASSUME AccountsInv, NEW q \in Reqs,
         UNCHANGED <<pc[q], call[q], who[q], key[q]>>, q \in late' <=> q \in late,
         revoked' = revoked, raced \subseteq raced', Left' \subseteq Left,
         pc[q] = "commit" => UNCHANGED <<lock, clone, of>>,
         pc[q] = "invalidate" => UNCHANGED lock /\ Taken(q)'
  PROVE  InHand(q)'
<1>1. InHand(q) /\ Removed' = Removed
  BY DEF AccountsInv, Removed
<1>2. pc[q] = "commit" => Sound(clone, of, Removed, Left')
  BY <1>1, SoundLess DEF InHand
<1>3. QED
  BY <1>1, <1>2 DEF InHand

\* No one else holds the lock.
LEMMA Alone ==
  ASSUME AccountsInv, NEW q \in Reqs, NEW r, lock = Free \/ (lock = r /\ q # r)
  PROVE  pc[q] \notin {"commit", "invalidate"}
  BY NobodyAssumption DEF AccountsInv, InHand

LEMMA LessSweep ==
  ASSUME AccountsInv, sweep' \subseteq sweep, Left' \subseteq Left
  PROVE  SweepOK'
  BY DEF AccountsInv, SweepOK

\* A step that changes nothing but the request itself and the cache.
LEMMA QuietKeeps ==
  ASSUME AccountsInv, NEW r \in Reqs, OthersSame(r), LocalTypes', InHand(r)',
         CacheOK', Trusted', events' \in 0..MaxEvents,
         UNCHANGED <<store, disk, lock, clone, sweep, of, told, revoked, deleted, raced>>
  PROVE  AccountsInv'
<1>1. Removed' = Removed /\ Left' = Left
  BY DEF Removed, Left
<1>2. ASSUME NEW q \in Reqs \ {r} PROVE InHand(q)'
  <2>1. UNCHANGED <<pc[q], call[q], who[q], key[q]>> /\ (q \in late' <=> q \in late)
    BY DEF OthersSame
  <2>2. pc[q] = "invalidate" => Taken(q)'
    <3>1. Taken(q)' = Taken(q)
      BY <2>1 DEF Taken, TakenAway
    <3>2. QED
      BY <3>1 DEF AccountsInv, InHand
  <2>3. QED
    BY <1>1, <2>1, <2>2, OthersKeep
<1>3. StoresOK' /\ SweepOK' /\ HistoryOK'
  BY <1>1, LessSweep DEF AccountsInv, StoresOK, HistoryOK
<1>4. QED
  BY <1>2, <1>3 DEF AccountsInv

LEMMA SameCache ==
  ASSUME AccountsInv, cache' = cache
  PROVE  CacheOK'
<1>1. Cached' = Cached
  BY DEF Cached
<1>2. QED
  BY <1>1 DEF AccountsInv, CacheOK

\* Fewer entries.
LEMMA LessCache ==
  ASSUME AccountsInv, Cached' \subseteq Cached,
         cache' \in [Creds -> [p: Principal, fresh: BOOLEAN] \cup {NoEntry}]
  PROVE  CacheOK'
<1>1. IsFiniteSet(Cached) /\ (MaxEntries > 0 => Cardinality(Cached) <= MaxEntries)
  BY DEF AccountsInv, CacheOK
<1>2. /\ IsFiniteSet(Cached') /\ Cardinality(Cached') <= Cardinality(Cached)
      /\ Cardinality(Cached') \in Nat /\ Cardinality(Cached) \in Nat
  BY <1>1, FS_Subset, FS_CardinalityType
<1>3. MaxEntries > 0 => Cardinality(Cached') <= MaxEntries
  BY <1>1, <1>2, BoundsAssumption
<1>4. QED
  BY <1>2, <1>3 DEF CacheOK

-----------------------------------------------------------------------------
(* Being let in.                                                           *)

LEMMA StartKeeps ==
  ASSUME AccountsInv, NEW r \in Reqs, NEW c \in Calls, Start(r, c)
  PROVE  AccountsInv'
<1>1. /\ pc[r] = "idle" /\ events < MaxEvents /\ events' = events + 1
      /\ pc' = [pc EXCEPT ![r] = "lookup"] /\ call' = [call EXCEPT ![r] = c]
      /\ late' = IF c.cred \in revoked THEN late \cup {r} ELSE late
      /\ UNCHANGED <<who, key>>
      /\ UNCHANGED <<store, disk, cache, lock, clone, sweep, of, told, revoked, deleted, raced>>
  BY DEF Start
<1>2. /\ pc'[r] = "lookup" /\ call'[r] = c /\ LocalTypes' /\ OthersSame(r)
  BY <1>1 DEF AccountsInv, LocalTypes, OthersSame
<1>3. who'[r] = NoOne /\ r \notin late /\ Removed' = Removed /\ Left' = Left
  BY <1>1 DEF AccountsInv, InHand, Removed, Left
<1>4. InHand(r)'
  BY <1>1, <1>2, <1>3 DEF InHand
<1>5. CacheOK' /\ Trusted'
  BY <1>1, <1>3, SameCache DEF AccountsInv, Trusted
<1>6. events' \in 0..MaxEvents
  BY <1>1, BoundsAssumption DEF AccountsInv, StoresOK
<1>7. QED
  BY <1>1, <1>2, <1>4, <1>5, <1>6, QuietKeeps

\* A hit: the entry is for nobody removed.
LEMMA LookUpKeeps ==
  ASSUME AccountsInv, NEW r \in Reqs, LookUp(r)
  PROVE  AccountsInv'
<1> DEFINE c == call[r].cred
<1>0. /\ pc[r] = "lookup"
      /\ UNCHANGED <<store, disk, lock, clone, sweep, events, of, told, revoked, deleted, raced>>
  BY DEF LookUp
<1>1. c \in Creds /\ Removed' = Removed /\ Left' = Left /\ InHand(r)
      /\ events' \in 0..MaxEvents
  BY <1>0, CallFields DEF AccountsInv, InHand, Removed, Left, StoresOK
<1>2. CASE Hit(c)
  <2>1. LetIn(r, cache[c].p, "act") /\ UNCHANGED cache
    BY <1>2 DEF LookUp
  <2>2. /\ cache[c] # NoEntry /\ cache[c].p \in Principal
        /\ cache[c].p.space \notin Left /\ c \notin Removed \ raced
    BY <1>1, <1>2 DEF Hit, Cached, AccountsInv, CacheOK, Trusted
  <2> HIDE DEF c
  <2>3. InHand(r)' /\ LocalTypes' /\ OthersSame(r)
    BY <1>0, <2>1, <2>2, LetInHand DEF c
  <2>4. CacheOK' /\ Trusted'
    BY <1>0, <1>1, <2>1, SameCache DEF AccountsInv, Trusted
  <2>5. QED
    BY <1>0, <1>1, <2>3, <2>4, QuietKeeps
<1>3. CASE ~Hit(c)
  <2>1. /\ pc' = [pc EXCEPT ![r] = "resolve"]
        /\ cache' = [cache EXCEPT ![c] = NoEntry]
        /\ UNCHANGED <<call, who, key, late>>
    BY <1>3 DEF LookUp, GoTo
  <2> HIDE DEF c
  <2>2. pc'[r] = "resolve" /\ LocalTypes' /\ OthersSame(r)
    BY <2>1 DEF AccountsInv, LocalTypes, OthersSame
  <2>3. InHand(r)'
    BY <1>0, <1>1, <2>1, <2>2 DEF InHand
  <2>4. /\ cache' \in [Creds -> [p: Principal, fresh: BOOLEAN] \cup {NoEntry}]
        /\ \A x \in Creds : cache'[x] # NoEntry => cache'[x] = cache[x]
    BY <1>1, <2>1 DEF AccountsInv, CacheOK
  <2>5. Cached' \subseteq Cached
    BY <2>4 DEF Cached
  <2>6. CacheOK' /\ Trusted'
    BY <1>0, <1>1, <2>4, <2>5, LessCache DEF AccountsInv, Trusted
  <2>7. QED
    BY <1>0, <1>1, <2>2, <2>3, <2>6, QuietKeeps
<1>4. QED
  BY <1>2, <1>3

\* What the store holds for a credential, it holds for none that was removed.
LEMMA InStore ==
  ASSUME NEW d \in Store, NEW made, NEW rem, NEW gone, Sound(d, made, rem, gone),
         NEW c \in Creds, d.creds[c] # NoOne
  PROVE  d.creds[c] \in Principal /\ d.creds[c].space \notin gone /\ c \notin rem
<1>1. d.creds[c] \in Principal /\ c \notin rem
  BY StoreFields DEF Sound
<1>2. c \in CredsOf(d, d.creds[c].space)
  BY DEF CredsOf
<1>3. QED
  BY <1>1, <1>2 DEF Sound, Gone, Exists

LEMMA ResolveKeeps ==
  ASSUME AccountsInv, NEW r \in Reqs, Resolve(r)
  PROVE  AccountsInv'
<1> DEFINE c == call[r].cred
           p == store.creds[c]
<1>0. /\ pc[r] = "resolve"
      /\ UNCHANGED <<store, disk, cache, lock, clone, sweep, events, of, told, revoked,
                     deleted, raced>>
      /\ IF p = NoOne THEN Return(r) ELSE LetIn(r, p, "remember")
  BY DEF Resolve
<1>1. c \in Creds /\ Removed' = Removed /\ Left' = Left
      /\ events' \in 0..MaxEvents
  BY <1>0, CallFields DEF AccountsInv, InHand, Removed, Left, StoresOK
<1>2. CacheOK' /\ Trusted'
  BY <1>0, <1>1, SameCache DEF AccountsInv, Trusted
<1>3. p # NoOne => p \in Principal /\ p.space \notin Left /\ c \notin Removed
  BY <1>1, InStore DEF AccountsInv, StoresOK
<1> HIDE DEF p
<1>4. CASE p = NoOne
  <2>1. InHand(r)' /\ LocalTypes' /\ OthersSame(r)
    BY <1>0, <1>4, ReturnHand
  <2>2. QED
    BY <1>0, <1>1, <1>2, <2>1, QuietKeeps
<1>5. CASE p # NoOne
  <2>1. InHand(r)' /\ LocalTypes' /\ OthersSame(r)
    BY <1>0, <1>3, <1>5, LetInHand
  <2>2. QED
    BY <1>0, <1>1, <1>2, <2>1, QuietKeeps
<1>6. QED
  BY <1>4, <1>5

\* A full cache loses an entry first, so that it never outgrows its limit.
LEMMA RememberKeeps ==
  ASSUME AccountsInv, NEW r \in Reqs, Remember(r)
  PROVE  AccountsInv'
<1> DEFINE c == call[r].cred
           entry == [p |-> who[r], fresh |-> TRUE]
<1>0. /\ pc[r] = "remember" /\ LetIn(r, who[r], "act")
      /\ UNCHANGED <<store, disk, lock, clone, sweep, events, of, told, revoked, deleted, raced>>
      /\ IF Full
         THEN \E old \in Cached :
                 cache' = [[cache EXCEPT ![old] = NoEntry] EXCEPT ![c] = entry]
         ELSE cache' = [cache EXCEPT ![c] = entry]
  BY DEF Remember
<1>1. /\ c \in Creds /\ Removed' = Removed /\ Left' = Left
      /\ events' \in 0..MaxEvents
      /\ who[r] # NoOne /\ who[r].space \notin Left /\ c \notin Removed \ raced
  BY <1>0, CallFields DEF AccountsInv, InHand, Removed, Left, StoresOK
<1>2. who[r] \in Principal
  BY <1>1 DEF AccountsInv, LocalTypes
<1>3. /\ entry \in [p: Principal, fresh: BOOLEAN] /\ entry.p = who[r]
  BY <1>2
<1> HIDE DEF c, entry
<1>4. InHand(r)' /\ LocalTypes' /\ OthersSame(r)
  BY <1>0, <1>1, <1>2, LetInHand DEF c
<1>5. /\ cache \in [Creds -> [p: Principal, fresh: BOOLEAN] \cup {NoEntry}]
      /\ IsFiniteSet(Cached) /\ Cardinality(Cached) \in Nat
      /\ MaxEntries > 0 => Cardinality(Cached) <= MaxEntries
  BY FS_CardinalityType DEF AccountsInv, CacheOK
<1>6. /\ cache' \in [Creds -> [p: Principal, fresh: BOOLEAN] \cup {NoEntry}]
      /\ \A x \in Creds : x # c => cache'[x] \in {NoEntry, cache[x]}
      /\ cache'[c] = entry
  BY <1>0, <1>1, <1>3, <1>5
<1>7. Trusted'
  BY <1>0, <1>1, <1>3, <1>6 DEF AccountsInv, Trusted
<1>8. CacheOK'
  <2>1. PICK rest \in SUBSET Cached :
          /\ Cached' \subseteq rest \cup {c}
          /\ MaxEntries > 0 => Cardinality(rest) < MaxEntries
    <3>1. CASE Full
      <4>1. PICK old \in Cached :
              cache' = [[cache EXCEPT ![old] = NoEntry] EXCEPT ![c] = entry]
        BY <1>0, <3>1
      <4>2. Cached' \subseteq (Cached \ {old}) \cup {c}
        BY <1>1, <1>5, <4>1 DEF Cached
      <4>3. Cardinality(Cached \ {old}) = Cardinality(Cached) - 1
        BY <1>5, FS_RemoveElement
      <4>4. MaxEntries > 0 => Cardinality(Cached \ {old}) < MaxEntries
        BY <1>5, <4>3, BoundsAssumption
      <4>5. QED
        BY <4>2, <4>4
    <3>2. CASE ~Full
      <4>1. Cached' \subseteq Cached \cup {c}
        BY <1>0, <1>1, <1>5, <3>2 DEF Cached
      <4>2. MaxEntries > 0 => Cardinality(Cached) < MaxEntries
        BY <1>5, <3>2, BoundsAssumption DEF Full
      <4>3. QED
        BY <4>1, <4>2
    <3>3. QED
      BY <3>1, <3>2
  <2>2. IsFiniteSet(rest) /\ Cardinality(rest) \in Nat
    BY <1>5, <2>1, FS_Subset, FS_CardinalityType
  <2>3. /\ IsFiniteSet(rest \cup {c})
        /\ Cardinality(rest \cup {c}) \in {Cardinality(rest), Cardinality(rest) + 1}
    BY <2>2, FS_AddElement
  <2>4. /\ IsFiniteSet(Cached') /\ Cardinality(Cached') \in Nat
        /\ Cardinality(Cached') <= Cardinality(rest \cup {c})
    BY <2>1, <2>3, FS_Subset, FS_CardinalityType
  <2>5. MaxEntries > 0 => Cardinality(Cached') <= MaxEntries
    BY <2>1, <2>2, <2>3, <2>4, BoundsAssumption
  <2>6. QED
    BY <1>6, <2>4, <2>5 DEF CacheOK
<1>9. QED
  BY <1>0, <1>1, <1>4, <1>7, <1>8, QuietKeeps

LEMMA ExpireKeeps ==
  ASSUME AccountsInv, NEW c \in Creds, Expire(c)
  PROVE  AccountsInv'
<1>0. /\ cache[c] # NoEntry
      /\ cache' = [cache EXCEPT ![c].fresh = FALSE]
      /\ UNCHANGED <<store, disk, lock, pc, call, who, key, clone, sweep, events>>
      /\ UNCHANGED <<of, told, revoked, late, deleted, raced>>
  BY DEF Expire, Hit, Cached, locals, history
<1>1. cache \in [Creds -> [p: Principal, fresh: BOOLEAN] \cup {NoEntry}]
  BY DEF AccountsInv, CacheOK
<1>2. /\ cache' \in [Creds -> [p: Principal, fresh: BOOLEAN] \cup {NoEntry}]
      /\ \A x \in Creds : cache'[x] # NoEntry =>
            cache[x] # NoEntry /\ cache'[x].p = cache[x].p
  BY <1>0, <1>1
<1>3. Cached' \subseteq Cached
  BY <1>2 DEF Cached
<1>4. Removed' = Removed /\ Left' = Left
  BY <1>0 DEF Removed, Left
<1>5. CacheOK' /\ Trusted'
  BY <1>0, <1>2, <1>3, <1>4, LessCache DEF AccountsInv, Trusted
<1>6. LocalTypes' /\ StoresOK' /\ SweepOK' /\ HistoryOK'
  BY <1>0, <1>4, LessSweep DEF AccountsInv, LocalTypes, StoresOK, HistoryOK
<1>7. ASSUME NEW q \in Reqs PROVE InHand(q)'
  <2>1. InHand(q)
    BY DEF AccountsInv
  <2>2. QED
    BY <1>0, <1>4, <2>1 DEF InHand, Taken, TakenAway
<1>8. QED
  BY <1>5, <1>6, <1>7 DEF AccountsInv

-----------------------------------------------------------------------------
(* What requests are for.                                                  *)

\* A write of a store that lacks what it must lack.
LEMMA ChangeKeeps ==
  ASSUME AccountsInv, LocalTypes', \A q \in Reqs : InHand(q)',
         NEW d \in Store, Change(d), Sound(d, of, Removed, Left'),
         deleted' \subseteq deleted, raced \subseteq raced',
         raced' \subseteq Creds \cup Spaces, sweep' \subseteq sweep,
         lock' \in Reqs \cup {Free}, clone' \in Store \cup {NoStore},
         UNCHANGED <<cache, events, of, told, revoked>>
  PROVE  AccountsInv'
<1>1. Removed' = Removed /\ Left' \subseteq Left
  BY DEF Removed, Left
<1>2. /\ store' = d /\ disk' \in {disk, d}
      /\ disk \in Store /\ Sound(disk, of, Removed, Left)
  BY DEF Change, AccountsInv, StoresOK
<1>3. Sound(disk, of, Removed, Left')
  BY <1>1, <1>2, SoundLess
<1>4. StoresOK'
  BY <1>1, <1>2, <1>3 DEF AccountsInv, StoresOK
<1>5. CacheOK' /\ Trusted'
  BY <1>1, SameCache DEF AccountsInv, Trusted
<1>6. HistoryOK'
  BY <1>1 DEF AccountsInv, HistoryOK
<1>7. SweepOK'
  BY <1>1, LessSweep
<1>8. QED
  BY <1>4, <1>5, <1>6, <1>7 DEF AccountsInv

LEMMA PutKeeps ==
  ASSUME AccountsInv, NEW r \in Reqs, Put(r)
  PROVE  AccountsInv'
<1> DEFINE s == Target(r)
           d == Written(store, s)
<1>0. /\ pc[r] = "act" /\ lock = Free /\ Change(d) /\ Return(r)
      /\ deleted' = IF call[r].kind = "adminput" THEN deleted \ {s} ELSE deleted
      /\ UNCHANGED <<cache, lock, clone, sweep, events, of, told, revoked, raced>>
  BY DEF Put, At
<1>1. /\ InHand(r) /\ who[r] \in Principal /\ who[r].space \notin Left
      /\ call[r].space \in Spaces /\ store \in Store
      /\ Sound(store, of, Removed, Left)
  BY <1>0, CallFields DEF AccountsInv, InHand, StoresOK, LocalTypes
<1>2. s \in Spaces /\ s \notin Left' /\ Left' \subseteq Left
  BY <1>0, <1>1 DEF Target, Principal, Left
<1> HIDE DEF s
<1>3. d \in Store /\ Sound(d, of, Removed, Left')
  <2>1. Sound(store, of, Removed, Left')
    BY <1>1, <1>2, SoundLess
  <2>2. QED
    BY <1>1, <1>2, <2>1, WrittenSound
<1> HIDE DEF d
<1>4. InHand(r)' /\ LocalTypes' /\ OthersSame(r)
  BY <1>0, ReturnHand
<1>5. ASSUME NEW q \in Reqs \ {r} PROVE InHand(q)'
  BY <1>0, <1>2, <1>4, Alone, OthersKeep DEF OthersSame
<1>6. lock \in Reqs \cup {Free} /\ clone \in Store \cup {NoStore}
      /\ raced \subseteq Creds \cup Spaces
  BY DEF AccountsInv, StoresOK, HistoryOK
<1>7. \A q \in Reqs : InHand(q)'
  BY <1>4, <1>5
<1>8. QED
  BY <1>0, <1>3, <1>4, <1>6, <1>7, ChangeKeeps

\* The clone lacks what the store lacks: nothing is removed while it is worked on.
LEMMA BeginAtomicKeeps ==
  ASSUME AccountsInv, NEW r \in Reqs, BeginAtomic(r)
  PROVE  AccountsInv'
<1>0. /\ pc[r] \in {"act", "execute"} /\ lock = Free /\ lock' = r /\ clone' = store
      /\ pc' = [pc EXCEPT ![r] = "commit"]
      /\ UNCHANGED <<store, disk, cache, call, who, key, sweep, events>>
      /\ UNCHANGED <<of, told, revoked, late, deleted, raced>>
  BY DEF BeginAtomic, At, GoTo, history
<1>1. Removed' = Removed /\ Left' = Left
  BY <1>0 DEF Removed, Left
<1>2. LocalTypes' /\ OthersSame(r) /\ pc'[r] = "commit"
  BY <1>0 DEF AccountsInv, LocalTypes, OthersSame
<1>3. InHand(r)'
  <2>1. InHand(r) /\ store \in Store /\ Sound(store, of, Removed, Left)
    BY DEF AccountsInv, StoresOK
  <2>2. QED
    BY <1>0, <1>1, <1>2, <2>1 DEF InHand
<1>4. ASSUME NEW q \in Reqs \ {r} PROVE InHand(q)'
  BY <1>0, <1>1, <1>2, Alone, OthersKeep DEF OthersSame
<1>5. CacheOK' /\ Trusted'
  BY <1>0, <1>1, SameCache DEF AccountsInv, Trusted
<1>6. StoresOK' /\ SweepOK' /\ HistoryOK'
  BY <1>0, <1>1, LessSweep DEF AccountsInv, StoresOK, HistoryOK
<1>7. QED
  BY <1>2, <1>3, <1>4, <1>5, <1>6 DEF AccountsInv

\* Nobody else holds the lock when the store is replaced.
LEMMA EndAtomicKeeps ==
  ASSUME AccountsInv, NEW r \in Reqs, EndAtomic(r)
  PROVE  AccountsInv'
<1> DEFINE s == who[r].space
           id == call[r].tx_id
<1>0. /\ pc[r] = "commit" /\ Return(r)
      /\ lock' = Free /\ clone' = NoStore
      /\ UNCHANGED <<cache, sweep, events, of, told, revoked, deleted, raced>>
  BY DEF EndAtomic
<1>1. /\ lock = r /\ clone \in Store /\ Sound(clone, of, Removed, Left)
      /\ store \in Store /\ Sound(store, of, Removed, Left)
      /\ s \in Spaces /\ s \notin Left /\ id \in TxIDs
  BY <1>0, CallFields DEF AccountsInv, InHand, LocalTypes, StoresOK, Principal
<1>2. Left' = Left
  BY <1>0 DEF Left
<1>3. \A d \in Outcomes(r) : d \in Store /\ Sound(d, of, Removed, Left)
  <2> HIDE DEF s, id
  <2>1. Written(clone, s) \in Store /\ Sound(Written(clone, s), of, Removed, Left)
    BY <1>1, WrittenSound
  <2>2. \A d \in {Written(clone, s), clone, store} :
           Saved(d, id, s) \in Store /\ Sound(Saved(d, id, s), of, Removed, Left)
    BY <1>1, <2>1, SavedSound
  <2>3. \A d \in Outcomes(r) :
           \/ d = Written(clone, s)
           \/ \E e \in {Written(clone, s), clone, store} : d = Saved(e, id, s)
    BY DEF Outcomes, s, id
  <2>4. QED
    BY <2>1, <2>2, <2>3
<1>4. PICK d \in Outcomes(r) : Change(d)
  BY DEF EndAtomic
<1>5. InHand(r)' /\ LocalTypes' /\ OthersSame(r)
  BY <1>0, ReturnHand
<1>6. ASSUME NEW q \in Reqs \ {r} PROVE InHand(q)'
  BY <1>0, <1>1, <1>2, <1>5, Alone, OthersKeep DEF OthersSame
<1>7. raced \subseteq Creds \cup Spaces
  BY DEF AccountsInv, HistoryOK
<1>8. d \in Store /\ Sound(d, of, Removed, Left')
  BY <1>2, <1>3
<1>9. \A q \in Reqs : InHand(q)'
  BY <1>5, <1>6
<1>10. QED
  BY <1>0, <1>4, <1>5, <1>7, <1>8, <1>9, ChangeKeeps

LEMMA GetTxKeeps ==
  ASSUME AccountsInv, NEW r \in Reqs, GetTx(r)
  PROVE  AccountsInv'
<1>0. /\ pc[r] = "act"
      /\ \/ \E next \in {"save", "execute"} :
               GoTo(r, next) /\ UNCHANGED <<call, who, key, late>>
         \/ Return(r)
      /\ UNCHANGED <<store, disk, cache, lock, clone, sweep, events, of, told, revoked,
                     deleted, raced>>
  BY DEF GetTx, At
<1>1. Removed' = Removed /\ Left' = Left /\ events' \in 0..MaxEvents
  BY <1>0 DEF Removed, Left, AccountsInv, StoresOK
<1>2. CacheOK' /\ Trusted'
  BY <1>0, <1>1, SameCache DEF AccountsInv, Trusted
<1>3. InHand(r)' /\ LocalTypes' /\ OthersSame(r)
  <2>1. CASE Return(r)
    BY <2>1, ReturnHand
  <2>2. ASSUME NEW next \in {"save", "execute"},
               GoTo(r, next), UNCHANGED <<call, who, key, late>>
        PROVE  InHand(r)' /\ LocalTypes' /\ OthersSame(r)
    <3>1. LocalTypes' /\ OthersSame(r) /\ pc'[r] = next
      BY <2>2 DEF AccountsInv, LocalTypes, OthersSame, GoTo
    <3>2. InHand(r)
      BY DEF AccountsInv
    <3>3. QED
      BY <1>0, <1>1, <2>2, <3>1, <3>2 DEF InHand
  <2>3. QED
    BY <1>0, <2>1, <2>2
<1>4. QED
  BY <1>0, <1>1, <1>2, <1>3, QuietKeeps

\* The save of a copy looks at no lock: what it puts back into a userspace that is
\* just then being deleted is known to race.
LEMMA SaveCopyHand ==
  ASSUME AccountsInv, NEW id \in TxIDs, NEW s \in Spaces, s \notin Left,
         SaveCopy(id, s), UNCHANGED <<lock, clone, of, revoked, deleted>>,
         NEW q \in Reqs,
         UNCHANGED <<pc[q], call[q], who[q], key[q]>>, q \in late' <=> q \in late
  PROVE  InHand(q)'
<1> DEFINE d == Saved(store, id, s)
<1>0. /\ store' = d /\ disk' \in {disk, d}
      /\ raced' = raced \cup ({s} \cap BeingAnswered)
  BY DEF SaveCopy, Change
<1>1. store \in Store /\ Sound(store, of, Removed, Left)
  BY DEF AccountsInv, StoresOK
<1>2. Left' \subseteq Left
  BY <1>0 DEF Left
<1>3. /\ d.creds = store.creds /\ d.spaces = store.spaces
      /\ d.txs = [store.txs EXCEPT ![id] = s]
  BY <1>1, SavedSound
<1> HIDE DEF d
<1>4. ASSUME pc[q] = "invalidate" PROVE Taken(q)'
  <2>1. Taken(q) /\ TakenAway(q)' = TakenAway(q)
    BY <1>4 DEF AccountsInv, InHand, TakenAway
  <2>2. \A c \in TakenAway(q) \ BootCreds :
           store'.creds[c] = NoOne /\ disk'.creds[c] = NoOne
    BY <1>0, <1>3, <2>1 DEF Taken
  <2>3. ASSUME call[q].kind = "delete", call[q].space \notin raced'
        PROVE  Gone(store', call[q].space) /\ Gone(disk', call[q].space)
    <3>1. call[q].space \in BeingAnswered
      BY <1>4 DEF BeingAnswered
    <3>2. call[q].space # s /\ call[q].space \notin raced
      BY <1>0, <2>3, <3>1
    <3>3. Gone(store, call[q].space) /\ Gone(disk, call[q].space)
      BY <2>1, <2>3, <3>2 DEF Taken
    <3>4. Gone(d, call[q].space)
      BY <1>1, <1>3, <3>2, <3>3, StoreFields DEF Gone, Exists, CredsOf
    <3>5. QED
      BY <1>0, <3>3, <3>4
  <2>4. QED
    BY <2>1, <2>2, <2>3 DEF Taken
<1>5. QED
  BY <1>0, <1>2, <1>4, OthersKeep

\* What is saved is nobody's who must be gone.
LEMMA SaveCopySound ==
  ASSUME AccountsInv, NEW id \in TxIDs, NEW s \in Spaces, s \notin Left,
         SaveCopy(id, s), deleted' = deleted
  PROVE  /\ Change(Saved(store, id, s)) /\ Saved(store, id, s) \in Store
         /\ Sound(Saved(store, id, s), of, Removed, Left')
         /\ raced \subseteq raced' /\ raced' \subseteq Creds \cup Spaces
<1>1. /\ Change(Saved(store, id, s))
      /\ raced' = raced \cup ({s} \cap BeingAnswered)
  BY DEF SaveCopy
<1>2. Left' \subseteq Left
  BY <1>1 DEF Left
<1>3. Saved(store, id, s) \in Store /\ Sound(Saved(store, id, s), of, Removed, Left)
  BY SavedSound DEF AccountsInv, StoresOK
<1>4. raced \subseteq Creds \cup Spaces
  BY DEF AccountsInv, HistoryOK
<1>5. QED
  BY <1>1, <1>2, <1>3, <1>4, SoundLess

LEMMA SaveTxKeeps ==
  ASSUME AccountsInv, NEW r \in Reqs, SaveTx(r)
  PROVE  AccountsInv'
<1> DEFINE s == who[r].space
           id == call[r].tx_id
<1>0. /\ pc[r] = "save" /\ SaveCopy(id, s) /\ Return(r)
      /\ UNCHANGED <<cache, lock, clone, sweep, events, of, told, revoked, deleted>>
  BY DEF SaveTx
<1>1. s \in Spaces /\ s \notin Left /\ id \in TxIDs
  BY <1>0, CallFields DEF AccountsInv, InHand, LocalTypes, Principal
<1> HIDE DEF s, id
<1>2. InHand(r)' /\ LocalTypes' /\ OthersSame(r)
  BY <1>0, ReturnHand
<1>3. ASSUME NEW q \in Reqs \ {r} PROVE InHand(q)'
  <2>1. UNCHANGED <<pc[q], call[q], who[q], key[q]>> /\ (q \in late' <=> q \in late)
    BY <1>2 DEF OthersSame
  <2>2. QED
    BY <1>0, <1>1, <2>1, SaveCopyHand
<1>4. \A q \in Reqs : InHand(q)'
  BY <1>2, <1>3
<1>5. lock \in Reqs \cup {Free} /\ clone \in Store \cup {NoStore}
  BY DEF AccountsInv, StoresOK
<1> DEFINE d == Saved(store, id, s)
<1>6. /\ Change(d) /\ d \in Store /\ Sound(d, of, Removed, Left')
      /\ raced \subseteq raced' /\ raced' \subseteq Creds \cup Spaces
  BY <1>0, <1>1, SaveCopySound
<1> HIDE DEF d
<1>7. QED
  BY <1>0, <1>2, <1>4, <1>5, <1>6, ChangeKeeps

-----------------------------------------------------------------------------
(* The cleaner.                                                            *)

\* What the store holds is nobody's who must be gone.
LEMMA ListDueKeeps ==
  ASSUME AccountsInv, ListDue
  PROVE  AccountsInv'
<1>0. /\ sweep' = {<<id, store.txs[id]>> : id \in {i \in TxIDs : store.txs[i] # NoSpace}}
      /\ events < MaxEvents /\ events' = events + 1
      /\ UNCHANGED <<store, disk, cache, lock, pc, call, who, key, clone>>
      /\ UNCHANGED <<of, told, revoked, late, deleted, raced>>
  BY DEF ListDue, locals, history
<1>1. Removed' = Removed /\ Left' = Left
  BY <1>0 DEF Removed, Left
<1>2. /\ store \in Store /\ store.txs \in [TxIDs -> Spaces \cup {NoSpace}]
      /\ \A g \in Left, id \in TxIDs : store.txs[id] # g
  BY StoreFields DEF AccountsInv, StoresOK, Sound, Gone
<1>3. SweepOK'
  BY <1>0, <1>1, <1>2 DEF SweepOK
<1>4. events' \in 0..MaxEvents
  BY <1>0, BoundsAssumption DEF AccountsInv, StoresOK
<1>5. LocalTypes' /\ CacheOK' /\ Trusted' /\ StoresOK' /\ HistoryOK'
  BY <1>0, <1>1, <1>4, SameCache DEF AccountsInv, LocalTypes, Trusted, StoresOK, HistoryOK
<1>6. ASSUME NEW q \in Reqs PROVE InHand(q)'
  <2>1. InHand(q)
    BY DEF AccountsInv
  <2>2. QED
    BY <1>0, <1>1, <2>1 DEF InHand, Taken, TakenAway
<1>7. QED
  BY <1>3, <1>5, <1>6 DEF AccountsInv

LEMMA SweepOneKeeps ==
  ASSUME AccountsInv, NEW t \in sweep, SweepOne(t)
  PROVE  AccountsInv'
<1> DEFINE id == t[1]
           s == t[2]
<1>0. /\ sweep' \subseteq sweep
      /\ SaveCopy(id, s) \/ UNCHANGED <<store, disk, raced>>
      /\ UNCHANGED <<cache, lock, pc, call, who, key, clone, events>>
      /\ UNCHANGED <<of, told, revoked, late, deleted>>
  BY DEF SweepOne, locals
<1>1. s \in Spaces /\ s \notin Left /\ id \in TxIDs
  BY DEF AccountsInv, SweepOK
<1> HIDE DEF s, id
<1>2. LocalTypes'
  BY <1>0 DEF AccountsInv, LocalTypes
<1>3. CASE SaveCopy(id, s)
  <2>1. ASSUME NEW q \in Reqs PROVE InHand(q)'
    BY <1>0, <1>1, <1>3, SaveCopyHand
  <2>2. lock \in Reqs \cup {Free} /\ clone \in Store \cup {NoStore}
    BY DEF AccountsInv, StoresOK
  <2> DEFINE d == Saved(store, id, s)
  <2>3. /\ Change(d) /\ d \in Store /\ Sound(d, of, Removed, Left')
        /\ raced \subseteq raced' /\ raced' \subseteq Creds \cup Spaces
    BY <1>0, <1>1, <1>3, SaveCopySound
  <2> HIDE DEF d
  <2>4. QED
    BY <1>0, <1>2, <2>1, <2>2, <2>3, ChangeKeeps
<1>4. CASE UNCHANGED <<store, disk, raced>>
  <2>1. Removed' = Removed /\ Left' = Left
    BY <1>0, <1>4 DEF Removed, Left
  <2>2. CacheOK' /\ Trusted' /\ StoresOK' /\ SweepOK' /\ HistoryOK'
    BY <1>0, <1>4, <2>1, SameCache, LessSweep
       DEF AccountsInv, Trusted, StoresOK, HistoryOK
  <2>3. ASSUME NEW q \in Reqs PROVE InHand(q)'
    <3>1. InHand(q)
      BY DEF AccountsInv
    <3>2. QED
      BY <1>0, <1>4, <2>1, <3>1 DEF InHand, Taken, TakenAway
  <2>4. QED
    BY <1>2, <2>2, <2>3 DEF AccountsInv
<1>5. QED
  BY <1>0, <1>3, <1>4

-----------------------------------------------------------------------------
(* The handlers of the administration.                                     *)

LEMMA RefuseKeeps ==
  ASSUME AccountsInv, NEW r \in Reqs, RefuseOnly(r)
  PROVE  AccountsInv'
<1>0. /\ Return(r)
      /\ UNCHANGED <<store, disk, cache, lock, clone, sweep, events, of, told, revoked,
                     deleted, raced>>
  BY DEF RefuseOnly
<1>1. Removed' = Removed /\ Left' = Left /\ events' \in 0..MaxEvents
  BY <1>0 DEF Removed, Left, AccountsInv, StoresOK
<1>2. CacheOK' /\ Trusted'
  BY <1>0, <1>1, SameCache DEF AccountsInv, Trusted
<1>3. QED
  BY <1>0, <1>1, <1>2, ReturnHand, QuietKeeps

\* A handler has changed the store: if that was persisted, what it takes away is
\* gone from memory and disk, and it holds the lock until it has answered.
LEMMA ChangedKeeps ==
  ASSUME AccountsInv, NEW r \in Reqs, pc[r] = "act", lock = Free,
         NEW k \in NewKeys \cup {NoOne}, k # NoOne => of[k] = NoSpace,
         NEW d \in Store, Changed(r, d, k), deleted' \subseteq deleted,
         Sound(d, of', Removed, Left'),
         call[r].kind \in {"rotate", "delete"} =>
            \A c \in NewKeys \ {k} : of'[c] = call[r].space => d.creds[c] = NoOne,
         call[r].kind = "delete" => Gone(d, call[r].space) /\ k = NoOne
  PROVE  AccountsInv'
<1>0. /\ store' = d
      /\ of' = IF k = NoOne THEN of ELSE [of EXCEPT ![k] = call[r].space]
      /\ UNCHANGED <<cache, clone, sweep, events, told, revoked, raced>>
      /\ \/ /\ disk' = d /\ lock' = r
            /\ pc' = [pc EXCEPT ![r] = "invalidate"]
            /\ key' = [key EXCEPT ![r] = k]
            /\ UNCHANGED <<call, who, late>>
         \/ /\ disk' \in {disk, d} /\ Return(r) /\ UNCHANGED lock
  BY DEF Changed, GoTo
<1>1. /\ call[r] \in Calls /\ call[r].space \in Spaces /\ InHand(r)
      /\ disk \in Store /\ Sound(disk, of, Removed, Left)
      /\ of \in [Creds -> Spaces \cup {NoSpace}]
  BY CallFields DEF AccountsInv, InHand, StoresOK, HistoryOK
<1>2. Removed' = Removed /\ Left' \subseteq Left
  BY <1>0 DEF Removed, Left
<1>3. /\ of' \in [Creds -> Spaces \cup {NoSpace}]
      /\ \A c \in Creds : of[c] # NoSpace => of'[c] = of[c]
  BY <1>0, <1>1, CredsKinds
<1>4. Sound(disk, of', Removed, Left')
  <2>1. Sound(disk, of', Removed, Left)
    BY <1>0, <1>1, SoundMade
  <2>2. QED
    BY <1>2, <2>1, SoundLess
<1>5. StoresOK'
  <2>1. Sound(d, of', Removed', Left') /\ Sound(disk, of', Removed', Left')
    BY <1>2, <1>4
  <2>2. disk' \in {disk, d} /\ lock' \in {r, lock}
    BY <1>0
  <2>3. /\ disk' \in Store /\ Sound(disk', of', Removed', Left')
        /\ store' \in Store /\ Sound(store', of', Removed', Left')
    BY <1>0, <1>1, <2>1, <2>2
  <2>4. lock' \in Reqs \cup {Free} /\ clone' \in Store \cup {NoStore}
        /\ events' \in 0..MaxEvents
    BY <1>0, <2>2 DEF AccountsInv, StoresOK
  <2>5. QED
    BY <2>3, <2>4 DEF StoresOK
<1>6. CacheOK' /\ Trusted' /\ HistoryOK'
  <2>1. CacheOK' /\ Trusted'
    BY <1>0, <1>2, SameCache DEF AccountsInv, Trusted
  <2>2. \A c \in Removed : of'[c] # NoSpace
    BY <1>3 DEF AccountsInv, HistoryOK, Removed
  <2>3. HistoryOK'
    BY <1>0, <1>2, <1>3, <2>2 DEF AccountsInv, HistoryOK
  <2>4. QED
    BY <2>1, <2>3
<1>7. InHand(r)' /\ LocalTypes' /\ OthersSame(r)
  <2>1. CASE Return(r)
    BY <2>1, ReturnHand
  <2>2. CASE /\ disk' = d /\ lock' = r
             /\ pc' = [pc EXCEPT ![r] = "invalidate"]
             /\ key' = [key EXCEPT ![r] = k]
             /\ UNCHANGED <<call, who, late>>
    <3>1. LocalTypes' /\ OthersSame(r) /\ pc'[r] = "invalidate" /\ key'[r] = k
      BY <2>2 DEF AccountsInv, LocalTypes, OthersSame
    <3>2. \A c \in TakenAway(r)' \ BootCreds :
             /\ call[r].kind \in {"rotate", "delete"} /\ of'[c] = call[r].space
             /\ c \in NewKeys \ {k}
      BY <2>2, <3>1, CredsKinds, NobodyAssumption DEF TakenAway
    <3>3. Taken(r)'
      BY <1>0, <2>2, <3>2 DEF Taken
    <3>4. QED
      BY <1>1, <1>2, <2>2, <3>1, <3>3, <1>0 DEF InHand
  <2>3. QED
    BY <1>0, <2>1, <2>2
<1>8. ASSUME NEW q \in Reqs \ {r} PROVE InHand(q)'
  BY <1>0, <1>2, <1>7, Alone, OthersKeep DEF OthersSame
<1>9. SweepOK'
  BY <1>0, <1>2, LessSweep
<1>10. QED
  BY <1>5, <1>6, <1>7, <1>8, <1>9 DEF AccountsInv

\* What a handler that may change the store finds.
LEMMA HandlerFinds ==
  ASSUME AccountsInv, NEW r \in Reqs, NEW kind, At(r, kind), CanLock
  PROVE  /\ pc[r] = "act" /\ lock = Free /\ call[r].kind = kind
         /\ call[r].space \in Spaces
         /\ store \in Store /\ Sound(store, of, Removed, Left)
         /\ of \in [Creds -> Spaces \cup {NoSpace}]
         /\ Removed \subseteq Creds /\ Left \subseteq Spaces
         /\ \A k \in NewKeys : of[k] = NoSpace => k \notin Removed
  BY CallFields DEF AccountsInv, InHand, StoresOK, HistoryOK, At, CanLock, Removed, Left

LEMMA HandleCreateKeeps ==
  ASSUME AccountsInv, NEW r \in Reqs, HandleCreate(r)
  PROVE  AccountsInv'
<1> DEFINE s == call[r].space
<1>1. CASE RefuseOnly(r)
  BY <1>1, RefuseKeeps
<1>2. CASE /\ ~Exists(store, s)
           /\ \E k \in NewKeys :
                 ~Made(k) /\ Changed(r, CreateUserspace(store, s, k), k)
           /\ deleted' = deleted \ {s}
  <2>1. PICK k \in NewKeys : ~Made(k) /\ Changed(r, CreateUserspace(store, s, k), k)
    BY <1>2
  <2>2. At(r, "create") /\ CanLock
    BY DEF HandleCreate
  <2>3. raced' = raced /\ k # NoOne
    BY <2>1, CredsKinds, NobodyAssumption DEF Changed
  <2>4. s \notin Left' /\ Left' \subseteq Left
    BY <1>2, <2>3 DEF Left
  <2>5. of[k] = NoSpace /\ of' = [of EXCEPT ![k] = s]
    BY <2>1, <2>3 DEF Made, Changed
  <2> DEFINE d == CreateUserspace(store, s, k)
  <2>6. Sound(store, of, Removed, Left')
    BY <2>2, <2>4, HandlerFinds, SoundLess
  <2>7. \A c \in NewKeys : store.creds[c] # NoOne => store.creds[c].space # s
    BY <1>2, CredsKinds DEF Exists, CredsOf
  <2>8. store.creds \in [Creds -> Principal \cup {NoOne}]
    BY <2>2, HandlerFinds, StoreFields
  <2>9. d \in Store /\ Sound(d, of', Removed, Left')
    BY <2>2, <2>4, <2>5, <2>6, <2>7, <2>8, HandlerFinds, WithKeySound
       DEF CreateUserspace
  <2>10. deleted' \subseteq deleted /\ call[r].kind = "create"
    BY <1>2, <2>2, HandlerFinds
  <2> HIDE DEF d
  <2>11. QED
    BY <2>1, <2>2, <2>5, <2>9, <2>10, HandlerFinds, ChangedKeeps DEF d
<1>3. QED
  BY <1>1, <1>2 DEF HandleCreate

LEMMA HandleRotateKeeps ==
  ASSUME AccountsInv, NEW r \in Reqs, HandleRotate(r)
  PROVE  AccountsInv'
<1> DEFINE s == call[r].space
<1>1. CASE RefuseOnly(r)
  BY <1>1, RefuseKeeps
<1>2. CASE /\ Exists(store, s)
           /\ \E k \in NewKeys :
                 ~Made(k) /\ Changed(r, ReplaceAPIKey(store, s, k), k)
           /\ UNCHANGED deleted
  <2>1. PICK k \in NewKeys : ~Made(k) /\ Changed(r, ReplaceAPIKey(store, s, k), k)
    BY <1>2
  <2>2. At(r, "rotate") /\ CanLock
    BY DEF HandleRotate
  <2>3. raced' = raced /\ k # NoOne /\ Left' = Left
    BY <1>2, <2>1, CredsKinds, NobodyAssumption DEF Changed, Left
  <2>4. s \notin Left'
    BY <1>2, <2>2, <2>3, HandlerFinds DEF Sound, Gone
  <2>5. of[k] = NoSpace /\ of' = [of EXCEPT ![k] = s]
    BY <2>1, <2>3 DEF Made, Changed
  <2> DEFINE d == ReplaceAPIKey(store, s, k)
             kept == Without(store, KeysOf(store, s))
  <2>6. Sound(store, of, Removed, Left')
    BY <2>2, <2>3, HandlerFinds
  <2>7. /\ kept \in [Creds -> Principal \cup {NoOne}]
        /\ \A c \in Creds : kept[c] \in {NoOne, store.creds[c]}
        /\ \A c \in KeysOf(store, s) : kept[c] = NoOne
    <3>1. store \in Store /\ KeysOf(store, s) \subseteq Creds
      BY <2>2, HandlerFinds, CredsKinds DEF KeysOf
    <3>2. QED
      BY <3>1, WithoutLess
  <2> HIDE DEF kept
  <2>8. \A c \in NewKeys : kept[c] # NoOne => kept[c].space # s
    BY <2>7, CredsKinds DEF KeysOf
  <2>9. /\ d \in Store /\ Sound(d, of', Removed, Left')
        /\ d.creds = [kept EXCEPT ![k] = [space |-> s, admin |-> FALSE]]
    <3>1. d = WithKey(store, kept, s, k)
      BY DEF ReplaceAPIKey, kept
    <3> HIDE DEF d
    <3>2. /\ store \in Store /\ Removed \in SUBSET Creds /\ s \in Spaces
          /\ k \notin Removed /\ of \in [Creds -> Spaces \cup {NoSpace}]
      BY <2>2, <2>5, HandlerFinds
    <3> DEFINE gone == Left'
    <3>3. Sound(store, of, Removed, gone) /\ s \notin gone
      BY <2>4, <2>6
    <3> HIDE DEF gone
    <3>4. /\ WithKey(store, kept, s, k) \in Store
          /\ Sound(WithKey(store, kept, s, k), [of EXCEPT ![k] = s], Removed, gone)
      <4>1. \A c \in Creds : kept[c] \in {NoOne, store.creds[c]}
        BY <2>7
      <4>2. kept \in [Creds -> Principal \cup {NoOne}]
        BY <2>7
      <4> HIDE DEF s
      <4>3. QED
        BY <2>5, <2>8, <3>2, <3>3, <4>1, <4>2, WithKeySound
    <3>5. d.creds = [kept EXCEPT ![k] = [space |-> s, admin |-> FALSE]]
      BY <3>1 DEF WithKey
    <3>6. QED
      BY <2>5, <3>1, <3>4, <3>5 DEF gone
  <2> HIDE DEF d
  <2>10. ASSUME NEW c \in NewKeys \ {k}, of'[c] = s PROVE d.creds[c] = NoOne
    <3>1. of[c] = s /\ d.creds[c] = kept[c] /\ c \in Creds
      BY <2>2, <2>5, <2>7, <2>9, <2>10, HandlerFinds, CredsKinds
    <3>2. QED
      BY <2>6, <2>7, <2>8, <3>1 DEF Sound
  <2>11. deleted' \subseteq deleted /\ call[r].kind = "rotate"
    BY <1>2, <2>2, HandlerFinds
  <2>12. QED
    BY <2>1, <2>2, <2>5, <2>9, <2>10, <2>11, HandlerFinds, ChangedKeeps DEF d
<1>3. QED
  BY <1>1, <1>2 DEF HandleRotate

LEMMA HandleDeleteKeeps ==
  ASSUME AccountsInv, NEW r \in Reqs, HandleDelete(r)
  PROVE  AccountsInv'
<1> DEFINE s == call[r].space
           d == DeleteUserspace(store, s)
<1>1. CASE RefuseOnly(r)
  BY <1>1, RefuseKeeps
<1>2. CASE Changed(r, d, NoOne) /\ UNCHANGED deleted
  <2>1. At(r, "delete") /\ CanLock
    BY DEF HandleDelete
  <2>2. raced' = raced /\ of' = of /\ Left' = Left
    BY <1>2 DEF Changed, Left
  <2>3. /\ d \in Store /\ Sound(d, of', Removed, Left') /\ Gone(d, s)
        /\ \A c \in NewKeys : of'[c] = s => d.creds[c] = NoOne
    <3>1. /\ store \in Store /\ Sound(store, of, Removed, Left) /\ s \in Spaces
          /\ Removed \in SUBSET Creds /\ Left \in SUBSET Spaces
      BY <2>1, HandlerFinds
    <3>2. /\ d \in Store /\ Sound(d, of, Removed, Left) /\ Gone(d, s)
          /\ \A c \in NewKeys : of[c] = s => d.creds[c] = NoOne
      BY <3>1, DeletedSound
    <3> HIDE DEF d
    <3>3. QED
      BY <2>2, <3>2
  <2> HIDE DEF d
  <2>4. QED
    BY <1>2, <2>1, <2>2, <2>3, HandlerFinds, ChangedKeeps
<1>3. QED
  BY <1>1, <1>2 DEF HandleDelete

\* The answer: from here on what was taken away counts as removed, but for the
\* requests known to be in the middle of using it.
LEMMA InvalidateKeeps ==
  ASSUME AccountsInv, NEW r \in Reqs, Invalidate(r)
  PROVE  AccountsInv'
<1> DEFINE s == call[r].space
<1>0. /\ pc[r] = "invalidate" /\ cache' = [c \in Creds |-> NoEntry] /\ lock' = Free
      /\ revoked' = revoked \cup TakenAway(r)
      /\ deleted' = IF call[r].kind = "delete" THEN deleted \cup {s} ELSE deleted
      /\ raced' = raced \cup (InRace(r) \cap (TakenAway(r) \cup {s}))
      /\ told' = told \cup ({key[r]} \ {NoOne})
      /\ Return(r)
      /\ UNCHANGED <<store, disk, clone, sweep, events, of>>
  BY DEF Invalidate, Emptied
<1>1. /\ Taken(r) /\ lock = r /\ s \in Spaces
      /\ TakenAway(r) \subseteq Creds /\ \A c \in TakenAway(r) : of[c] = s
      /\ key[r] \in NewKeys \cup {NoOne}
  BY <1>0, CallFields DEF AccountsInv, InHand, TakenAway, LocalTypes
<1>2. /\ \A x \in Left' : x \in Left \/ (x = s /\ Gone(store, s) /\ Gone(disk, s))
      /\ \A c \in Removed' : c \in Removed \/ (c \in TakenAway(r) \ BootCreds)
  BY <1>0, <1>1 DEF Left, Removed, Taken
<1>3. Sound(store, of, Removed', Left') /\ Sound(disk, of, Removed', Left')
  BY <1>1, <1>2 DEF AccountsInv, StoresOK, Sound, Taken
<1>4. StoresOK'
  BY <1>0, <1>3 DEF AccountsInv, StoresOK
<1>5. HistoryOK'
  <2>1. \A c \in Removed' : of[c] # NoSpace
    BY <1>1, <1>2, NobodyAssumption DEF AccountsInv, HistoryOK
  <2>2. told' \subseteq Creds
    BY <1>0, <1>1, CredsKinds DEF AccountsInv, HistoryOK
  <2>3. QED
    BY <1>0, <1>1, <2>1, <2>2 DEF AccountsInv, HistoryOK
<1>6. CacheOK' /\ Trusted'
  <2>1. \A c \in Creds : cache'[c] = NoEntry
    BY <1>0
  <2>2. Cached' = {}
    BY <2>1 DEF Cached
  <2>3. QED
    BY <1>0, <2>1, <2>2, FS_EmptySet, BoundsAssumption DEF CacheOK, Trusted
<1>7. InHand(r)' /\ LocalTypes' /\ OthersSame(r)
  BY <1>0, ReturnHand
<1>8. ASSUME NEW q \in Reqs \ {r} PROVE InHand(q)'
  <2>1. InHand(q) /\ pc[q] \notin {"commit", "invalidate"}
    BY <1>1, Alone DEF AccountsInv
  <2>2. UNCHANGED <<pc[q], call[q], who[q], key[q]>> /\ (q \in late' <=> q \in late)
    BY <1>7 DEF OthersSame
  <2>3. ASSUME who[q] # NoOne, q \in late \/ pc[q] = "remember",
               call[q].cred \in Removed'
        PROVE  call[q].cred \in raced'
    <3>1. CASE call[q].cred \in Removed
      BY <1>0, <2>1, <2>3, <3>1 DEF InHand
    <3>2. CASE call[q].cred \notin Removed
      <4>1. call[q].cred \in TakenAway(r) /\ call[q].cred \notin revoked
        BY <1>2, <2>3, <3>2 DEF Removed
      <4>2. pc[q] = "remember"
        BY <2>1, <2>3, <4>1 DEF InHand
      <4>3. call[q].cred \in InRace(r)
        BY <2>3, <4>2 DEF InRace
      <4>4. QED
        BY <1>0, <4>1, <4>3
    <3>3. QED
      BY <3>1, <3>2
  <2>4. ASSUME who[q] # NoOne PROVE who[q].space \notin Left'
    <3>1. who[q].space \in InRace(r)
      BY <2>4 DEF InRace
    <3>2. who[q].space = s => who[q].space \in raced'
      BY <1>0, <3>1
    <3>3. QED
      BY <1>2, <2>1, <2>4, <3>2 DEF InHand, Left
  <2>5. QED
    BY <1>0, <2>1, <2>2, <2>3, <2>4 DEF InHand
<1>9. SweepOK'
  <2>1. ASSUME NEW t \in sweep PROVE t[2] \notin Left'
    <3>1. t[2] \in InRace(r) /\ t[2] \notin Left
      BY DEF InRace, AccountsInv, SweepOK
    <3>2. t[2] = s => t[2] \in raced'
      BY <1>0, <3>1
    <3>3. QED
      BY <1>2, <3>1, <3>2 DEF Left
  <2>2. QED
    BY <1>0, <2>1 DEF AccountsInv, SweepOK
<1>10. QED
  BY <1>4, <1>5, <1>6, <1>7, <1>8, <1>9 DEF AccountsInv

LEMMA RestartKeeps ==
  ASSUME AccountsInv, Restart
  PROVE  AccountsInv'
<1>0. /\ events < MaxEvents /\ events' = events + 1
      /\ store' = Bootstrap(disk) /\ disk' = Bootstrap(disk)
      /\ cache' = [c \in Creds |-> NoEntry] /\ lock' = Free /\ clone' = NoStore
      /\ sweep' = {}
      /\ pc' = [q \in Reqs |-> "idle"] /\ call' = [q \in Reqs |-> NoCall]
      /\ who' = [q \in Reqs |-> NoOne] /\ key' = [q \in Reqs |-> NoOne]
      /\ late' = {}
      /\ UNCHANGED <<of, told, revoked, deleted, raced>>
  BY DEF Restart
<1>1. Removed' = Removed /\ Left' = Left
  BY <1>0 DEF Removed, Left
<1>2. Bootstrap(disk) \in Store /\ Sound(Bootstrap(disk), of, Removed, Left)
  <2>1. /\ Removed \cap BootCreds = {} /\ BootSpace \notin Left /\ Removed \subseteq Creds
        /\ disk \in Store /\ Sound(disk, of, Removed, Left)
    BY DEF AccountsInv, HistoryOK, StoresOK, Removed, Left
  <2>2. QED
    BY <2>1, BootstrapSound
<1>3. StoresOK'
  <2>1. events' \in 0..MaxEvents
    BY <1>0, BoundsAssumption DEF AccountsInv, StoresOK
  <2>2. QED
    BY <1>0, <1>1, <1>2, <2>1 DEF StoresOK
<1>4. HistoryOK'
  BY <1>0, <1>1 DEF AccountsInv, HistoryOK
<1>5. CacheOK' /\ Trusted'
  <2>1. \A c \in Creds : cache'[c] = NoEntry
    BY <1>0
  <2>2. Cached' = {}
    BY <2>1 DEF Cached
  <2>3. QED
    BY <1>0, <2>1, <2>2, FS_EmptySet, BoundsAssumption DEF CacheOK, Trusted
<1>6. LocalTypes'
  BY <1>0 DEF LocalTypes
<1>7. ASSUME NEW q \in Reqs PROVE InHand(q)'
  <2>1. pc'[q] = "idle" /\ who'[q] = NoOne /\ q \notin late'
    BY <1>0
  <2>2. QED
    BY <2>1 DEF InHand
<1>8. SweepOK'
  BY <1>0 DEF SweepOK
<1>9. QED
  BY <1>3, <1>4, <1>5, <1>6, <1>7, <1>8 DEF AccountsInv

-----------------------------------------------------------------------------
(* The invariant holds, and what follows from it.                          *)

LEMMA InitHolds == ASSUME AccountsInit PROVE AccountsInv
<1>0. PICK d \in Stores : store = Bootstrap(d)
  BY DEF AccountsInit
<1>1. /\ disk = store /\ cache = [c \in Creds |-> NoEntry] /\ lock = Free
      /\ pc = [r \in Reqs |-> "idle"] /\ call = [r \in Reqs |-> NoCall]
      /\ who = [r \in Reqs |-> NoOne] /\ key = [r \in Reqs |-> NoOne]
      /\ clone = NoStore /\ sweep = {} /\ events = 0
      /\ of = [c \in Creds |-> IF store.creds[c] = NoOne THEN NoSpace
                               ELSE store.creds[c].space]
      /\ told = {c \in Creds : store.creds[c] # NoOne}
      /\ revoked = {} /\ late = {} /\ deleted = {} /\ raced = {}
  BY DEF AccountsInit
<1>2. d \in Store /\ OneKey(d)
  BY StoresAssumption
<1> DEFINE made == [c \in Creds |-> IF d.creds[c] = NoOne THEN NoSpace
                                    ELSE d.creds[c].space]
<1>3. Sound(d, made, {}, {})
  BY <1>2, CredsKinds DEF Sound
<1> HIDE DEF made
<1>4. store \in Store /\ OneKey(store)
  <2>1. Bootstrap(d) \in Store /\ Sound(Bootstrap(d), made, {}, {})
    BY <1>2, <1>3, BootstrapSound
  <2>2. QED
    BY <1>0, <2>1 DEF Sound
<1>5. of \in [Creds -> Spaces \cup {NoSpace}]
  BY <1>1, <1>4, StoreFields
<1>6. Removed = {} /\ Left = {}
  BY <1>1 DEF Removed, Left
<1>7. Sound(store, of, {}, {})
  BY <1>1, <1>4, CredsKinds DEF Sound
<1>8. StoresOK
  BY <1>1, <1>4, <1>6, <1>7, BoundsAssumption DEF StoresOK
<1>9. HistoryOK
  BY <1>1, <1>5, <1>6 DEF HistoryOK
<1>10. CacheOK /\ Trusted
  <2>1. Cached = {}
    BY <1>1 DEF Cached
  <2>2. QED
    BY <1>1, <2>1, FS_EmptySet, BoundsAssumption DEF CacheOK, Trusted
<1>11. LocalTypes /\ SweepOK /\ \A r \in Reqs : InHand(r)
  BY <1>1 DEF LocalTypes, SweepOK, InHand
<1>12. QED
  BY <1>8, <1>9, <1>10, <1>11 DEF AccountsInv

LEMMA StepKeeps == ASSUME AccountsInv, [AccountsNext]_accountsVars PROVE AccountsInv'
<1>1. CASE \E r \in Reqs : (\E c \in Calls : Start(r, c)) \/ Step(r)
  BY <1>1, StartKeeps, LookUpKeeps, ResolveKeeps, RememberKeeps, PutKeeps,
     BeginAtomicKeeps, EndAtomicKeeps, GetTxKeeps, SaveTxKeeps,
     HandleCreateKeeps, HandleDeleteKeeps, HandleRotateKeeps, InvalidateKeeps DEF Step
<1>2. CASE (\E c \in Creds : Expire(c)) \/ ListDue \/ (\E t \in sweep : SweepOne(t))
  BY <1>2, ExpireKeeps, ListDueKeeps, SweepOneKeeps
<1>3. CASE Restart
  BY <1>3, RestartKeeps
<1>4. CASE UNCHANGED accountsVars
  <2>1. LocalTypes' /\ CacheOK' /\ Trusted' /\ StoresOK' /\ SweepOK' /\ HistoryOK'
    BY <1>4 DEF accountsVars, locals, history, AccountsInv, LocalTypes, CacheOK,
                Cached, Trusted, StoresOK, SweepOK, HistoryOK, Removed, Left
  <2>2. ASSUME NEW q \in Reqs PROVE InHand(q)'
    <3>1. InHand(q)
      BY DEF AccountsInv
    <3>2. QED
      BY <1>4, <3>1 DEF accountsVars, locals, history, InHand, Taken, TakenAway,
                        Removed, Left
  <2>3. QED
    BY <2>1, <2>2 DEF AccountsInv
<1>5. QED
  BY <1>1, <1>2, <1>3, <1>4 DEF AccountsNext

\* What was removed is in no store, clone or cache and nobody is let in by it,
\* but for the requests and the pass of the cleaner known to race with the
\* removal: the inductive invariant.
THEOREM AccountsInvariant == AccountsSpec => []AccountsInv
<1>1. AccountsInit => AccountsInv
  BY InitHolds
<1>2. AccountsInv /\ [AccountsNext]_accountsVars => AccountsInv'
  BY StepKeeps
<1>3. QED
  BY <1>1, <1>2, PTL DEF AccountsSpec

\* The types, and the limit of the cache (setCache).
THEOREM CacheStaysSmall == AccountsSpec => []AccountsTypeOK
<1>1. AccountsInv => AccountsTypeOK
  BY DEF AccountsInv, AccountsTypeOK, LocalTypes, CacheOK, StoresOK, SweepOK, HistoryOK
<1>2. QED
  BY <1>1, AccountsInvariant, PTL

\* A removed credential never comes back to memory or file, the configured ones
\* apart (ReplaceUserspaceAPIKeyHash, DeleteUserspace under the global lock).
THEOREM RemovalIsFinal == AccountsSpec => []RemovedStaysRemoved
<1>1. AccountsInv => RemovedStaysRemoved
  BY DEF AccountsInv, StoresOK, Sound, Removed, RemovedStaysRemoved
<1>2. QED
  BY <1>1, AccountsInvariant, PTL

\* A userspace has one key of its own (CreateUserspace,
\* ReplaceUserspaceAPIKeyHash).
THEOREM KeysStayAlone == AccountsSpec => []OneKeyEach
<1>1. AccountsInv => OneKeyEach
  <2> SUFFICES ASSUME AccountsInv, NEW s \in Spaces
               PROVE  Cardinality(KeysOf(store, s) \ {BootKey}) <= 1
    BY DEF OneKeyEach
  <2> DEFINE own == KeysOf(store, s) \ {BootKey}
  <2>1. \A c1, c2 \in own : c1 = c2
    BY DEF AccountsInv, StoresOK, Sound, OneKey, KeysOf, APIKeys
  <2> HIDE DEF own
  <2>2. CASE own = {}
    BY <2>2, FS_EmptySet DEF own
  <2>3. CASE own # {}
    <3>1. PICK c : own = {c}
      BY <2>1, <2>3
    <3>2. Cardinality(own) = 1
      BY <3>1, FS_Singleton
    <3>3. QED
      BY <3>2 DEF own
  <2>4. QED
    BY <2>2, <2>3
<1>2. QED
  BY <1>1, AccountsInvariant, PTL

\* Nobody is let in by a credential whose removal was answered before the request
\* was sent, but by a configured one or by one caught between the look-up and the
\* entry into the cache (authenticateAPIKey, Invalidate).
THEOREM RemovedAreRefused == AccountsSpec => []OnlyRacesLetIn
<1>1. AccountsInv => OnlyRacesLetIn
  BY DEF AccountsInv, LocalTypes, HistoryOK, InHand, Removed, OnlyRacesLetIn
<1>2. QED
  BY <1>1, AccountsInvariant, PTL

\* Nothing is left of a deleted userspace, but through requests let in before and
\* transactions the cleaner listed before (DeleteUserspace).
THEOREM DeletionIsWhole == AccountsSpec => []OnlyRacesBringBack
<1>1. AccountsInv => OnlyRacesBringBack
  BY DEF AccountsInv, StoresOK, Sound, Left, OnlyRacesBringBack
<1>2. QED
  BY <1>1, AccountsInvariant, PTL

=============================================================================
