-------------------------------- MODULE MCTx --------------------------------
(***************************************************************************)
(* Small instances of TxCoordinator for TLC.  The sets of calls and the    *)
(* snapshots the store starts from differ from run to run; each starting   *)
(* snapshot is one the program reaches with the requests of earlier        *)
(* lifetimes, so that few requests are needed to get to the races.         *)
(***************************************************************************)
EXTENDS TxProperties, TLC

CONSTANTS p1, p2, s1, s2, k1, k2, b1, b2, txt, o1, o2, tA, tB

MCSpaceOf == (p1 :> s1) @@ (p2 :> s2)
OneSpace  == (p1 :> s1) @@ (p2 :> s1)

Put(id, k, b) == [op_id |-> id, type |-> "PUT", key |-> k, ct |-> txt, body |-> b]
Other(id, type, k) ==
    [op_id |-> id, type |-> type, key |-> k, ct |-> NoType, body |-> NoBody]

PutOp    == Put(o1, k1, b1)
GetOp    == Other(o1, "GET", k1)
HeadOp   == Other(o1, "HEAD", k1)
ExistsOp == Other(o1, "EXISTS", k1)
DeleteOp == Other(o1, "DELETE", k1)
AllOps   == {PutOp, GetOp, HeadOp, ExistsOp, DeleteOp}

Fresh(id, p, total, deadline) ==
    [tx_id |-> id, owner |-> p, total |-> total, status |-> "pending",
     deadline |-> deadline, commit_received |-> FALSE, digest |-> NoDigest,
     ops |-> [seq \in 1..MaxOps |-> NoOp], result |-> NoResult]

Holding(t, fragments) ==
    [t EXCEPT !.ops = [seq \in 1..MaxOps |->
                         IF seq \in DOMAIN fragments THEN fragments[seq] ELSE NoOp]]

\* A store where k1 of userspace s1 has been written once.
OneRecord ==
    [EmptySnapshot EXCEPT !.version = 1,
                          !.kv[s1][k1] = [ct |-> txt, body |-> b2, ver |-> 1]]

Add(p, id, seq, op) ==
    [kind |-> "add", p |-> p, tx_id |-> id, seq |-> seq, op |-> op]
CommitOf(p, id, total, digest) ==
    [kind |-> "commit", p |-> p, tx_id |-> id, total |-> total, digest |-> digest]
Create(p, id, total, timeout_ms) ==
    [kind |-> "create", p |-> p, tx_id |-> id, total |-> total, timeout_ms |-> timeout_ms]
AbortOf(p, id)  == [kind |-> "abort", p |-> p, tx_id |-> id]
ResultOf(p, id) == [kind |-> "result", p |-> p, tx_id |-> id]
KVPutOf(p, k, b) ==
    [kind |-> "put", p |-> p, key |-> k, ct |-> txt, body |-> b]
KVDeleteOf(p, k) == [kind |-> "delete", p |-> p, key |-> k]
ReadOf(p) == [kind |-> "read", p |-> p]
ImportOf(p, mode, recs) ==
    [kind |-> "import", p |-> p, mode |-> mode, recs |-> recs]

Requests == Permutations(Reqs)

-----------------------------------------------------------------------------
(* isolation: a complete transaction of any two operations is committed    *)
(* while KV writes, imports and another transaction of the same userspace  *)
(* go on.                                                                  *)

Batches == {<<[key |-> k1, ct |-> txt, body |-> b1],
              [key |-> k2, ct |-> txt, body |-> b1],
              [key |-> k1, ct |-> txt, body |-> b2]>>}

IsolationBoots ==
    {StoreTx(StoreTx(base, Holding(Fresh(tA, p1, 2, 1), <<f1, f2>>)),
             Holding(Fresh(tB, p2, 1, 1), <<GetOp>>)) :
        base \in {EmptySnapshot, OneRecord}, f1 \in AllOps, f2 \in AllOps}

IsolationCalls ==
    {CommitOf(p1, tA, 0, NoDigest), CommitOf(p2, tB, 0, NoDigest),
     KVPutOf(p1, k1, b2), KVDeleteOf(p1, k1), ReadOf(p2)}
      \cup {ImportOf(p2, mode, recs) : mode \in ImportModes, recs \in Batches}

-----------------------------------------------------------------------------
(* lifecycle: one transaction of two operations from its creation on, with *)
(* every request of the API, the cleaner, deadlines and restarts.          *)

OpsDigest(f1, f2) ==
    Digest(Holding(Fresh(tA, p1, 2, 0), <<f1, f2>>))

LifeDigests == {OpsDigest(PutOp, GetOp), OpsDigest(GetOp, GetOp)}

LifeBoots ==
    {EmptySnapshot,
     StoreTx(EmptySnapshot, Holding(Fresh(tA, p1, 2, 1), <<PutOp>>)),
     StoreTx(EmptySnapshot,
             [Fresh(tA, p1, 2, 1) EXCEPT !.commit_received = TRUE,
                                         !.status = "waiting_for_ops"])}

LifeCalls ==
    {Create(p1, tA, 2, 0), Create(p2, tA, 1, 9), Create(p1, tA, 0, 1),
     Create(p1, tA, 2, 2), Create(p1, tA, 2, 5),
     Add(p1, tA, 1, PutOp), Add(p1, tA, 2, GetOp), Add(p1, tA, 1, DeleteOp),
     Add(p1, tA, 3, GetOp), Add(p2, tA, 1, PutOp),
     CommitOf(p1, tA, 2, NoDigest), CommitOf(p1, tA, 1, NoDigest),
     AbortOf(p1, tA), ResultOf(p1, tA)}
      \cup {CommitOf(p1, tA, 0, d) : d \in LifeDigests}

-----------------------------------------------------------------------------
(* sequential: two transactions of different userspaces, no two requests   *)
(* at a time.                                                              *)

SequentialBoots ==
    LifeBoots \cup
    {StoreTx(StoreTx(OneRecord, Holding(Fresh(tA, p1, 2, 1), <<PutOp, GetOp>>)),
             Fresh(tB, p2, 1, 1))}

SequentialCalls ==
    LifeCalls \cup {Add(p2, tB, 1, GetOp), Add(p2, tB, 1, PutOp),
                    CommitOf(p2, tB, 0, NoDigest), AbortOf(p2, tB),
                    KVDeleteOf(p1, k1)}

-----------------------------------------------------------------------------
(* races: the two requests of each race, and the store they start from.    *)

HalfFull == {StoreTx(EmptySnapshot, Fresh(tA, p1, 2, 1))}
Full     == {StoreTx(EmptySnapshot, Holding(Fresh(tA, p1, 2, 1), <<PutOp, GetOp>>))}
TwoTxs   == {StoreTx(StoreTx(EmptySnapshot, Holding(Fresh(tA, p1, 1, 1), <<PutOp>>)),
                     Fresh(tB, p2, 2, 1))}
Nothing  == {EmptySnapshot}

TwoFragments   == {Add(p1, tA, 1, PutOp), Add(p1, tA, 2, GetOp)}
CommitAndAbort == {CommitOf(p1, tA, 2, NoDigest), AbortOf(p1, tA)}
TwoCommits     == {CommitOf(p1, tA, 2, NoDigest)}
Oversized      == {Create(p1, tA, 1, 9)}
PutAndRead     == {KVPutOf(p1, k1, b2), ReadOf(p1)}
TwoCreations   == {Create(p1, tA, 1, 1), Create(p2, tA, 1, 1)}
CommitAndFragment == {CommitOf(p1, tA, 2, NoDigest), Add(p1, tA, 1, PutOp)}
CommitAndOther == {CommitOf(p1, tA, 1, NoDigest), Add(p2, tB, 1, PutOp)}

-----------------------------------------------------------------------------
(* progress: the races of isolation and lifecycle on one small store.      *)

ProgressBoots ==
    {StoreTx(EmptySnapshot, Holding(Fresh(tA, p1, 2, 1), <<PutOp, GetOp>>)),
     StoreTx(EmptySnapshot, Holding(Fresh(tA, p1, 2, 1), <<GetOp>>))}

ProgressCalls ==
    {Add(p1, tA, 2, GetOp), CommitOf(p1, tA, 2, NoDigest), AbortOf(p1, tA),
     ResultOf(p1, tA), KVPutOf(p1, k1, b2), KVDeleteOf(p1, k1), ReadOf(p1)}
      \cup {ImportOf(p1, "replace", recs) : recs \in Batches}

=============================================================================
