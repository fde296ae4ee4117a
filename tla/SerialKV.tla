------------------------------ MODULE SerialKV ------------------------------
(***************************************************************************)
(* What the key-value store promises, with no locks, clones or requests:   *)
(* every write happens at once, alone, on the state it finds.  A           *)
(* transaction is a single step whose operations see the records as the    *)
(* operations before them leave them; the effect of the whole batch is     *)
(* stated directly, record by record, from the last write to each key.     *)
(***************************************************************************)
EXTENDS Snapshot

CONSTANT Imports    \* the batches of records an import may carry

VARIABLES kv, version

serialVars == <<kv, version>>

-----------------------------------------------------------------------------
(* The effect of a sequence of operations, record by record.               *)

Writes(ops) == {i \in 1..Len(ops) : ops[i].type \in {"PUT", "DELETE"}}

\* The number of versions the first i operations take.
WritesUpTo(ops, i) == Cardinality({j \in Writes(ops) : j <= i})

\* The record under key k just before operation i: that of the last write to
\* k before i, or what the space held when the sequence began.
RecordBefore(ops, i, k, space, ver) ==
    LET earlier == {j \in Writes(ops) : j < i /\ ops[j].key = k}
    IN  IF earlier = {}
        THEN space[k]
        ELSE LET w == CHOOSE j \in earlier : \A h \in earlier : h <= j
             IN  IF ops[w].type = "DELETE"
                 THEN NoRec
                 ELSE [ct |-> ops[w].ct, body |-> ops[w].body,
                       ver |-> ver + WritesUpTo(ops, w)]

\* GET, HEAD and DELETE need the record; one failure refuses the transaction.
AllSucceed(ops, space, ver) ==
    \A i \in 1..Len(ops) :
        ops[i].type \in {"GET", "HEAD", "DELETE"} =>
            RecordBefore(ops, i, ops[i].key, space, ver) # NoRec

SpaceAfter(ops, space, ver) ==
    [k \in Keys |-> RecordBefore(ops, Len(ops) + 1, k, space, ver)]

\* What operation i of the sequence must report to the client.
ExpectedOutcome(ops, i, space, ver) ==
    LET rec == RecordBefore(ops, i, ops[i].key, space, ver)
    IN  CASE ops[i].type \in {"PUT", "DELETE"} ->
               Report("ok", ver + WritesUpTo(ops, i), NoType, NoBody)
          [] ops[i].type = "GET"  -> Report("ok", rec.ver, rec.ct, rec.body)
          [] ops[i].type = "HEAD" -> Report("ok", rec.ver, rec.ct, NoBody)
          [] ops[i].type = "EXISTS" ->
               Report(IF rec = NoRec THEN "missing" ELSE "ok", 0, NoType, NoBody)

-----------------------------------------------------------------------------

SerialInit ==
    /\ kv \in [Spaces -> Space]
    /\ version \in Nat

SerialPut(s, k, ct, body) ==
    /\ version' = version + 1
    /\ kv' = [kv EXCEPT ![s][k] = [ct |-> ct, body |-> body, ver |-> version + 1]]

SerialDelete(s, k) ==
    /\ kv[s][k] # NoRec
    /\ version' = version + 1
    /\ kv' = [kv EXCEPT ![s][k] = NoRec]

SerialTransact(s, ops) ==
    /\ AllSucceed(ops, kv[s], version)
    /\ kv' = [kv EXCEPT ![s] = SpaceAfter(ops, kv[s], version)]
    /\ version' = version + Cardinality(Writes(ops))

\* An import is a sequence of PUTs, of which merge-skip drops those whose key
\* is already there, into the space it finds or, for replace, an empty one.
SerialImport(s, recs, mode) ==
    LET base == IF mode = "replace" THEN [k \in Keys |-> NoRec] ELSE kv[s]
        kept(i) == mode = "merge-skip" =>
                     /\ base[recs[i].key] = NoRec
                     /\ \A j \in 1..(i - 1) : recs[j].key # recs[i].key
        puts == [i \in 1..Len(recs) |->
                   [type |-> IF kept(i) THEN "PUT" ELSE "SKIP",
                    key |-> recs[i].key, ct |-> recs[i].ct, body |-> recs[i].body]]
    IN  /\ kv' = [kv EXCEPT ![s] = SpaceAfter(puts, base, version)]
        /\ version' = version + Cardinality(Writes(puts))

SerialNext ==
    \E s \in Spaces :
        \/ \E k \in Keys, ct \in ContentTypes, body \in Bodies :
              SerialPut(s, k, ct, body)
        \/ \E k \in Keys : SerialDelete(s, k)
        \/ \E n \in 1..MaxOps : \E ops \in [1..n -> Fragments] :
              SerialTransact(s, ops)
        \/ \E recs \in Imports, mode \in ImportModes : SerialImport(s, recs, mode)

SerialSpec == SerialInit /\ [][SerialNext]_serialVars

=============================================================================
