----------------------------- MODULE MCAccounts -----------------------------
(***************************************************************************)
(* Small instances of Accounts for TLC: the bootstrap userspace and        *)
(* another, which may have a key from an earlier lifetime.                 *)
(***************************************************************************)
EXTENDS Accounts, TLC

CONSTANTS b, u, kb, jb, k0, k1, k2, t1, r1, r2

Requests == Permutations(Reqs)

Founded  == CreateUserspace(Bootstrap(EmptyStore), u, k0)
WithTx   == [Founded EXCEPT !.txs[t1] = u]
TwoKinds == {EmptyStore, WithTx}
OneUser  == {Founded}

Ask(kind, cred, space) ==
    [kind |-> kind, cred |-> cred, space |-> space, tx_id |-> t1]

UserCalls  == {Ask(kind, k, u) : kind \in WriteKinds, k \in {k0, k1}}
AdminCalls == {Ask(kind, kb, u) : kind \in AdminKinds}
OwnCalls   == {Ask("rotate", kb, b), Ask("delete", jb, b), Ask("rotate", k0, u)}
AllCalls   == UserCalls \cup AdminCalls \cup OwnCalls

CacheCalls == {Ask("put", k0, u), Ask("rotate", kb, u), Ask("delete", jb, u),
               Ask("put", k1, u)}
RotateOwn  == {Ask("rotate", jb, b), Ask("put", kb, b)}
DeleteAndWrite == {Ask("delete", kb, u), Ask("put", k0, u), Ask("tx", k0, u)}

=============================================================================
