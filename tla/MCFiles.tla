------------------------------ MODULE MCFiles ------------------------------
(***************************************************************************)
(* Small instances of StoreFiles for TLC: one userspace, a few keys,     *)
(* and two content types, one of them without a file extension.            *)
(***************************************************************************)
EXTENDS StoreFiles

CONSTANTS p1, s1, b1, b2

SpaceOfOne == [p \in {p1} |-> s1]

PlainKeys == {<<"a">>, <<"b/">>}
ThreeKeys == {<<"a">>, <<"b/">>, <<"cc">>}
LongOne   == {<<"cc">>}
UnsafeOne == {<<"b/">>}

\* A key that looks like the file of another.
ClashingKeys == {<<"a">>, <<"a", ".txt">>}

Types == {"text/plain", "image/png"}
TextOnly == {"text/plain"}

PlainBatches ==
    {<<[key |-> <<"a">>, ct |-> "text/plain", body |-> b1],
       [key |-> <<"b/">>, ct |-> "text/plain", body |-> b1]>>}

=============================================================================
