----------------------------- MODULE MCExchange -----------------------------
(***************************************************************************)
(* A small instance of Exchange with the sizes of the code where limits    *)
(* meet: content types just readable, too long for the decoder, and too    *)
(* long for the 16 bits of their length; a value that a PUT takes and that *)
(* leaves no room for the rest of a file.                                  *)
(***************************************************************************)
EXTENDS Exchange, TLC

CONSTANTS s1, s2, k1, k2, kLong, text, json, long, wrapping, one, word, big

Order == <<k1, k2, kLong>>

Sizes == k1 :> 1 @@ k2 :> 2 @@ kLong :> 5
           @@ text :> 10 @@ json :> 16 @@ long :> 256 @@ wrapping :> 65546
           @@ one :> 1 @@ word :> 1 @@ big :> 65950

Types == text :> "string" @@ json :> "json" @@ long :> "binary"
           @@ wrapping :> "binary"

Rec(k, ct, vt, body) ==
    [key |-> k, ct_len |-> Size[ct] % 65536, ct |-> ct, vt |-> vt,
     body |-> body, created |-> 0, sum |-> body]

\* Out of order with a key twice; another value type; a key too long; a value
\* that is not JSON; a checksum of another value.
Others ==
    {<<Rec(k2, text, "string", one), Rec(k1, text, "string", one),
       Rec(k2, text, "string", word)>>,
     <<Rec(k1, json, "binary", one)>>,
     <<Rec(kLong, text, "string", one)>>,
     <<Rec(k1, json, "json", word)>>,
     <<[Rec(k1, text, "string", one) EXCEPT !.sum = word]>>}

Stored(ct, body, ver) ==
    [ct |-> ct, vt |-> ValueType[ct], body |-> body, ver |-> ver, created |-> 0]

EmptyStore == [kv |-> [s \in Spaces |-> NoRecords], version |-> 0]
Filled(s, t) ==
    [version |-> 4,
     kv |-> (s :> (k1 :> Stored(text, word, 1) @@ k2 :> Stored(json, one, 2)
                     @@ kLong :> NoRec))
              @@ (t :> (k1 :> NoRec @@ k2 :> Stored(text, one, 4)
                          @@ kLong :> NoRec))]
EmptyOrFilled == {EmptyStore, Filled(s1, s2), Filled(s2, s1)}

Userspaces == Permutations(Spaces)

=============================================================================
