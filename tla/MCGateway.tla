----------------------------- MODULE MCGateway -----------------------------
(***************************************************************************)
(* Small instances of Gateway for TLC: a user, an administrator, names     *)
(* that are both an API key and the subject of tokens, and every route.    *)
(***************************************************************************)
EXTENDS Gateway, TLC

CONSTANTS n1, n2, r1, r2, us, other

Symmetry == Permutations(Reqs)

Plain == {"kv", "tx", "admin", "userspaces", "api-key", "keys", "export", "import",
          "commit", "result", "abort", "ops", "u", "b", "k", "aA", "a%41"}

MCTexts == Plain \cup {"a%2541", "100%", "100%25", us, other}

\* One URL decoding; "100%" has an escape that is none.
MCDecode == [t \in MCTexts |->
               CASE t = "a%41"   -> "aA"
                 [] t = "a%2541" -> "a%41"
                 [] t = "100%25" -> "100%"
                 [] t = "100%"   -> Bad
                 [] OTHER        -> t]

MCKeys == MCTexts \ {us, other}

\* All but the user's key, which is handed out while the server runs.
Founded  == (Credentials \ {<<"apikey", n1>>})
Everyone == Credentials

MCGrants == [c \in {"apikey", "jwt"} \X {n1, n2} |->
               IF c \in {<<"apikey", n1>>, <<"jwt", n2>>}
               THEN [space |-> "u", admin |-> FALSE]
               ELSE [space |-> "b", admin |-> TRUE]]

Token(sub, exp, nbf, iss, aud, signed) ==
    [scheme |-> "Bearer",
     token |-> [sub |-> sub, exp |-> exp, nbf |-> nbf, iss |-> iss, aud |-> aud,
                signed |-> signed]]
Good(sub) == Token(sub, 0, 0, us, {us, other}, TRUE)

Ask(method, prefix, rest) ==
    [APIKey |-> Blank, XAPIKey |-> Blank, Authorization |-> Blank, XKVKey |-> "k",
     method |-> method, prefix |-> prefix, rest |-> rest]
WithKey(q, n) == [q EXCEPT !.APIKey = n]
WithToken(q, t) == [q EXCEPT !.Authorization = t]

Own == Ask("GET", "/v1", <<"kv", "k">>)

\* Every way to be let in or not, to the caller's own userspace.
Ways ==
    {Own, WithKey(Own, n1), [Own EXCEPT !.XAPIKey = n2],
     [WithToken(Own, Good(n1)) EXCEPT !.XAPIKey = n1],
     WithToken(Own, [scheme |-> "ApiKey", key |-> n2]),
     [WithKey(Own, n1) EXCEPT !.method = "OPTIONS"],
     [WithKey(Own, n1) EXCEPT !.prefix = "/", !.rest = <<>>]}
      \cup {WithToken(Own, t) :
               t \in {Good(n1), Good(n2), Token(n2, 1, 0, us, {us}, TRUE),
                      Token(n2, 0, 1, us, {us}, TRUE),
                      Token(n2, 0, 0, other, {us}, TRUE),
                      Token(n2, 0, 0, us, {other}, TRUE),
                      Token(n2, 0, 0, us, {us}, FALSE)}}

\* Every route; those of the administration for both.
UserRoutes ==
    {Ask("DELETE", "/v1", <<"kv", "a%41">>), Ask("POST", "/v1", <<"kv", "k">>),
     Ask("PUT", "/v1", <<"kv", "100%25">>), Ask("GET", "/api/v1", <<"b", "k">>),
     Ask("POST", "/v1", <<"tx">>), Ask("POST", "/api/v1", <<"tx", "k", "commit">>),
     Ask("POST", "/v1", <<"tx", "k", "ops", "k">>), Ask("GET", "/v1", <<"tx", "k">>),
     Ask("GET", "/v1", <<"export">>), Ask("POST", "/api/v1", <<"import">>)}

AdminRoutes ==
    {Ask("POST", "/v1", <<"admin", "userspaces">>),
     Ask("PUT", "/v1", <<"admin", "userspaces", "u", "kv", "k">>),
     Ask("PUT", "/api/v1", <<"b", "k">>)}

OnlyAdminRoutes ==
    {Ask("GET", "/v1", <<"admin", "userspaces">>),
     Ask("DELETE", "/v1", <<"admin", "userspaces", "u">>),
     Ask("POST", "/v1", <<"admin", "userspaces", "u", "api-key">>),
     Ask("GET", "/v1", <<"admin", "userspaces", "u", "keys">>),
     Ask("PUT", "/v1", <<"admin", "userspaces", "100%25">>)}

AllRequests ==
    Ways \cup {WithKey(q, n1) : q \in UserRoutes \cup AdminRoutes}
         \cup {WithKey(q, n2) : q \in AdminRoutes \cup OnlyAdminRoutes}

\* Keys that need their encoding.
EncodedKeys == {WithKey(Ask("PUT", "/v1", <<"kv", "a%2541">>), n1)}

=============================================================================
