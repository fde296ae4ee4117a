------------------------------ MODULE Gateway ------------------------------
(***************************************************************************)
(* The way of a request from its arrival to the handler that serves it:    *)
(* CORS and the routes open to all (httpapi/cors.go, router.go), the       *)
(* authentication with its tokens, cache and clock (internal/auth/auth.go) *)
(* and the dispatch of what was let in to a handler, with the userspace    *)
(* and the key the handler takes from the path (router.go, kv_handlers.go, *)
(* admin_handlers.go, tx_handlers.go).                                     *)
(*                                                                         *)
(* What handlers then do is in TxCoordinator, Accounts and Exchange.       *)
(* Accounts has the same critical sections of the authentication, without  *)
(* the clock and the tokens, among all changes of credentials; here the    *)
(* changes are one step that hands out or takes away one credential.       *)
(*                                                                         *)
(* A path is the sequence of its segments, the last of which is all that   *)
(* follows; texts are as on the wire and Decode undoes one URL encoding.   *)
(***************************************************************************)
EXTENDS Integers, Sequences, FiniteSets

CONSTANTS
    Reqs,           \* request goroutines
    Requests,       \* the requests clients may send
    Names,          \* API keys (their hashes), and subjects of tokens
    Spaces,         \* userspace ids
    Grants,         \* the principal each credential is made for
    BootCreds,      \* the credentials in the store at startup
    Texts,          \* segments of paths, keys, values of headers
    Decode,         \* url.PathUnescape
    ValidKeys,      \* what storage.ValidateKey takes
    ValidSpaces,    \* what storage.ValidateUserspaceID takes
    Issuer,         \* KVHTTP_JWT_ISSUER, or Blank
    Audience,       \* KVHTTP_JWT_AUDIENCE, or Blank
    TTL,            \* Authenticator.ttl
    MaxEntries,     \* Authenticator.max; no limit when not positive
    MaxEvents,      \* bound: requests and changes of credentials
    MaxNow,         \* bound: the last instant of the clock
    Blank, Bad, NoOne, NoEntry, Refused

Credentials == {"apikey", "jwt"} \X Names
Principal   == [space: Spaces, admin: BOOLEAN]

Tokens == [sub: Names \cup {Blank}, exp: Int, nbf: Int, iss: Texts \cup {Blank},
           aud: SUBSET Texts, signed: BOOLEAN]

\* A header that is missing, or blank once trimmed, is Blank.
Authorizations ==
    {Blank} \cup [scheme: {"ApiKey"}, key: Names \cup {Blank}]
            \cup [scheme: {"Bearer"}, token: Tokens]

Methods == {"GET", "HEAD", "PUT", "POST", "DELETE", "OPTIONS"}

Request == [APIKey: Names \cup {Blank}, XAPIKey: Names \cup {Blank},
            Authorization: Authorizations, XKVKey: Texts, method: Methods,
            prefix: {"/", "/v1", "/api/v1"}, rest: Seq(Texts)]

\* What a handler is called for: on which userspace, with which key or id.
Effect == [act: {"get", "put", "delete", "newtx", "op", "tx", "export", "import",
                 "list", "create", "remove", "rotate", "keys"},
           space: Spaces \cup ValidSpaces \cup {Blank}, name: Texts \cup {Blank}]

NoRequest == [method |-> "none"]

ASSUME GrantsAssumption ==
    /\ Grants \in [Credentials -> Principal] /\ BootCreds \subseteq Credentials
    /\ NoOne \notin Principal \cup Credentials /\ Refused \notin Effect
    /\ NoEntry \notin [p: Principal, expires: Int]
ASSUME TextAssumption ==
    /\ Decode \in [Texts -> Texts \cup {Bad}] /\ Bad \notin Texts
    /\ ValidKeys \subseteq Texts /\ ValidSpaces \subseteq Texts
    /\ Blank \notin Names \cup Texts
\* net/http refuses a path it cannot decode.  A key is one segment, with the
\* slashes it may have.
ASSUME RequestsAssumption ==
    /\ Requests \subseteq Request
    /\ \A q \in Requests : \A i \in DOMAIN q.rest : Decode[q.rest[i]] # Bad
    /\ \A q \in Requests : Len(q.rest) > 2 => Decode[q.rest[1]] # "kv"
ASSUME ClockAssumption == TTL \in Int /\ MaxNow \in Nat
ASSUME LimitAssumption == MaxEntries \in Int

-----------------------------------------------------------------------------

VARIABLES
    creds,      \* APIKeys and JWTSubjects of the store
    pending,    \* a change of them is stored, and the cache not emptied yet
    cache,      \* Authenticator.cache
    now,        \* the clock
    pc,         \* where each request is
    req,        \* the request it serves
    cred,       \* the credential it is judged by
    who,        \* the principal it was let in as
    did,        \* what its handler was called for
    events,     \* how many requests and changes there were
    made,       \* history: the credentials that were ever in the store
    arrived,    \* history: when each request arrived
    known       \* history: when the store last had each credential, or a request
                \* last had the store's answer for it to enter into the cache

reqVars == <<pc, req, cred, who, did, arrived>>
gatewayVars ==
    <<creds, pending, cache, now, pc, req, cred, who, did, events, made, arrived, known>>

\* Mistaken variant: keys and subjects share their entries.
CacheKeyByName(c) == c[2]
CacheKey(c) == c

CacheKeys == {CacheKey(c) : c \in Credentials}

Init ==
    /\ creds = [c \in Credentials |-> IF c \in BootCreds THEN Grants[c] ELSE NoOne]
    /\ pending = FALSE
    /\ cache = [k \in CacheKeys |-> NoEntry]
    /\ now = 0
    /\ pc = [r \in Reqs |-> "idle"]
    /\ req = [r \in Reqs |-> NoRequest]
    /\ cred = [r \in Reqs |-> NoOne]
    /\ who = [r \in Reqs |-> NoOne]
    /\ did = [r \in Reqs |-> Refused]
    /\ events = 0
    /\ made = BootCreds
    /\ arrived = [r \in Reqs |-> 0]
    /\ known = [c \in Credentials |-> 0]

-----------------------------------------------------------------------------
(* Authentication.                                                         *)

\* verifyJWT and audienceMatches; zero is no limit.
Fits(t) ==
    /\ t.signed /\ t.sub # Blank
    /\ t.exp # 0 => now < t.exp
    /\ t.nbf # 0 => now >= t.nbf
    /\ Issuer # Blank => t.iss = Issuer
    /\ Audience # Blank => Audience \in t.aud

KeyCredential(name) == IF name = Blank THEN NoOne ELSE <<"apikey", name>>

\* AuthenticateRequest: the first header that is not blank decides alone.
Presented(q) ==
    LET a == q.Authorization
    IN  IF q.APIKey # Blank THEN KeyCredential(q.APIKey)
        ELSE IF q.XAPIKey # Blank THEN KeyCredential(q.XAPIKey)
        ELSE IF a = Blank THEN NoOne
        ELSE IF a.scheme = "ApiKey" THEN KeyCredential(a.key)
        ELSE IF Fits(a.token) THEN <<"jwt", a.token.sub>> ELSE NoOne

\* Preflights, and the routes outside /v1/ and /api/v1/, ask for no credential.
Open(q) == q.method = "OPTIONS" \/ q.prefix = "/"

Arrive(r, q) ==
    /\ pc[r] = "idle"
    /\ events < MaxEvents
    /\ events' = events + 1
    /\ IF Open(q) \/ Presented(q) = NoOne
       THEN UNCHANGED reqVars
       ELSE /\ pc' = [pc EXCEPT ![r] = "lookup"]
            /\ req' = [req EXCEPT ![r] = q]
            /\ cred' = [cred EXCEPT ![r] = Presented(q)]
            /\ arrived' = [arrived EXCEPT ![r] = now]
            /\ UNCHANGED <<who, did>>
    /\ UNCHANGED <<creds, pending, cache, now, made, known>>

\* The answer is written.
Return(r) ==
    /\ pc' = [pc EXCEPT ![r] = "idle"]
    /\ req' = [req EXCEPT ![r] = NoRequest]
    /\ cred' = [cred EXCEPT ![r] = NoOne]
    /\ who' = [who EXCEPT ![r] = NoOne]
    /\ did' = [did EXCEPT ![r] = Refused]
    /\ arrived' = [arrived EXCEPT ![r] = 0]

LetIn(r, p, next) ==
    /\ pc' = [pc EXCEPT ![r] = next]
    /\ who' = [who EXCEPT ![r] = p]
    /\ UNCHANGED <<req, cred, did, arrived>>

\* getCache.  Mistaken variant: an entry is good as long as it is there.
HitForever(k) == cache[k] # NoEntry
Hit(k) == cache[k] # NoEntry /\ now <= cache[k].expires

LookUp(r) ==
    LET k == CacheKey(cred[r])
    IN  /\ pc[r] = "lookup"
        /\ IF Hit(k)
           THEN LetIn(r, cache[k].p, "serve") /\ UNCHANGED cache
           ELSE LetIn(r, NoOne, "resolve") /\ cache' = [cache EXCEPT ![k] = NoEntry]
        /\ UNCHANGED <<creds, pending, now, events, made, known>>

\* ResolveAPIKeyHash, ResolveJWTSubject.
Resolve(r) ==
    /\ pc[r] = "resolve"
    /\ IF creds[cred[r]] = NoOne
       THEN Return(r)
       ELSE LetIn(r, creds[cred[r]], "remember")
    /\ UNCHANGED <<creds, pending, cache, now, events, made, known>>

\* Mistaken variant: the limit is noticed one entry late.
FullOffByOne == MaxEntries > 0 /\ Cardinality({k \in CacheKeys : cache[k] # NoEntry}) > MaxEntries
Full == MaxEntries > 0 /\ Cardinality({k \in CacheKeys : cache[k] # NoEntry}) >= MaxEntries

\* Any one entry is dropped, also when the new one takes the place of its own.
Evicted == IF Full THEN {k \in CacheKeys : cache[k] # NoEntry} ELSE {Blank}

\* setCache.
Remember(r) ==
    /\ pc[r] = "remember"
    /\ \E old \in Evicted :
          cache' = [k \in CacheKeys |->
                      IF k = CacheKey(cred[r]) THEN [p |-> who[r], expires |-> now + TTL]
                      ELSE IF k = old THEN NoEntry ELSE cache[k]]
    /\ LetIn(r, who[r], "serve")
    /\ UNCHANGED <<creds, pending, now, events, made, known>>

-----------------------------------------------------------------------------
(* The dispatch: what q, let in as p, makes the server do.                 *)

\* r.URL.Path, which net/http has decoded once.
Path(q) == [i \in DOMAIN q.rest |-> Decode[q.rest[i]]]

Do(act, space, name) == [act |-> act, space |-> space, name |-> name]

KVActs == [PUT |-> "put", GET |-> "get", HEAD |-> "get", DELETE |-> "delete"]

\* handleKV, handleAdminKV: the key is decoded a second time.
OnKey(q, space, raw) ==
    IF Decode[raw] \in ValidKeys /\ q.method \in DOMAIN KVActs
    THEN Do(KVActs[q.method], space, Decode[raw]) ELSE Refused

\* handleUserspaceKV.  Mistaken variant: whose the userspace is is not asked.
AnySpace(p, space) == space \in ValidSpaces
OwnSpace(p, space) == space \in ValidSpaces /\ space = p.space

OnSpace(q, p, path) ==
    IF Len(path) = 2 /\ OwnSpace(p, Decode[path[1]])
    THEN OnKey(q, Decode[path[1]], path[2]) ELSE Refused

\* handleAdminUserspace, path being what follows /v1/admin/userspaces/.
OnAdminSpace(q, path) ==
    LET space == Decode[path[1]]
        rest  == Tail(path)
    IN  IF space \notin ValidSpaces THEN Refused
        ELSE CASE rest = <<>> /\ q.method = "DELETE"        -> Do("remove", space, Blank)
               [] rest = <<"api-key">> /\ q.method = "POST" -> Do("rotate", space, Blank)
               [] rest = <<"keys">> /\ q.method = "GET"     -> Do("keys", space, Blank)
               [] Len(rest) = 2 /\ rest[1] = "kv"           -> OnKey(q, space, rest[2])
               [] OTHER                                     -> Refused

\* handleAdmin, path being what follows /v1/admin/.
OnAdmin(q, p, path) ==
    IF ~p.admin THEN Refused
    ELSE CASE path = <<"userspaces">> /\ q.method = "GET"  -> Do("list", Blank, Blank)
           [] path = <<"userspaces">> /\ q.method = "POST" -> Do("create", Blank, Blank)
           [] Len(path) > 1 /\ path[1] = "userspaces"      -> OnAdminSpace(q, Tail(path))
           [] OTHER                                        -> Refused

TxParts == {<<"commit", "POST">>, <<"result", "GET">>, <<"abort", "POST">>}

\* handleTx, path being what follows /tx/.  The key of a fragment comes in a
\* header and is decoded once; all else goes by the owner of the transaction.
OnTx(q, p, path) ==
    IF Len(path) = 2 /\ <<path[2], q.method>> \in TxParts
    THEN Do("tx", p.space, path[1])
    ELSE IF Len(path) = 3 /\ path[2] = "ops" /\ q.method = "POST"
              /\ Decode[q.XKVKey] \in ValidKeys
    THEN Do("op", p.space, Decode[q.XKVKey])
    ELSE Refused

\* v1, its switch in the order of the code.
Dispatch(q, p) ==
    LET path == Path(q)
        more == Len(path) > 1
    IN  CASE more /\ path[1] = "kv" -> OnKey(q, p.space, path[2])
          [] more /\ path[1] = "admin" /\ q.prefix = "/v1" -> OnAdmin(q, p, Tail(path))
          [] path = <<"tx">> /\ q.method = "POST" -> Do("newtx", p.space, Blank)
          [] more /\ path[1] = "tx" -> OnTx(q, p, Tail(path))
          [] path = <<"export">> /\ q.method = "GET" -> Do("export", p.space, Blank)
          [] path = <<"import">> /\ q.method = "POST" -> Do("import", p.space, Blank)
          [] OTHER -> IF q.prefix = "/api/v1" THEN OnSpace(q, p, path) ELSE Refused

Serve(r) ==
    /\ pc[r] = "serve"
    /\ pc' = [pc EXCEPT ![r] = "answer"]
    /\ did' = [did EXCEPT ![r] = Dispatch(req[r], who[r])]
    /\ UNCHANGED <<creds, pending, cache, now, req, cred, who, events, made, arrived, known>>

Answer(r) ==
    /\ pc[r] = "answer"
    /\ Return(r)
    /\ UNCHANGED <<creds, pending, cache, now, events, made, known>>

-----------------------------------------------------------------------------
(* The administration, and the clock.                                      *)

\* A credential is handed out, a new key each time, or taken away.  The handler
\* goes on to empty the cache unless persisting failed.
ChangeCredential(c) ==
    /\ ~pending /\ events < MaxEvents
    /\ events' = events + 1
    /\ \/ /\ c[1] = "apikey" /\ c \notin made
          /\ creds' = [creds EXCEPT ![c] = Grants[c]]
          /\ made' = made \cup {c}
          /\ known' = [known EXCEPT ![c] = now]
       \/ /\ creds[c] # NoOne
          /\ creds' = [creds EXCEPT ![c] = NoOne]
          /\ UNCHANGED <<made, known>>
    /\ pending' \in BOOLEAN
    /\ UNCHANGED <<cache, now, reqVars>>

Invalidate ==
    /\ pending
    /\ pending' = FALSE
    /\ cache' = [k \in CacheKeys |-> NoEntry]
    /\ UNCHANGED <<creds, now, reqVars, events, made, known>>

\* The store has the credential, or a request has its answer and not entered it.
InForce(c) == creds[c] # NoOne \/ \E r \in Reqs : pc[r] = "remember" /\ cred[r] = c

Tick ==
    /\ now < MaxNow
    /\ now' = now + 1
    /\ known' = [c \in Credentials |-> IF InForce(c) THEN now + 1 ELSE known[c]]
    /\ UNCHANGED <<creds, pending, cache, reqVars, events, made>>

Step(r) == LookUp(r) \/ Resolve(r) \/ Remember(r) \/ Serve(r) \/ Answer(r)

Next ==
    \/ \E r \in Reqs : Step(r) \/ \E q \in Requests : Arrive(r, q)
    \/ \E c \in Credentials : ChangeCredential(c)
    \/ Invalidate
    \/ Tick

Spec == Init /\ [][Next]_gatewayVars

-----------------------------------------------------------------------------

\* Types; the cache never outgrows its limit, although several requests may
\* miss it at the same time (setCache).
GatewayTypeOK ==
    /\ creds \in [Credentials -> Principal \cup {NoOne}]
    /\ pending \in BOOLEAN
    /\ cache \in [CacheKeys -> [p: Principal, expires: Int] \cup {NoEntry}]
    /\ MaxEntries > 0 => Cardinality({k \in CacheKeys : cache[k] # NoEntry}) <= MaxEntries
    /\ now \in 0..MaxNow
    /\ pc \in [Reqs -> {"idle", "lookup", "resolve", "remember", "serve", "answer"}]
    /\ req \in [Reqs -> Requests \cup {NoRequest}]
    /\ cred \in [Reqs -> Credentials \cup {NoOne}]
    /\ who \in [Reqs -> Principal \cup {NoOne}]
    /\ did \in [Reqs -> Effect \cup {Refused}]
    /\ events \in Nat
    /\ made \subseteq Credentials
    /\ arrived \in [Reqs -> 0..MaxNow]
    /\ known \in [Credentials -> 0..MaxNow]

\* The credentials a request carries in any of its headers; a token counts when
\* it is signed for this server and was in force when the request arrived.
Carried(q, at) ==
    {<<"apikey", n>> : n \in {q.APIKey, q.XAPIKey}}
      \cup (IF q.Authorization = Blank THEN {}
            ELSE IF q.Authorization.scheme = "ApiKey"
            THEN {<<"apikey", q.Authorization.key>>}
            ELSE LET t == q.Authorization.token
                 IN  IF t.signed /\ (t.exp = 0 \/ at < t.exp) /\ (t.nbf = 0 \/ t.nbf <= at)
                     THEN {<<"jwt", t.sub>>} ELSE {})

\* Who is let in acts as the principal that a credential of the very request was
\* made for, never as another's that shares its cache entry, its name or a
\* header, and on a token only while it was in force, also when its subject is
\* in the cache (AuthenticateRequest, verifyJWT, the keys of the cache).
LetInAsOwn ==
    \A r \in Reqs : who[r] # NoOne =>
        \E c \in Carried(req[r], arrived[r]) \cap made : who[r] = Grants[c]

\* Trust in the cache ends: nobody is let in by an entry later than its time to
\* live after the store last had the credential, or a request that had looked it
\* up by then came to enter it; however often the entry is used meanwhile, and
\* whether or not the cache was emptied (getCache, setCache, Invalidate).
TrustEnds ==
    [][\A r \in Reqs : (pc[r] = "lookup" /\ pc'[r] = "serve") =>
          now <= known[cred[r]] + TTL]_gatewayVars

\* Whatever path, method and prefix a request comes with, its handler works in
\* the userspace of the principal it was let in as; only an administrator, and
\* under /v1/admin/ alone, reaches others or the userspaces as such (v1,
\* handleUserspaceKV, handleAdmin).
OwnSpaceOnly ==
    \A r \in Reqs : did[r] # Refused =>
        /\ who[r] # NoOne
        /\ \/ /\ did[r].space = who[r].space
              /\ did[r].act \notin {"list", "create", "remove", "rotate", "keys"}
           \/ who[r].admin /\ req[r].prefix = "/v1" /\ Path(req[r])[1] = "admin"

\* The key as its sender encoded it: the last segment of the path, or the header.
WireKey(q) == IF Path(q)[1] = "tx" THEN q.XKVKey ELSE q.rest[Len(q.rest)]

\* What the documents say of keys in paths: one URL encoding.
KeyEncodedOnce ==
    \A r \in Reqs :
        (did[r] # Refused /\ did[r].act \in {"get", "put", "delete", "op"}) =>
            did[r].name = Decode[WireKey(req[r])]

=============================================================================
