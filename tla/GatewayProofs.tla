--------------------------- MODULE GatewayProofs ---------------------------
(***************************************************************************)
(* LetInAsOwn, OwnSpaceOnly and TrustEnds, for every set of requests,      *)
(* names, tokens, routes and texts, any time to live and any size of the   *)
(* cache.                                                                  *)
(***************************************************************************)
EXTENDS Gateway, FiniteSetTheorems, SequenceTheorems, TLAPS

\* An entry of the cache is for the credential it is filed under, which the
\* store once gave that principal.
EntryOK(c) ==
    cache[c] # NoEntry => c \in made /\ cache[c].p = Grants[c]

\* What a handler may be called for.
Allowed(q, p, e) ==
    \/ /\ e.space = p.space
       /\ e.act \notin {"list", "create", "remove", "rotate", "keys"}
    \/ p.admin /\ q.prefix = "/v1" /\ Path(q)[1] = "admin"

\* A request under way is judged by a credential it carries; once it is let in
\* it is as the principal of that credential.
InHand(r) ==
    /\ pc[r] # "idle" =>
          /\ req[r] \in Requests /\ cred[r] \in Credentials
          /\ cred[r] \in Carried(req[r], arrived[r])
    /\ pc[r] \in {"remember", "serve", "answer"} =>
          who[r] = Grants[cred[r]] /\ cred[r] \in made
    /\ pc[r] \notin {"remember", "serve", "answer"} => who[r] = NoOne
    /\ did[r] # Refused =>
          pc[r] = "answer" /\ Allowed(req[r], who[r], did[r])

\* The parts in which the steps of one request are told from the others'.
Shape ==
    /\ pc \in [Reqs -> {"idle", "lookup", "resolve", "remember", "serve", "answer"}]
    /\ req \in [Reqs -> Requests \cup {NoRequest}]
    /\ cred \in [Reqs -> Credentials \cup {NoOne}]
    /\ who \in [Reqs -> Principal \cup {NoOne}]
    /\ DOMAIN did = Reqs /\ did = [r \in Reqs |-> did[r]]
    /\ DOMAIN arrived = Reqs /\ arrived = [r \in Reqs |-> arrived[r]]
    /\ DOMAIN cache = Credentials /\ cache = [c \in Credentials |-> cache[c]]
    /\ DOMAIN creds = Credentials /\ creds = [c \in Credentials |-> creds[c]]

\* The inductive invariant.
GatewayInv ==
    /\ Shape
    /\ \A c \in Credentials : creds[c] # NoOne => c \in made /\ creds[c] = Grants[c]
    /\ \A c \in Credentials : EntryOK(c)
    /\ \A r \in Reqs : InHand(r)

-----------------------------------------------------------------------------
(* Authentication and dispatch as functions of a request.                  *)

\* The credential that decides is one the request carries (AuthenticateRequest).
LEMMA PresentedIsCarried ==
  ASSUME NEW q \in Requests, Presented(q) # NoOne
  PROVE  Presented(q) \in Credentials /\ Presented(q) \in Carried(q, now)
<1>1. /\ q.APIKey \in Names \cup {Blank} /\ q.XAPIKey \in Names \cup {Blank}
      /\ q.Authorization \in Authorizations
  BY RequestsAssumption DEF Request
<1>2. ASSUME NEW n \in Names \cup {Blank}, n # Blank
      PROVE  KeyCredential(n) = <<"apikey", n>> /\ KeyCredential(n) \in Credentials
  BY <1>2 DEF KeyCredential, Credentials
<1>3. KeyCredential(Blank) = NoOne
  BY DEF KeyCredential
<1>4. CASE q.APIKey # Blank
  BY <1>1, <1>2, <1>4 DEF Presented, Carried
<1>5. CASE q.APIKey = Blank /\ q.XAPIKey # Blank
  BY <1>1, <1>2, <1>5 DEF Presented, Carried
<1>6. CASE q.APIKey = Blank /\ q.XAPIKey = Blank
  <2> DEFINE a == q.Authorization
  <2>1. a # Blank
    BY <1>6 DEF Presented
  <2>2. CASE a.scheme = "ApiKey"
    <3>1. Presented(q) = KeyCredential(a.key)
      BY <1>6, <2>1, <2>2 DEF Presented
    <3>2. a.key \in Names \cup {Blank}
      BY <1>1, <2>1, <2>2 DEF Authorizations
    <3>3. a.key # Blank
      BY <1>3, <3>1
    <3>4. <<"apikey", a.key>> \in Carried(q, now)
      BY <2>1, <2>2 DEF Carried
    <3>5. QED
      BY <1>2, <3>1, <3>2, <3>3, <3>4
  <2>3. CASE a.scheme # "ApiKey"
    <3>1. Fits(a.token) /\ Presented(q) = <<"jwt", a.token.sub>>
      BY <1>6, <2>1, <2>3 DEF Presented
    <3>2. a.token \in Tokens
      BY <1>1, <2>1, <2>3 DEF Authorizations
    <3>3. a.token.sub \in Names
      BY <3>1, <3>2 DEF Tokens, Fits
    <3>4. <<"jwt", a.token.sub>> \in Carried(q, now)
      <4>1. /\ a.token.signed /\ (a.token.exp = 0 \/ now < a.token.exp)
            /\ (a.token.nbf = 0 \/ now >= a.token.nbf)
        BY <3>1 DEF Fits
      <4>2. QED
        BY <2>1, <2>3, <4>1 DEF Carried
    <3>5. QED
      BY <3>1, <3>3, <3>4 DEF Credentials
  <2>4. QED
    BY <2>2, <2>3
<1>7. QED
  BY <1>4, <1>5, <1>6

\* A handler for one key does what it does in the userspace it is given.
LEMMA OnKeySpace ==
  ASSUME NEW q, NEW space, NEW raw, OnKey(q, space, raw) # Refused
  PROVE  /\ OnKey(q, space, raw).space = space
         /\ OnKey(q, space, raw).act \in {"put", "get", "delete"}
<1>1. /\ q.method \in DOMAIN KVActs
      /\ OnKey(q, space, raw) = Do(KVActs[q.method], space, Decode[raw])
  BY DEF OnKey
<1>2. KVActs[q.method] \in {"put", "get", "delete"}
  BY <1>1 DEF KVActs
<1>3. QED
  BY <1>1, <1>2 DEF Do

\* The transaction handlers work for who was let in.
LEMMA OnTxSpace ==
  ASSUME NEW q, NEW p, NEW path, OnTx(q, p, path) # Refused
  PROVE  OnTx(q, p, path).space = p.space /\ OnTx(q, p, path).act \in {"tx", "op"}
<1> DEFINE e == OnTx(q, p, path)
<1>1. \/ e = Do("tx", p.space, path[1])
      \/ e = Do("op", p.space, Decode[q.XKVKey])
  BY DEF OnTx
<1>2. QED
  BY <1>1 DEF Do

\* Whatever the path, the handler works for who was let in (v1).
LEMMA DispatchAllowed ==
  ASSUME NEW q \in Requests, NEW p \in Principal, Dispatch(q, p) # Refused
  PROVE  Allowed(q, p, Dispatch(q, p))
<1> DEFINE path == Path(q)
           more == Len(path) > 1
           e == Dispatch(q, p)
<1>1. CASE more /\ path[1] = "kv"
  <2>1. e = OnKey(q, p.space, path[2])
    BY <1>1 DEF Dispatch
  <2>2. QED
    BY <2>1, OnKeySpace DEF Allowed
<1>2. CASE more /\ path[1] = "admin" /\ q.prefix = "/v1"
  <2>1. e = OnAdmin(q, p, Tail(path))
    <3>1. path[1] # "kv"
      BY <1>2
    <3>2. QED
      BY <1>2, <3>1 DEF Dispatch
  <2>2. p.admin
    <3>1. ~p.admin => OnAdmin(q, p, Tail(path)) = Refused
      BY Zenon DEF OnAdmin
    <3>2. QED
      BY <2>1, <3>1
  <2>3. QED
    BY <1>2, <2>2 DEF Allowed
<1>3. CASE /\ ~(more /\ path[1] = "kv")
           /\ ~(more /\ path[1] = "admin" /\ q.prefix = "/v1")
  <2> DEFINE create == path = <<"tx">> /\ q.method = "POST"
             tx     == more /\ path[1] = "tx"
             export == path = <<"export">> /\ q.method = "GET"
             import == path = <<"import">> /\ q.method = "POST"
  <2>1. CASE create
    BY <1>3, <2>1 DEF Dispatch, Do, Allowed
  <2>2. CASE ~create /\ tx
    <3>1. e = OnTx(q, p, Tail(path))
      BY <1>3, <2>2 DEF Dispatch
    <3>2. e.space = p.space /\ e.act \in {"tx", "op"}
      BY <3>1, OnTxSpace
    <3>3. QED
      BY <3>2 DEF Allowed
  <2>3. CASE ~create /\ ~tx /\ export
    BY <1>3, <2>3 DEF Dispatch, Do, Allowed
  <2>4. CASE ~create /\ ~tx /\ ~export /\ import
    BY <1>3, <2>4 DEF Dispatch, Do, Allowed
  <2>5. CASE ~create /\ ~tx /\ ~export /\ ~import
    <3>1. e = OnSpace(q, p, path)
      BY <1>3, <2>5 DEF Dispatch
    <3>2. e = OnKey(q, p.space, path[2])
      BY <3>1 DEF OnSpace, OwnSpace
    <3>3. QED
      BY <3>2, OnKeySpace DEF Allowed
  <2>6. QED
    BY <2>1, <2>2, <2>3, <2>4, <2>5
<1>4. QED
  BY <1>1, <1>2, <1>3

-----------------------------------------------------------------------------
(* The steps.                                                              *)

\* A step of one request that leaves the credentials and the cache as they are
\* and keeps what that request has in hand.
LEMMA OthersInHand ==
  ASSUME GatewayInv, NEW r \in Reqs, made \subseteq made',
         NEW q \in Reqs \ {r},
         UNCHANGED <<pc[q], req[q], cred[q], who[q], did[q], arrived[q]>>
  PROVE  InHand(q)'
<1>1. InHand(q)
  BY DEF GatewayInv
<1>2. QED
  BY <1>1 DEF InHand, Allowed, Carried, Path

\* The answer is written.
LEMMA ReturnKeepsInv ==
  ASSUME GatewayInv, NEW r \in Reqs, Return(r),
         UNCHANGED <<creds, cache, made>>
  PROVE  GatewayInv'
<1>1. Shape'
  BY DEF GatewayInv, Shape, Return
<1>2. InHand(r)'
  BY DEF GatewayInv, Shape, Return, InHand
<1>3. ASSUME NEW q \in Reqs \ {r} PROVE InHand(q)'
  <2>1. UNCHANGED <<pc[q], req[q], cred[q], who[q], did[q], arrived[q]>>
    BY DEF GatewayInv, Shape, Return
  <2>2. QED
    BY <2>1, OthersInHand
<1>4. \A c \in Credentials : EntryOK(c)'
  BY DEF GatewayInv, EntryOK
<1>5. QED
  BY <1>1, <1>2, <1>3, <1>4 DEF GatewayInv

\* A request goes on as somebody, or as nobody yet.
LEMMA LetInKeepsInv ==
  ASSUME GatewayInv, NEW r \in Reqs, pc[r] \in {"lookup", "resolve", "remember"},
         NEW p \in Principal \cup {NoOne}, NEW next \in {"resolve", "remember", "serve"},
         LetIn(r, p, next), UNCHANGED <<creds, made>>,
         next = "resolve" => p = NoOne,
         next # "resolve" => p = Grants[cred[r]] /\ cred[r] \in made,
         DOMAIN cache' = Credentials, cache' = [c \in Credentials |-> cache'[c]],
         \A c \in Credentials : EntryOK(c)'
  PROVE  GatewayInv'
<1>1. Shape'
  BY DEF GatewayInv, Shape, LetIn
<1>2. /\ pc'[r] = next /\ who'[r] = p
      /\ UNCHANGED <<req[r], cred[r], did[r], arrived[r]>>
  BY DEF GatewayInv, Shape, LetIn
<1>3. InHand(r)
  BY DEF GatewayInv
<1>4. InHand(r)'
  BY <1>2, <1>3 DEF InHand, Carried
<1>5. ASSUME NEW q \in Reqs \ {r} PROVE InHand(q)'
  <2>1. UNCHANGED <<pc[q], req[q], cred[q], who[q], did[q], arrived[q]>>
    BY DEF GatewayInv, Shape, LetIn
  <2>2. QED
    BY <2>1, OthersInHand
<1>6. QED
  BY <1>1, <1>4, <1>5 DEF GatewayInv

\* The look-up in the cache.
LEMMA LookUpKeepsInv ==
  ASSUME GatewayInv, NEW r \in Reqs, LookUp(r)
  PROVE  GatewayInv'
<1>1. /\ pc[r] = "lookup" /\ cred[r] \in Credentials
      /\ UNCHANGED <<creds, made>>
  BY DEF GatewayInv, InHand, LookUp
<1>2. CASE Hit(cred[r])
  <2>1. LetIn(r, cache[cred[r]].p, "serve") /\ cache' = cache
    BY <1>2 DEF LookUp, CacheKey
  <2>2. cache[cred[r]].p = Grants[cred[r]] /\ cred[r] \in made
    BY <1>1, <1>2 DEF GatewayInv, EntryOK, Hit
  <2>3. Grants[cred[r]] \in Principal
    BY <1>1, GrantsAssumption
  <2>4. \A c \in Credentials : EntryOK(c)'
    BY <1>1, <2>1 DEF GatewayInv, EntryOK
  <2>5. DOMAIN cache = Credentials /\ cache = [c \in Credentials |-> cache[c]]
    BY DEF GatewayInv, Shape
  <2>6. QED
    BY <1>1, <2>1, <2>2, <2>3, <2>4, <2>5, LetInKeepsInv
<1>3. CASE ~Hit(cred[r])
  <2>1. LetIn(r, NoOne, "resolve") /\ cache' = [cache EXCEPT ![cred[r]] = NoEntry]
    BY <1>3 DEF LookUp, CacheKey
  <2>2. /\ DOMAIN cache' = Credentials /\ cache' = [c \in Credentials |-> cache'[c]]
        /\ \A c \in Credentials : cache'[c] \in {cache[c], NoEntry}
    BY <1>1, <2>1 DEF GatewayInv, Shape
  <2>3. \A c \in Credentials : EntryOK(c)'
    BY <1>1, <2>2 DEF GatewayInv, EntryOK
  <2>4. QED
    BY <1>1, <2>1, <2>2, <2>3, LetInKeepsInv
<1>4. QED
  BY <1>2, <1>3

\* The look-up in the store.
LEMMA ResolveKeepsInv ==
  ASSUME GatewayInv, NEW r \in Reqs, Resolve(r)
  PROVE  GatewayInv'
<1>1. /\ pc[r] = "resolve" /\ cred[r] \in Credentials
      /\ UNCHANGED <<creds, cache, made>>
  BY DEF GatewayInv, InHand, Resolve
<1>2. CASE creds[cred[r]] = NoOne
  BY <1>1, <1>2, ReturnKeepsInv DEF Resolve
<1>3. CASE creds[cred[r]] # NoOne
  <2>1. LetIn(r, creds[cred[r]], "remember")
    BY <1>3 DEF Resolve
  <2>2. creds[cred[r]] = Grants[cred[r]] /\ cred[r] \in made
    BY <1>1, <1>3 DEF GatewayInv
  <2>3. Grants[cred[r]] \in Principal
    BY <1>1, GrantsAssumption
  <2>4. \A c \in Credentials : EntryOK(c)'
    BY <1>1 DEF GatewayInv, EntryOK
  <2>5. DOMAIN cache = Credentials /\ cache = [c \in Credentials |-> cache[c]]
    BY DEF GatewayInv, Shape
  <2>6. QED
    BY <1>1, <2>1, <2>2, <2>3, <2>4, <2>5, LetInKeepsInv
<1>4. QED
  BY <1>2, <1>3

\* The entry into the cache.
LEMMA RememberKeepsInv ==
  ASSUME GatewayInv, NEW r \in Reqs, Remember(r)
  PROVE  GatewayInv'
<1> DEFINE k == cred[r]
           entry == [p |-> who[r], expires |-> now + TTL]
<1>1. /\ pc[r] = "remember" /\ k \in Credentials
      /\ who[r] = Grants[k] /\ k \in made /\ Grants[k] \in Principal
      /\ LetIn(r, who[r], "serve")
      /\ UNCHANGED <<creds, made>>
  BY GrantsAssumption DEF GatewayInv, InHand, Remember
<1>2. PICK old \in Evicted :
        cache' = [c \in CacheKeys |->
                    IF c = k THEN entry ELSE IF c = old THEN NoEntry ELSE cache[c]]
  BY DEF Remember, CacheKey
<1>3. CacheKeys = Credentials
  BY DEF CacheKeys, CacheKey
<1>4. /\ DOMAIN cache' = Credentials /\ cache' = [c \in Credentials |-> cache'[c]]
      /\ cache'[k] = entry
      /\ \A c \in Credentials \ {k} : cache'[c] \in {cache[c], NoEntry}
  BY <1>1, <1>2, <1>3
<1>5. entry.p = who[r]
  OBVIOUS
<1> HIDE DEF entry
<1>6. \A c \in Credentials : EntryOK(c)'
  BY <1>1, <1>4, <1>5 DEF GatewayInv, EntryOK
<1>7. QED
  BY <1>1, <1>4, <1>6, LetInKeepsInv

\* The handler is called.
LEMMA ServeKeepsInv ==
  ASSUME GatewayInv, NEW r \in Reqs, Serve(r)
  PROVE  GatewayInv'
<1> DEFINE e == Dispatch(req[r], who[r])
<1>1. /\ pc[r] = "serve" /\ pc' = [pc EXCEPT ![r] = "answer"]
      /\ did' = [did EXCEPT ![r] = e]
      /\ UNCHANGED <<creds, cache, req, cred, who, made, arrived>>
  BY DEF Serve
<1>2. /\ req[r] \in Requests /\ cred[r] \in Credentials
      /\ cred[r] \in Carried(req[r], arrived[r])
      /\ who[r] = Grants[cred[r]] /\ cred[r] \in made
  BY <1>1 DEF GatewayInv, InHand
<1>3. e # Refused => Allowed(req[r], who[r], e)
  BY <1>2, GrantsAssumption, DispatchAllowed
<1> HIDE DEF e
<1>4. Shape'
  BY <1>1 DEF GatewayInv, Shape
<1>5. pc'[r] = "answer" /\ did'[r] = e
  BY <1>1 DEF GatewayInv, Shape
<1>6. InHand(r)'
  BY <1>1, <1>2, <1>3, <1>5 DEF InHand, Allowed, Carried, Path
<1>7. ASSUME NEW q \in Reqs \ {r} PROVE InHand(q)'
  <2>1. UNCHANGED <<pc[q], req[q], cred[q], who[q], did[q], arrived[q]>>
    BY <1>1 DEF GatewayInv, Shape
  <2>2. QED
    BY <1>1, <2>1, OthersInHand
<1>8. \A c \in Credentials : EntryOK(c)'
  BY <1>1 DEF GatewayInv, EntryOK
<1>9. QED
  BY <1>1, <1>4, <1>6, <1>7, <1>8 DEF GatewayInv

\* A request arrives, and goes on if it carries a credential.
LEMMA ArriveKeepsInv ==
  ASSUME GatewayInv, NEW r \in Reqs, NEW q \in Requests, Arrive(r, q)
  PROVE  GatewayInv'
<1>1. pc[r] = "idle" /\ UNCHANGED <<creds, cache, made>>
  BY DEF Arrive
<1>2. \A c \in Credentials : EntryOK(c)'
  BY <1>1 DEF GatewayInv, EntryOK
<1>3. CASE UNCHANGED reqVars
  <2>1. \A o \in Reqs : InHand(o)'
    BY <1>1, <1>3 DEF reqVars, GatewayInv, InHand, Allowed, Carried, Path
  <2>2. QED
    BY <1>1, <1>2, <1>3, <2>1 DEF reqVars, GatewayInv, Shape
<1>4. CASE ~(Open(q) \/ Presented(q) = NoOne)
  <2>1. /\ pc' = [pc EXCEPT ![r] = "lookup"]
        /\ req' = [req EXCEPT ![r] = q]
        /\ cred' = [cred EXCEPT ![r] = Presented(q)]
        /\ arrived' = [arrived EXCEPT ![r] = now]
        /\ UNCHANGED <<who, did>>
    BY <1>4 DEF Arrive
  <2>2. Presented(q) \in Credentials /\ Presented(q) \in Carried(q, now)
    BY <1>4, PresentedIsCarried
  <2>3. Shape'
    BY <1>1, <2>1, <2>2 DEF GatewayInv, Shape
  <2>4. /\ pc'[r] = "lookup" /\ req'[r] = q /\ cred'[r] = Presented(q)
        /\ arrived'[r] = now /\ who'[r] = who[r] /\ did'[r] = did[r]
    BY <2>1 DEF GatewayInv, Shape
  <2>5. InHand(r)
    BY DEF GatewayInv
  <2>6. InHand(r)'
    BY <1>1, <2>2, <2>4, <2>5 DEF InHand, Carried
  <2>7. ASSUME NEW o \in Reqs \ {r} PROVE InHand(o)'
    <3>1. UNCHANGED <<pc[o], req[o], cred[o], who[o], did[o], arrived[o]>>
      BY <2>1 DEF GatewayInv, Shape
    <3>2. QED
      BY <1>1, <3>1, OthersInHand
  <2>8. QED
    BY <1>1, <1>2, <2>3, <2>6, <2>7 DEF GatewayInv
<1>5. QED
  BY <1>3, <1>4 DEF Arrive

\* The administration and the clock.
LEMMA OutsideKeepsInv ==
  ASSUME GatewayInv,
         (\E c \in Credentials : ChangeCredential(c)) \/ Invalidate \/ Tick
  PROVE  GatewayInv'
<1>1. made \subseteq made' /\ UNCHANGED reqVars
  BY DEF ChangeCredential, Invalidate, Tick
<1>2. \A r \in Reqs : InHand(r)'
  BY <1>1 DEF reqVars, GatewayInv, InHand, Allowed, Carried, Path
<1>3. /\ DOMAIN cache' = Credentials /\ cache' = [c \in Credentials |-> cache'[c]]
      /\ \A c \in Credentials : cache'[c] \in {cache[c], NoEntry}
  BY DEF GatewayInv, Shape, ChangeCredential, Invalidate, Tick, CacheKeys, CacheKey
<1>4. \A c \in Credentials : EntryOK(c)'
  BY <1>1, <1>3 DEF GatewayInv, EntryOK
<1>5. /\ DOMAIN creds' = Credentials /\ creds' = [c \in Credentials |-> creds'[c]]
      /\ \A c \in Credentials : creds'[c] # NoOne => c \in made' /\ creds'[c] = Grants[c]
  BY DEF GatewayInv, Shape, ChangeCredential, Invalidate, Tick
<1>6. Shape'
  BY <1>1, <1>3, <1>5 DEF reqVars, GatewayInv, Shape
<1>7. QED
  BY <1>2, <1>4, <1>5, <1>6 DEF GatewayInv

\* The server starts with what the store holds and an empty cache.
LEMMA InitInv == Init => GatewayInv
<1> SUFFICES ASSUME Init PROVE GatewayInv
  OBVIOUS
<1>1. CacheKeys = Credentials
  BY DEF CacheKeys, CacheKey
<1>2. Shape
  BY <1>1 DEF Init, Shape
<1>3. /\ \A c \in Credentials : EntryOK(c)
      /\ \A c \in Credentials : creds[c] # NoOne => c \in made /\ creds[c] = Grants[c]
  BY <1>1 DEF Init, EntryOK
<1>4. \A r \in Reqs : InHand(r)
  BY DEF Init, InHand
<1>5. QED
  BY <1>2, <1>3, <1>4 DEF GatewayInv

\* Whatever requests overlap, and whatever becomes of the credentials meanwhile,
\* entries of the cache and requests under way are what they are taken for.
THEOREM GatewayInvariant == Spec => []GatewayInv
<1>1. GatewayInv /\ [Next]_gatewayVars => GatewayInv'
  <2> SUFFICES ASSUME GatewayInv, [Next]_gatewayVars PROVE GatewayInv'
    OBVIOUS
  <2>1. ASSUME NEW r \in Reqs, Step(r) PROVE GatewayInv'
    <3>1. CASE Answer(r)
      BY <3>1, ReturnKeepsInv DEF Answer
    <3>2. QED
      BY <2>1, <3>1, LookUpKeepsInv, ResolveKeepsInv, RememberKeepsInv,
         ServeKeepsInv DEF Step
  <2>2. CASE UNCHANGED gatewayVars
    BY <2>2 DEF gatewayVars, GatewayInv, Shape, EntryOK, InHand, Allowed, Carried, Path
  <2>3. QED
    BY <2>1, <2>2, ArriveKeepsInv, OutsideKeepsInv DEF Next
<1>2. QED
  BY <1>1, InitInv, PTL DEF Spec

\* Nobody acts as another: the principal is that of a credential the request
\* carries, valid when it arrived (AuthenticateRequest, the cache).
THEOREM NobodyActsAsAnother == Spec => []LetInAsOwn
<1>1. GatewayInv => LetInAsOwn
  <2> SUFFICES ASSUME GatewayInv, NEW r \in Reqs, who[r] # NoOne
               PROVE  \E c \in Carried(req[r], arrived[r]) \cap made : who[r] = Grants[c]
    BY DEF LetInAsOwn
  <2>1. /\ cred[r] \in Carried(req[r], arrived[r]) /\ cred[r] \in made
        /\ who[r] = Grants[cred[r]]
    BY DEF GatewayInv, InHand
  <2>2. QED
    BY <2>1
<1>2. QED
  BY <1>1, GatewayInvariant, PTL

\* Every handler works in the caller's own userspace, but for administrators
\* under /v1/admin/, whatever the route (v1, handleUserspaceKV, handleAdmin).
THEOREM EachInItsOwnSpace == Spec => []OwnSpaceOnly
<1>1. GatewayInv => OwnSpaceOnly
  <2> SUFFICES ASSUME GatewayInv, NEW r \in Reqs, did[r] # Refused
               PROVE  who[r] # NoOne /\ Allowed(req[r], who[r], did[r])
    BY DEF OwnSpaceOnly, Allowed
  <2>1. /\ pc[r] = "answer" /\ Allowed(req[r], who[r], did[r])
        /\ cred[r] \in Credentials /\ who[r] = Grants[cred[r]]
    BY DEF GatewayInv, InHand
  <2>2. QED
    BY <2>1, GrantsAssumption
<1>2. QED
  BY <1>1, GatewayInvariant, PTL

-----------------------------------------------------------------------------
(* Types, and the size of the cache.                                       *)

\* A path that net/http has let pass is one of texts.
LEMMA PathType ==
  ASSUME NEW q \in Requests
  PROVE  Path(q) \in Seq(Texts)
<1>1. q.rest \in Seq(Texts) /\ \A i \in DOMAIN q.rest : Decode[q.rest[i]] # Bad
  BY RequestsAssumption DEF Request
<1>2. \A i \in 1..Len(q.rest) : Decode[q.rest[i]] \in Texts
  BY <1>1, TextAssumption
<1>3. Path(q) \in [1..Len(q.rest) -> Texts] /\ Len(q.rest) \in Nat
  BY <1>1, <1>2 DEF Path
<1>4. QED
  BY <1>3

\* What is left of a path after its first segment is a path.
LEMMA TailType ==
  ASSUME NEW path \in Seq(Texts), Len(path) >= 1
  PROVE  Tail(path) \in Seq(Texts) /\ path[1] \in Texts
  OBVIOUS

LEMMA DoType ==
  ASSUME NEW act \in {"get", "put", "delete", "newtx", "op", "tx", "export", "import",
                      "list", "create", "remove", "rotate", "keys"},
         NEW space \in Spaces \cup ValidSpaces \cup {Blank},
         NEW name \in Texts \cup {Blank}
  PROVE  Do(act, space, name) \in Effect
  BY DEF Do, Effect

LEMMA OnKeyType ==
  ASSUME NEW q, NEW raw, NEW space \in Spaces \cup ValidSpaces \cup {Blank}
  PROVE  OnKey(q, space, raw) \in Effect \cup {Refused}
<1>1. CASE Decode[raw] \in ValidKeys /\ q.method \in DOMAIN KVActs
  <2>1. KVActs[q.method] \in {"put", "get", "delete"}
    BY <1>1 DEF KVActs
  <2>2. Do(KVActs[q.method], space, Decode[raw]) \in Effect
    BY <1>1, <2>1, TextAssumption, DoType
  <2>3. QED
    BY <1>1, <2>2 DEF OnKey
<1>2. QED
  BY <1>1 DEF OnKey

LEMMA OnTxType ==
  ASSUME NEW q, NEW p \in Principal, NEW path \in Seq(Texts)
  PROVE  OnTx(q, p, path) \in Effect \cup {Refused}
<1>1. p.space \in Spaces
  BY DEF Principal
<1>2. CASE Len(path) = 2 /\ <<path[2], q.method>> \in TxParts
  <2>1. OnTx(q, p, path) = Do("tx", p.space, path[1])
    BY <1>2 DEF OnTx
  <2>2. path[1] \in Texts
    <3>1. Len(path) >= 1
      BY <1>2
    <3>2. QED
      BY <3>1, TailType
  <2>3. QED
    BY <1>1, <2>1, <2>2, DoType
<1>3. CASE ~(Len(path) = 2 /\ <<path[2], q.method>> \in TxParts)
  <2>1. CASE Decode[q.XKVKey] \in ValidKeys
    <3>1. Do("op", p.space, Decode[q.XKVKey]) \in Effect
      BY <1>1, <2>1, TextAssumption, DoType
    <3>2. QED
      BY <1>3, <3>1 DEF OnTx
  <2>2. CASE Decode[q.XKVKey] \notin ValidKeys
    BY <1>3, <2>2 DEF OnTx
  <2>3. QED
    BY <2>1, <2>2
<1>4. QED
  BY <1>2, <1>3

\* The answers of handleAdminUserspace; a key is the second of two segments.
LEMMA OnAdminSpaceShape ==
  ASSUME NEW q, NEW path
  PROVE  LET space == Decode[path[1]]
             rest  == Tail(path)
             e     == OnAdminSpace(q, path)
         IN  \/ e = Refused
             \/ /\ space \in ValidSpaces
                /\ \/ \E act \in {"remove", "rotate", "keys"} : e = Do(act, space, Blank)
                   \/ Len(rest) = 2 /\ e = OnKey(q, space, rest[2])
<1> DEFINE space == Decode[path[1]]
           rest  == Tail(path)
           e     == OnAdminSpace(q, path)
           c1 == rest = <<>> /\ q.method = "DELETE"
           c2 == rest = <<"api-key">> /\ q.method = "POST"
           c3 == rest = <<"keys">> /\ q.method = "GET"
           c4 == Len(rest) = 2 /\ rest[1] = "kv"
<1>1. CASE space \notin ValidSpaces
  BY <1>1, Zenon DEF OnAdminSpace
<1>2. CASE space \in ValidSpaces
  <2>1. e = CASE c1 -> Do("remove", space, Blank)
              [] c2 -> Do("rotate", space, Blank)
              [] c3 -> Do("keys", space, Blank)
              [] c4 -> OnKey(q, space, rest[2])
              [] OTHER -> Refused
    BY <1>2, Zenon DEF OnAdminSpace
  <2>2. \/ e = Do("remove", space, Blank) \/ e = Do("rotate", space, Blank)
        \/ e = Do("keys", space, Blank) \/ e = Refused
        \/ c4 /\ e = OnKey(q, space, rest[2])
    <3>1. /\ c1 => ~c2 /\ ~c3 /\ ~c4
          /\ c2 => ~c1 /\ ~c3 /\ ~c4
          /\ c3 => ~c1 /\ ~c2 /\ ~c4
      <4> HIDE DEF rest
      <4>1. c1 => rest = <<>>
        OBVIOUS
      <4>2. c2 => Len(rest) = 1 /\ rest[1] = "api-key"
        OBVIOUS
      <4>3. c3 => Len(rest) = 1 /\ rest[1] = "keys"
        OBVIOUS
      <4>4. c4 => Len(rest) = 2
        OBVIOUS
      <4> HIDE DEF c1, c2, c3, c4
      <4>5. QED
        BY <4>1, <4>2, <4>3, <4>4
    <3> HIDE DEF c1, c2, c3, c4, e, space, rest
    <3>2. CASE c1
      BY <2>1, <3>1, <3>2
    <3>3. CASE c2
      BY <2>1, <3>1, <3>3
    <3>4. CASE c3
      BY <2>1, <3>1, <3>4
    <3>5. CASE ~c1 /\ ~c2 /\ ~c3 /\ c4
      BY <2>1, <3>5
    <3>6. CASE ~c1 /\ ~c2 /\ ~c3 /\ ~c4
      BY <2>1, <3>6
    <3>7. QED
      BY Zenon, <3>2, <3>3, <3>4, <3>5, <3>6
  <2>3. c4 => Len(rest) = 2
    OBVIOUS
  <2> HIDE DEF c4, e, space, rest
  <2>4. e # Refused => space \in ValidSpaces
           /\ \/ \E act \in {"remove", "rotate", "keys"} : e = Do(act, space, Blank)
              \/ Len(rest) = 2 /\ e = OnKey(q, space, rest[2])
    BY <1>2, <2>2, <2>3
  <2>5. QED
    BY <2>4 DEF e, space, rest
<1>3. QED
  BY <1>1, <1>2

\* The answers of handleAdmin.
LEMMA OnAdminShape ==
  ASSUME NEW q, NEW p, NEW path
  PROVE  LET e == OnAdmin(q, p, path)
         IN  \/ e = Refused
             \/ \E act \in {"list", "create"} : e = Do(act, Blank, Blank)
             \/ Len(path) > 1 /\ e = OnAdminSpace(q, Tail(path))
<1> DEFINE e == OnAdmin(q, p, path)
           list == path = <<"userspaces">> /\ q.method = "GET"
           create == path = <<"userspaces">> /\ q.method = "POST"
           one == Len(path) > 1 /\ path[1] = "userspaces"
<1>1. CASE ~p.admin
  BY <1>1, Zenon DEF OnAdmin
<1>2. CASE p.admin
  <2>1. e = CASE list -> Do("list", Blank, Blank)
              [] create -> Do("create", Blank, Blank)
              [] one -> OnAdminSpace(q, Tail(path))
              [] OTHER -> Refused
    BY <1>2, Zenon DEF OnAdmin
  <2>2. \/ e = Do("list", Blank, Blank) \/ e = Do("create", Blank, Blank)
        \/ e = Refused
        \/ Len(path) > 1 /\ e = OnAdminSpace(q, Tail(path))
    <3>1. CASE list
      BY <2>1, <3>1
    <3>2. CASE ~list /\ create
      BY <2>1, <3>2
    <3>3. CASE ~list /\ ~create /\ one
      BY <2>1, <3>3
    <3>4. CASE ~list /\ ~create /\ ~one
      BY <2>1, <3>4
    <3> HIDE DEF list, create, one
    <3>5. QED
      BY Zenon, <3>1, <3>2, <3>3, <3>4
  <2> HIDE DEF e
  <2>3. QED
    BY <2>2 DEF e
<1>3. QED
  BY <1>1, <1>2

LEMMA OnAdminType ==
  ASSUME NEW q, NEW p \in Principal, NEW path \in Seq(Texts)
  PROVE  OnAdmin(q, p, path) \in Effect \cup {Refused}
<1> DEFINE e == OnAdminSpace(q, Tail(path))
           space == Decode[Tail(path)[1]]
           key == OnKey(q, space, Tail(Tail(path))[2])
<1>1. e \in Effect \cup {Refused}
  <2>1. \/ e = Refused
        \/ /\ space \in ValidSpaces
           /\ \/ \E act \in {"remove", "rotate", "keys"} : e = Do(act, space, Blank)
              \/ e = key
    BY OnAdminSpaceShape
  <2> HIDE DEF e, space, key
  <2>2. space \in ValidSpaces => key \in Effect \cup {Refused}
    BY OnKeyType DEF key
  <2>3. space \in ValidSpaces =>
          \A act \in {"remove", "rotate", "keys"} : Do(act, space, Blank) \in Effect
    BY DoType
  <2>4. QED
    BY <2>1, <2>2, <2>3
<1>2. \A act \in {"list", "create"} : Do(act, Blank, Blank) \in Effect
  BY DoType
<1> HIDE DEF e
<1>3. QED
  BY <1>1, <1>2, OnAdminShape DEF e

\* The answers of v1, and the condition each depends on.
LEMMA DispatchShape ==
  ASSUME NEW q, NEW p
  PROVE  LET path == Path(q)
             more == Len(path) > 1
             e    == Dispatch(q, p)
         IN  \/ more /\ path[1] = "kv" /\ e = OnKey(q, p.space, path[2])
             \/ more /\ path[1] = "admin" /\ e = OnAdmin(q, p, Tail(path))
             \/ more /\ path[1] = "tx" /\ e = OnTx(q, p, Tail(path))
             \/ \E act \in {"newtx", "export", "import"} : e = Do(act, p.space, Blank)
             \/ ~(more /\ path[1] = "tx") /\ e = OnSpace(q, p, path)
             \/ e = Refused
<1> DEFINE path == Path(q)
           more == Len(path) > 1
           e    == Dispatch(q, p)
           kv     == more /\ path[1] = "kv"
           admin  == more /\ path[1] = "admin" /\ q.prefix = "/v1"
           create == path = <<"tx">> /\ q.method = "POST"
           tx     == more /\ path[1] = "tx"
           export == path = <<"export">> /\ q.method = "GET"
           import == path = <<"import">> /\ q.method = "POST"
<1>1. e = CASE kv -> OnKey(q, p.space, path[2])
            [] admin -> OnAdmin(q, p, Tail(path))
            [] create -> Do("newtx", p.space, Blank)
            [] tx -> OnTx(q, p, Tail(path))
            [] export -> Do("export", p.space, Blank)
            [] import -> Do("import", p.space, Blank)
            [] OTHER -> IF q.prefix = "/api/v1" THEN OnSpace(q, p, path) ELSE Refused
  BY Zenon DEF Dispatch
<1>2. \/ kv /\ e = OnKey(q, p.space, path[2])
      \/ admin /\ e = OnAdmin(q, p, Tail(path))
      \/ e = Do("newtx", p.space, Blank)
      \/ tx /\ e = OnTx(q, p, Tail(path))
      \/ e = Do("export", p.space, Blank)
      \/ e = Do("import", p.space, Blank)
      \/ ~tx /\ e = OnSpace(q, p, path)
      \/ e = Refused
  <2> HIDE DEF kv, admin, create, tx, export, import, e, path
  <2>1. CASE kv
    BY <1>1, <2>1
  <2>2. CASE ~kv /\ admin
    BY <1>1, <2>2
  <2>3. CASE ~kv /\ ~admin /\ create
    BY <1>1, <2>3
  <2>4. CASE ~kv /\ ~admin /\ ~create /\ tx
    BY <1>1, <2>4
  <2>5. CASE ~kv /\ ~admin /\ ~create /\ ~tx /\ export
    BY <1>1, <2>5
  <2>6. CASE ~kv /\ ~admin /\ ~create /\ ~tx /\ ~export /\ import
    BY <1>1, <2>6
  <2>7. CASE ~kv /\ ~admin /\ ~create /\ ~tx /\ ~export /\ ~import
    BY <1>1, <2>7
  <2>8. QED
    BY Zenon, <2>1, <2>2, <2>3, <2>4, <2>5, <2>6, <2>7
<1> HIDE DEF e, path
<1>3. QED
  BY <1>2 DEF e, path

\* Every path leads to a handler, with a userspace and a name, or is refused.
LEMMA DispatchType ==
  ASSUME NEW q \in Requests, NEW p \in Principal
  PROVE  Dispatch(q, p) \in Effect \cup {Refused}
<1> DEFINE path == Path(q)
           more == Len(path) > 1
           e == Dispatch(q, p)
<1>1. path \in Seq(Texts) /\ p.space \in Spaces
  BY PathType DEF Principal
<1>2. \/ e = OnKey(q, p.space, path[2])
      \/ more /\ e = OnAdmin(q, p, Tail(path))
      \/ more /\ e = OnTx(q, p, Tail(path))
      \/ \E act \in {"newtx", "export", "import"} : e = Do(act, p.space, Blank)
      \/ e = OnSpace(q, p, path)
      \/ e = Refused
  BY DispatchShape
<1>3. OnKey(q, p.space, path[2]) \in Effect \cup {Refused}
  BY <1>1, OnKeyType
<1>4. more => Tail(path) \in Seq(Texts)
  BY <1>1, TailType
<1>5. more => /\ OnAdmin(q, p, Tail(path)) \in Effect \cup {Refused}
              /\ OnTx(q, p, Tail(path)) \in Effect \cup {Refused}
  BY <1>4, OnAdminType, OnTxType
<1>6. \A act \in {"newtx", "export", "import"} : Do(act, p.space, Blank) \in Effect
  BY <1>1, DoType
<1>7. OnSpace(q, p, path) \in Effect \cup {Refused}
  <2>1. CASE Len(path) = 2 /\ OwnSpace(p, Decode[path[1]])
    <3>1. Decode[path[1]] \in ValidSpaces
      BY <2>1 DEF OwnSpace
    <3>2. OnKey(q, Decode[path[1]], path[2]) \in Effect \cup {Refused}
      BY <3>1, OnKeyType
    <3>3. QED
      BY <2>1, <3>2 DEF OnSpace
  <2>2. QED
    BY <2>1 DEF OnSpace
<1> HIDE DEF e, path, more
<1>8. e \in Effect \cup {Refused}
  BY <1>2, <1>3, <1>5, <1>6, <1>7
<1>9. QED
  BY <1>8 DEF e

Filled == {k \in CacheKeys : cache[k] # NoEntry}

\* How much the cache may hold.
WithinMax(S) == IsFiniteSet(S) /\ (MaxEntries > 0 => Cardinality(S) <= MaxEntries)

TypeInv == GatewayTypeOK /\ IsFiniteSet(Filled)

Entry == [p: Principal, expires: Int]

LEMMA TypeParts ==
  TypeInv <=>
    /\ creds \in [Credentials -> Principal \cup {NoOne}]
    /\ pending \in BOOLEAN
    /\ cache \in [Credentials -> Entry \cup {NoEntry}]
    /\ WithinMax(Filled)
    /\ now \in 0..MaxNow
    /\ pc \in [Reqs -> {"idle", "lookup", "resolve", "remember", "serve", "answer"}]
    /\ req \in [Reqs -> Requests \cup {NoRequest}]
    /\ cred \in [Reqs -> Credentials \cup {NoOne}]
    /\ who \in [Reqs -> Principal \cup {NoOne}]
    /\ did \in [Reqs -> Effect \cup {Refused}]
    /\ events \in Nat
    /\ made \subseteq Credentials
    /\ arrived \in [Reqs -> 0..MaxNow]
    /\ known \in [Credentials -> 0..MaxNow]
<1>1. CacheKeys = Credentials
  BY DEF CacheKeys, CacheKey
<1>2. QED
  BY <1>1 DEF TypeInv, GatewayTypeOK, Filled, WithinMax, Entry

\* With fewer entries the cache is within its limit, too.
LEMMA FewerWithinMax ==
  ASSUME NEW S, WithinMax(S), NEW T \in SUBSET S
  PROVE  WithinMax(T)
<1>1. IsFiniteSet(T) /\ Cardinality(T) <= Cardinality(S)
  BY FS_Subset DEF WithinMax
<1>2. Cardinality(T) \in Nat /\ Cardinality(S) \in Nat
  BY <1>1, FS_CardinalityType DEF WithinMax
<1>3. QED
  BY <1>1, <1>2, LimitAssumption DEF WithinMax

\* One more, when it is full in the place of another, is too (setCache).
LEMMA OneMoreWithinMax ==
  ASSUME TypeInv, NEW k, NEW old \in Evicted
  PROVE  WithinMax((Filled \ {old}) \cup {k})
<1> DEFINE left == Filled \ {old}
<1>1. /\ IsFiniteSet(Filled) /\ Cardinality(Filled) \in Nat
      /\ MaxEntries > 0 => Cardinality(Filled) <= MaxEntries
  BY TypeParts, FS_CardinalityType DEF WithinMax
<1>2. /\ IsFiniteSet(left) /\ Cardinality(left) \in Nat
      /\ Cardinality(left) = IF old \in Filled THEN Cardinality(Filled) - 1
                             ELSE Cardinality(Filled)
  BY <1>1, FS_RemoveElement, FS_CardinalityType
<1>3. /\ IsFiniteSet(left \cup {k}) /\ Cardinality(left \cup {k}) \in Nat
      /\ Cardinality(left \cup {k}) <= Cardinality(left) + 1
  <2>1. /\ IsFiniteSet(left \cup {k})
        /\ \/ Cardinality(left \cup {k}) = Cardinality(left)
           \/ Cardinality(left \cup {k}) = Cardinality(left) + 1
    BY <1>2, FS_AddElement
  <2>2. QED
    BY <1>2, <2>1
<1>4. ASSUME MaxEntries > 0 PROVE Cardinality(left) + 1 <= MaxEntries
  <2>1. CASE Full
    <3>1. old \in Filled
      BY <2>1 DEF Evicted, Filled
    <3>2. QED
      BY <1>1, <1>2, <1>4, <3>1, LimitAssumption
  <2>2. CASE ~Full
    <3>1. Cardinality(Filled) < MaxEntries
      BY <1>1, <1>4, <2>2, LimitAssumption DEF Full, Filled
    <3>2. Cardinality(left) <= Cardinality(Filled)
      BY <1>1, <1>2
    <3>3. QED
      BY <1>1, <1>2, <3>1, <3>2, LimitAssumption
  <2>3. QED
    BY <2>1, <2>2
<1>5. QED
  BY <1>2, <1>3, <1>4, LimitAssumption DEF WithinMax

\* The steps of a request.
LEMMA StepTyped ==
  ASSUME GatewayInv, TypeInv, NEW r \in Reqs, Step(r)
  PROVE  TypeInv'
<1>0. 0 \in 0..MaxNow
  BY ClockAssumption
<1>1. CASE LookUp(r)
  <2>1. cred[r] \in Credentials /\ UNCHANGED <<creds, pending, now, req, cred, did, arrived,
                                               events, made, known>>
    BY <1>1 DEF GatewayInv, InHand, LookUp, LetIn
  <2>2. CASE Hit(cred[r])
    <3>1. LetIn(r, cache[cred[r]].p, "serve") /\ cache' = cache
      BY <1>1, <2>2 DEF LookUp, CacheKey
    <3>2. cache[cred[r]].p \in Principal
      BY <2>1, <2>2, TypeParts DEF Hit, Entry
    <3>3. /\ pc' \in [Reqs -> {"idle", "lookup", "resolve", "remember", "serve", "answer"}]
          /\ who' \in [Reqs -> Principal \cup {NoOne}]
      BY <3>1, <3>2, TypeParts DEF LetIn
    <3>4. QED
      BY <2>1, <3>1, <3>3 DEF TypeInv, GatewayTypeOK, Filled
  <2>3. CASE ~Hit(cred[r])
    <3>1. LetIn(r, NoOne, "resolve") /\ cache' = [cache EXCEPT ![cred[r]] = NoEntry]
      BY <1>1, <2>3 DEF LookUp, CacheKey
    <3>2. /\ pc' \in [Reqs -> {"idle", "lookup", "resolve", "remember", "serve", "answer"}]
          /\ who' \in [Reqs -> Principal \cup {NoOne}]
      BY <3>1, TypeParts DEF LetIn
    <3>3. cache' \in [Credentials -> Entry \cup {NoEntry}] /\ Filled' \subseteq Filled
      BY <2>1, <3>1, TypeParts DEF Filled, CacheKeys, CacheKey
    <3>4. WithinMax(Filled)'
      BY <3>3, TypeParts, FewerWithinMax DEF WithinMax
    <3>5. QED
      BY <2>1, <3>2, <3>3, <3>4, TypeParts DEF TypeInv, GatewayTypeOK, Filled, WithinMax,
         Entry, CacheKeys, CacheKey
  <2>4. QED
    BY <2>2, <2>3
<1>2. CASE Resolve(r) /\ ~Return(r)
  <2>1. /\ LetIn(r, creds[cred[r]], "remember") /\ cred[r] \in Credentials
        /\ UNCHANGED <<creds, pending, cache, now, events, made, known>>
    BY <1>2 DEF Resolve, GatewayInv, InHand
  <2>2. creds[cred[r]] \in Principal \cup {NoOne}
    BY <2>1, TypeParts
  <2>3. /\ pc' \in [Reqs -> {"idle", "lookup", "resolve", "remember", "serve", "answer"}]
        /\ who' \in [Reqs -> Principal \cup {NoOne}]
        /\ UNCHANGED <<req, cred, did, arrived>>
    BY <2>1, <2>2, TypeParts DEF LetIn
  <2>4. QED
    BY <2>1, <2>3 DEF TypeInv, GatewayTypeOK, Filled
<1>3. CASE (Resolve(r) /\ Return(r)) \/ Answer(r)
  <2>1. /\ Return(r)
        /\ UNCHANGED <<creds, pending, cache, now, events, made, known>>
    BY <1>3 DEF Resolve, Answer
  <2>2. /\ pc' \in [Reqs -> {"idle", "lookup", "resolve", "remember", "serve", "answer"}]
        /\ req' \in [Reqs -> Requests \cup {NoRequest}]
        /\ cred' \in [Reqs -> Credentials \cup {NoOne}]
        /\ who' \in [Reqs -> Principal \cup {NoOne}]
        /\ did' \in [Reqs -> Effect \cup {Refused}]
        /\ arrived' \in [Reqs -> 0..MaxNow]
    BY <1>0, <2>1, TypeParts DEF Return
  <2>3. QED
    BY <2>1, <2>2 DEF TypeInv, GatewayTypeOK, Filled
<1>4. CASE Remember(r)
  <2> DEFINE k == cred[r]
             entry == [p |-> who[r], expires |-> now + TTL]
  <2>1. /\ k \in Credentials /\ who[r] \in Principal
        /\ LetIn(r, who[r], "serve")
        /\ UNCHANGED <<creds, pending, now, events, made, known>>
    BY <1>4, GrantsAssumption DEF GatewayInv, InHand, Remember
  <2>2. PICK old \in Evicted :
          cache' = [c \in CacheKeys |->
                      IF c = k THEN entry ELSE IF c = old THEN NoEntry ELSE cache[c]]
    BY <1>4 DEF Remember, CacheKey
  <2>3. entry \in Entry /\ CacheKeys = Credentials
    <3>1. now \in Int /\ TTL \in Int
      BY TypeParts, ClockAssumption
    <3>2. QED
      BY <2>1, <3>1 DEF Entry, CacheKeys, CacheKey
  <2> HIDE DEF entry
  <2>4. cache' \in [Credentials -> Entry \cup {NoEntry}]
    BY <2>2, <2>3, TypeParts
  <2>5. Filled' \subseteq (Filled \ {old}) \cup {k}
    BY <2>2, <2>3 DEF Filled
  <2>6. WithinMax(Filled)'
    <3>1. WithinMax((Filled \ {old}) \cup {k})
      BY OneMoreWithinMax
    <3>2. \A T \in SUBSET ((Filled \ {old}) \cup {k}) : WithinMax(T)
      BY <3>1, FewerWithinMax
    <3>3. WithinMax(Filled')
      BY <2>5, <3>2
    <3>4. QED
      BY <3>3 DEF WithinMax
  <2>7. /\ pc' \in [Reqs -> {"idle", "lookup", "resolve", "remember", "serve", "answer"}]
        /\ who' \in [Reqs -> Principal \cup {NoOne}]
        /\ UNCHANGED <<req, cred, did, arrived>>
    BY <2>1, TypeParts DEF LetIn
  <2>8. QED
    BY <2>1, <2>3, <2>4, <2>6, <2>7, TypeParts DEF TypeInv, GatewayTypeOK, Filled,
       WithinMax, Entry
<1>5. CASE Serve(r)
  <2>1. /\ pc' = [pc EXCEPT ![r] = "answer"]
        /\ did' = [did EXCEPT ![r] = Dispatch(req[r], who[r])]
        /\ UNCHANGED <<creds, pending, cache, now, req, cred, who, events, made, arrived,
                       known>>
    BY <1>5 DEF Serve
  <2>2. req[r] \in Requests /\ who[r] \in Principal
    BY <1>5, GrantsAssumption DEF Serve, GatewayInv, InHand
  <2>3. Dispatch(req[r], who[r]) \in Effect \cup {Refused}
    BY <2>2, DispatchType
  <2>4. /\ pc' \in [Reqs -> {"idle", "lookup", "resolve", "remember", "serve", "answer"}]
        /\ did' \in [Reqs -> Effect \cup {Refused}]
    BY <2>1, <2>3, TypeParts
  <2>5. QED
    BY <2>1, <2>4 DEF TypeInv, GatewayTypeOK, Filled
<1>6. QED
  BY <1>1, <1>2, <1>3, <1>4, <1>5 DEF Step

\* Arrivals, the administration, the clock.
LEMMA OutsideTyped ==
  ASSUME GatewayInv, TypeInv,
         \/ \E r \in Reqs, q \in Requests : Arrive(r, q)
         \/ \E c \in Credentials : ChangeCredential(c)
         \/ Invalidate \/ Tick \/ UNCHANGED gatewayVars
  PROVE  TypeInv'
<1>1. ASSUME NEW r \in Reqs, NEW q \in Requests, Arrive(r, q) PROVE TypeInv'
  <2>1. /\ events' \in Nat /\ UNCHANGED <<creds, pending, cache, now, made, known>>
        /\ UNCHANGED <<who, did>>
    BY <1>1, TypeParts DEF Arrive, reqVars
  <2>2. /\ pc' \in [Reqs -> {"idle", "lookup", "resolve", "remember", "serve", "answer"}]
        /\ req' \in [Reqs -> Requests \cup {NoRequest}]
        /\ cred' \in [Reqs -> Credentials \cup {NoOne}]
        /\ arrived' \in [Reqs -> 0..MaxNow]
    <3>1. CASE UNCHANGED reqVars
      BY <3>1, TypeParts DEF reqVars
    <3>2. CASE ~(Open(q) \/ Presented(q) = NoOne)
      <4>1. Presented(q) \in Credentials
        BY <3>2, PresentedIsCarried
      <4>2. /\ pc' = [pc EXCEPT ![r] = "lookup"] /\ req' = [req EXCEPT ![r] = q]
            /\ cred' = [cred EXCEPT ![r] = Presented(q)]
            /\ arrived' = [arrived EXCEPT ![r] = now]
        BY <1>1, <3>2 DEF Arrive
      <4>3. QED
        BY <4>1, <4>2, TypeParts
    <3>3. QED
      BY <1>1, <3>1, <3>2 DEF Arrive
  <2>3. QED
    BY <2>1, <2>2 DEF TypeInv, GatewayTypeOK, Filled
<1>2. ASSUME NEW c \in Credentials, ChangeCredential(c) PROVE TypeInv'
  <2>1. /\ events' \in Nat /\ pending' \in BOOLEAN
        /\ UNCHANGED <<cache, now, pc, req, cred, who, did, arrived>>
    BY <1>2, TypeParts DEF ChangeCredential, reqVars
  <2>2. /\ creds' \in [Credentials -> Principal \cup {NoOne}]
        /\ made' \subseteq Credentials
        /\ known' \in [Credentials -> 0..MaxNow]
    BY <1>2, TypeParts, GrantsAssumption DEF ChangeCredential
  <2>3. QED
    BY <2>1, <2>2 DEF TypeInv, GatewayTypeOK, Filled
<1>3. CASE Invalidate
  <2>1. /\ pending' = FALSE /\ cache' = [k \in CacheKeys |-> NoEntry]
        /\ UNCHANGED <<creds, now, pc, req, cred, who, did, arrived, events, made, known>>
    BY <1>3 DEF Invalidate, reqVars
  <2>2. Filled' \subseteq Filled
    BY <2>1 DEF Filled
  <2>3. WithinMax(Filled)'
    BY <2>2, TypeParts, FewerWithinMax DEF WithinMax
  <2>4. QED
    BY <2>1, <2>3, TypeParts DEF TypeInv, GatewayTypeOK, Filled, WithinMax
<1>4. CASE Tick
  <2>1. now' \in 0..MaxNow /\ known' \in [Credentials -> 0..MaxNow]
    BY <1>4, TypeParts, ClockAssumption DEF Tick
  <2>2. UNCHANGED <<creds, pending, cache, pc, req, cred, who, did, arrived, events, made>>
    BY <1>4 DEF Tick, reqVars
  <2>3. QED
    BY <2>1, <2>2 DEF TypeInv, GatewayTypeOK, Filled
<1>5. CASE UNCHANGED gatewayVars
  BY <1>5 DEF gatewayVars, TypeInv, GatewayTypeOK, Filled
<1>6. QED
  BY <1>1, <1>2, <1>3, <1>4, <1>5

\* The types, and the limit with them.
LEMMA TypesInvariant == Spec => [](GatewayInv /\ TypeInv)
<1>1. Init => TypeInv
  <2> SUFFICES ASSUME Init PROVE TypeInv
    OBVIOUS
  <2>1. Filled = {}
    BY DEF Init, Filled
  <2>2. WithinMax(Filled)
    BY <2>1, FS_EmptySet, LimitAssumption DEF WithinMax
  <2>3. 0 \in 0..MaxNow
    BY ClockAssumption
  <2>4. creds \in [Credentials -> Principal \cup {NoOne}]
    BY GrantsAssumption DEF Init
  <2>5. cache \in [CacheKeys -> Entry \cup {NoEntry}]
    BY DEF Init
  <2>6. QED
    BY <2>2, <2>3, <2>4, <2>5, GrantsAssumption DEF Init, TypeInv, GatewayTypeOK, Filled,
       WithinMax, Entry
<1>2. GatewayInv /\ TypeInv /\ [Next]_gatewayVars => TypeInv'
  BY StepTyped, OutsideTyped DEF Next
<1>3. QED
  BY <1>1, <1>2, GatewayInvariant, PTL DEF Spec

\* Whatever requests miss the cache together, it never holds more entries than
\* its limit; and each path leads to a handler, or to none (setCache, v1).
THEOREM CacheStaysBounded == Spec => []GatewayTypeOK
<1>1. TypeInv => GatewayTypeOK
  BY DEF TypeInv
<1>2. QED
  BY <1>1, TypesInvariant, PTL

-----------------------------------------------------------------------------
(* The end of trust.                                                       *)

\* An entry runs out a time to live after its credential was last in force.
TrustInv ==
    \A c \in Credentials :
        /\ known[c] <= now
        /\ InForce(c) => known[c] = now
        /\ cache[c] # NoEntry => cache[c].expires <= known[c] + TTL

\* The clock goes on for what is in force alone.
LEMMA TickKeepsTrust ==
  ASSUME TypeInv, TrustInv, Tick
  PROVE  TrustInv'
<1> SUFFICES ASSUME NEW c \in Credentials
             PROVE  /\ known'[c] <= now'
                    /\ InForce(c)' => known'[c] = now'
                    /\ cache'[c] # NoEntry => cache'[c].expires <= known'[c] + TTL
  BY DEF TrustInv
<1>1. /\ now \in Int /\ now' = now + 1 /\ known[c] \in Int /\ TTL \in Int
      /\ cache[c] # NoEntry => cache[c].expires \in Int
      /\ known'[c] = IF InForce(c) THEN now + 1 ELSE known[c]
      /\ cache'[c] = cache[c]
  BY TypeParts, ClockAssumption DEF Tick, Entry
<1>2. InForce(c)' <=> InForce(c)
  BY DEF Tick, reqVars, InForce
<1>3. /\ known[c] <= now /\ (InForce(c) => known[c] = now)
      /\ cache[c] # NoEntry => cache[c].expires <= known[c] + TTL
  BY DEF TrustInv
<1>4. QED
  BY <1>1, <1>2, <1>3

\* A request has the store's answer for what was in force, and enters no other.
LEMMA StepKeepsTrust ==
  ASSUME GatewayInv, TypeInv, TrustInv, NEW r \in Reqs,
         Step(r) \/ \E q \in Requests : Arrive(r, q)
  PROVE  TrustInv'
<1>1. now' = now /\ known' = known /\ creds' = creds
  BY DEF Step, LookUp, Resolve, Remember, Serve, Answer, Arrive
<1>2. ASSUME NEW c \in Credentials, InForce(c)'
      PROVE  InForce(c)
  <2>1. CASE creds[c] # NoOne
    BY <2>1 DEF InForce
  <2>2. CASE creds[c] = NoOne
    <3>1. PICK q \in Reqs : pc'[q] = "remember" /\ cred'[q] = c
      BY <1>1, <1>2, <2>2 DEF InForce
    <3>2. ~(Resolve(r) /\ r = q)
      BY <2>2, <3>1 DEF GatewayInv, Shape, Resolve, LetIn, Return
    <3>3. pc[q] = "remember" /\ cred[q] = c
      BY <3>1, <3>2 DEF Step, LookUp, Resolve, Remember, Serve, Answer, Arrive,
         LetIn, Return, reqVars, GatewayInv, Shape
    <3>4. QED
      BY <3>3 DEF InForce
  <2>3. QED
    BY <2>1, <2>2
<1>3. ASSUME NEW c \in Credentials, cache'[c] # NoEntry
      PROVE  cache'[c].expires <= known[c] + TTL
  <2>1. CASE cache'[c] = cache[c]
    BY <1>3, <2>1 DEF TrustInv
  <2>2. CASE Remember(r) /\ cred[r] = c
    <3>1. known[c] = now
      BY <2>2 DEF Remember, InForce, TrustInv
    <3>2. cache'[c].expires = now + TTL
      BY <2>2 DEF Remember, CacheKeys, CacheKey
    <3>3. now \in Int /\ TTL \in Int
      BY TypeParts, ClockAssumption
    <3>4. QED
      BY <3>1, <3>2, <3>3
  <2>3. CASE cache'[c] # cache[c] /\ ~(Remember(r) /\ cred[r] = c)
    <3>1. cache'[c] = NoEntry
      BY <2>3 DEF Step, LookUp, Resolve, Remember, Serve, Answer, Arrive, CacheKeys,
         CacheKey, GatewayInv, Shape
    <3>2. QED
      BY <1>3, <3>1
  <2>4. QED
    BY <2>1, <2>2, <2>3
<1>4. QED
  BY <1>1, <1>2, <1>3 DEF TrustInv

\* A credential that is handed out is in force now; one that is taken away was
\* until now.
LEMMA ChangeKeepsTrust ==
  ASSUME GatewayInv, TypeInv, TrustInv,
         (\E c \in Credentials : ChangeCredential(c)) \/ Invalidate
  PROVE  TrustInv'
<1>1. CASE Invalidate
  BY <1>1 DEF Invalidate, CacheKeys, CacheKey, reqVars, InForce, TrustInv
<1>2. ASSUME NEW c \in Credentials, ChangeCredential(c)
      PROVE  TrustInv'
  <2>1. /\ now' = now /\ cache' = cache /\ pc' = pc /\ cred' = cred
        /\ \A d \in Credentials \ {c} : creds'[d] = creds[d] /\ known'[d] = known[d]
        /\ \/ known'[c] = now /\ c \notin made
           \/ known'[c] = known[c] /\ creds'[c] = NoOne
    BY <1>2, TypeParts DEF ChangeCredential, reqVars, GatewayInv, Shape
  <2>2. c \notin made => cache[c] = NoEntry
    BY DEF GatewayInv, EntryOK
  <2>3. now \in Int
    BY TypeParts
  <2>4. ASSUME NEW d \in Credentials
        PROVE  /\ known'[d] <= now
               /\ InForce(d)' => known'[d] = now
               /\ cache[d] # NoEntry => cache[d].expires <= known'[d] + TTL
    <3>1. CASE d = c
      BY <2>1, <2>2, <2>3, <3>1 DEF InForce, TrustInv
    <3>2. CASE d # c
      BY <2>1, <3>2 DEF InForce, TrustInv
    <3>3. QED
      BY <3>1, <3>2
  <2>5. QED
    BY <2>1, <2>4 DEF TrustInv
<1>3. QED
  BY <1>1, <1>2

\* Nobody is let in by an entry later than a time to live after the store last
\* had its credential, or a request that had looked it up came to enter it
\* (getCache, setCache).
THEOREM TrustInCacheEnds == Spec => TrustEnds
<1>1. Init => TrustInv
  BY DEF Init, TrustInv, CacheKeys, CacheKey
<1>2. GatewayInv /\ TypeInv /\ TrustInv /\ [Next]_gatewayVars => TrustInv'
  <2>1. UNCHANGED gatewayVars /\ TrustInv => TrustInv'
    BY DEF gatewayVars, TrustInv, InForce
  <2>2. QED
    BY <2>1, TickKeepsTrust, StepKeepsTrust, ChangeKeepsTrust DEF Next
<1>3. ASSUME GatewayInv, TypeInv, TrustInv, Next, NEW r \in Reqs,
             pc[r] = "lookup", pc'[r] = "serve"
      PROVE  now <= known[cred[r]] + TTL
  <2>1. LookUp(r)
    <3>1. CASE \E o \in Reqs : Step(o) \/ \E q \in Requests : Arrive(o, q)
      <4>1. PICK o \in Reqs : Step(o) \/ \E q \in Requests : Arrive(o, q)
        BY <3>1
      <4>2. o = r
        BY <1>3, <4>1 DEF Step, LookUp, Resolve, Remember, Serve, Answer, Arrive, LetIn,
                    Return, reqVars, GatewayInv, Shape
      <4>3. QED
        BY <1>3, <4>1, <4>2 DEF Step, Resolve, Remember, Serve, Answer, Arrive
    <3>2. CASE (\E c \in Credentials : ChangeCredential(c)) \/ Invalidate \/ Tick
      BY <1>3, <3>2 DEF ChangeCredential, Invalidate, Tick, reqVars
    <3>3. QED
      BY <1>3, <3>1, <3>2 DEF Next
  <2>2. cred[r] \in Credentials /\ Hit(cred[r])
    <3>1. cred[r] \in Credentials
      BY <1>3 DEF GatewayInv, InHand
    <3>2. CASE ~Hit(cred[r])
      <4>1. pc' = [pc EXCEPT ![r] = "resolve"]
        BY <2>1, <3>2 DEF LookUp, LetIn, CacheKey
      <4>2. QED
        BY <1>3, <4>1 DEF GatewayInv, Shape
    <3>3. QED
      BY <3>1, <3>2
  <2>3. /\ now <= cache[cred[r]].expires
        /\ cache[cred[r]].expires <= known[cred[r]] + TTL
    BY <1>3, <2>2 DEF Hit, TrustInv
  <2>4. /\ now \in Int /\ cache[cred[r]].expires \in Int /\ known[cred[r]] \in Int
        /\ TTL \in Int
    BY <1>3, <2>2, TypeParts, ClockAssumption DEF Hit, Entry
  <2>5. QED
    BY <2>3, <2>4
<1>4. GatewayInv /\ TypeInv /\ TrustInv /\ [Next]_gatewayVars =>
        [\A r \in Reqs : (pc[r] = "lookup" /\ pc'[r] = "serve") =>
            now <= known[cred[r]] + TTL]_gatewayVars
  BY <1>3
<1>5. QED
  BY <1>1, <1>2, <1>4, TypesInvariant, PTL DEF Spec, TrustEnds

-----------------------------------------------------------------------------
(* The names of keys.                                                      *)

\* No escape is left in the last segment once net/http has decoded it.
NoEscapeLeft(q) ==
    q.rest # <<>> => LET name == Decode[q.rest[Len(q.rest)]] IN Decode[name] = name

LEMMA OnKeyName ==
  ASSUME NEW q, NEW space, NEW raw, OnKey(q, space, raw) # Refused
  PROVE  OnKey(q, space, raw).name = Decode[raw]
BY DEF OnKey, Do

LEMMA PathShape ==
  ASSUME NEW q \in Requests
  PROVE  /\ q.rest \in Seq(Texts) /\ Path(q) \in Seq(Texts) /\ Len(Path(q)) = Len(q.rest)
         /\ \A i \in 1..Len(q.rest) : Path(q)[i] = Decode[q.rest[i]]
<1>1. q.rest \in Seq(Texts)
  BY RequestsAssumption DEF Request
<1>2. \A i \in 1..Len(q.rest) : q.rest[i] \in Texts /\ Decode[q.rest[i]] \in Texts
  BY <1>1, RequestsAssumption, TextAssumption
<1>3. Path(q) = [i \in 1..Len(q.rest) |-> Decode[q.rest[i]]]
  BY <1>1 DEF Path
<1>4. Len(q.rest) \in Nat
  BY <1>1
<1>5. QED
  BY <1>1, <1>2, <1>3, <1>4

KeyActs == {"get", "put", "delete", "op"}

LEMMA TailFacts ==
  ASSUME NEW s \in Seq(Texts), s # <<>>
  PROVE  /\ Tail(s) \in Seq(Texts) /\ Len(s) = Len(Tail(s)) + 1
         /\ \A i \in 2..Len(s) : s[i] = Tail(s)[i - 1]
OBVIOUS

LEMMA FifthIsSecond ==
  ASSUME NEW s \in Seq(Texts), NEW t \in Seq(Texts), NEW u \in Seq(Texts), NEW v \in Seq(Texts),
         Len(s) = Len(t) + 1, \A i \in 2..Len(s) : s[i] = t[i - 1],
         Len(t) = Len(u) + 1, \A i \in 2..Len(t) : t[i] = u[i - 1],
         Len(u) = Len(v) + 1, \A i \in 2..Len(u) : u[i] = v[i - 1],
         Len(v) = 2
  PROVE  Len(s) = 5 /\ v[2] = s[5]
<1>1. Len(u) = 3
  OBVIOUS
<1>2. Len(t) = 4
  BY <1>1
<1>3. Len(s) = 5
  BY <1>2
<1>4. s[5] = t[4]
  BY <1>3
<1>5. t[4] = u[3]
  BY <1>2
<1>6. u[3] = v[2]
  BY <1>1
<1>7. QED
  BY <1>3, <1>4, <1>5, <1>6

LEMMA ThirdTail ==
  ASSUME NEW s \in Seq(Texts), s # <<>>, Tail(s) # <<>>, Tail(Tail(s)) # <<>>,
         Len(Tail(Tail(Tail(s)))) = 2
  PROVE  Len(s) = 5 /\ Tail(Tail(Tail(s)))[2] = s[5]
<1> DEFINE t == Tail(s)
           u == Tail(t)
           v == Tail(u)
<1>1. t \in Seq(Texts) /\ Len(s) = Len(t) + 1 /\ \A i \in 2..Len(s) : s[i] = t[i - 1]
  BY TailFacts
<1> HIDE DEF t
<1>2. u \in Seq(Texts) /\ Len(t) = Len(u) + 1 /\ \A i \in 2..Len(t) : t[i] = u[i - 1]
  BY <1>1, TailFacts DEF t
<1> HIDE DEF u
<1>3. v \in Seq(Texts) /\ Len(u) = Len(v) + 1 /\ \A i \in 2..Len(u) : u[i] = v[i - 1]
  BY <1>2, TailFacts DEF t, u
<1>4. Len(v) = 2
  BY DEF t, u
<1> HIDE DEF v
<1>5. Len(s) = 5 /\ v[2] = s[5]
  BY <1>1, <1>2, <1>3, <1>4, FifthIsSecond
<1>6. QED
  BY <1>5 DEF t, u, v

\* Under /v1/admin/userspaces/ the key is the last of five segments.
LEMMA AdminKey ==
  ASSUME NEW q, NEW p, NEW path \in Seq(Texts), Len(path) > 1,
         OnAdmin(q, p, Tail(path)) # Refused, OnAdmin(q, p, Tail(path)).act \in KeyActs
  PROVE  Len(path) = 5 /\ \E space : OnAdmin(q, p, Tail(path)) = OnKey(q, space, path[5])
<1> DEFINE below == Tail(path)
           user == Tail(below)
           rest == Tail(user)
           space == Decode[user[1]]
           e == OnAdmin(q, p, below)
<1>1. \A act \in {"list", "create", "remove", "rotate", "keys"} : \A x, y : e # Do(act, x, y)
  BY DEF Do, KeyActs
<1>2. Len(below) > 1 /\ e = OnAdminSpace(q, user)
  <2>1. \/ e = Refused \/ \E act \in {"list", "create"} : e = Do(act, Blank, Blank)
        \/ Len(below) > 1 /\ e = OnAdminSpace(q, user)
    BY OnAdminShape
  <2> HIDE DEF e, below, user
  <2>2. e # Refused
    BY DEF e, below
  <2>3. QED
    BY <1>1, <2>1, <2>2
<1>3. Len(rest) = 2 /\ e = OnKey(q, space, rest[2])
  <2> DEFINE f == OnAdminSpace(q, user)
  <2>1. \/ f = Refused \/ \E act \in {"remove", "rotate", "keys"} : f = Do(act, space, Blank)
        \/ Len(rest) = 2 /\ f = OnKey(q, space, rest[2])
    BY OnAdminSpaceShape
  <2>2. e # Refused /\ e = f
    BY <1>2
  <2> HIDE DEF e, f, space, rest
  <2>3. QED
    BY <1>1, <2>1, <2>2
<1>4. Len(path) = 5 /\ rest[2] = path[5]
  <2>1. below # <<>> /\ user # <<>>
    BY <1>2, <1>3
  <2> HIDE DEF e, space
  <2>2. QED
    BY <1>2, <1>3, ThirdTail
<1>5. QED
  BY <1>3, <1>4

\* Of a path with no escape left, the key the last handler gets is the one that
\* was sent (v1, handleKV, handleUserspaceKV, handleAdminKV, handleTx).
LEMMA DispatchNames ==
  ASSUME NEW q \in Requests, NEW p \in Principal, NoEscapeLeft(q),
         Dispatch(q, p) # Refused, Dispatch(q, p).act \in KeyActs
  PROVE  Dispatch(q, p).name = Decode[WireKey(q)]
<1> DEFINE path == Path(q)
           more == Len(path) > 1
           e == Dispatch(q, p)
           n == Len(q.rest)
<1>1. /\ n \in Nat /\ path \in Seq(Texts) /\ Len(path) = n
      /\ \A i \in 1..n : path[i] = Decode[q.rest[i]]
  BY PathShape
<1> HIDE DEF n
<1>2. ASSUME more, path[1] # "tx", NEW space, e = OnKey(q, space, path[n])
      PROVE  e.name = Decode[WireKey(q)]
  <2>1. path[n] = Decode[q.rest[n]] /\ q.rest # <<>>
    BY <1>1, <1>2 DEF n
  <2>2. e.name = Decode[path[n]]
    BY <1>2, OnKeyName
  <2>3. WireKey(q) = q.rest[n]
    BY <1>2 DEF WireKey, n
  <2>4. QED
    BY <2>1, <2>2, <2>3 DEF NoEscapeLeft, n
<1>3. CASE more /\ path[1] = "kv" /\ e = OnKey(q, p.space, path[2])
  <2>1. Decode[q.rest[1]] = "kv" /\ n > 1
    BY <1>1, <1>3
  <2>2. ~(n > 2)
    BY <2>1, RequestsAssumption DEF n
  <2>3. n = 2 /\ path[1] # "tx"
    BY <1>1, <1>3, <2>1, <2>2
  <2> HIDE DEF path, e
  <2>4. QED
    BY <1>2, <1>3, <2>3 DEF e
<1>4. CASE more /\ path[1] = "admin" /\ e = OnAdmin(q, p, Tail(path))
  <2> HIDE DEF path, e
  <2>1. Len(path) = 5 /\ \E space : e = OnKey(q, space, path[5])
    <3>1. OnAdmin(q, p, Tail(path)) # Refused /\ OnAdmin(q, p, Tail(path)).act \in KeyActs
      BY <1>4 DEF e
    <3>2. path \in Seq(Texts) /\ Len(path) > 1
      BY <1>1, <1>4
    <3>3. QED
      BY <1>4, <3>1, <3>2, AdminKey
  <2>2. QED
    BY <1>1, <1>2, <1>4, <2>1 DEF e
<1>5. CASE more /\ path[1] = "tx" /\ e = OnTx(q, p, Tail(path))
  <2>1. e.name = Decode[q.XKVKey]
    BY <1>5 DEF OnTx, Do, KeyActs
  <2>2. WireKey(q) = q.XKVKey
    BY <1>5, Zenon DEF WireKey
  <2>3. QED
    BY <2>1, <2>2
<1>6. \A act \in {"newtx", "export", "import"} : e # Do(act, p.space, Blank)
  BY DEF Do, KeyActs
<1>7. CASE ~(more /\ path[1] = "tx") /\ e = OnSpace(q, p, path)
  <2>1. Len(path) = 2 /\ e = OnKey(q, Decode[path[1]], path[2])
    BY <1>7 DEF OnSpace
  <2>2. n = 2 /\ more /\ path[1] # "tx"
    BY <1>1, <1>7, <2>1
  <2> HIDE DEF path, e
  <2>3. QED
    BY <1>2, <2>1, <2>2 DEF e
<1>8. QED
  <2>1. e # Refused
    OBVIOUS
  <2> HIDE DEF path, e, more
  <2>2. e.name = Decode[WireKey(q)]
    BY <1>3, <1>4, <1>5, <1>6, <1>7, <2>1, DispatchShape DEF path, e, more
  <2>3. QED
    BY <2>2 DEF e

\* What a handler was called for is what the dispatch makes of the request and
\* of whom it was let in as, until the answer is written.
DoneInv == \A r \in Reqs : did[r] # Refused => did[r] = Dispatch(req[r], who[r])

\* The dispatch looks at nothing that changes.
LEMMA DoneKept ==
  ASSUME DoneInv, NEW r \in Reqs, UNCHANGED <<req[r], who[r], did[r]>>
  PROVE  did'[r] # Refused => did'[r] = Dispatch(req'[r], who'[r])
BY Zenon DEF DoneInv

LEMMA DoneKeeps ==
  ASSUME GatewayInv, DoneInv, [Next]_gatewayVars
  PROVE  DoneInv'
<1>1. SUFFICES ASSUME NEW o \in Reqs
               PROVE  did'[o] # Refused => did'[o] = Dispatch(req'[o], who'[o])
  BY Zenon DEF DoneInv
<1>2. did[o] # Refused => pc[o] = "answer"
  BY DEF GatewayInv, InHand
<1>3. ASSUME NEW r \in Reqs, Return(r) PROVE did'[r] = Refused
  BY <1>3 DEF Return, GatewayInv, Shape
<1>4. ASSUME NEW r \in Reqs, o # r, Step(r) PROVE UNCHANGED <<req[o], who[o], did[o]>>
  <2>1. Return(r) => UNCHANGED <<req[o], who[o], did[o]>>
    BY <1>4 DEF Return, GatewayInv, Shape
  <2>2. \A p, next : LetIn(r, p, next) => UNCHANGED <<req[o], who[o], did[o]>>
    BY <1>4 DEF LetIn, GatewayInv, Shape
  <2>3. Serve(r) => UNCHANGED <<req[o], who[o], did[o]>>
    BY <1>4 DEF Serve, GatewayInv, Shape
  <2>4. Step(r) => \/ Return(r) \/ Serve(r)
                   \/ \E p, next : LetIn(r, p, next)
    BY DEF Step, LookUp, Resolve, Remember, Answer
  <2>5. QED
    BY <1>4, <2>1, <2>2, <2>3, <2>4
<1>5. ASSUME Step(o) PROVE did'[o] # Refused => did'[o] = Dispatch(req'[o], who'[o])
  <2>1. CASE Serve(o)
    <3>1. did'[o] = Dispatch(req[o], who[o]) /\ req' = req /\ who' = who
      BY <2>1 DEF Serve, GatewayInv, Shape
    <3>2. QED
      BY <3>1
  <2>2. CASE Return(o)
    BY <1>3, <2>2
  <2>3. CASE pc[o] # "answer" /\ did' = did
    BY <1>2, <2>3
  <2>4. QED
    BY <1>5, <2>1, <2>2, <2>3 DEF Step, LookUp, Resolve, Remember, Answer, LetIn
<1>6. ASSUME NEW r \in Reqs, NEW q \in Requests, Arrive(r, q)
      PROVE  did'[o] # Refused => did'[o] = Dispatch(req'[o], who'[o])
  <2>1. did' = did /\ who' = who
    BY <1>6 DEF Arrive, reqVars
  <2>2. o # r => req'[o] = req[o]
    BY <1>6 DEF Arrive, reqVars, GatewayInv, Shape
  <2>3. pc[r] = "idle"
    BY <1>6 DEF Arrive
  <2>4. CASE o = r
    BY <1>2, <2>1, <2>3, <2>4
  <2>5. CASE o # r
    BY <2>1, <2>2, <2>5, DoneKept
  <2>6. QED
    BY <2>4, <2>5
<1>7. CASE UNCHANGED reqVars
  <2>1. UNCHANGED <<req[o], who[o], did[o]>>
    BY <1>7 DEF reqVars
  <2>2. QED
    BY <2>1, DoneKept
<1>8. \/ \E r \in Reqs : Step(r) \/ \E q \in Requests : Arrive(r, q)
      \/ UNCHANGED reqVars
  BY DEF Next, ChangeCredential, Invalidate, Tick, gatewayVars, reqVars
<1>9. ASSUME NEW r \in Reqs, Step(r)
      PROVE  did'[o] # Refused => did'[o] = Dispatch(req'[o], who'[o])
  BY <1>4, <1>5, <1>9, DoneKept
<1>10. QED
  BY <1>6, <1>7, <1>8, <1>9

\* As long as no path has an escape left when net/http has decoded it, each
\* handler gets the key its client named: the second decoding, which the document
\* of the API does not tell of, shows with such keys alone (handleKV, handleTx).
THEOREM KeysKeepTheirNames ==
  ASSUME \A q \in Requests : NoEscapeLeft(q)
  PROVE  Spec => []KeyEncodedOnce
<1>1. GatewayInv /\ DoneInv => KeyEncodedOnce
  <2> SUFFICES ASSUME GatewayInv, DoneInv, NEW r \in Reqs,
                      did[r] # Refused, did[r].act \in KeyActs
               PROVE  did[r].name = Decode[WireKey(req[r])]
    BY DEF KeyEncodedOnce, KeyActs
  <2>1. did[r] = Dispatch(req[r], who[r])
    BY DEF DoneInv
  <2>2. req[r] \in Requests /\ who[r] \in Principal
    BY GrantsAssumption DEF GatewayInv, InHand
  <2>3. QED
    BY <2>1, <2>2, DispatchNames
<1>2. Init => DoneInv
  BY DEF Init, DoneInv
<1>3. GatewayInv /\ DoneInv /\ [Next]_gatewayVars => DoneInv'
  BY DoneKeeps
<1>4. QED
  BY <1>1, <1>2, <1>3, GatewayInvariant, PTL DEF Spec

=============================================================================
