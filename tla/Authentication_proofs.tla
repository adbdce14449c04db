----------------------- MODULE Authentication_proofs -------------------------
(* Proofs about Authentication for every number of requests and tokens, every *)
(* set of profiles and routes, and every cache time and fetch limit.          *)
EXTENDS Authentication, TLAPS

-----------------------------------------------------------------------------
(* Facts about the building blocks of the model. *)

\* There are fourteen routers and the one of the punches is the first.
LEMMA PunchFirst ==
    /\ DOMAIN Mounted = 1 .. 14
    /\ \A i \in DOMAIN Mounted : Mounted[i] = "punch" <=> i = 1
  <1>1. DOMAIN Mounted = 1 .. 14
    BY DEF Mounted
  <1>2. \A i \in 1 .. 14 : Mounted[i] = "punch" <=> i = 1
    BY DEF Mounted
  <1>. QED
    BY <1>1, <1>2

\* A request that has not met its router has another one before it.
LEMMA OneMoreRouter ==
    ASSUME NEW r \in Active, OnTheWay(r), Mounted[r.at] # r.route.router,
           AuthenticationAssumption
    PROVE  r.at + 1 \in DOMAIN Mounted
  <1>1. r.route \in Route /\ r.at \in 1 .. 14
    BY PunchFirst DEF Active, AuthenticationAssumption
  <1>2. PICK j \in DOMAIN Mounted : Mounted[j] = r.route.router
    BY <1>1 DEF Route
  <1>3. ~(j < r.at) /\ j # r.at
    BY <1>2 DEF OnTheWay
  <1>. QED
    BY <1>1, <1>2, <1>3, PunchFirst

-----------------------------------------------------------------------------
(* Time passes and profiles change: what was live since some moment still was. *)

Persists ==
    /\ now \in Int /\ now' \in Int /\ now <= now'
    /\ \A t \in Tokens, p \in Profiles, s \in Int :
          s <= now /\ LiveSince(t, p, s) => live'[t] = p \/ (left'[t][p] # Never /\ left'[t][p] >= s)

LEMMA UnchangedPersists ==
    ASSUME TypeOK, AuthenticationAssumption, UNCHANGED <<live, left, now>>
    PROVE  Persists
    BY DEF Persists, LiveSince, TypeOK, Time, AuthenticationAssumption

LEMMA TickPersists ==
    ASSUME TypeOK, AuthenticationAssumption, Tick
    PROVE  Persists
    BY DEF Persists, LiveSince, TypeOK, Time, Tick, AuthenticationAssumption

LEMMA ChangePersists ==
    ASSUME TypeOK, AuthenticationAssumption, NEW t \in Tokens, NEW p \in Profiles \union {Refused}, Change(t, p)
    PROVE  Persists
  <1>1. now \in Int /\ now' = now /\ now # Never
    BY DEF Change, TypeOK, Time, AuthenticationAssumption
  <1>2. ASSUME NEW u \in Tokens, NEW q \in Profiles, NEW s \in Int, s <= now, LiveSince(u, q, s)
        PROVE  live'[u] = q \/ (left'[u][q] # Never /\ left'[u][q] >= s)
    <2>1. CASE live[t] = Refused
      <3>1. left' = left /\ q # Refused
        BY <2>1 DEF Change, AuthenticationAssumption
      <3>2. live[u] = q => u # t
        BY <2>1, <3>1
      <3>3. u # t => live'[u] = live[u]
        BY DEF Change, TypeOK
      <3>. QED
        BY <1>2, <3>1, <3>2, <3>3 DEF LiveSince
    <2>2. CASE live[t] # Refused
      <3>1. live[t] \in Profiles
        BY <2>2 DEF TypeOK
      <3>2. left' = [left EXCEPT ![t][live[t]] = now]
        BY <2>2 DEF Change
      <3>3. left'[u][q] = IF u = t /\ q = live[t] THEN now ELSE left[u][q]
        BY <3>1, <3>2 DEF TypeOK
      <3>4. u # t => live'[u] = live[u]
        BY DEF Change, TypeOK
      <3>. QED
        BY <1>1, <1>2, <3>3, <3>4 DEF LiveSince
    <2>. QED
      BY <2>1, <2>2
  <1>. QED
    BY <1>1, <1>2 DEF Persists

LEMMA EntryPersists ==
    ASSUME TypeOK, AuthenticationAssumption, NEW t \in Tokens, EntryInv(t), Persists, cache'[t] = cache[t]
    PROVE  EntryInv(t)'
  <1>1. CASE cache[t].profile = NoProfile
    BY <1>1 DEF EntryInv
  <1>2. CASE cache[t].profile # NoProfile
    <2>1. cache[t].profile \in Profiles /\ cache[t].cachedAt \in Int /\ FetchLimit \in Nat
      BY <1>2 DEF TypeOK, Time, AuthenticationAssumption
    <2>2. /\ cache[t].cachedAt <= now
          /\ LiveSince(t, cache[t].profile, cache[t].cachedAt - FetchLimit)
      BY <1>2 DEF EntryInv
    <2>3. /\ cache[t].cachedAt - FetchLimit \in Int
          /\ cache[t].cachedAt - FetchLimit <= now
          /\ cache[t].cachedAt <= now'
      BY <2>1, <2>2 DEF Persists
    <2>4. LET s == cache[t].cachedAt - FetchLimit
          IN  live'[t] = cache[t].profile \/ (left'[t][cache[t].profile] # Never /\ left'[t][cache[t].profile] >= s)
      BY <2>1, <2>2, <2>3 DEF Persists
    <2>. QED
      BY <2>3, <2>4 DEF EntryInv, LiveSince
  <1>. QED
    BY <1>1, <1>2

(* A request that rests stays right, provided the clock leaves its fetch the  *)
(* time it has.                                                               *)
LEMMA RequestPersists ==
    ASSUME TypeOK, AuthenticationAssumption, NEW r \in Active, RequestOK(r), Persists,
           r.pc \in {"asked", "answered"} => now' <= r.askedAt + FetchLimit,
           NEW w \in Requests, req'[w] = r
    PROVE  RequestOK(req[w])'
  <1>0. /\ r.seenAt \in Int /\ r.askedAt \in Int
        /\ CacheTime \in Nat /\ FetchLimit \in Nat
    BY DEF Active, Time, AuthenticationAssumption
  <1>1. OnTheWay(req[w])' /\ KeyInv(req[w])'
    BY DEF RequestOK, OnTheWay, KeyInv
  <1>2. ASSUME r.pc \in {"asked", "answered"}
        PROVE  FetchInv(req[w])'
    <2>1. FetchInv(r)
      BY <1>2 DEF RequestOK
    <2>2. r.askedAt <= now' /\ now' <= r.askedAt + FetchLimit
      BY <1>0, <1>2, <2>1 DEF FetchInv, Persists
    <2>3. ASSUME r.pc = "answered", r.answer # Refused
          PROVE  live'[r.token] = r.answer \/ (left'[r.token][r.answer] # Never /\ left'[r.token][r.answer] >= r.askedAt)
      <3>1. r.answer \in Profiles /\ r.token \in Tokens
        BY <2>1, <2>3 DEF FetchInv, Active
      <3>2. r.askedAt <= now /\ LiveSince(r.token, r.answer, r.askedAt)
        BY <2>1, <2>3 DEF FetchInv
      <3>. QED
        BY <1>0, <3>1, <3>2 DEF Persists
    <2>. QED
      BY <2>1, <2>2, <2>3 DEF FetchInv, LiveSince
  <1>3. r.seenAt <= now'
    BY <1>0 DEF RequestOK, Persists
  <1>4. ASSUME r.seen \in Profiles
        PROVE  /\ r.token \in Tokens
               /\ LET s == r.seenAt - (CacheTime + FetchLimit)
                  IN  live'[r.token] = r.seen \/ (left'[r.token][r.seen] # Never /\ left'[r.token][r.seen] >= s)
    <2>1. r.token \in Tokens /\ LiveSince(r.token, r.seen, r.seenAt - (CacheTime + FetchLimit)) /\ r.seenAt <= now
      BY <1>4 DEF RequestOK
    <2>2. /\ r.seenAt - (CacheTime + FetchLimit) \in Int
          /\ r.seenAt - (CacheTime + FetchLimit) <= now
      BY <1>0, <2>1 DEF Persists
    <2>. QED
      BY <1>4, <2>1, <2>2 DEF Persists
  <1>. QED
    BY <1>1, <1>2, <1>3, <1>4 DEF RequestOK, LiveSince

-----------------------------------------------------------------------------
(* The step of a request puts a good record in the place of a good one. *)

\* The end of a fetch changes nothing else.
LEMMA OverKeeps ==
    ASSUME NEW r \in Active, AuthenticationAssumption
    PROVE  /\ Over(r) \in Active
           /\ Over(r).at = r.at /\ Over(r).key = r.key /\ Over(r).token = r.token
           /\ Over(r).route = r.route /\ Over(r).seen = r.seen /\ Over(r).seenAt = r.seenAt
  <1>1. 0 \in Time
    BY DEF Time, AuthenticationAssumption
  <1>2. Over(r) \in Active
    BY <1>1 DEF Over, Active
  <1>. QED
    BY <1>2 DEF Over, Active

Moves(w) == \E q \in Active : RequestOK(q) /\ req' = [req EXCEPT ![w] = q]

LEMMA MovesKeeps ==
    ASSUME AuthInv, AuthenticationAssumption, NEW w \in Requests,
           Moves(w), UNCHANGED <<live, left, now>>
    PROVE  /\ req' \in [Requests -> {Idle} \union Active]
           /\ \A v \in Requests : req'[v] # Idle => RequestOK(req[v])'
  <1>1. PICK q \in Active : RequestOK(q) /\ req' = [req EXCEPT ![w] = q]
    BY DEF Moves
  <1>2. req \in [Requests -> {Idle} \union Active]
    BY DEF AuthInv, TypeOK
  <1>3. req'[w] = q /\ \A v \in Requests \ {w} : req'[v] = req[v]
    BY <1>1, <1>2
  <1>4. Persists /\ TypeOK
    BY UnchangedPersists DEF AuthInv
  <1>5. ASSUME NEW r \in Active, RequestOK(r), NEW v \in Requests, req'[v] = r
        PROVE  RequestOK(req[v])'
    <2>1. r.pc \in {"asked", "answered"} => now' <= r.askedAt + FetchLimit
      BY <1>5 DEF RequestOK, FetchInv
    <2>. QED
      BY <1>4, <1>5, <2>1, RequestPersists
  <1>6. RequestOK(req[w])'
    BY <1>1, <1>3, <1>5
  <1>7. ASSUME NEW v \in Requests \ {w}, req'[v] # Idle
        PROVE  RequestOK(req[v])'
    <2>1. req[v] \in Active /\ RequestOK(req[v]) /\ req'[v] = req[v]
      BY <1>2, <1>3, <1>7 DEF AuthInv
    <2>2. PICK r \in Active : r = req[v]
      BY <2>1
    <2>. QED
      BY <1>5, <2>1, <2>2
  <1>. QED
    BY <1>1, <1>2, <1>6, <1>7

\* A request is denied unless the ingest key brought it to its route.
LEMMA DenyMoves ==
    ASSUME AuthInv, AuthenticationAssumption, NEW w \in Requests, req[w] # Idle, Deny(w),
           ~(req[w].key = "right" /\ req[w].route.takesIngest)
    PROVE  Moves(w)
  <1>1. req[w] \in Active /\ RequestOK(req[w])
    BY DEF AuthInv, TypeOK
  <1> DEFINE q == [Over(req[w]) EXCEPT !.pc = "denied"]
  <1>2. req' = [req EXCEPT ![w] = q]
    BY DEF Deny
  <1>3. /\ q.pc = "denied" /\ q.at = req[w].at /\ q.key = req[w].key /\ q.token = req[w].token
        /\ q.route = req[w].route /\ q.seen = req[w].seen /\ q.seenAt = req[w].seenAt
        /\ q \in Active
    <2>1. PICK o \in Active : o = Over(req[w])
      BY <1>1, OverKeeps
    <2>. QED
      BY <1>1, <2>1, OverKeeps DEF Active
  <1> HIDE DEF q
  <1>4. RequestOK(q)
    BY <1>1, <1>3 DEF RequestOK, OnTheWay, KeyInv
  <1>. QED
    BY <1>2, <1>3, <1>4 DEF Moves

\* The profile of a token that was live lately may pass, or be turned away.
Usable(w, profile) ==
    /\ profile \in Profiles /\ req[w].token \in Tokens
    /\ LiveSince(req[w].token, profile, now - (CacheTime + FetchLimit))
    /\ ~(req[w].key = "right" /\ req[w].route.takesIngest)

ByIngestKey(w, auth) ==
    auth = Ingest /\ req[w].pc = "router" /\ req[w].key = "right" /\ ByKey(w)

LEMMA PassMoves ==
    ASSUME AuthInv, AuthenticationAssumption, NEW w \in Requests, req[w] # Idle,
           NEW auth \in Profiles \union {Ingest}, Pass(w, auth), Usable(w, auth) \/ ByIngestKey(w, auth)
    PROVE  Moves(w)
  <1>1. req[w] \in Active /\ RequestOK(req[w])
    BY DEF AuthInv, TypeOK
  <1> DEFINE here == Mounted[req[w].at] = req[w].route.router
             pc == IF ~here THEN "router" ELSE IF Gate(req[w].route, auth) THEN "handler" ELSE "denied"
             at == IF here THEN req[w].at ELSE req[w].at + 1
             q == [Over(req[w]) EXCEPT !.pc = pc, !.at = at, !.seen = auth, !.seenAt = now]
  <1>2. req' = [req EXCEPT ![w] = q]
    BY DEF Pass
  <1>3. now \in Time
    BY DEF AuthInv, TypeOK
  <1>4. ~here => req[w].at + 1 \in DOMAIN Mounted
    BY <1>1, OneMoreRouter DEF RequestOK
  <1>5. /\ q.pc = pc /\ q.at = (IF here THEN req[w].at ELSE req[w].at + 1)
        /\ q.key = req[w].key /\ q.token = req[w].token
        /\ q.route = req[w].route /\ q.seen = auth /\ q.seenAt = now
    <2>1. PICK o \in Active : o = Over(req[w])
      BY <1>1, OverKeeps
    <2>. QED
      BY <1>1, <2>1, OverKeeps DEF Active
  <1>6. pc \in {"router", "handler", "denied"}
    OBVIOUS
  <1> HIDE DEF here, pc
  <1>7. q \in Active
    <2>1. PICK o \in Active : o = Over(req[w])
      BY <1>1, OverKeeps
    <2>2. at \in DOMAIN Mounted
      BY <1>1, <1>4 DEF Active
    <2> HIDE DEF at
    <2>. QED
      BY <1>3, <1>6, <2>1, <2>2 DEF Active
  <1> HIDE DEF q
  <1>8. OnTheWay(q)
    <2>1. OnTheWay(req[w]) /\ req[w].at \in Int
      BY <1>1, PunchFirst DEF RequestOK, Active
    <2>2. CASE here
      BY <1>5, <2>1, <2>2 DEF OnTheWay
    <2>3. CASE ~here
      <3>1. ASSUME NEW i \in DOMAIN Mounted, i < req[w].at + 1
            PROVE  Mounted[i] # req[w].route.router
        <4>1. i \in Int
          BY PunchFirst
        <4>2. i < req[w].at \/ i = req[w].at
          BY <2>1, <3>1, <4>1
        <4>. QED
          BY <2>1, <2>3, <4>2 DEF OnTheWay, here
      <3>. QED
        BY <1>5, <2>3, <3>1 DEF OnTheWay
    <2>. QED
      BY <2>2, <2>3
  <1>9. KeyInv(q)
    <2>1. CASE Usable(w, auth)
      <3>1. auth # Ingest
        BY <2>1 DEF Usable, AuthenticationAssumption
      <3>. QED
        BY <1>5, <2>1, <3>1 DEF KeyInv, Usable
    <2>2. CASE ByIngestKey(w, auth)
      <3>1. Mounted[req[w].at] = "punch" /\ auth = Ingest
        BY <2>2 DEF ByIngestKey, ByKey
      <3>2. req[w].route \in Routes
        BY <1>1 DEF Active
      <3>3. ASSUME req[w].route.takesIngest
            PROVE  pc = "handler"
        <4>1. here
          BY <3>1, <3>2, <3>3 DEF here, AuthenticationAssumption
        <4>2. Gate(req[w].route, auth)
          BY <3>1, <3>3 DEF Gate, Ingest
        <4>. QED
          BY <4>1, <4>2 DEF pc
      <3>4. ASSUME pc = "handler"
            PROVE  req[w].route.takesIngest
        <4>1. here /\ Gate(req[w].route, auth)
          BY <3>4 DEF pc
        <4>2. req[w].route.needs # {}
          BY <3>1, <3>2, <4>1 DEF here, AuthenticationAssumption
        <4>3. req[w].route.needs \subseteq Keys
          BY <3>2 DEF AuthenticationAssumption, Route
        <4>. QED
          BY <3>1, <4>1, <4>2 DEF Gate, Ingest
      <3>. QED
        BY <1>5, <3>3, <3>4 DEF KeyInv
    <2>. QED
      BY <2>1, <2>2
  <1>10. q.seen \in Profiles =>
            q.token \in Tokens /\ LiveSince(q.token, q.seen, q.seenAt - (CacheTime + FetchLimit))
    BY <1>5 DEF Usable, ByIngestKey, AuthenticationAssumption
  <1>11. q.seenAt <= now /\ q.pc \notin {"asked", "answered"}
    <2>1. now <= now
      BY <1>3 DEF Time, AuthenticationAssumption
    <2>. QED
      BY <1>5, <1>6, <2>1
  <1>. QED
    BY <1>2, <1>7, <1>8, <1>9, <1>10, <1>11 DEF RequestOK, Moves

LEMMA DecideMoves ==
    ASSUME AuthInv, AuthenticationAssumption, NEW w \in Requests, req[w] # Idle,
           NEW profile \in Profiles, Decide(w, profile), Usable(w, profile)
    PROVE  Moves(w)
  <1>1. CASE profile.status = "active"
    BY <1>1, PassMoves DEF Decide
  <1>2. CASE profile.status # "active"
    <2>1. req[w] \in Active /\ RequestOK(req[w]) /\ now \in Time
      BY DEF AuthInv, TypeOK
    <2> DEFINE q == [Over(req[w]) EXCEPT !.pc = "denied", !.seen = profile, !.seenAt = now]
    <2>2. req' = [req EXCEPT ![w] = q]
      BY <1>2 DEF Decide
    <2>3. /\ q.pc = "denied" /\ q.at = req[w].at /\ q.key = req[w].key /\ q.token = req[w].token
          /\ q.route = req[w].route /\ q.seen = profile /\ q.seenAt = now
          /\ q \in Active
      <3>1. PICK o \in Active : o = Over(req[w])
        BY <2>1, OverKeeps
      <3>. QED
        BY <2>1, <3>1, OverKeeps DEF Active
    <2> HIDE DEF q
    <2>4. now <= now
      BY <2>1 DEF Time, AuthenticationAssumption
    <2>5. RequestOK(q)
      BY <2>1, <2>3, <2>4 DEF RequestOK, OnTheWay, KeyInv, Usable
    <2>. QED
      BY <2>2, <2>3, <2>5 DEF Moves
  <1>. QED
    BY <1>1, <1>2

-----------------------------------------------------------------------------
(* One lemma per step of a request. *)

\* A request that carries the key to an ingestion route never looks at its token.
LEMMA TokenSteps ==
    ASSUME AuthInv, NEW w \in Requests, req[w] # Idle,
           req[w].pc \in {"asked", "answered"} \/ (req[w].pc = "router" /\ ~ByKey(w))
    PROVE  ~(req[w].key = "right" /\ req[w].route.takesIngest)
  <1>1. KeyInv(req[w])
    BY DEF AuthInv, RequestOK
  <1>2. SUFFICES ASSUME req[w].key = "right", req[w].route.takesIngest
                 PROVE  FALSE
    OBVIOUS
  <1>3. req[w].pc = "router" /\ req[w].at = 1
    BY <1>1, <1>2 DEF KeyInv
  <1>. QED
    BY <1>2, <1>3, PunchFirst DEF ByKey

LEMMA ArriveMoves ==
    ASSUME AuthInv, AuthenticationAssumption, NEW w \in Requests, Arrive(w)
    PROVE  Moves(w)
  <1>1. PICK c \in Credentials, r \in Routes :
            req' = [ req EXCEPT ![w] = [ pc |-> "router", at |-> 1, key |-> c.key, token |-> c.token, route |-> r,
                                         seen |-> NoProfile, seenAt |-> 0, askedAt |-> 0, answer |-> NoProfile ] ]
    BY DEF Arrive
  <1> DEFINE q == [ pc |-> "router", at |-> 1, key |-> c.key, token |-> c.token, route |-> r,
                    seen |-> NoProfile, seenAt |-> 0, askedAt |-> 0, answer |-> NoProfile ]
  <1>2. /\ q.pc = "router" /\ q.at = 1 /\ q.seen = NoProfile /\ q.seenAt = 0
        /\ req' = [req EXCEPT ![w] = q]
    BY <1>1
  <1>3. q \in Active
    <2>1. c.key \in {"none", "right", "wrong"} /\ c.token \in Tokens \union {NoToken}
      BY DEF AuthenticationAssumption, Credential
    <2>2. 0 \in Time /\ 1 \in DOMAIN Mounted
      BY PunchFirst DEF Time, AuthenticationAssumption
    <2>. QED
      BY <2>1, <2>2 DEF Active
  <1> HIDE DEF q
  <1>4. NoProfile \notin Profiles /\ 0 <= now
    BY DEF AuthenticationAssumption, AuthInv, TypeOK, Time
  <1>5. OnTheWay(q)
    BY <1>2, PunchFirst DEF OnTheWay
  <1>. QED
    BY <1>2, <1>3, <1>4, <1>5 DEF Moves, RequestOK, KeyInv

LEMMA CheckKeyMoves ==
    ASSUME AuthInv, AuthenticationAssumption, NEW w \in Requests, req[w] # Idle, CheckKey(w)
    PROVE  Moves(w)
  <1>1. CASE req[w].key = "right"
    <2>1. Pass(w, Ingest) /\ ByIngestKey(w, Ingest)
      BY <1>1 DEF CheckKey, ByIngestKey
    <2>. QED
      BY <2>1, PassMoves
  <1>2. CASE req[w].key # "right"
    <2>1. Deny(w)
      BY <1>2 DEF CheckKey
    <2>. QED
      BY <1>2, <2>1, DenyMoves
  <1>. QED
    BY <1>1, <1>2

\* A trusted entry is younger than the cache time, and so is what it says.
LEMMA UseCachedMoves ==
    ASSUME AuthInv, AuthenticationAssumption, NEW w \in Requests, req[w] # Idle, UseCached(w)
    PROVE  Moves(w)
  <1> DEFINE t == req[w].token
             e == cache[req[w].token]
  <1>1. t \in Tokens /\ Trusted(t) /\ Decide(w, e.profile)
    BY DEF UseCached
  <1>2. /\ e.profile \in Profiles /\ e.cachedAt \in Int /\ now \in Int
        /\ CacheTime \in Nat /\ FetchLimit \in Nat
        /\ now - e.cachedAt < CacheTime
    BY <1>1 DEF Trusted, AuthInv, TypeOK, Time, AuthenticationAssumption
  <1>3. LiveSince(t, e.profile, e.cachedAt - FetchLimit)
    BY <1>1 DEF EntryInv, AuthInv, Trusted
  <1>4. LiveSince(t, e.profile, now - (CacheTime + FetchLimit))
    <2>1. CASE live[t] = e.profile
      BY <2>1 DEF LiveSince
    <2>2. CASE left[t][e.profile] # Never /\ left[t][e.profile] >= e.cachedAt - FetchLimit
      <3>1. left[t][e.profile] \in Int
        BY <1>1, <1>2, <2>2 DEF AuthInv, TypeOK, Time
      <3>2. left[t][e.profile] >= now - (CacheTime + FetchLimit)
        BY <1>2, <2>2, <3>1
      <3>. QED
        BY <2>2, <3>2 DEF LiveSince
    <2>. QED
      BY <1>3, <2>1, <2>2 DEF LiveSince
  <1>5. Usable(w, e.profile)
    BY <1>1, <1>2, <1>4, TokenSteps DEF Usable, UseCached
  <1>. QED
    BY <1>1, <1>2, <1>5, DecideMoves

LEMMA AskMoves ==
    ASSUME AuthInv, AuthenticationAssumption, NEW w \in Requests, req[w] # Idle, Ask(w)
    PROVE  Moves(w)
  <1>1. req[w] \in Active /\ RequestOK(req[w]) /\ now \in Time
    BY DEF AuthInv, TypeOK
  <1> DEFINE q == [req[w] EXCEPT !.pc = "asked", !.askedAt = now]
  <1>2. req' = [req EXCEPT ![w] = q]
    BY DEF Ask
  <1>3. /\ q.pc = "asked" /\ q.at = req[w].at /\ q.key = req[w].key /\ q.token = req[w].token
        /\ q.route = req[w].route /\ q.seen = req[w].seen /\ q.seenAt = req[w].seenAt
        /\ q.askedAt = now /\ q \in Active
    BY <1>1 DEF Active
  <1> HIDE DEF q
  <1>4. FetchInv(q)
    <2>1. now <= now /\ now <= now + FetchLimit
      BY <1>1 DEF Time, AuthenticationAssumption
    <2>. QED
      BY <1>3, <2>1 DEF FetchInv, Ask
  <1>5. ~(req[w].key = "right" /\ req[w].route.takesIngest)
    BY TokenSteps DEF Ask
  <1>6. RequestOK(q)
    BY <1>1, <1>3, <1>4, <1>5 DEF RequestOK, OnTheWay, KeyInv
  <1>. QED
    BY <1>2, <1>3, <1>6 DEF Moves

LEMMA AnswerMoves ==
    ASSUME AuthInv, AuthenticationAssumption, NEW w \in Requests, req[w] # Idle, Answer(w)
    PROVE  Moves(w)
  <1>1. req[w] \in Active /\ RequestOK(req[w]) /\ req[w].pc = "asked"
    BY DEF AuthInv, TypeOK, Answer
  <1>2. FetchInv(req[w])
    BY <1>1 DEF RequestOK
  <1> DEFINE q == [req[w] EXCEPT !.pc = "answered", !.answer = live[req[w].token]]
  <1>3. req' = [req EXCEPT ![w] = q]
    BY DEF Answer
  <1>4. live[req[w].token] \in Profiles \union {Refused}
    BY <1>2 DEF FetchInv, AuthInv, TypeOK
  <1>5. /\ q.pc = "answered" /\ q.at = req[w].at /\ q.key = req[w].key /\ q.token = req[w].token
        /\ q.route = req[w].route /\ q.seen = req[w].seen /\ q.seenAt = req[w].seenAt
        /\ q.askedAt = req[w].askedAt /\ q.answer = live[req[w].token] /\ q \in Active
    BY <1>1, <1>4 DEF Active
  <1> HIDE DEF q
  <1>6. q.answer # NoProfile
    BY <1>4, <1>5 DEF AuthenticationAssumption
  <1>7. FetchInv(q)
    BY <1>2, <1>5, <1>6 DEF FetchInv, LiveSince
  <1>8. ~(req[w].key = "right" /\ req[w].route.takesIngest)
    BY <1>1, TokenSteps
  <1>9. RequestOK(q)
    BY <1>1, <1>5, <1>7, <1>8 DEF RequestOK, OnTheWay, KeyInv
  <1>. QED
    BY <1>3, <1>5, <1>9 DEF Moves

\* An answer was right when the fetch was on its way, which cannot have been long.
LEMMA ReceiveMoves ==
    ASSUME AuthInv, AuthenticationAssumption, NEW w \in Requests, req[w] # Idle, Receive(w)
    PROVE  /\ Moves(w)
           /\ cache' \in [Tokens -> [profile: Profiles \union {NoProfile}, cachedAt: Time]]
           /\ \A t \in Tokens : EntryInv(t)'
  <1>1. req[w] \in Active /\ RequestOK(req[w]) /\ req[w].pc = "answered"
    BY DEF AuthInv, TypeOK, Receive
  <1>2. FetchInv(req[w])
    BY <1>1 DEF RequestOK
  <1>3. ~(req[w].key = "right" /\ req[w].route.takesIngest)
    BY <1>1, TokenSteps
  <1>4. Persists /\ TypeOK
    BY UnchangedPersists DEF Receive, AuthInv
  <1>5. ASSUME NEW t \in Tokens, cache'[t] = cache[t]
        PROVE  EntryInv(t)'
    BY <1>4, <1>5, EntryPersists DEF AuthInv
  <1>6. CASE req[w].answer = Refused
    <2>1. Deny(w) /\ cache' = cache
      BY <1>6 DEF Receive
    <2>2. Moves(w)
      BY <1>3, <2>1, DenyMoves
    <2>. QED
      BY <1>4, <1>5, <2>1, <2>2 DEF TypeOK
  <1>7. CASE req[w].answer # Refused
    <2> DEFINE p == req[w].answer
    <2>0. PICK t \in Tokens : t = req[w].token
      BY <1>2 DEF FetchInv
    <2>1. /\ Decide(w, p) /\ cache' = [cache EXCEPT ![t] = [profile |-> p, cachedAt |-> now]]
          /\ UNCHANGED <<live, left, now>>
      BY <1>7, <2>0 DEF Receive
    <2>2. /\ t \in Tokens /\ p \in Profiles /\ now \in Time /\ now \in Int /\ req[w].askedAt \in Int
          /\ now <= req[w].askedAt + FetchLimit /\ LiveSince(t, p, req[w].askedAt)
          /\ CacheTime \in Nat /\ FetchLimit \in Nat
      BY <1>1, <1>2, <1>4, <1>7, <2>0 DEF FetchInv, Active, TypeOK, Time, AuthenticationAssumption
    <2>3. ASSUME NEW s \in Int, s <= now - FetchLimit
          PROVE  LiveSince(t, p, s)
      <3>1. CASE live[t] = p
        BY <3>1 DEF LiveSince
      <3>2. CASE left[t][p] # Never /\ left[t][p] >= req[w].askedAt
        <4>1. left[t][p] \in Int
          BY <1>4, <2>2, <3>2 DEF TypeOK, Time
        <4>2. left[t][p] >= s
          BY <2>2, <2>3, <3>2, <4>1
        <4>. QED
          BY <3>2, <4>2 DEF LiveSince
      <3>. QED
        BY <2>2, <3>1, <3>2 DEF LiveSince
    <2>4. Usable(w, p)
      BY <1>3, <2>0, <2>2, <2>3 DEF Usable
    <2>5. Moves(w)
      BY <2>1, <2>2, <2>4, DecideMoves
    <2>6. cache' \in [Tokens -> [profile: Profiles \union {NoProfile}, cachedAt: Time]]
      BY <1>4, <2>1, <2>2 DEF TypeOK
    <2>7. EntryInv(t)'
      <3>1. cache'[t].profile = p /\ cache'[t].cachedAt = now
        BY <1>4, <2>1, <2>2 DEF TypeOK
      <3>2. now <= now' /\ LiveSince(t, p, now - FetchLimit)
        <4>1. now - FetchLimit \in Int /\ now - FetchLimit <= now - FetchLimit /\ now <= now
          BY <2>2
        <4>. QED
          BY <2>1, <2>3, <4>1
      <3>. QED
        BY <2>1, <3>1, <3>2 DEF EntryInv, LiveSince
    <2>8. \A u \in Tokens \ {t} : cache'[u] = cache[u]
      BY <1>4, <2>1, <2>2 DEF TypeOK
    <2>. QED
      BY <1>5, <2>5, <2>6, <2>7, <2>8
  <1>. QED
    BY <1>6, <1>7

-----------------------------------------------------------------------------
(* The theorems *)

LEMMA InitEstablishes ==
    ASSUME Init, AuthenticationAssumption
    PROVE  AuthInv
  <1>1. 0 \in Time
    BY DEF Time, AuthenticationAssumption
  <1>. QED
    BY <1>1 DEF Init, AuthInv, TypeOK, EntryInv, NoEntry

LEMMA StepKeeps ==
    ASSUME AuthInv, AuthenticationAssumption, [Next]_vars
    PROVE  AuthInv'
  <1>1. TypeOK
    BY DEF AuthInv
  <1>2. ASSUME NEW w \in Requests, Moves(w), UNCHANGED <<cache, live, left, now>>
        PROVE  AuthInv'
    <2>1. Persists
      BY <1>1, <1>2, UnchangedPersists
    <2>2. \A t \in Tokens : EntryInv(t)'
      BY <1>1, <1>2, <2>1, EntryPersists DEF AuthInv
    <2>3. /\ req' \in [Requests -> {Idle} \union Active]
          /\ \A v \in Requests : req'[v] # Idle => RequestOK(req[v])'
      BY <1>2, MovesKeeps
    <2>4. TypeOK'
      BY <1>1, <1>2, <2>3 DEF TypeOK
    <2>. QED
      BY <2>2, <2>3, <2>4 DEF AuthInv
  <1>3. ASSUME NEW w \in Requests, Arrive(w)
        PROVE  AuthInv'
    BY <1>2, <1>3, ArriveMoves DEF Arrive
  <1>4. ASSUME NEW w \in Requests, Proceed(w)
        PROVE  AuthInv'
    <2>1. req[w] # Idle
      BY <1>4 DEF Proceed, CheckKey, UseCached, NoBearer, Ask, Answer, Receive, FetchFails, Finish, Idle
    <2>2. CASE CheckKey(w)
      BY <1>2, <2>1, <2>2, CheckKeyMoves DEF CheckKey
    <2>3. CASE UseCached(w)
      BY <1>2, <2>1, <2>3, UseCachedMoves DEF UseCached
    <2>4. CASE NoBearer(w)
      <3>1. Moves(w)
        BY <2>1, <2>4, TokenSteps, DenyMoves DEF NoBearer
      <3>. QED
        BY <1>2, <2>4, <3>1 DEF NoBearer
    <2>5. CASE Ask(w)
      BY <1>2, <2>1, <2>5, AskMoves DEF Ask
    <2>6. CASE Answer(w)
      BY <1>2, <2>1, <2>6, AnswerMoves DEF Answer
    <2>7. CASE Receive(w)
      <3>1. /\ Moves(w)
            /\ cache' \in [Tokens -> [profile: Profiles \union {NoProfile}, cachedAt: Time]]
            /\ \A t \in Tokens : EntryInv(t)'
        BY <2>1, <2>7, ReceiveMoves
      <3>2. UNCHANGED <<live, left, now>>
        BY <2>7 DEF Receive
      <3>3. /\ req' \in [Requests -> {Idle} \union Active]
            /\ \A v \in Requests : req'[v] # Idle => RequestOK(req[v])'
        BY <3>1, <3>2, MovesKeeps
      <3>4. TypeOK'
        BY <1>1, <3>1, <3>2, <3>3 DEF TypeOK
      <3>. QED
        BY <3>1, <3>3, <3>4 DEF AuthInv
    <2>8. CASE FetchFails(w)
      <3>1. Moves(w)
        BY <2>1, <2>8, TokenSteps, DenyMoves DEF FetchFails
      <3>. QED
        BY <1>2, <2>8, <3>1 DEF FetchFails
    <2>9. CASE Finish(w)
      <3>1. req' = [req EXCEPT ![w] = Idle] /\ UNCHANGED <<cache, live, left, now>>
        BY <2>9 DEF Finish
      <3>2. Persists
        BY <1>1, <3>1, UnchangedPersists
      <3>3. \A t \in Tokens : EntryInv(t)'
        BY <1>1, <3>1, <3>2, EntryPersists DEF AuthInv
      <3>4. TypeOK' /\ req'[w] = Idle /\ \A v \in Requests \ {w} : req'[v] = req[v]
        BY <1>1, <3>1 DEF TypeOK
      <3>5. ASSUME NEW v \in Requests, req'[v] # Idle
            PROVE  RequestOK(req[v])'
        <4>1. req'[v] = req[v] /\ req[v] \in Active /\ RequestOK(req[v])
          BY <1>1, <3>4, <3>5 DEF AuthInv, TypeOK
        <4>2. PICK r \in Active : r = req[v]
          BY <4>1
        <4>3. r.pc \in {"asked", "answered"} => now' <= r.askedAt + FetchLimit
          BY <3>1, <4>1, <4>2 DEF RequestOK, FetchInv
        <4>. QED
          BY <1>1, <3>2, <4>1, <4>2, <4>3, RequestPersists
      <3>. QED
        BY <3>3, <3>4, <3>5 DEF AuthInv
    <2>. QED
      BY <1>4, <2>2, <2>3, <2>4, <2>5, <2>6, <2>7, <2>8, <2>9 DEF Proceed
  <1>5. ASSUME Persists, UNCHANGED <<cache, req>>, TypeOK',
               \A w \in Requests : req[w] # Idle /\ Pending(w) => now' <= req[w].askedAt + FetchLimit
        PROVE  AuthInv'
    <2>1. \A t \in Tokens : EntryInv(t)'
      BY <1>1, <1>5, EntryPersists DEF AuthInv
    <2>2. ASSUME NEW v \in Requests, req'[v] # Idle
          PROVE  RequestOK(req[v])'
      <3>1. req'[v] = req[v] /\ req[v] \in Active /\ RequestOK(req[v])
        BY <1>1, <1>5, <2>2 DEF AuthInv, TypeOK
      <3>2. PICK r \in Active : r = req[v]
        BY <3>1
      <3>3. r.pc \in {"asked", "answered"} => now' <= r.askedAt + FetchLimit
        BY <1>5, <2>2, <3>1, <3>2 DEF Pending
      <3>. QED
        BY <1>1, <1>5, <3>1, <3>2, <3>3, RequestPersists
    <2>. QED
      BY <1>5, <2>1, <2>2 DEF AuthInv
  <1>6. ASSUME NEW t \in Tokens, NEW p \in Profiles \union {Refused}, Change(t, p)
        PROVE  AuthInv'
    <2>1. Persists /\ UNCHANGED <<cache, req, now>>
      BY <1>1, <1>6, ChangePersists DEF Change
    <2>2. TypeOK'
      BY <1>1, <1>6 DEF TypeOK, Change
    <2>3. \A w \in Requests : req[w] # Idle /\ Pending(w) => now' <= req[w].askedAt + FetchLimit
      BY <2>1 DEF AuthInv, RequestOK, FetchInv, Pending
    <2>. QED
      BY <1>5, <2>1, <2>2, <2>3
  <1>7. CASE Tick
    <2>1. Persists /\ UNCHANGED <<cache, live, left, req>>
      BY <1>1, <1>7, TickPersists DEF Tick
    <2>2. now' \in Time
      BY <1>1, <1>7 DEF TypeOK, Tick, Time, AuthenticationAssumption
    <2>3. TypeOK'
      BY <1>1, <2>1, <2>2 DEF TypeOK
    <2>4. ASSUME NEW w \in Requests, req[w] # Idle, Pending(w)
          PROVE  now' <= req[w].askedAt + FetchLimit
      <3>1. req[w].askedAt \in Int /\ now \in Int /\ FetchLimit \in Nat
        BY <1>1, <2>4 DEF TypeOK, Active, Time, AuthenticationAssumption
      <3>2. now' = now + 1 /\ now < req[w].askedAt + FetchLimit
        BY <1>7, <2>4 DEF Tick
      <3>. QED
        BY <3>1, <3>2
    <2>. QED
      BY <1>5, <2>1, <2>3, <2>4
  <1>8. CASE Crash
    <2>1. NoEntry \in [profile: Profiles \union {NoProfile}, cachedAt: Time] /\ NoEntry.profile = NoProfile
      BY DEF NoEntry, Time, AuthenticationAssumption
    <2>2. /\ cache' \in [Tokens -> [profile: Profiles \union {NoProfile}, cachedAt: Time]]
          /\ \A t \in Tokens : cache'[t].profile = NoProfile
      BY <1>8, <2>1 DEF Crash
    <2>3. /\ req' \in [Requests -> {Idle} \union Active]
          /\ \A w \in Requests : req'[w] = Idle
      BY <1>8 DEF Crash
    <2>4. TypeOK'
      BY <1>1, <1>8, <2>2, <2>3 DEF TypeOK, Crash
    <2>. QED
      BY <2>2, <2>3, <2>4 DEF AuthInv, EntryInv
  <1>9. CASE UNCHANGED vars
    <2>1. Persists /\ TypeOK'
      BY <1>1, <1>9, UnchangedPersists DEF vars, TypeOK
    <2>2. \A w \in Requests : req[w] # Idle /\ Pending(w) => now' <= req[w].askedAt + FetchLimit
      BY <1>9 DEF vars, AuthInv, RequestOK, FetchInv, Pending
    <2>. QED
      BY <1>5, <1>9, <2>1, <2>2 DEF vars
  <1>. QED
    BY <1>3, <1>4, <1>6, <1>7, <1>8, <1>9 DEF Next

(* What the cache and the requests in flight hold was true in TLM when it was *)
(* asked for, for any number of requests that fetch and use it concurrently   *)
(* (resolveProfile, authenticate).                                            *)
THEOREM AuthInvariant ==
    Spec => []AuthInv
  <1>1. Init => AuthInv
    BY InitEstablishes, AuthenticationAssumption
  <1>2. AuthInv /\ [Next]_vars => AuthInv'
    BY StepKeeps, AuthenticationAssumption
  <1>. QED
    BY <1>1, <1>2, PTL DEF Spec

(* No request is let through or denied on a profile that had changed more     *)
(* than a cache time and a fetch before (USER_PROFILE_CACHE_MS).              *)
THEOREM ActedOnLiveProfile ==
    Spec => []ProfileWasLive
  <1>1. AuthInv => ProfileWasLive
    BY DEF AuthInv, ProfileWasLive, ByProfile, RequestOK
  <1>. QED
    BY <1>1, AuthInvariant, PTL

(* The ingest key runs ingestion routes only, wherever a route is mounted     *)
(* (punch.routes.ts, permissions.ts).                                         *)
THEOREM IngestKeyIsConfined ==
    Spec => []IngestOnlyIngests
  <1>1. AuthInv => IngestOnlyIngests
    BY DEF AuthInv, IngestOnlyIngests, Handlers, Idle, RequestOK, KeyInv
  <1>. QED
    BY <1>1, AuthInvariant, PTL

(* The ingest key always gets to the ingestion routes (app.ts mounts          *)
(* punchRouter first).                                                        *)
THEOREM IngestKeyGetsThrough ==
    Spec => []IngestReachesPunches
  <1>1. AuthInv => IngestReachesPunches
    BY DEF AuthInv, IngestReachesPunches, RequestOK, KeyInv
  <1>. QED
    BY <1>1, AuthInvariant, PTL

-----------------------------------------------------------------------------
(* Requests advance. *)

\* The steps at the routers after the current one.
StepsAfter(r) == 3 * (Len(Mounted) - r.at)

LEMMA RoutersAfter ==
    ASSUME NEW r \in Active
    PROVE  StepsAfter(r) \in Nat
  <1>1. PICK n \in Nat : n = Len(Mounted) /\ DOMAIN Mounted = 1..n
    BY DEF Mounted
  <1>2. PICK k \in 1..n : k = r.at
    BY <1>1 DEF Active
  <1>. QED
    BY <1>1, <1>2 DEF StepsAfter

LEMMA NextRouter ==
    ASSUME NEW r \in Active, NEW q \in Active, q.at = r.at + 1
    PROVE  StepsAfter(r) = StepsAfter(q) + 3
  <1>1. PICK n \in Nat : n = Len(Mounted) /\ DOMAIN Mounted = 1..n
    BY DEF Mounted
  <1>2. PICK k \in 1..n : k = r.at
    BY <1>1 DEF Active
  <1>. QED
    BY <1>1, <1>2 DEF StepsAfter

\* The bound, for each place a request can be in.
LEMMA Bounds ==
    ASSUME NEW r \in Active
    PROVE  /\ r.pc \in {"handler", "denied"} => StepsLeft(r) = 1
           /\ r.pc = "router" => StepsLeft(r) = StepsAfter(r) + 4
           /\ r.pc = "asked" => StepsLeft(r) = StepsAfter(r) + 3
           /\ r.pc = "answered" => StepsLeft(r) = StepsAfter(r) + 2
           /\ StepsAfter(r) \in Nat
  <1>1. r # Idle
    BY DEF Active, Idle
  <1>2. CASE r.pc \in {"handler", "denied"}
    BY <1>1, <1>2, RoutersAfter DEF StepsLeft
  <1>3. CASE r.pc = "router"
    BY <1>1, <1>3, RoutersAfter DEF StepsLeft, StepsAfter
  <1>4. CASE r.pc = "asked"
    BY <1>1, <1>4, RoutersAfter DEF StepsLeft, StepsAfter
  <1>5. CASE r.pc = "answered"
    BY <1>1, <1>5, RoutersAfter DEF StepsLeft, StepsAfter
  <1>. QED
    BY <1>2, <1>3, <1>4, <1>5 DEF Active

LEMMA Undecided ==
    ASSUME NEW r \in Active, r.pc \in {"router", "asked", "answered"}
    PROVE  StepsLeft(r) \in Nat /\ StepsLeft(r) >= StepsAfter(r) + 2 /\ StepsAfter(r) \in Nat
  <1>1. CASE r.pc = "router"
    BY <1>1, Bounds
  <1>2. CASE r.pc = "asked"
    BY <1>2, Bounds
  <1>3. CASE r.pc = "answered"
    BY <1>3, Bounds
  <1>. QED
    BY <1>1, <1>2, <1>3

\* Being denied ends a request that has not been decided yet.
LEMMA DenialAdvances ==
    ASSUME NEW r \in Active, NEW n \in Active, r.pc \in {"router", "asked", "answered"}, n.pc = "denied"
    PROVE  StepsLeft(n) < StepsLeft(r)
  <1>1. StepsLeft(n) = 1
    BY Bounds
  <1>. QED
    BY <1>1, Undecided

LEMMA PassAdvances ==
    ASSUME TypeOK, TypeOK', NEW w \in Requests, req[w].pc \in {"router", "asked", "answered"},
           NEW auth, Pass(w, auth), req[w] \in Active, req'[w] # Idle
    PROVE  StepsLeft(req'[w]) < StepsLeft(req[w])
  <1>. DEFINE here == Mounted[req[w].at] = req[w].route.router
  <1>1. req'[w] \in Active
    BY DEF TypeOK
  <1>2. CASE here
    <2>1. req'[w].pc \in {"handler", "denied"}
      BY <1>2 DEF Pass, Over, TypeOK, Active
    <2>2. StepsLeft(req'[w]) = 1
      BY <1>1, <2>1, Bounds
    <2>. QED
      BY <2>2, Undecided
  <1>3. CASE ~here
    <2>1. req'[w].pc = "router" /\ req'[w].at = req[w].at + 1
      BY <1>3 DEF Pass, Over, TypeOK, Active
    <2>2. StepsLeft(req'[w]) = StepsAfter(req'[w]) + 4 /\ StepsAfter(req'[w]) \in Nat
      BY <1>1, <2>1, Bounds
    <2>3. StepsAfter(req[w]) = StepsAfter(req'[w]) + 3
      BY <1>1, <2>1, NextRouter
    <2>. QED
      BY <2>2, <2>3, Undecided
  <1>. QED
    BY <1>2, <1>3

LEMMA DecideAdvances ==
    ASSUME TypeOK, TypeOK', NEW w \in Requests, req[w].pc \in {"router", "asked", "answered"},
           NEW profile, Decide(w, profile), req[w] \in Active, req'[w] # Idle
    PROVE  StepsLeft(req'[w]) < StepsLeft(req[w])
  <1>1. CASE Pass(w, profile)
    BY <1>1, PassAdvances
  <1>2. CASE ~Pass(w, profile)
    <2>1. req'[w].pc = "denied"
      <3>1. req' = [req EXCEPT ![w] = [Over(req[w]) EXCEPT !.pc = "denied", !.seen = profile, !.seenAt = now]]
        BY <1>2 DEF Decide
      <3>. QED
        BY <3>1 DEF Over, TypeOK, Active
    <2>2. req'[w] \in Active
      BY DEF TypeOK
    <2>. QED
      BY <2>1, <2>2, DenialAdvances
  <1>. QED
    BY <1>1, <1>2

LEMMA StepAdvances ==
    ASSUME AuthInv, AuthInv', [Next]_vars, NEW w \in Requests, req[w] # Idle, req'[w] # req[w]
    PROVE  StepsLeft(req'[w]) < StepsLeft(req[w])
  <1>0. /\ TypeOK /\ TypeOK' /\ req[w] \in Active
        /\ req \in [Requests -> {Idle} \union Active]
        /\ req'[w] \in {Idle} \union Active
    BY DEF AuthInv, TypeOK
  <1>1. CASE req'[w] = Idle
    <2>1. StepsLeft(req'[w]) = 0
      BY <1>1 DEF StepsLeft, Idle
    <2>2. CASE req[w].pc \in {"handler", "denied"}
      <3>1. StepsLeft(req[w]) = 1
        BY <1>0, <2>2, Bounds
      <3>. QED
        BY <2>1, <3>1
    <2>3. CASE req[w].pc \in {"router", "asked", "answered"}
      <3>1. StepsLeft(req[w]) \in Nat /\ StepsLeft(req[w]) >= StepsAfter(req[w]) + 2 /\ StepsAfter(req[w]) \in Nat
        BY <1>0, <2>3, Undecided
      <3>. QED
        BY <2>1, <3>1
    <2>. QED
      BY <1>0, <2>2, <2>3 DEF Active
  <1>2. CASE req'[w] # Idle
    <2>0. req'[w] \in Active
      BY <1>0, <1>2
    <2>1. PICK v \in Requests : Arrive(v) \/ Proceed(v)
      BY <1>0, <1>2 DEF Next, vars, Change, Tick, Crash
    <2>2. CASE v # w
      BY <1>0, <2>1, <2>2
         DEF Arrive, Proceed, CheckKey, UseCached, NoBearer, Ask, Answer, Receive, FetchFails,
             Finish, Deny, Pass, Decide
    <2>3. ASSUME Deny(w), req[w].pc \in {"router", "asked", "answered"}
          PROVE  StepsLeft(req'[w]) < StepsLeft(req[w])
      <3>1. req'[w].pc = "denied"
        BY <1>0, <2>3 DEF Deny, Over, Active
      <3>. QED
        BY <1>0, <2>0, <2>3, <3>1, DenialAdvances
    <2>4. CASE CheckKey(w)
      BY <1>0, <1>2, <2>3, <2>4, PassAdvances DEF CheckKey
    <2>5. CASE UseCached(w)
      BY <1>0, <1>2, <2>5, DecideAdvances DEF UseCached
    <2>6. CASE NoBearer(w)
      BY <2>3, <2>6 DEF NoBearer
    <2>7. CASE Ask(w)
      <3>1. req[w].pc = "router" /\ req'[w].pc = "asked" /\ StepsAfter(req'[w]) = StepsAfter(req[w])
        BY <1>0, <2>7 DEF Ask, Active, StepsAfter
      <3>. QED
        BY <1>0, <2>0, <3>1, Bounds
    <2>8. CASE Answer(w)
      <3>1. req[w].pc = "asked" /\ req'[w].pc = "answered" /\ StepsAfter(req'[w]) = StepsAfter(req[w])
        BY <1>0, <2>8 DEF Answer, Active, StepsAfter
      <3>. QED
        BY <1>0, <2>0, <3>1, Bounds
    <2>9. CASE Receive(w)
      BY <1>0, <1>2, <2>3, <2>9, DecideAdvances DEF Receive
    <2>10. CASE FetchFails(w)
      BY <2>3, <2>10 DEF FetchFails
    <2>11. CASE Finish(w)
      BY <1>0, <1>2, <2>11 DEF Finish
    <2>12. ~Arrive(w)
      BY DEF Arrive
    <2>. QED
      BY <2>1, <2>2, <2>4, <2>5, <2>6, <2>7, <2>8, <2>9, <2>10, <2>11, <2>12 DEF Proceed
  <1>. QED
    BY <1>1, <1>2

(* Every step of a request brings it nearer to its end, however many routers  *)
(* authenticate it again (createApp's chain of next() calls), so that it      *)
(* takes at most three steps at each of the fourteen routers.                 *)
THEOREM RequestsGetThrough == Spec => RequestsAdvance
  <1>1. AuthInv /\ AuthInv' /\ [Next]_vars =>
          [ \A w \in Requests :
              req[w] # Idle /\ req'[w] # req[w] => StepsLeft(req'[w]) < StepsLeft(req[w]) ]_vars
    BY StepAdvances
  <1>. QED
    BY <1>1, AuthInvariant, PTL DEF Spec, RequestsAdvance

=============================================================================
