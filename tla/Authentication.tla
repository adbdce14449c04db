--------------------------- MODULE Authentication ----------------------------
(* How a request gets its principal: the routers it passes                    *)
(* (src/src/app.ts), each of which authenticates it again                     *)
(* (src/src/middleware/auth.ts, punchIngestAuth.ts), the cache of profiles    *)
(* they share, and the permission gate of its route                           *)
(* (src/src/middleware/permissions.ts).  Profiles change in TLM at any time.  *)
(* A request's pc names what it waits for; the code between two awaits is one *)
(* step.                                                                      *)
EXTENDS Integers, Sequences

CONSTANTS
    Requests,       \* concurrent HTTP requests (slots)
    Tokens,         \* bearer tokens that pass the local check of signature and expiry
    NoToken,        \* no such token in the Authorization header
    Keys,           \* permission keys
    Profiles,       \* bound: the profiles users have in TLM
    Refused,        \* TLM answers GET /users/me with an error status
    NoProfile,      \* no profile looked at yet, none received
    Credentials,    \* bound: the headers requests come with
    Routes,         \* bound: the routes that are called
    CacheTime,      \* env.userProfileCacheMs
    FetchLimit,     \* the time in which a fetch settles: the runtime's, the code sets none
    Never,          \* a profile has not been live and then changed
    MaxTime         \* bound: the clock

Role == {"PLATFORM_ADMIN", "CLIENT_ADMIN", "VIEWER", "SITE_MANAGER", "PUNCH_INGEST"}

Profile == [role: Role, permissions: SUBSET Keys, status: {"active", "inactive"}]

\* The synthetic principal behind the ingest key.
Ingest == [role |-> "PUNCH_INGEST", permissions |-> {}, status |-> "active"]

\* Mutant: punches after the routers that take bearer tokens only.
Mounted_PunchLater == << "employee", "punch", "employeeGroup", "site", "siteCustomFieldDefinition",
                         "employeeCustomFieldDefinition", "task", "payPeriodConfig", "payrollCalendar",
                         "employeeSiteAssignment", "schedule", "timesheetProxy", "processingProxy",
                         "permissionsCatalog" >>

\* The routers in the order createApp mounts them.
Mounted == << "punch", "employee", "employeeGroup", "site", "siteCustomFieldDefinition",
              "employeeCustomFieldDefinition", "task", "payPeriodConfig", "payrollCalendar",
              "employeeSiteAssignment", "schedule", "timesheetProxy", "processingProxy",
              "permissionsCatalog" >>

\* The ingest key header and the bearer token.
Credential == [key: {"none", "right", "wrong"}, token: Tokens \union {NoToken}]

\* takesIngest: its gate is allowIngestOrRequirePermission.
Route == [router: {Mounted[i] : i \in DOMAIN Mounted}, takesIngest: BOOLEAN, needs: SUBSET Keys]

ASSUME AuthenticationAssumption ==
    /\ NoToken \notin Tokens
    /\ Profiles \subseteq Profile /\ Ingest \notin Profiles
    /\ Refused \notin Profile /\ NoProfile \notin Profile /\ Refused # NoProfile
    /\ Credentials \subseteq Credential /\ Routes \subseteq Route
    /\ \A r \in Routes : r.takesIngest => r.router = "punch"
    /\ \A r \in Routes : r.router = "punch" => r.needs # {}
    /\ CacheTime \in Nat /\ FetchLimit \in Nat /\ MaxTime \in Nat
    /\ Never \notin 0 .. MaxTime

VARIABLES
    cache,      \* profileCache
    live,       \* what TLM answers for a token now
    left,       \* history: when a profile was last live for a token and then changed
    now,        \* the clock
    req         \* the state of each request

vars == <<cache, live, left, now, req>>

Time == 0 .. MaxTime

NoEntry == [profile |-> NoProfile, cachedAt |-> 0]

Idle == [pc |-> "idle"]

(* seen and seenAt: the profile that was looked at last, which is req.auth    *)
(* unless the request was denied, and when.                                   *)
Active == [ pc: {"router", "asked", "answered", "handler", "denied"}, at: DOMAIN Mounted,
            key: {"none", "right", "wrong"}, token: Tokens \union {NoToken}, route: Routes,
            seen: Profiles \union {Ingest, NoProfile}, seenAt: Time,
            askedAt: Time, answer: Profiles \union {Refused, NoProfile} ]

TypeOK ==
    /\ cache \in [Tokens -> [profile: Profiles \union {NoProfile}, cachedAt: Time]]
    /\ live \in [Tokens -> Profiles \union {Refused}]
    /\ left \in [Tokens -> [Profiles -> Time \union {Never}]]
    /\ now \in Time
    /\ req \in [Requests -> {Idle} \union Active]

-----------------------------------------------------------------------------
(* The steps of a request *)

Trusted(t) == cache[t].profile # NoProfile /\ now - cache[t].cachedAt < CacheTime

\* Mutant: the ingest key passes every gate.
Gate_AnyIngest(route, auth) ==
    \/ auth.role \in {"PLATFORM_ADMIN", "PUNCH_INGEST"}
    \/ route.needs \subseteq auth.permissions

\* requirePermission and allowIngestOrRequirePermission
Gate(route, auth) ==
    \/ auth.role = "PLATFORM_ADMIN"
    \/ route.takesIngest /\ auth.role = "PUNCH_INGEST"
    \/ route.needs \subseteq auth.permissions

\* A fetch is over: the answer is no longer needed.
Over(r) == [r EXCEPT !.askedAt = 0, !.answer = NoProfile]

Deny(w) == req' = [req EXCEPT ![w] = [Over(req[w]) EXCEPT !.pc = "denied"]]

\* next(): the route's gate if this router has the route, otherwise the next router.
Pass(w, auth) ==
    LET here == Mounted[req[w].at] = req[w].route.router
        pc == IF ~here THEN "router" ELSE IF Gate(req[w].route, auth) THEN "handler" ELSE "denied"
        at == IF here THEN req[w].at ELSE req[w].at + 1
    IN  req' = [req EXCEPT ![w] = [Over(req[w]) EXCEPT !.pc = pc, !.at = at, !.seen = auth, !.seenAt = now]]

\* What authenticate does with the profile of the token.
Decide(w, profile) ==
    IF profile.status = "active" THEN Pass(w, profile)
    ELSE req' = [req EXCEPT ![w] = [Over(req[w]) EXCEPT !.pc = "denied", !.seen = profile, !.seenAt = now]]

Arrive(w) ==
    /\ req[w] = Idle
    /\ \E c \in Credentials, r \in Routes :
          req' = [ req EXCEPT ![w] = [ pc |-> "router", at |-> 1, key |-> c.key, token |-> c.token, route |-> r,
                                       seen |-> NoProfile, seenAt |-> 0, askedAt |-> 0, answer |-> NoProfile ] ]
    /\ UNCHANGED <<cache, live, left, now>>

\* authenticatePunchIngestOrUser looks at the key before the token.
ByKey(w) == Mounted[req[w].at] = "punch" /\ req[w].key # "none"

CheckKey(w) ==
    /\ req[w].pc = "router"
    /\ ByKey(w)
    /\ IF req[w].key = "right" THEN Pass(w, Ingest) ELSE Deny(w)
    /\ UNCHANGED <<cache, live, left, now>>

\* Mutant: every use makes the entry young again.
UseCached_Slides(w) ==
    /\ req[w].pc = "router" /\ ~ByKey(w)
    /\ req[w].token \in Tokens /\ Trusted(req[w].token)
    /\ Decide(w, cache[req[w].token].profile)
    /\ cache' = [cache EXCEPT ![req[w].token].cachedAt = now]
    /\ UNCHANGED <<live, left, now>>

UseCached(w) ==
    /\ req[w].pc = "router" /\ ~ByKey(w)
    /\ req[w].token \in Tokens /\ Trusted(req[w].token)
    /\ Decide(w, cache[req[w].token].profile)
    /\ UNCHANGED <<cache, live, left, now>>

NoBearer(w) ==
    /\ req[w].pc = "router" /\ ~ByKey(w)
    /\ req[w].token = NoToken
    /\ Deny(w)
    /\ UNCHANGED <<cache, live, left, now>>

Ask(w) ==
    /\ req[w].pc = "router" /\ ~ByKey(w)
    /\ req[w].token \in Tokens /\ ~Trusted(req[w].token)
    /\ req' = [req EXCEPT ![w].pc = "asked", ![w].askedAt = now]
    /\ UNCHANGED <<cache, live, left, now>>

\* TLM reads the profile; the answer is under way.
Answer(w) ==
    /\ req[w].pc = "asked"
    /\ req' = [req EXCEPT ![w].pc = "answered", ![w].answer = live[req[w].token]]
    /\ UNCHANGED <<cache, live, left, now>>

Receive(w) ==
    /\ req[w].pc = "answered"
    /\ IF req[w].answer = Refused
       THEN Deny(w) /\ UNCHANGED cache
       ELSE /\ Decide(w, req[w].answer)
            /\ cache' = [cache EXCEPT ![req[w].token] = [profile |-> req[w].answer, cachedAt |-> now]]
    /\ UNCHANGED <<live, left, now>>

\* Mutant: a failed fetch is tried again.
FetchFails_TryAgain(w) ==
    /\ req[w].pc \in {"asked", "answered"}
    /\ req' = [req EXCEPT ![w].pc = "router"]
    /\ UNCHANGED <<cache, live, left, now>>

FetchFails(w) ==
    /\ req[w].pc \in {"asked", "answered"}
    /\ Deny(w)
    /\ UNCHANGED <<cache, live, left, now>>

\* The handler, or the error response, ends the request.
Finish(w) ==
    /\ req[w].pc \in {"handler", "denied"}
    /\ req' = [req EXCEPT ![w] = Idle]
    /\ UNCHANGED <<cache, live, left, now>>

-----------------------------------------------------------------------------
(* TLM, the clock and restarts *)

\* An administrator edits the user, or TLM stops accepting the token.
Change(t, profile) ==
    /\ live[t] # profile
    /\ live' = [live EXCEPT ![t] = profile]
    /\ left' = IF live[t] = Refused THEN left ELSE [left EXCEPT ![t][live[t]] = now]
    /\ UNCHANGED <<cache, now, req>>

Pending(w) == req[w].pc \in {"asked", "answered"}

Tick ==
    /\ now < MaxTime
    /\ \A w \in Requests : Pending(w) => now < req[w].askedAt + FetchLimit
    /\ now' = now + 1
    /\ UNCHANGED <<cache, live, left, req>>

Crash ==
    /\ cache' = [t \in Tokens |-> NoEntry]
    /\ req' = [w \in Requests |-> Idle]
    /\ UNCHANGED <<live, left, now>>

-----------------------------------------------------------------------------

Init ==
    /\ cache = [t \in Tokens |-> NoEntry]
    /\ live \in [Tokens -> Profiles]
    /\ left = [t \in Tokens |-> [p \in Profiles |-> Never]]
    /\ now = 0
    /\ req = [w \in Requests |-> Idle]

\* What a request does on its own once it has arrived: its fetches settle.
Proceed(w) ==
    \/ CheckKey(w) \/ UseCached(w) \/ NoBearer(w) \/ Ask(w)
    \/ Answer(w) \/ Receive(w) \/ FetchFails(w)
    \/ Finish(w)

Next ==
    \/ \E w \in Requests : Arrive(w) \/ Proceed(w)
    \/ \E t \in Tokens, p \in Profiles \union {Refused} : Change(t, p)
    \/ Tick
    \/ Crash

Spec == Init /\ [][Next]_vars

-----------------------------------------------------------------------------
(* Properties *)

\* The profile p was live for token t at time since or later.
LiveSince(t, p, since) == live[t] = p \/ (left[t][p] # Never /\ left[t][p] >= since)

Handlers == {w \in Requests : req[w].pc = "handler"}

\* A bound on the steps a request still takes: three at each router, and the handler.
StepsLeft(r) ==
    CASE r = Idle -> 0
      [] r.pc \in {"handler", "denied"} -> 1
      [] r.pc \in {"router", "asked", "answered"} ->
            3 * (Len(Mounted) - r.at)
              + CASE r.pc = "router" -> 4 [] r.pc = "asked" -> 3 [] r.pc = "answered" -> 2

ByProfile(w) == req[w] # Idle /\ req[w].seen \in Profiles

(* A profile the middleware acted on, by letting the request pass or by       *)
(* denying it, was the user's at most a cache time and a fetch before:        *)
(* neither a cached entry nor an answer on its way is used later.             *)
ProfileWasLive ==
    \A w \in Requests : ByProfile(w) =>
        LiveSince(req[w].token, req[w].seen, req[w].seenAt - (CacheTime + FetchLimit))

(* The ingest key runs the two ingestion routes and nothing else, although    *)
(* every request passes the router that accepts it (permissions.ts: "never    *)
(* reaches routes gated by this").                                            *)
IngestOnlyIngests ==
    \A w \in Handlers : req[w].seen = Ingest => req[w].route.takesIngest

(* A request with the right key for an ingestion route is never turned away   *)
(* for want of a token (app.ts: "punchRouter MUST be mounted first").         *)
IngestReachesPunches ==
    \A w \in Requests :
        req[w] # Idle /\ req[w].key = "right" /\ req[w].route.takesIngest => req[w].pc # "denied"

(* No request goes round in circles, whatever the cache and its fetches do    *)
(* (the chain of next() calls in createApp): each of its steps brings it      *)
(* nearer to its end.  Since an awaited fetch settles, it is answered.        *)
RequestsAdvance ==
    [][ \A w \in Requests :
          req[w] # Idle /\ req'[w] # req[w] => StepsLeft(req'[w]) < StepsLeft(req[w]) ]_vars

-----------------------------------------------------------------------------
(* The strengthening behind these properties. *)

\* The entry is not older than its fetch was allowed to take.
EntryInv(t) ==
    LET e == cache[t]
    IN  e.profile # NoProfile => e.cachedAt <= now /\ LiveSince(t, e.profile, e.cachedAt - FetchLimit)

\* A fetch under way has time left, and its answer was right when it was given.
FetchInv(r) ==
    /\ r.token \in Tokens
    /\ r.askedAt <= now /\ now <= r.askedAt + FetchLimit
    /\ r.pc = "answered" => /\ r.answer # NoProfile
                            /\ r.answer # Refused => LiveSince(r.token, r.answer, r.askedAt)

\* The routers before this one do not have the route.
OnTheWay(r) == \A i \in DOMAIN Mounted : i < r.at => Mounted[i] # r.route.router

\* The key decides at the first router, which is where the ingestion routes are.
KeyInv(r) ==
    /\ r.key = "right" /\ r.route.takesIngest => r.pc = "handler" \/ (r.pc = "router" /\ r.at = 1)
    /\ r.pc = "handler" /\ r.seen = Ingest => r.route.takesIngest

RequestOK(r) ==
    /\ OnTheWay(r)
    /\ KeyInv(r)
    /\ r.pc \in {"asked", "answered"} => FetchInv(r)
    /\ r.seenAt <= now
    /\ r.seen \in Profiles =>
          r.token \in Tokens /\ LiveSince(r.token, r.seen, r.seenAt - (CacheTime + FetchLimit))

AuthInv ==
    /\ TypeOK
    /\ \A t \in Tokens : EntryInv(t)
    /\ \A w \in Requests : req[w] # Idle => RequestOK(req[w])
=============================================================================
