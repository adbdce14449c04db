--------------------------- MODULE ProcessorClient --------------------------
(* The client of tlm-punch-processor (src/src/clients/punchProcessorClient.ts)*)
(* with the service-account token it caches for all calls.  A call is a loop  *)
(* of at most MaxRetries + 1 attempts; each gets a token, from the cache or   *)
(* by a login at the rule repository, and sends one request under a timer.    *)
(* The two services and the network are external: a request may be carried    *)
(* out and its answer lost, or long after the attempt was given up; an answer *)
(* may be overtaken by the timer; a token may be revoked at any time.         *)
(* Milliseconds are abstract ticks, the same for all services.                *)
EXTENDS Integers

CONSTANTS
    Calls,          \* outbound calls, of any endpoint; each is used once
    MaxRetries,     \* MAX_RETRIES
    RequestTimeout, \* REQUEST_TIMEOUT_MS
    RefreshBuffer,  \* TOKEN_REFRESH_BUFFER_MS
    FallbackTTL,    \* FALLBACK_TOKEN_TTL_MS
    TokenTTL,       \* lifetime the rule repository gives a token
    NoToken,
    Revocable,      \* bound: the tokens that may be revoked out of band
    MaxTime         \* bound: the clock stops here

Attempts == 0..MaxRetries

\* A token is named by the attempt that logged in for it.
Token == Calls \X Attempts

ASSUME ClientAssumption ==
    /\ MaxRetries \in Nat /\ RequestTimeout \in Nat /\ RefreshBuffer \in Nat
    /\ FallbackTTL \in Nat /\ TokenTTL \in Nat /\ MaxTime \in Nat
    /\ RequestTimeout <= RefreshBuffer
    /\ FallbackTTL <= RefreshBuffer
    /\ RequestTimeout < TokenTTL
    /\ NoToken \notin Token
    /\ Revocable \subseteq Token

VARIABLES
    now,        \* Date.now()
    cached,     \* cachedServiceToken
    expiry,     \* when each token expires; 0 before it is minted
    revoked,    \* tokens the processor no longer takes
    call,       \* the state of each call
    wire,       \* requests under way to the processor or in its hands
    performed   \* the attempts whose effect took place at the processor

vars == <<now, cached, expiry, revoked, call, wire, performed>>

\* status is the status of the answer that is in, then the outcome; denied is history: the tokens
\* for which this call got a 401.
CallState ==
    [ pc: {"idle", "start", "login", "fetch", "body", "done"}, attempt: Attempts, force: BOOLEAN,
      token: Token \union {NoToken}, started: Nat, denied: SUBSET Token,
      status: {"none", "ok", "rejected", "denied", "error", "refused", "unreachable", "crashed"} ]

TypeOK ==
    /\ now \in Nat
    /\ cached \in [token: Token \union {NoToken}, expiresAt: Nat]
    /\ expiry \in [Token -> Nat]
    /\ revoked \in SUBSET Token
    /\ call \in [Calls -> CallState]
    /\ wire \in SUBSET [call: Calls, attempt: Attempts, token: Token]
    /\ performed \in [Calls -> SUBSET Attempts]

NoCache == [token |-> NoToken, expiresAt |-> 0]

Fresh ==
    [ pc |-> "idle", attempt |-> 0, force |-> FALSE, token |-> NoToken, started |-> 0,
      denied |-> {}, status |-> "none" ]

Own(c) == <<c, call[c].attempt>>

-----------------------------------------------------------------------------
(* callPunchProcessor *)

\* What is left of a call between two attempts, and in the end.
Between(c) == [call[c] EXCEPT !.token = NoToken, !.started = 0, !.force = FALSE, !.status = "none"]

Finish(c, status) == call' = [call EXCEPT ![c] = [Between(c) EXCEPT !.pc = "done", !.status = status]]

\* Mutant: the attempt is not counted.
TryAgain_Uncounted(c, force, denied) ==
    IF call[c].attempt < MaxRetries
    THEN call' = [ call EXCEPT ![c] =
                     [Between(c) EXCEPT !.pc = "start", !.force = force, !.denied = denied] ]
    ELSE Finish(c, "unreachable")

\* The end of the loop's body, with the value of forceTokenRefresh.
TryAgain(c, force, denied) ==
    IF call[c].attempt < MaxRetries
    THEN call' = [ call EXCEPT ![c] =
                     [ Between(c) EXCEPT !.pc = "start", !.attempt = @ + 1,
                                         !.force = force, !.denied = denied ] ]
    ELSE Finish(c, "unreachable")

\* fetch() with the token at hand.
Send(c, token, started) ==
    /\ call' = [ call EXCEPT ![c].pc = "fetch", ![c].force = FALSE, ![c].token = token,
                             ![c].started = started ]
    /\ wire' = wire \union {[call |-> c, attempt |-> call[c].attempt, token |-> token]}

Submit(c) ==
    /\ call[c].pc = "idle"
    /\ call' = [call EXCEPT ![c].pc = "start"]
    /\ UNCHANGED <<now, cached, expiry, revoked, wire, performed>>

\* Mutant: no margin before the expiry.
Usable_NoBuffer(entry) == entry.token # NoToken /\ entry.expiresAt > now

\* A cached token is taken unless it expires within the buffer.
Usable(entry) == entry.token # NoToken /\ entry.expiresAt - RefreshBuffer > now

\* The timer starts before the token is got.
StartAttempt(c) ==
    /\ call[c].pc = "start"
    /\ \/ /\ ~call[c].force /\ Usable(cached)
          /\ Send(c, cached.token, now)
       \/ /\ call[c].force \/ ~Usable(cached)
          /\ call' = [call EXCEPT ![c].pc = "login", ![c].started = now]
          /\ UNCHANGED wire
    /\ UNCHANGED <<now, cached, expiry, revoked, performed>>

\* The exp claim of the token may be unreadable.  When the timer has fired during the login, the
\* fetch is aborted before anything is sent.
LoginAnswered(c) ==
    /\ call[c].pc = "login"
    /\ expiry[Own(c)] # 0
    /\ \E at \in {expiry[Own(c)], now + FallbackTTL} :
          cached' = [token |-> Own(c), expiresAt |-> at]
    /\ IF now < call[c].started + RequestTimeout
       THEN Send(c, Own(c), call[c].started)
       ELSE TryAgain(c, FALSE, call[c].denied) /\ UNCHANGED wire
    /\ UNCHANGED <<now, expiry, revoked, performed>>

\* The rule repository turns the login down: an HttpError, which is not retried.
LoginRefused(c) ==
    /\ call[c].pc = "login"
    /\ Finish(c, "refused")
    /\ UNCHANGED <<now, cached, expiry, revoked, wire, performed>>

\* Mutant: forceTokenRefresh is reset before the token is there.
LoginFails_ForceReset(c) ==
    /\ call[c].pc = "login"
    /\ TryAgain(c, FALSE, call[c].denied)
    /\ UNCHANGED <<now, cached, expiry, revoked, wire, performed>>

\* No answer to the login, which has no timeout of its own; forceTokenRefresh stays set.
LoginFails(c) ==
    /\ call[c].pc = "login"
    /\ TryAgain(c, call[c].force, call[c].denied)
    /\ UNCHANGED <<now, cached, expiry, revoked, wire, performed>>

\* A network error, or the timer aborts the fetch; the request may be on its way all the same.
FetchFails(c) ==
    /\ call[c].pc = "fetch"
    /\ TryAgain(c, FALSE, call[c].denied)
    /\ UNCHANGED <<now, cached, expiry, revoked, wire, performed>>

\* A 401 forces a new login, but for the last attempt, whose 401 goes to the caller.
ReceiveDenied(c) ==
    IF call[c].attempt < MaxRetries
    THEN TryAgain(c, TRUE, call[c].denied \union {call[c].token})
    ELSE call' = [ call EXCEPT ![c].pc = "body", ![c].token = NoToken, ![c].started = 0,
                               ![c].denied = @ \union {call[c].token} ]

\* Mutant: the status of the answer is not looked at.
Receive_AnyStatus(c) ==
    /\ call[c].pc = "fetch"
    /\ call[c].status # "none"
    /\ call' = [call EXCEPT ![c].pc = "body", ![c].token = NoToken, ![c].started = 0, ![c].status = "ok"]
    /\ UNCHANGED <<now, cached, expiry, revoked, wire, performed>>

\* The head of the answer: the timer is cleared, the body of a success or a 4xx is still to come.
Receive(c) ==
    /\ call[c].pc = "fetch"
    /\ \/ call[c].status = "denied" /\ ReceiveDenied(c)
       \/ call[c].status = "error" /\ TryAgain(c, FALSE, call[c].denied)
       \/ /\ call[c].status \in {"ok", "rejected"}
          /\ call' = [call EXCEPT ![c].pc = "body", ![c].token = NoToken, ![c].started = 0]
    /\ UNCHANGED <<now, cached, expiry, revoked, wire, performed>>

ReadBody(c) ==
    /\ call[c].pc = "body"
    /\ call' = [call EXCEPT ![c].pc = "done"]
    /\ UNCHANGED <<now, cached, expiry, revoked, wire, performed>>

\* The connection breaks while the body is read: not an HttpError, so it is retried.
BodyFails(c) ==
    /\ call[c].pc = "body"
    /\ TryAgain(c, FALSE, call[c].denied)
    /\ UNCHANGED <<now, cached, expiry, revoked, wire, performed>>

\* A restart of this service loses the cached token and every call under way.
Crash ==
    /\ cached' = NoCache
    /\ call' = [ c \in Calls |-> IF call[c].pc \in {"idle", "done"} THEN call[c]
                                 ELSE [Between(c) EXCEPT !.pc = "done", !.status = "crashed"] ]
    /\ UNCHANGED <<now, expiry, revoked, wire, performed>>

-----------------------------------------------------------------------------
(* The rule repository, the punch processor and time *)

Mint(c) ==
    /\ call[c].pc = "login"
    /\ expiry[Own(c)] = 0
    /\ expiry' = [expiry EXCEPT ![Own(c)] = now + TokenTTL]
    /\ UNCHANGED <<now, cached, revoked, call, wire, performed>>

Revoke(t) ==
    /\ t \in Revocable \ revoked
    /\ expiry[t] # 0
    /\ revoked' = revoked \union {t}
    /\ UNCHANGED <<now, cached, expiry, call, wire, performed>>

Accepts(t) == t \notin revoked /\ now < expiry[t]

\* The answer to m, if the attempt that sent it still waits for it.
Answer(m, s) ==
    IF call[m.call].pc = "fetch" /\ call[m.call].attempt = m.attempt
    THEN call' = [call EXCEPT ![m.call].status = s]
    ELSE UNCHANGED call

\* The processor carries the request out, or not, and answers.
Handle(m) ==
    /\ m \in wire
    /\ wire' = wire \ {m}
    /\ \/ /\ Accepts(m.token)
          /\ performed' = [performed EXCEPT ![m.call] = @ \union {m.attempt}]
          /\ \E s \in {"ok", "error"} : Answer(m, s)
       \/ /\ Accepts(m.token)
          /\ \E s \in {"rejected", "error"} : Answer(m, s)
          /\ UNCHANGED performed
       \/ /\ ~Accepts(m.token)
          /\ Answer(m, "denied")
          /\ UNCHANGED performed
    /\ UNCHANGED <<now, cached, expiry, revoked>>

\* A fetch does not outlive its timer.
Tick ==
    /\ now < MaxTime
    /\ \A c \in Calls : call[c].pc = "fetch" => now < call[c].started + RequestTimeout
    /\ now' = now + 1
    /\ UNCHANGED <<cached, expiry, revoked, call, wire, performed>>

-----------------------------------------------------------------------------

Init ==
    /\ now = 0
    /\ cached = NoCache
    /\ expiry = [t \in Token |-> 0]
    /\ revoked = {}
    /\ call = [c \in Calls |-> Fresh]
    /\ wire = {}
    /\ performed = [c \in Calls |-> {}]

\* What the event loop does for c once whatever c awaits has settled.
Proceed(c) ==
    \/ StartAttempt(c)
    \/ LoginAnswered(c) \/ LoginRefused(c) \/ LoginFails(c)
    \/ FetchFails(c) \/ Receive(c) \/ ReadBody(c) \/ BodyFails(c)

Next ==
    \/ \E c \in Calls : Submit(c) \/ Proceed(c) \/ Mint(c)
    \/ \E t \in Token : Revoke(t)
    \/ \E m \in wire : Handle(m)
    \/ Tick
    \/ Crash

Spec == Init /\ [][Next]_vars

\* Every awaited login, fetch and body read settles: by the timer or by the limits of the HTTP library.
FairSpec == Spec /\ \A c \in Calls : WF_vars(Proceed(c))

-----------------------------------------------------------------------------
(* Properties *)

(* "so an in-flight request never races a token that's valid when read but    *)
(* expired by the time the outbound call actually lands": a 401 that a call   *)
(* gets is never for a token that has just run out, only for a revoked one.   *)
OnlyRevokedDenied == \A c \in Calls : call[c].denied \subseteq revoked

(* A token is not tried again by a call that saw it rejected, through failed  *)
(* logins and whatever other calls put into the cache in the meantime (the    *)
(* forced refresh of callPunchProcessor).                                     *)
NoTokenDeniedTwice == \A c \in Calls : call[c].pc = "fetch" => call[c].token \notin call[c].denied

(* The retries keep the promise made to the handlers (ProcessorPromise): at   *)
(* most one effect per attempt, and no success without an effect.             *)
CallerState(k) ==
    CASE k.pc = "idle" -> "idle"
      [] k.pc = "done" /\ k.status = "ok" -> "ok"
      [] k.pc = "done" /\ k.status # "ok" -> "failed"
      [] OTHER -> "pending"

Promise == INSTANCE ProcessorPromise WITH state <- [c \in Calls |-> CallerState(call[c])]

PromiseSpec == Promise!Spec

(* A call that was made is answered (callPunchProcessor returns or throws).   *)
CallsAnswered == \A c \in Calls : call[c].pc = "start" ~> call[c].pc = "done"

-----------------------------------------------------------------------------
(* The strengthening behind these properties. *)

\* Attempt t[2] of call t[1] is past its login: its token may be known, its request may be out.
Delivered(t) ==
    \/ t[2] < call[t[1]].attempt
    \/ t[2] = call[t[1]].attempt /\ call[t[1]].pc \in {"fetch", "body", "done"}

\* The age of what is cached, and of what an attempt uses.
Ages(c) ==
    /\ call[c].pc \in {"login", "fetch"} => call[c].started <= now
    /\ call[c].pc = "login" => expiry[Own(c)] = 0 \/ expiry[Own(c)] >= call[c].started + TokenTTL
    /\ call[c].pc = "fetch" =>
          /\ call[c].token \in Token
          /\ now <= call[c].started + RequestTimeout
          /\ expiry[call[c].token] > call[c].started + RequestTimeout

\* An attempt logs in at its time.
Minted(t) ==
    expiry[t] # 0 =>
        \/ t[2] < call[t[1]].attempt
        \/ t[2] = call[t[1]].attempt /\ call[t[1]].pc \notin {"idle", "start"}

TimeInv ==
    /\ cached.token # NoToken =>
          cached.expiresAt = expiry[cached.token] \/ cached.expiresAt <= now + RefreshBuffer
    /\ \A t \in Token : Minted(t)
    /\ \A c \in Calls : Ages(c)

\* No request, answer or effect is from an attempt to come, or of one that is still to send.
Outstanding(m) ==
    /\ Delivered(<<m.call, m.attempt>>)
    /\ m.attempt = call[m.call].attempt /\ call[m.call].pc = "fetch" => m.token = call[m.call].token
    /\ m.attempt \notin performed[m.call]
    /\ \A n \in wire : n.call = m.call /\ n.attempt = m.attempt => n = m

Effects(c) ==
    /\ \A a \in performed[c] : Delivered(<<c, a>>)
    /\ call[c].status = "ok" => performed[c] # {}
    /\ call[c].pc = "fetch" /\ call[c].status = "denied" => call[c].token \in revoked
    /\ call[c].pc \in {"idle", "start", "login"} => call[c].status = "none"
    /\ call[c].pc = "idle" => call[c].attempt = 0

SentInv == (\A m \in wire : Outstanding(m)) /\ (\A c \in Calls : Effects(c))

\* A rejected token can only come from the cache again while the refresh is forced.
Denials(c) ==
    /\ \A t \in call[c].denied : Delivered(t)
    /\ call[c].pc = "fetch" => Delivered(call[c].token)
    /\ call[c].pc \in {"idle", "start", "login"} /\ cached.token \in call[c].denied => call[c].force
    /\ call[c].pc = "fetch" \/ (call[c].pc = "body" /\ call[c].status # "denied") =>
          cached.token \notin call[c].denied
    /\ call[c].pc = "body" /\ call[c].status = "denied" => call[c].attempt = MaxRetries

DenialInv ==
    /\ cached.token # NoToken => Delivered(cached.token)
    /\ \A c \in Calls : Denials(c)

ClientInv ==
    /\ TypeOK /\ TimeInv /\ SentInv /\ DenialInv
    /\ OnlyRevokedDenied /\ NoTokenDeniedTwice

=============================================================================
