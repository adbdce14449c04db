----------------------- MODULE ProcessorClient_proofs -----------------------
(* Proofs about ProcessorClient for every number of calls and attempts and    *)
(* every choice of the time limits that ClientAssumption allows.              *)
EXTENDS ProcessorClient, TLAPS

-----------------------------------------------------------------------------
(* Facts about the building blocks of the model. *)

\* Only call c changes, and it stays well-typed.
Changes(c) ==
    /\ call' \in [Calls -> CallState]
    /\ \A d \in Calls : d # c => call'[d] = call[d]

\* The two ways the body of the loop ends without an answer for the caller.
Again(c, force, denied) ==
    /\ Changes(c)
    /\ call'[c].token = NoToken /\ call'[c].started = 0
    /\ \/ /\ call'[c].pc = "start" /\ call'[c].attempt = call[c].attempt + 1
          /\ call'[c].force = force /\ call'[c].denied = denied /\ call'[c].status = "none"
       \/ /\ call'[c].pc = "done" /\ call'[c].attempt = call[c].attempt
          /\ call[c].attempt = MaxRetries
          /\ call'[c].denied = call[c].denied /\ call'[c].status = "unreachable"

LEMMA TryAgainIsAgain ==
    ASSUME TypeOK, NEW c \in Calls, NEW force \in BOOLEAN, NEW denied \in SUBSET Token,
           TryAgain(c, force, denied)
    PROVE  Again(c, force, denied)
  <1>1. call[c] \in CallState /\ call \in [Calls -> CallState]
    BY DEF TypeOK
  <1>2. CASE call[c].attempt < MaxRetries
    <2>1. call' = [ call EXCEPT ![c] =
                      [ Between(c) EXCEPT !.pc = "start", !.attempt = @ + 1,
                                          !.force = force, !.denied = denied ] ]
      BY <1>2 DEF TryAgain
    <2>2. [ Between(c) EXCEPT !.pc = "start", !.attempt = @ + 1,
                              !.force = force, !.denied = denied ] \in CallState
      <3>1. call[c].attempt + 1 \in Attempts
        <4>1. call[c].attempt \in Attempts
          BY <1>1 DEF CallState
        <4>. QED
          BY <4>1, <1>2, ClientAssumption DEF Attempts
      <3>2. Between(c) \in CallState /\ Between(c).attempt = call[c].attempt
        BY <1>1 DEF Between, CallState
      <3>. QED
        BY <3>1, <3>2 DEF CallState
    <2>3. /\ Changes(c)
          /\ call'[c] = [ Between(c) EXCEPT !.pc = "start", !.attempt = @ + 1,
                                            !.force = force, !.denied = denied ]
      BY <1>1, <2>1, <2>2 DEF Changes
    <2>. QED
      BY <1>1, <2>3 DEF Again, Between, CallState
  <1>3. CASE ~(call[c].attempt < MaxRetries)
    <2>1. call' = [call EXCEPT ![c] = [Between(c) EXCEPT !.pc = "done", !.status = "unreachable"]]
      BY <1>3 DEF TryAgain, Finish
    <2>2. [Between(c) EXCEPT !.pc = "done", !.status = "unreachable"] \in CallState
      BY <1>1 DEF Between, CallState
    <2>3. /\ Changes(c)
          /\ call'[c] = [Between(c) EXCEPT !.pc = "done", !.status = "unreachable"]
      BY <1>1, <2>1, <2>2 DEF Changes
    <2>. QED
      BY <1>1, <1>3, <2>3, ClientAssumption DEF Again, Between, CallState, Attempts
  <1>. QED
    BY <1>2, <1>3

\* A request goes out with token, under the timer that started at started.
Sends(c, token, started) ==
    /\ Changes(c)
    /\ call'[c].pc = "fetch" /\ call'[c].force = FALSE /\ call'[c].attempt = call[c].attempt
    /\ call'[c].token = token /\ call'[c].started = started
    /\ call'[c].denied = call[c].denied /\ call'[c].status = call[c].status
    /\ wire' = wire \union {[call |-> c, attempt |-> call[c].attempt, token |-> token]}

LEMMA SendSends ==
    ASSUME TypeOK, NEW c \in Calls, NEW t \in Token, NEW s \in Nat, Send(c, t, s)
    PROVE  Sends(c, t, s)
  <1>1. call[c] \in CallState /\ call \in [Calls -> CallState]
    BY DEF TypeOK
  <1>2. call' = [ call EXCEPT ![c] = [ call[c] EXCEPT !.pc = "fetch", !.force = FALSE,
                                                      !.token = t, !.started = s ] ]
    BY <1>1 DEF Send
  <1>3. [call[c] EXCEPT !.pc = "fetch", !.force = FALSE, !.token = t, !.started = s] \in CallState
    BY <1>1 DEF CallState
  <1>4. /\ Changes(c)
        /\ call'[c] = [call[c] EXCEPT !.pc = "fetch", !.force = FALSE, !.token = t, !.started = s]
    BY <1>1, <1>2, <1>3 DEF Changes
  <1>. QED
    BY <1>1, <1>4 DEF Send, Sends, CallState

-----------------------------------------------------------------------------
(* The kinds of steps: what each does to the call that takes it. *)

Quiet == UNCHANGED <<now, cached, expiry, revoked, wire, performed>>

\* From submission to the first attempt, and from an attempt to its login.
Begins(c) ==
    /\ Changes(c) /\ Quiet
    /\ call[c].pc = "idle" /\ call'[c].pc = "start" /\ call'[c].started = call[c].started
    /\ call'[c].attempt = call[c].attempt /\ call'[c].force = call[c].force
    /\ call'[c].denied = call[c].denied /\ call'[c].status = call[c].status

LogsIn(c) ==
    /\ Changes(c) /\ Quiet
    /\ call[c].pc = "start" /\ call'[c].pc = "login" /\ call'[c].started = now
    /\ call'[c].attempt = call[c].attempt /\ call'[c].force = call[c].force
    /\ call'[c].denied = call[c].denied /\ call'[c].status = call[c].status

SendsCached(c) ==
    /\ call[c].pc = "start" /\ ~call[c].force /\ Usable(cached)
    /\ Sends(c, cached.token, now)
    /\ UNCHANGED <<now, cached, expiry, revoked, performed>>

CachesOwn(c) ==
    /\ call[c].pc = "login" /\ expiry[Own(c)] # 0
    /\ cached'.token = Own(c) /\ cached'.expiresAt \in {expiry[Own(c)], now + FallbackTTL}
    /\ cached' \in [token: Token \union {NoToken}, expiresAt: Nat]
    /\ UNCHANGED <<now, expiry, revoked, performed>>

SendsOwn(c) ==
    /\ CachesOwn(c)
    /\ now < call[c].started + RequestTimeout
    /\ Sends(c, Own(c), call[c].started)

LogsInLate(c) ==
    /\ CachesOwn(c)
    /\ Again(c, FALSE, call[c].denied)
    /\ UNCHANGED wire

Retries(c) ==
    /\ Quiet
    /\ \/ call[c].pc = "login" /\ Again(c, call[c].force, call[c].denied)
       \/ call[c].pc \in {"fetch", "body"} /\ Again(c, FALSE, call[c].denied)
       \/ /\ call[c].pc = "fetch" /\ call[c].status = "denied" /\ call[c].attempt < MaxRetries
          /\ Again(c, TRUE, call[c].denied \union {call[c].token})

\* The answer is in, but for its body.
Receives(c) ==
    /\ Changes(c) /\ Quiet
    /\ call[c].pc = "fetch" /\ call'[c].pc = "body" /\ call'[c].attempt = call[c].attempt
    /\ call'[c].force = call[c].force /\ call'[c].status = call[c].status
    /\ \/ call'[c].denied = call[c].denied /\ call[c].status # "denied"
       \/ /\ call'[c].denied = call[c].denied \union {call[c].token}
          /\ call[c].status = "denied" /\ call[c].attempt = MaxRetries

Ends(c) ==
    /\ Changes(c) /\ Quiet
    /\ call[c].pc \in {"login", "body"} /\ call'[c].pc = "done"
    /\ call'[c].attempt = call[c].attempt /\ call'[c].denied = call[c].denied
    /\ call'[c].status = call[c].status \/ call'[c].status = "refused"

\* The processor is done with m.
Handled(m) ==
    /\ m \in wire /\ wire' = wire \ {m}
    /\ UNCHANGED <<now, cached, expiry, revoked>>
    /\ call' \in [Calls -> CallState]
    /\ \A c \in Calls :
          /\ call'[c].pc = call[c].pc /\ call'[c].attempt = call[c].attempt
          /\ call'[c].force = call[c].force /\ call'[c].token = call[c].token
          /\ call'[c].started = call[c].started /\ call'[c].denied = call[c].denied
          /\ \/ call'[c].status = call[c].status
             \/ /\ c = m.call /\ m.attempt = call[c].attempt /\ call[c].pc = "fetch"
                /\ call'[c].status = "ok" => performed' = [performed EXCEPT ![c] = @ \union {m.attempt}]
                /\ call'[c].status = "denied" => ~Accepts(m.token)
    /\ \/ UNCHANGED performed
       \/ performed' = [performed EXCEPT ![m.call] = @ \union {m.attempt}]

Crashes ==
    /\ cached' = NoCache
    /\ UNCHANGED <<now, expiry, revoked, wire, performed>>
    /\ call' \in [Calls -> CallState]
    /\ \A c \in Calls :
          \/ call'[c] = call[c] /\ call[c].pc \in {"idle", "done"}
          \/ /\ call[c].pc \notin {"idle", "done"}
             /\ call'[c].pc = "done" /\ call'[c].attempt = call[c].attempt
             /\ call'[c].denied = call[c].denied /\ call'[c].status = "crashed"

LEMMA WellTyped ==
    ASSUME ClientInv
    PROVE  /\ TypeOK /\ now \in Nat /\ \A c \in Calls : Own(c) \in Token /\ call[c] \in CallState
           /\ call \in [Calls -> CallState]
    BY DEF ClientInv, TypeOK, Own, Token, CallState

LEMMA SubmitBegins ==
    ASSUME ClientInv, NEW c \in Calls, Submit(c)
    PROVE  Begins(c)
  <1>0. /\ TypeOK /\ now \in Nat /\ \A d \in Calls : Own(d) \in Token /\ call[d] \in CallState
        /\ call \in [Calls -> CallState]
    BY WellTyped
  <1>1. [call[c] EXCEPT !.pc = "start"] \in CallState
    BY <1>0 DEF CallState
  <1>2. call' = [call EXCEPT ![c] = [call[c] EXCEPT !.pc = "start"]]
    BY <1>0 DEF Submit
  <1>3. Changes(c) /\ call'[c] = [call[c] EXCEPT !.pc = "start"]
    BY <1>0, <1>1, <1>2 DEF Changes
  <1>. QED
    BY <1>0, <1>3 DEF Submit, Begins, Quiet, CallState

LEMMA StartKinds ==
    ASSUME ClientInv, NEW c \in Calls, StartAttempt(c)
    PROVE  SendsCached(c) \/ LogsIn(c)
  <1>0. /\ TypeOK /\ now \in Nat /\ \A d \in Calls : Own(d) \in Token /\ call[d] \in CallState
        /\ call \in [Calls -> CallState]
    BY WellTyped
  <1>1. CASE ~call[c].force /\ Usable(cached) /\ Send(c, cached.token, now)
    <2>1. cached.token \in Token
      BY <1>0, <1>1 DEF TypeOK, Usable
    <2>2. Sends(c, cached.token, now)
      BY <1>0, <1>1, <2>1, SendSends
    <2>. QED
      BY <1>1, <2>2 DEF StartAttempt, SendsCached
  <1>2. CASE call' = [call EXCEPT ![c].pc = "login", ![c].started = now] /\ UNCHANGED wire
    <2>1. [call[c] EXCEPT !.pc = "login", !.started = now] \in CallState
      BY <1>0 DEF CallState
    <2>2. call' = [call EXCEPT ![c] = [call[c] EXCEPT !.pc = "login", !.started = now]]
      BY <1>0, <1>2
    <2>3. Changes(c) /\ call'[c] = [call[c] EXCEPT !.pc = "login", !.started = now]
      BY <1>0, <2>1, <2>2 DEF Changes
    <2>. QED
      BY <1>0, <1>2, <2>3 DEF StartAttempt, LogsIn, Quiet, CallState
  <1>. QED
    BY <1>1, <1>2 DEF StartAttempt

LEMMA LoginKinds ==
    ASSUME ClientInv, NEW c \in Calls, LoginAnswered(c)
    PROVE  SendsOwn(c) \/ LogsInLate(c)
  <1>0. /\ TypeOK /\ now \in Nat /\ \A d \in Calls : Own(d) \in Token /\ call[d] \in CallState
        /\ call \in [Calls -> CallState]
    BY WellTyped
  <1>1. CachesOwn(c)
    <2>1. PICK at \in {expiry[Own(c)], now + FallbackTTL} :
              cached' = [token |-> Own(c), expiresAt |-> at]
      BY DEF LoginAnswered
    <2>2. at \in Nat
      BY <1>0, ClientAssumption DEF TypeOK
    <2>. QED
      BY <1>0, <2>1, <2>2 DEF LoginAnswered, CachesOwn
  <1>2. CASE now < call[c].started + RequestTimeout
    <2>1. Send(c, Own(c), call[c].started) /\ call[c].started \in Nat
      BY <1>0, <1>2 DEF LoginAnswered, CallState
    <2>. QED
      BY <1>0, <1>1, <1>2, <2>1, SendSends DEF SendsOwn
  <1>3. CASE ~(now < call[c].started + RequestTimeout)
    <2>1. TryAgain(c, FALSE, call[c].denied) /\ UNCHANGED wire /\ call[c].denied \in SUBSET Token
      BY <1>0, <1>3 DEF LoginAnswered, CallState
    <2>. QED
      BY <1>0, <1>1, <2>1, TryAgainIsAgain DEF LogsInLate
  <1>. QED
    BY <1>2, <1>3

LEMMA RefusedEnds ==
    ASSUME ClientInv, NEW c \in Calls, LoginRefused(c)
    PROVE  Ends(c)
  <1>0. /\ TypeOK /\ now \in Nat /\ \A d \in Calls : Own(d) \in Token /\ call[d] \in CallState
        /\ call \in [Calls -> CallState]
    BY WellTyped
  <1>1. [Between(c) EXCEPT !.pc = "done", !.status = "refused"] \in CallState
    BY <1>0 DEF Between, CallState
  <1>2. Changes(c) /\ call'[c] = [Between(c) EXCEPT !.pc = "done", !.status = "refused"]
    BY <1>0, <1>1 DEF LoginRefused, Finish, Changes
  <1>. QED
    BY <1>0, <1>2 DEF LoginRefused, Ends, Quiet, Between, CallState

LEMMA FailureRetries ==
    ASSUME ClientInv, NEW c \in Calls, LoginFails(c) \/ FetchFails(c) \/ BodyFails(c)
    PROVE  Retries(c)
  <1>0. /\ TypeOK /\ now \in Nat /\ \A d \in Calls : Own(d) \in Token /\ call[d] \in CallState
        /\ call \in [Calls -> CallState]
    BY WellTyped
  <1>1. call[c].force \in BOOLEAN /\ call[c].denied \in SUBSET Token
    BY <1>0 DEF CallState
  <1>. QED
    BY <1>0, <1>1, TryAgainIsAgain DEF LoginFails, FetchFails, BodyFails, Retries, Quiet

LEMMA ReceiveKinds ==
    ASSUME ClientInv, NEW c \in Calls, Receive(c)
    PROVE  Retries(c) \/ Receives(c)
  <1>0. /\ TypeOK /\ now \in Nat /\ \A d \in Calls : Own(d) \in Token /\ call[d] \in CallState
        /\ call \in [Calls -> CallState]
    BY WellTyped
  <1>1. call[c].pc = "fetch" /\ Quiet /\ call[c].denied \in SUBSET Token /\ call[c].token \in Token
    BY <1>0 DEF Receive, Quiet, CallState, ClientInv, TimeInv, Ages
  <1>2. CASE call[c].status = "error" /\ TryAgain(c, FALSE, call[c].denied)
    BY <1>0, <1>1, <1>2, TryAgainIsAgain DEF Retries
  <1>3. CASE call[c].status = "denied" /\ call[c].attempt < MaxRetries
    <2>1. TryAgain(c, TRUE, call[c].denied \union {call[c].token})
      BY <1>3 DEF Receive, ReceiveDenied
    <2>2. call[c].denied \union {call[c].token} \in SUBSET Token
      BY <1>1
    <2>. QED
      BY <1>0, <1>1, <1>3, <2>1, <2>2, TryAgainIsAgain DEF Retries
  <1>4. CASE call[c].status = "denied" /\ ~(call[c].attempt < MaxRetries)
    <2>1. call' = [ call EXCEPT ![c] = [ call[c] EXCEPT !.pc = "body", !.token = NoToken, !.started = 0,
                                                !.denied = call[c].denied \union {call[c].token} ] ]
      BY <1>0, <1>4 DEF Receive, ReceiveDenied
    <2>2. [ call[c] EXCEPT !.pc = "body", !.token = NoToken, !.started = 0,
                           !.denied = call[c].denied \union {call[c].token} ] \in CallState
      BY <1>0, <1>1 DEF CallState
    <2>3. Changes(c) /\ call'[c] = [ call[c] EXCEPT !.pc = "body", !.token = NoToken, !.started = 0,
                                          !.denied = call[c].denied \union {call[c].token} ]
      BY <1>0, <2>1, <2>2 DEF Changes
    <2>4. call[c].attempt = MaxRetries
      BY <1>0, <1>4, ClientAssumption DEF CallState, Attempts
    <2>. QED
      BY <1>0, <1>1, <1>4, <2>3, <2>4 DEF Receives, CallState
  <1>5. CASE /\ call[c].status \in {"ok", "rejected"}
             /\ call' = [call EXCEPT ![c].pc = "body", ![c].token = NoToken, ![c].started = 0]
    <2>1. call' = [ call EXCEPT ![c] =
                      [call[c] EXCEPT !.pc = "body", !.token = NoToken, !.started = 0] ]
      BY <1>0, <1>5
    <2>2. [call[c] EXCEPT !.pc = "body", !.token = NoToken, !.started = 0] \in CallState
      BY <1>0 DEF CallState
    <2>3. Changes(c) /\ call'[c] = [call[c] EXCEPT !.pc = "body", !.token = NoToken, !.started = 0]
      BY <1>0, <2>1, <2>2 DEF Changes
    <2>. QED
      BY <1>0, <1>1, <1>5, <2>3 DEF Receives, CallState
  <1>. QED
    BY <1>2, <1>3, <1>4, <1>5 DEF Receive

LEMMA ReadEnds ==
    ASSUME ClientInv, NEW c \in Calls, ReadBody(c)
    PROVE  Ends(c)
  <1>0. /\ TypeOK /\ now \in Nat /\ \A d \in Calls : Own(d) \in Token /\ call[d] \in CallState
        /\ call \in [Calls -> CallState]
    BY WellTyped
  <1>1. call' = [call EXCEPT ![c] = [call[c] EXCEPT !.pc = "done"]]
    BY <1>0 DEF ReadBody
  <1>2. [call[c] EXCEPT !.pc = "done"] \in CallState
    BY <1>0 DEF CallState
  <1>3. Changes(c) /\ call'[c] = [call[c] EXCEPT !.pc = "done"]
    BY <1>0, <1>1, <1>2 DEF Changes
  <1>. QED
    BY <1>0, <1>3 DEF ReadBody, Ends, Quiet, CallState

LEMMA HandleIsHandled ==
    ASSUME ClientInv, NEW m \in wire, Handle(m)
    PROVE  Handled(m)
  <1>0. /\ TypeOK /\ now \in Nat /\ \A d \in Calls : Own(d) \in Token /\ call[d] \in CallState
        /\ call \in [Calls -> CallState]
    BY WellTyped
  <1>1. m.call \in Calls /\ m.attempt \in Attempts
    BY <1>0 DEF TypeOK
  <1>2. PICK s \in {"ok", "error", "rejected", "denied"} :
            /\ Answer(m, s)
            /\ s = "ok" => performed' = [performed EXCEPT ![m.call] = @ \union {m.attempt}]
            /\ s = "denied" => ~Accepts(m.token)
    BY DEF Handle
  <1>3. CASE call[m.call].pc = "fetch" /\ call[m.call].attempt = m.attempt
    <2>1. call' = [call EXCEPT ![m.call] = [call[m.call] EXCEPT !.status = s]]
      BY <1>0, <1>1, <1>2, <1>3 DEF Answer
    <2>2. [call[m.call] EXCEPT !.status = s] \in CallState
      BY <1>0, <1>1 DEF CallState
    <2>3. Changes(m.call) /\ call'[m.call] = [call[m.call] EXCEPT !.status = s]
      BY <1>0, <1>1, <2>1, <2>2 DEF Changes
    <2>4. /\ call'[m.call].status = s /\ call'[m.call].pc = call[m.call].pc
          /\ call'[m.call].attempt = call[m.call].attempt /\ call'[m.call].force = call[m.call].force
          /\ call'[m.call].token = call[m.call].token /\ call'[m.call].started = call[m.call].started
          /\ call'[m.call].denied = call[m.call].denied
      BY <1>0, <1>1, <2>3 DEF CallState
    <2>. QED
      BY <1>1, <1>2, <1>3, <2>3, <2>4 DEF Handle, Handled, Changes
  <1>4. CASE ~(call[m.call].pc = "fetch" /\ call[m.call].attempt = m.attempt)
    BY <1>0, <1>2, <1>4 DEF Handle, Handled, Answer
  <1>. QED
    BY <1>3, <1>4

LEMMA CrashIsCrashes ==
    ASSUME ClientInv, Crash
    PROVE  Crashes
  <1>0. /\ TypeOK /\ now \in Nat /\ \A d \in Calls : Own(d) \in Token /\ call[d] \in CallState
        /\ call \in [Calls -> CallState]
    BY WellTyped
  <1>1. ASSUME NEW c \in Calls
        PROVE  /\ [Between(c) EXCEPT !.pc = "done", !.status = "crashed"] \in CallState
               /\ call'[c] = IF call[c].pc \in {"idle", "done"} THEN call[c]
                             ELSE [Between(c) EXCEPT !.pc = "done", !.status = "crashed"]
    BY <1>0 DEF Crash, Between, CallState
  <1>2. call' \in [Calls -> CallState]
    BY <1>0, <1>1 DEF Crash
  <1>3. ASSUME NEW c \in Calls
        PROVE  \/ call'[c] = call[c] /\ call[c].pc \in {"idle", "done"}
               \/ /\ call[c].pc \notin {"idle", "done"}
                  /\ call'[c].pc = "done" /\ call'[c].attempt = call[c].attempt
                  /\ call'[c].denied = call[c].denied /\ call'[c].status = "crashed"
    <2>1. CASE call[c].pc \in {"idle", "done"}
      BY <1>1, <2>1
    <2>2. CASE call[c].pc \notin {"idle", "done"}
      <3>1. call'[c] = [Between(c) EXCEPT !.pc = "done", !.status = "crashed"]
        BY <1>1, <2>2
      <3>. QED
        BY <1>0, <2>2, <3>1 DEF Between, CallState
    <2>. QED
      BY <2>1, <2>2
  <1>. QED
    BY <1>2, <1>3 DEF Crash, Crashes

\* What the event loop does for a call, once it is under way.
LEMMA ProceedKinds ==
    ASSUME ClientInv, NEW c \in Calls, Proceed(c)
    PROVE  \/ LogsIn(c) \/ SendsCached(c) \/ SendsOwn(c)
           \/ LogsInLate(c) \/ Retries(c) \/ Receives(c) \/ Ends(c)
    BY StartKinds, LoginKinds, RefusedEnds, FailureRetries, ReceiveKinds, ReadEnds DEF Proceed

LEMMA StepKinds ==
    ASSUME ClientInv, Next
    PROVE  \/ \E c \in Calls : \/ Begins(c) \/ LogsIn(c) \/ SendsCached(c) \/ SendsOwn(c)
                              \/ LogsInLate(c) \/ Retries(c) \/ Receives(c) \/ Ends(c) \/ Mint(c)
           \/ \E t \in Token : Revoke(t)
           \/ \E m \in wire : Handled(m)
           \/ Tick
           \/ Crashes
    BY SubmitBegins, ProceedKinds, HandleIsHandled, CrashIsCrashes DEF Next

-----------------------------------------------------------------------------
(* Facts every step keeps. *)

Kind(c) ==
    \/ Begins(c) \/ LogsIn(c) \/ SendsCached(c) \/ SendsOwn(c)
    \/ LogsInLate(c) \/ Retries(c) \/ Receives(c) \/ Ends(c)

AnyKind ==
    \/ \E c \in Calls : Kind(c) \/ Mint(c)
    \/ \E t \in Token : Revoke(t)
    \/ \E m \in wire : Handled(m)
    \/ Tick
    \/ Crashes

Early(c) == call[c].pc \in {"idle", "start"}

Late(c) == call[c].pc \in {"fetch", "body", "done"}

\* Calls only move forward.
Progress ==
    \A c \in Calls :
        \/ call'[c].attempt > call[c].attempt
        \/ /\ call'[c].attempt = call[c].attempt
           /\ (Late(c) => Late(c)') /\ (~Early(c) => ~Early(c)')

LEMMA TypeStep ==
    ASSUME ClientInv, AnyKind
    PROVE  TypeOK' /\ Progress
  <1>0. TypeOK
    BY DEF ClientInv
  <1>1. ASSUME NEW c \in Calls, Kind(c)  PROVE TypeOK' /\ Progress
    <2>1. call' \in [Calls -> CallState] /\ \A d \in Calls \ {c} : call'[d] = call[d]
      BY <1>1 DEF Kind, Begins, LogsIn, SendsCached, SendsOwn, LogsInLate, Retries, Receives, Ends,
                  Sends, Again, Changes
    <2>2. /\ UNCHANGED <<now, expiry, revoked, performed>>
          /\ UNCHANGED cached \/ cached' \in [token: Token \union {NoToken}, expiresAt: Nat]
      BY <1>1 DEF Kind, Begins, LogsIn, SendsCached, SendsOwn, LogsInLate, Retries, Receives, Ends,
                  Quiet, CachesOwn
    <2>3. wire' \in SUBSET [call: Calls, attempt: Attempts, token: Token]
      <3>1. CASE UNCHANGED wire
        BY <1>0, <3>1 DEF TypeOK
      <3>2. ASSUME NEW t \in Token, NEW s \in Nat, Sends(c, t, s)
            PROVE  wire' \in SUBSET [call: Calls, attempt: Attempts, token: Token]
        BY <1>0, <3>2 DEF TypeOK, Sends, CallState
      <3>3. CASE SendsCached(c)
        BY <1>0, <3>2, <3>3 DEF SendsCached, Usable, TypeOK
      <3>4. CASE SendsOwn(c)
        BY <1>0, <3>2, <3>4 DEF SendsOwn, TypeOK, CallState, Own, Token
      <3>. QED
        BY <1>1, <3>1, <3>3, <3>4 DEF Kind, Begins, LogsIn, LogsInLate, Retries, Receives, Ends, Quiet
    <2>4. \/ call'[c].attempt > call[c].attempt
          \/ /\ call'[c].attempt = call[c].attempt
             /\ (Late(c) => Late(c)') /\ (~Early(c) => ~Early(c)')
      <3>1. call[c].attempt \in Nat
        BY <1>0, ClientAssumption DEF TypeOK, CallState, Attempts
      <3>. QED
        BY <1>1, <3>1 DEF Kind, Begins, LogsIn, SendsCached, SendsOwn, LogsInLate, Retries, Receives,
                          Ends, Sends, Again, Late, Early, CachesOwn
    <2>5. Progress
      BY <2>1, <2>4 DEF Progress, Late, Early
    <2>. QED
      BY <1>0, <2>1, <2>2, <2>3, <2>5 DEF TypeOK
  <1>2. ASSUME NEW c \in Calls, Mint(c)  PROVE TypeOK' /\ Progress
    <2>1. now + TokenTTL \in Nat
      BY <1>0, ClientAssumption DEF TypeOK
    <2>2. expiry' \in [Token -> Nat]
      BY <1>0, <1>2, <2>1 DEF Mint, TypeOK
    <2>. QED
      BY <1>0, <1>2, <2>2 DEF Mint, TypeOK, Progress, Late, Early
  <1>3. ASSUME NEW t \in Token, Revoke(t)  PROVE TypeOK' /\ Progress
    BY <1>0, <1>3 DEF Revoke, TypeOK, Progress, Late, Early
  <1>4. ASSUME NEW m \in wire, Handled(m)  PROVE TypeOK' /\ Progress
    <2>1. m.call \in Calls /\ m.attempt \in Attempts
      BY <1>0 DEF TypeOK
    <2>2. performed' \in [Calls -> SUBSET Attempts]
      BY <1>0, <1>4, <2>1 DEF Handled, TypeOK
    <2>. QED
      BY <1>0, <1>4, <2>2 DEF Handled, TypeOK, Progress, Late, Early
  <1>5. CASE Tick
    BY <1>0, <1>5 DEF Tick, TypeOK, Progress, Late, Early
  <1>6. CASE Crashes
    <2>1. Progress
      BY <1>6 DEF Crashes, Progress, Late, Early
    <2>. QED
      BY <1>0, <1>6, <2>1 DEF Crashes, TypeOK, NoCache
  <1>. QED
    BY <1>1, <1>2, <1>3, <1>4, <1>5, <1>6 DEF AnyKind

\* Delivered in the next state, for a token of either state.
DeliveredNext(t) ==
    \/ t[2] < call'[t[1]].attempt
    \/ t[2] = call'[t[1]].attempt /\ call'[t[1]].pc \in {"fetch", "body", "done"}

LEMMA DeliveredStays ==
    ASSUME TypeOK, TypeOK', Progress, NEW t \in Token, Delivered(t)
    PROVE  Delivered(t)' /\ DeliveredNext(t)
  <1>1. t[1] \in Calls /\ t[2] \in Int
    BY ClientAssumption DEF Token, Attempts
  <1>2. call[t[1]].attempt \in Int /\ call'[t[1]].attempt \in Int
    BY <1>1, ClientAssumption DEF TypeOK, CallState, Attempts
  <1>. QED
    BY <1>1, <1>2 DEF Progress, Late, Delivered, DeliveredNext

\* The token of a call's current attempt, before it is handed over.
LEMMA OwnUndelivered ==
    ASSUME TypeOK, NEW c \in Calls, ~Late(c)
    PROVE  Own(c) \in Token /\ ~Delivered(Own(c)) /\ Own(c) # NoToken
  <1>1. call[c].attempt \in Attempts /\ call[c].attempt \in Int
    BY ClientAssumption DEF TypeOK, CallState, Attempts
  <1>2. Own(c) \in Token /\ Own(c)[1] = c /\ Own(c)[2] = call[c].attempt
    BY <1>1 DEF Own, Token
  <1>. QED
    BY <1>1, <1>2, ClientAssumption DEF Delivered, Late

-----------------------------------------------------------------------------
(* Time: what is cached, and what an attempt uses, lives long enough. *)

\* A token that has an expiry keeps it.
LEMMA ExpiryStays ==
    ASSUME ClientInv, AnyKind, NEW t \in Token, expiry[t] # 0
    PROVE  expiry'[t] = expiry[t]
  <1>1. expiry \in [Token -> Nat]
    BY DEF ClientInv, TypeOK
  <1>2. ASSUME NEW c \in Calls, Mint(c)  PROVE expiry'[t] = expiry[t]
    BY <1>1, <1>2 DEF Mint
  <1>3. CASE UNCHANGED expiry
    BY <1>3
  <1>. QED
    BY <1>2, <1>3 DEF AnyKind, Kind, Begins, LogsIn, SendsCached, SendsOwn, LogsInLate, Retries,
       Receives, Ends, Quiet, CachesOwn, Revoke, Handled, Tick, Crashes

LEMMA CacheTime ==
    ASSUME ClientInv, AnyKind, cached'.token # NoToken
    PROVE  cached'.expiresAt = expiry'[cached'.token] \/ cached'.expiresAt <= now' + RefreshBuffer
  <1>0. TypeOK /\ now \in Nat /\ now' \in Nat /\ now <= now' /\ RefreshBuffer \in Nat
    <2>1. TypeOK /\ TypeOK'
      BY TypeStep DEF ClientInv
    <2>2. now' = now \/ now' = now + 1
      BY DEF AnyKind, Kind, Begins, LogsIn, SendsCached, SendsOwn, LogsInLate, Retries, Mint,
             Receives, Ends, Quiet, CachesOwn, Revoke, Handled, Tick, Crashes
    <2>. QED
      BY <2>1, <2>2, ClientAssumption DEF TypeOK
  <1>1. CASE UNCHANGED cached
    <2>1. CASE cached.expiresAt <= now + RefreshBuffer
      <3>1. cached.expiresAt \in Nat
        BY <1>0 DEF TypeOK
      <3>. QED
        BY <1>0, <1>1, <2>1, <3>1
    <2>2. CASE cached.expiresAt = expiry[cached.token] /\ cached.expiresAt # 0
      BY <1>0, <1>1, <2>2, ExpiryStays DEF TypeOK
    <2>3. CASE cached.expiresAt = 0
      <3>1. 0 <= now' + RefreshBuffer
        <4>1. ASSUME NEW x \in Nat, NEW y \in Nat  PROVE 0 <= x + y
          OBVIOUS
        <4>. QED
          BY <1>0, <4>1
      <3>2. cached'.expiresAt = 0
        BY <1>1, <2>3
      <3>. QED
        BY <3>1, <3>2
    <2>. QED
      BY <1>1, <2>1, <2>2, <2>3 DEF ClientInv, TimeInv
  <1>2. ASSUME NEW c \in Calls, CachesOwn(c)
        PROVE  cached'.expiresAt = expiry'[cached'.token] \/ cached'.expiresAt <= now' + RefreshBuffer
    BY <1>0, <1>2, ClientAssumption DEF CachesOwn
  <1>3. CASE cached' = NoCache
    BY <1>3 DEF NoCache
  <1>. QED
    BY <1>1, <1>2, <1>3 DEF AnyKind, Kind, Begins, LogsIn, SendsCached, SendsOwn, LogsInLate, Retries,
       Mint, Receives, Ends, Quiet, Revoke, Handled, Tick, Crashes

\* The clock does not go back.
LEMMA ClockStep ==
    ASSUME ClientInv, AnyKind
    PROVE  now' = now \/ Tick
  BY DEF AnyKind, Kind, Begins, LogsIn, SendsCached, SendsOwn, LogsInLate, Retries, Mint,
         Receives, Ends, Quiet, CachesOwn, Revoke, Handled, Tick, Crashes

LEMMA MintedStep ==
    ASSUME ClientInv, AnyKind, NEW t \in Token
    PROVE  Minted(t)'
  <1>0. TypeOK /\ TypeOK' /\ Progress /\ Minted(t)
    BY TypeStep DEF ClientInv, TimeInv
  <1>1. t[1] \in Calls /\ t[2] \in Int
    BY ClientAssumption DEF Token, Attempts
  <1>2. call[t[1]].attempt \in Int /\ call'[t[1]].attempt \in Int
    BY <1>0, <1>1, ClientAssumption DEF TypeOK, CallState, Attempts
  <1>3. CASE expiry[t] # 0
    BY <1>0, <1>1, <1>2, <1>3 DEF Minted, Progress, Early
  <1>4. CASE expiry[t] = 0 /\ expiry'[t] # 0
    <2>1. PICK c \in Calls : Mint(c)
      BY <1>4 DEF AnyKind, Kind, Begins, LogsIn, SendsCached, SendsOwn, LogsInLate, Retries,
         Receives, Ends, Quiet, CachesOwn, Revoke, Handled, Tick, Crashes
    <2>2. t = Own(c)
      BY <1>0, <1>4, <2>1 DEF Mint, TypeOK
    <2>3. t[1] = c /\ t[2] = call[c].attempt
      BY <2>2 DEF Own
    <2>. QED
      BY <2>1, <2>3 DEF Mint, Minted
  <1>5. CASE expiry'[t] = 0
    BY <1>5 DEF Minted
  <1>. QED
    BY <1>3, <1>4, <1>5

LEMMA AgesStep ==
    ASSUME ClientInv, AnyKind, NEW c \in Calls
    PROVE  Ages(c)'
  <1>0. TypeOK /\ TypeOK' /\ Ages(c)
    BY TypeStep DEF ClientInv, TimeInv
  <1>1. /\ call[c] \in CallState /\ call'[c] \in CallState /\ now \in Nat /\ now' \in Nat
        /\ Own(c) \in Token /\ expiry \in [Token -> Nat] /\ expiry' \in [Token -> Nat]
    BY <1>0 DEF TypeOK, CallState, Own, Token
  <1>2. call[c].started \in Nat /\ call'[c].started \in Nat
    BY <1>1 DEF CallState
  <1>3. ASSUME call'[c].pc = call[c].pc, call'[c].attempt = call[c].attempt,
               call'[c].token = call[c].token, call'[c].started = call[c].started, ~Tick, ~Mint(c)
        PROVE  Ages(c)'
    <2>1. now' = now
      BY <1>3, ClockStep
    <2>2. Own(c)' = Own(c)
      BY <1>3 DEF Own
    <2>3. call[c].pc = "login" => expiry'[Own(c)] = expiry[Own(c)]
      <3>1. CASE expiry[Own(c)] # 0
        BY <1>1, <3>1, ExpiryStays
      <3>2. CASE \E d \in Calls : Mint(d)
        <4>1. PICK d \in Calls : Mint(d)
          BY <3>2
        <4>2. Own(d) # Own(c)
          BY <1>3, <4>1 DEF Own
        <4>. QED
          BY <1>1, <4>1, <4>2 DEF Mint
      <3>3. CASE UNCHANGED expiry
        BY <3>3
      <3>. QED
        BY <3>2, <3>3 DEF AnyKind, Kind, Begins, LogsIn, SendsCached, SendsOwn, LogsInLate, Retries,
           Receives, Ends, Quiet, CachesOwn, Revoke, Handled, Tick, Crashes
    <2>4. CASE call[c].pc = "fetch"
      <3>1. call[c].token \in Token /\ expiry[call[c].token] > call[c].started + RequestTimeout
        BY <1>0, <2>4 DEF Ages
      <3>2. expiry[call[c].token] # 0
        BY <1>1, <1>2, <3>1, ClientAssumption
      <3>3. expiry'[call[c].token] = expiry[call[c].token]
        BY <3>1, <3>2, ExpiryStays
      <3>. QED
        BY <1>0, <1>3, <2>1, <2>4, <3>1, <3>3 DEF Ages
    <2>5. CASE call[c].pc # "fetch"
      BY <1>0, <1>3, <2>1, <2>2, <2>3, <2>5 DEF Ages
    <2>. QED
      BY <2>4, <2>5
  <1>4. CASE Mint(c)
    <2>1. Own(c)' = Own(c) /\ expiry'[Own(c)] = now + TokenTTL
      BY <1>1, <1>4 DEF Mint, Own
    <2>. QED
      BY <1>0, <1>1, <1>2, <1>4, <2>1, ClientAssumption DEF Mint, Ages
  <1>5. CASE Tick
    <2>1. Own(c)' = Own(c)
      BY <1>5 DEF Tick, Own
    <2>. QED
      BY <1>0, <1>1, <1>2, <1>5, <2>1, ClientAssumption DEF Tick, Ages
  <1>6. ASSUME Kind(c)  PROVE Ages(c)'
    <2>1. now' = now /\ expiry' = expiry
      BY <1>6 DEF Kind, Begins, LogsIn, SendsCached, SendsOwn, LogsInLate, Retries,
         Receives, Ends, Quiet, CachesOwn
    <2>2. CASE LogsIn(c)
      <3>1. call'[c].started = now /\ call'[c].pc = "login" /\ Own(c)' = Own(c)
        BY <2>2 DEF LogsIn, Own
      <3>2. expiry[Own(c)] = 0
        <4>1. call[c].attempt \in Int /\ Own(c)[1] = c /\ Own(c)[2] = call[c].attempt
          BY <1>1, ClientAssumption DEF Own, CallState, Attempts
        <4>2. Minted(Own(c))
          BY <1>1 DEF ClientInv, TimeInv
        <4>. QED
          BY <2>2, <4>1, <4>2 DEF LogsIn, Minted
      <3>. QED
        BY <1>1, <2>1, <3>1, <3>2 DEF Ages
    <2>3. CASE SendsCached(c)
      <3>1. /\ call'[c].started = now /\ call'[c].pc = "fetch" /\ call'[c].token = cached.token
            /\ cached.token \in Token /\ cached.expiresAt - RefreshBuffer > now
            /\ cached.expiresAt \in Nat
        BY <1>0, <2>3 DEF SendsCached, Sends, Usable, TypeOK
      <3>2. cached.expiresAt = expiry[cached.token]
        BY <1>1, <3>1, ClientAssumption DEF ClientInv, TimeInv
      <3>. QED
        BY <1>1, <2>1, <3>1, <3>2, ClientAssumption DEF Ages
    <2>4. CASE SendsOwn(c)
      <3>1. /\ call'[c].started = call[c].started /\ call'[c].pc = "fetch" /\ call'[c].token = Own(c)
            /\ call[c].started <= now /\ now < call[c].started + RequestTimeout
            /\ expiry[Own(c)] >= call[c].started + TokenTTL
        BY <1>0, <2>4 DEF SendsOwn, Sends, CachesOwn, Ages
      <3>2. RequestTimeout \in Nat /\ TokenTTL \in Nat /\ RequestTimeout < TokenTTL
        BY ClientAssumption
      <3>3. expiry[Own(c)] \in Nat
        BY <1>1
      <3>4. expiry[Own(c)] > call[c].started + RequestTimeout /\ now <= call[c].started + RequestTimeout
        BY <1>1, <1>2, <3>1, <3>2, <3>3
      <3>. QED
        BY <1>1, <1>2, <2>1, <3>1, <3>2, <3>4 DEF Ages
    <2>5. CASE call'[c].pc \notin {"login", "fetch"}
      BY <2>5 DEF Ages
    <2>. QED
      BY <1>6, <2>2, <2>3, <2>4, <2>5 DEF Kind, Begins, LogsInLate, Retries, Receives, Ends, Again
  <1>7. CASE Crashes
    <2>1. CASE call'[c].pc \notin {"login", "fetch"}
      BY <2>1 DEF Ages
    <2>. QED
      BY <1>7, <2>1 DEF Crashes
  <1>8. CASE ~Kind(c) /\ ~Mint(c) /\ ~Tick /\ ~Crashes
    <2>1. /\ call'[c].pc = call[c].pc /\ call'[c].attempt = call[c].attempt
          /\ call'[c].token = call[c].token /\ call'[c].started = call[c].started
      <3>1. ASSUME NEW d \in Calls, d # c, Kind(d)  PROVE call'[c] = call[c]
        BY <3>1 DEF Kind, Begins, LogsIn, SendsCached, SendsOwn, LogsInLate, Retries, Receives, Ends,
                    Sends, Again, Changes
      <3>. QED
        BY <1>8, <3>1 DEF AnyKind, Mint, Revoke, Handled
    <2>. QED
      BY <1>3, <1>8, <2>1
  <1>. QED
    BY <1>4, <1>5, <1>6, <1>7, <1>8


-----------------------------------------------------------------------------
(* Requests and effects. *)

LEMMA WireStep ==
    ASSUME ClientInv, AnyKind
    PROVE  \/ wire' \subseteq wire
           \/ \E c \in Calls, t \in Token, s \in Nat :
                 Sends(c, t, s) /\ ~Late(c) /\ UNCHANGED performed
  <1>0. TypeOK
    BY DEF ClientInv
  <1>1. ASSUME NEW c \in Calls, SendsCached(c)
        PROVE  \E t \in Token, s \in Nat : Sends(c, t, s) /\ ~Late(c) /\ UNCHANGED performed
    <2>1. cached.token \in Token /\ now \in Nat
      BY <1>0, <1>1 DEF SendsCached, Usable, TypeOK
    <2>. QED
      BY <1>1, <2>1 DEF SendsCached, Late
  <1>2. ASSUME NEW c \in Calls, SendsOwn(c)
        PROVE  \E t \in Token, s \in Nat : Sends(c, t, s) /\ ~Late(c) /\ UNCHANGED performed
    <2>1. Own(c) \in Token /\ call[c].started \in Nat
      BY <1>0 DEF TypeOK, CallState, Own, Token
    <2>. QED
      BY <1>2, <2>1 DEF SendsOwn, CachesOwn, Late
  <1>3. CASE wire' \subseteq wire
    BY <1>3
  <1>. QED
    BY <1>1, <1>2, <1>3 DEF AnyKind, Kind, Begins, LogsIn, LogsInLate, Retries, Mint,
       Receives, Ends, Quiet, Revoke, Handled, Tick, Crashes

\* Effects come from requests that are under way.
LEMMA PerformStep ==
    ASSUME ClientInv, AnyKind
    PROVE  \/ UNCHANGED performed
           \/ \E m \in wire : /\ wire' = wire \ {m}
                              /\ performed' = [performed EXCEPT ![m.call] = @ \union {m.attempt}]
  BY DEF AnyKind, Kind, Begins, LogsIn, SendsCached, SendsOwn, LogsInLate, Retries, Mint,
         Receives, Ends, Quiet, CachesOwn, Revoke, Handled, Tick, Crashes

LEMMA OutstandingStep ==
    ASSUME ClientInv, AnyKind, NEW m \in wire'
    PROVE  Outstanding(m)'
  <1>0. TypeOK /\ TypeOK' /\ Progress
    BY TypeStep DEF ClientInv
  <1>1. \A n \in wire : /\ Outstanding(n) /\ n.call \in Calls /\ n.attempt \in Attempts
                        /\ <<n.call, n.attempt>> \in Token
    BY <1>0 DEF ClientInv, SentInv, TypeOK, Token
  <1>a. ASSUME NEW n \in wire
        PROVE  \/ n.attempt < call[n.call].attempt
               \/ n.attempt = call[n.call].attempt /\ Late(n.call)
    BY <1>1 DEF Outstanding, Delivered, Late
  <1>2. CASE m \in wire /\ wire' \subseteq wire
    <2>1. Delivered(<<m.call, m.attempt>>)'
      BY <1>0, <1>1, <1>2, DeliveredStays DEF Outstanding
    <2>2. m.attempt \notin performed'[m.call]
      <3>1. CASE UNCHANGED performed
        BY <1>1, <1>2, <3>1 DEF Outstanding
      <3>2. ASSUME NEW k \in wire, wire' = wire \ {k},
                   performed' = [performed EXCEPT ![k.call] = @ \union {k.attempt}]
            PROVE  m.attempt \notin performed'[m.call]
        <4>1. m # k
          BY <3>2
        <4>2. ~(k.call = m.call /\ k.attempt = m.attempt)
          BY <1>1, <1>2, <4>1 DEF Outstanding
        <4>. QED
          BY <1>0, <1>1, <1>2, <3>2, <4>2 DEF Outstanding, TypeOK
      <3>. QED
        BY <3>1, <3>2, PerformStep
    <2>3. ASSUME m.attempt = call'[m.call].attempt, call'[m.call].pc = "fetch"
          PROVE  m.token = call'[m.call].token
      <3>1. call[m.call].attempt = m.attempt /\ Late(m.call)
        <4>1. m.attempt \in Int /\ call[m.call].attempt \in Int /\ call'[m.call].attempt \in Int
          BY <1>0, <1>1, <1>2, ClientAssumption DEF TypeOK, CallState, Attempts
        <4>. QED
          <5>1. call'[m.call].attempt >= call[m.call].attempt
            <6>1. \/ call'[m.call].attempt > call[m.call].attempt
                  \/ call'[m.call].attempt = call[m.call].attempt
              BY <1>0, <1>1, <1>2 DEF Progress
            <6>. QED
              BY <4>1, <6>1
          <5>2. m.attempt >= call[m.call].attempt
            BY <2>3, <5>1
          <5>3. \/ m.attempt < call[m.call].attempt
                \/ m.attempt = call[m.call].attempt /\ Late(m.call)
            BY <1>2, <1>a
          <5>4. ~(m.attempt < call[m.call].attempt)
            BY <4>1, <5>2
          <5>. QED
            BY <5>3, <5>4
      <3>2. call'[m.call].token = call[m.call].token /\ call[m.call].pc = "fetch"
        BY <1>0, <1>1, <1>2, <2>3, <3>1
        DEF AnyKind, Kind, Begins, LogsIn, SendsCached, SendsOwn, LogsInLate, Retries, Mint, Late,
            Receives, Ends, Quiet, CachesOwn, Revoke, Handled, Tick, Crashes, Sends, Again, Changes
      <3>. QED
        BY <1>1, <1>2, <3>1, <3>2 DEF Outstanding
    <2>4. \A n \in wire' : n.call = m.call /\ n.attempt = m.attempt => n = m
      BY <1>1, <1>2 DEF Outstanding
    <2>. QED
      BY <2>1, <2>2, <2>3, <2>4 DEF Outstanding
  <1>3. ASSUME NEW c \in Calls, NEW t \in Token, NEW s \in Nat, Sends(c, t, s), ~Late(c),
               UNCHANGED performed
        PROVE  Outstanding(m)'
    <2>. DEFINE new == [call |-> c, attempt |-> call[c].attempt, token |-> t]
    <2>0. wire' = wire \union {new} /\ call'[c].attempt = call[c].attempt
      BY <1>3 DEF Sends
    <2>1. \A n \in wire : ~(n.call = c /\ n.attempt = call[c].attempt)
      <3>1. call[c].attempt \in Int
        BY <1>0, ClientAssumption DEF TypeOK, CallState, Attempts
      <3>. QED
        BY <1>a, <1>3, <3>1
    <2>2. CASE m = new
      <3>1. Delivered(<<c, call[c].attempt>>)'
        BY <1>3, <2>0 DEF Delivered, Sends
      <3>2. call[c].attempt \notin performed[c]
        <4>1. ~Delivered(<<c, call[c].attempt>>)
          BY <1>0, <1>3, OwnUndelivered DEF Own
        <4>. QED
          BY <4>1 DEF ClientInv, SentInv, Effects
      <3>. QED
        BY <1>3, <2>0, <2>1, <2>2, <3>1, <3>2 DEF Outstanding, Sends
    <2>3. CASE m \in wire
      <3>1. Delivered(<<m.call, m.attempt>>)'
        BY <1>0, <1>1, <2>3, DeliveredStays DEF Outstanding
      <3>2. ASSUME m.attempt = call'[m.call].attempt, call'[m.call].pc = "fetch"
            PROVE  m.token = call'[m.call].token
        <4>1. m.call # c
          BY <2>0, <2>1, <2>3, <3>2
        <4>2. call'[m.call] = call[m.call]
          BY <1>1, <1>3, <2>3, <4>1 DEF Sends, Changes
        <4>. QED
          BY <1>1, <2>3, <3>2, <4>2 DEF Outstanding
      <3>3. \A n \in wire' : n.call = m.call /\ n.attempt = m.attempt => n = m
        <4>1. \A n \in wire : n.call = m.call /\ n.attempt = m.attempt => n = m
          BY <1>1, <2>3 DEF Outstanding
        <4>2. ~(new.call = m.call /\ new.attempt = m.attempt)
          BY <2>1, <2>3
        <4>. QED
          BY <2>0, <4>1, <4>2
      <3>. QED
        BY <1>1, <1>3, <2>3, <3>1, <3>2, <3>3 DEF Outstanding
    <2>. QED
      BY <2>0, <2>2, <2>3
  <1>. QED
    BY <1>2, <1>3, WireStep

LEMMA EffectsStep ==
    ASSUME ClientInv, AnyKind, NEW c \in Calls
    PROVE  Effects(c)'
  <1>0. /\ TypeOK /\ TypeOK' /\ Progress /\ Effects(c) /\ Ages(c)
        /\ call[c] \in CallState /\ call'[c] \in CallState
    BY TypeStep DEF ClientInv, SentInv, TimeInv, TypeOK
  <1>1. \A a \in performed'[c] : Delivered(<<c, a>>)'
    <2>1. ASSUME NEW a \in Attempts, Delivered(<<c, a>>)  PROVE Delivered(<<c, a>>)'
      <3>1. <<c, a>> \in Token
        BY DEF Token
      <3>. QED
        BY <1>0, <2>1, <3>1, DeliveredStays
    <2>2. ASSUME NEW a \in performed'[c]  PROVE a \in Attempts /\ Delivered(<<c, a>>)
      <3>0. a \in Attempts
        BY <1>0 DEF TypeOK
      <3>1. CASE a \in performed[c]
        BY <1>0, <3>0, <3>1 DEF Effects
      <3>2. CASE a \notin performed[c]
        <4>1. PICK m \in wire : performed' = [performed EXCEPT ![m.call] = @ \union {m.attempt}]
          BY <3>2, PerformStep
        <4>2. m.call = c /\ m.attempt = a
          BY <1>0, <3>2, <4>1 DEF TypeOK
        <4>. QED
          BY <3>0, <4>2 DEF ClientInv, SentInv, Outstanding
      <3>. QED
        BY <3>1, <3>2
    <2>. QED
      BY <2>1, <2>2
  <1>2. performed[c] # {} => performed'[c] # {}
    <2>1. CASE UNCHANGED performed
      BY <2>1
    <2>2. ASSUME NEW m \in wire, performed' = [performed EXCEPT ![m.call] = @ \union {m.attempt}]
          PROVE  performed[c] # {} => performed'[c] # {}
      BY <1>0, <2>2 DEF TypeOK
    <2>. QED
      BY <2>1, <2>2, PerformStep
  <1>3. revoked \subseteq revoked'
    BY DEF AnyKind, Kind, Begins, LogsIn, SendsCached, SendsOwn, LogsInLate, Retries, Mint,
           Receives, Ends, Quiet, CachesOwn, Revoke, Handled, Tick, Crashes
  <1>4. CASE call'[c] = call[c]
    BY <1>0, <1>1, <1>2, <1>3, <1>4 DEF Effects
  <1>5. ASSUME Kind(c)  PROVE Effects(c)'
    <2>1. call'[c].pc # "idle"
      BY <1>5 DEF Kind, Begins, LogsIn, SendsCached, SendsOwn, LogsInLate, Retries,
         Receives, Ends, Sends, Again
    <2>2. call'[c].status = "ok" => call[c].status = "ok"
      BY <1>5 DEF Kind, Begins, LogsIn, SendsCached, SendsOwn, LogsInLate, Retries,
         Receives, Ends, Sends, Again
    <2>3. call'[c].pc \in {"start", "login"} => call'[c].status = "none"
      BY <1>0, <1>5 DEF Kind, Begins, LogsIn, SendsCached, SendsOwn, LogsInLate, Retries,
         Receives, Ends, Sends, Again, Effects
    <2>4. call'[c].pc = "fetch" => call'[c].status # "denied"
      BY <1>0, <1>5 DEF Kind, Begins, LogsIn, SendsCached, SendsOwn, LogsInLate, Retries,
         Receives, Ends, Sends, Again, Effects, CachesOwn
    <2>. QED
      BY <1>0, <1>1, <1>2, <2>1, <2>2, <2>3, <2>4 DEF Effects
  <1>6. ASSUME NEW m \in wire, Handled(m), call'[c] # call[c]  PROVE Effects(c)'
    <2>1. /\ call'[c].pc = call[c].pc /\ call'[c].attempt = call[c].attempt
          /\ call'[c].token = call[c].token
          /\ revoked' = revoked
      BY <1>6 DEF Handled
    <2>2. CASE call'[c].status = call[c].status
      BY <1>0, <1>1, <1>2, <2>1, <2>2 DEF Effects
    <2>3. CASE call'[c].status # call[c].status
      <3>1. /\ c = m.call /\ m.attempt = call[c].attempt /\ call[c].pc = "fetch"
            /\ call'[c].status = "ok" => performed' = [performed EXCEPT ![c] = @ \union {m.attempt}]
            /\ call'[c].status = "denied" => ~Accepts(m.token)
        BY <1>6, <2>3 DEF Handled
      <3>2. m.token = call[c].token
        BY <3>1 DEF ClientInv, SentInv, Outstanding
      <3>3. now < expiry[call[c].token]
        <4>1. now \in Nat /\ call[c].started \in Nat /\ expiry[call[c].token] \in Nat
          BY <1>0, <3>1 DEF TypeOK, CallState, Ages
        <4>2. /\ now <= call[c].started + RequestTimeout
              /\ expiry[call[c].token] > call[c].started + RequestTimeout
          BY <1>0, <3>1 DEF Ages
        <4>. QED
          BY <4>1, <4>2, ClientAssumption
      <3>4. call'[c].status = "ok" => performed'[c] # {}
        BY <1>0, <3>1 DEF TypeOK
      <3>5. call'[c].status = "denied" => call[c].token \in revoked
        BY <3>1, <3>2, <3>3 DEF Accepts
      <3>. QED
        BY <1>1, <2>1, <3>1, <3>4, <3>5 DEF Effects
    <2>. QED
      BY <2>2, <2>3
  <1>7. ASSUME Crashes, call'[c] # call[c]  PROVE Effects(c)'
    <2>1. call'[c].pc = "done" /\ call'[c].status = "crashed"
      BY <1>7 DEF Crashes
    <2>. QED
      BY <1>1, <2>1 DEF Effects
  <1>8. ASSUME NEW d \in Calls, d # c, Kind(d)  PROVE call'[c] = call[c]
    BY <1>8 DEF Kind, Begins, LogsIn, SendsCached, SendsOwn, LogsInLate, Retries, Receives, Ends,
                Sends, Again, Changes
  <1>. QED
    BY <1>4, <1>5, <1>6, <1>7, <1>8 DEF AnyKind, Mint, Revoke, Tick

-----------------------------------------------------------------------------
(* Denials: a rejected token is not used again. *)

\* What is put into the cache was not delivered before, so no call saw it rejected.
LEMMA CacheStep ==
    ASSUME ClientInv, AnyKind, NEW c \in Calls
    PROVE  /\ cached'.token # NoToken => DeliveredNext(cached'.token)
           /\ cached'.token \in call[c].denied => cached'.token = cached.token
  <1>0. TypeOK /\ TypeOK' /\ Progress /\ call[c].denied \in SUBSET Token
    BY TypeStep DEF ClientInv, TypeOK, CallState
  <1>1. CASE UNCHANGED cached
    <2>1. CASE cached.token = NoToken
      BY <1>1, <2>1
    <2>2. CASE cached.token # NoToken
      <3>1. cached.token \in Token /\ Delivered(cached.token)
        BY <1>0, <2>2 DEF TypeOK, ClientInv, DenialInv
      <3>2. DeliveredNext(cached.token)
        BY <1>0, <3>1, DeliveredStays
      <3>. QED
        BY <1>1, <3>2
    <2>. QED
      BY <2>1, <2>2
  <1>2. ASSUME NEW d \in Calls, CachesOwn(d), SendsOwn(d) \/ LogsInLate(d)
        PROVE  /\ cached'.token # NoToken => DeliveredNext(cached'.token)
               /\ cached'.token \in call[c].denied => cached'.token = cached.token
    <2>0. ~Late(d) /\ cached'.token = Own(d)
      BY <1>2 DEF CachesOwn, Late
    <2>1. Own(d) \notin call[c].denied
      <3>1. ~Delivered(Own(d))
        BY <1>0, <2>0, OwnUndelivered
      <3>. QED
        BY <3>1 DEF ClientInv, DenialInv, Denials
    <2>2. Own(d)[1] = d /\ Own(d)[2] = call[d].attempt /\ call[d].attempt \in Int
      BY <1>0, ClientAssumption DEF Own, TypeOK, CallState, Attempts
    <2>3. \/ call'[d].attempt = call[d].attempt /\ call'[d].pc \in {"fetch", "done"}
          \/ call'[d].attempt = call[d].attempt + 1
      BY <1>2 DEF SendsOwn, LogsInLate, Sends, Again
    <2>4. DeliveredNext(cached'.token)
      <3>1. Own(d)[2] < call'[d].attempt \/ (Own(d)[2] = call'[d].attempt /\ call'[d].pc \in {"fetch", "body", "done"})
        BY <2>2, <2>3
      <3>. QED
        BY <2>0, <2>2, <3>1 DEF DeliveredNext
    <2>. QED
      BY <2>0, <2>1, <2>4
  <1>3. CASE cached' = NoCache
    BY <1>0, <1>3, ClientAssumption DEF NoCache
  <1>. QED
    BY <1>1, <1>2, <1>3 DEF AnyKind, Kind, Begins, LogsIn, SendsCached, SendsOwn, LogsInLate, Retries,
       Mint, Receives, Ends, Quiet, Revoke, Handled, Tick, Crashes

LEMMA DenialsStep ==
    ASSUME ClientInv, AnyKind, NEW c \in Calls
    PROVE  /\ Denials(c)'
           /\ call'[c].denied \subseteq revoked'
           /\ call'[c].pc = "fetch" => call'[c].token \notin call'[c].denied
  <1>0. /\ TypeOK /\ TypeOK' /\ Progress /\ Denials(c) /\ Effects(c)
        /\ call[c] \in CallState /\ call'[c] \in CallState
        /\ call[c].denied \subseteq revoked
        /\ call[c].pc = "fetch" => call[c].token \notin call[c].denied
    BY TypeStep DEF ClientInv, SentInv, DenialInv, TypeOK, OnlyRevokedDenied, NoTokenDeniedTwice
  <1>1. call[c].denied \subseteq Token /\ \A t \in call[c].denied : DeliveredNext(t)
    BY <1>0, DeliveredStays DEF Denials, CallState
  <1>2. revoked \subseteq revoked'
    BY DEF AnyKind, Kind, Begins, LogsIn, SendsCached, SendsOwn, LogsInLate, Retries, Mint,
           Receives, Ends, Quiet, CachesOwn, Revoke, Handled, Tick, Crashes
  <1>3. cached'.token \in call[c].denied => cached'.token = cached.token
    BY CacheStep
  <1>4. call[c].pc = "fetch" => call[c].token \in Token /\ Delivered(call[c].token) /\ DeliveredNext(call[c].token)
    <2>1. call[c].pc = "fetch" => call[c].token \in Token
      BY DEF ClientInv, TimeInv, Ages
    <2>. QED
      BY <1>0, <2>1, DeliveredStays DEF Denials
  <1>5. ASSUME call'[c].pc = call[c].pc, call'[c].force = call[c].force,
               call'[c].token = call[c].token, call'[c].denied = call[c].denied,
               call'[c].attempt = call[c].attempt,
               call'[c].status = call[c].status \/ call[c].pc = "fetch"
        PROVE  /\ Denials(c)'
               /\ call'[c].denied \subseteq revoked'
               /\ call'[c].pc = "fetch" => call'[c].token \notin call'[c].denied
    <2>1. \A t \in call'[c].denied : DeliveredNext(t)
      BY <1>1, <1>5
    <2>2. call'[c].pc = "fetch" => DeliveredNext(call'[c].token)
      BY <1>4, <1>5
    <2>3. call'[c].pc \in {"idle", "start", "login"} /\ cached'.token \in call'[c].denied => call'[c].force
      BY <1>0, <1>3, <1>5 DEF Denials
    <2>4. call'[c].pc = "fetch" \/ (call'[c].pc = "body" /\ call'[c].status # "denied") =>
             cached'.token \notin call'[c].denied
      BY <1>0, <1>3, <1>5 DEF Denials
    <2>5. call'[c].pc = "body" /\ call'[c].status = "denied" => call'[c].attempt = MaxRetries
      BY <1>0, <1>5 DEF Denials
    <2>. QED
      BY <1>0, <1>2, <1>5, <2>1, <2>2, <2>3, <2>4, <2>5 DEF Denials, Delivered, DeliveredNext
  <1>6. ASSUME Kind(c)
        PROVE  /\ Denials(c)'
               /\ call'[c].denied \subseteq revoked'
               /\ call'[c].pc = "fetch" => call'[c].token \notin call'[c].denied
    <2>0. \/ call'[c].denied = call[c].denied
          \/ /\ call[c].pc = "fetch" /\ call[c].status = "denied"
             /\ call'[c].denied = call[c].denied \union {call[c].token}
      BY <1>6 DEF Kind, Begins, LogsIn, SendsCached, SendsOwn, LogsInLate, Retries, Receives, Ends,
                  Sends, Again
    <2>1. (\A t \in call'[c].denied : DeliveredNext(t)) /\ call'[c].denied \subseteq revoked'
      BY <1>0, <1>1, <1>2, <1>4, <2>0 DEF Effects
    <2>2. CASE SendsCached(c) \/ SendsOwn(c)
      <3>1. /\ call'[c].pc = "fetch" /\ call'[c].denied = call[c].denied
            /\ call'[c].token = cached'.token /\ cached'.token # NoToken
        BY <1>0, <2>2, OwnUndelivered DEF SendsCached, SendsOwn, CachesOwn, Sends, Usable, Late
      <3>2. cached'.token \notin call[c].denied
        <4>1. CASE SendsCached(c)
          BY <1>0, <4>1 DEF SendsCached, Denials
        <4>2. CASE SendsOwn(c)
          <5>1. ~Delivered(Own(c)) /\ cached'.token = Own(c)
            BY <1>0, <4>2, OwnUndelivered DEF SendsOwn, CachesOwn, Late
          <5>. QED
            BY <1>0, <5>1 DEF Denials
        <4>. QED
          BY <2>2, <4>1, <4>2
      <3>3. DeliveredNext(call'[c].token)
        BY <3>1, CacheStep
      <3>. QED
        BY <2>1, <3>1, <3>2, <3>3 DEF Denials, Delivered, DeliveredNext
    <2>3. CASE Begins(c) \/ LogsIn(c)
      <3>1. /\ call'[c].pc \in {"start", "login"} /\ call[c].pc \in {"idle", "start"}
            /\ call'[c].denied = call[c].denied /\ call'[c].force = call[c].force /\ cached' = cached
        BY <2>3 DEF Begins, LogsIn, Quiet
      <3>. QED
        BY <1>0, <2>1, <3>1 DEF Denials, Delivered, DeliveredNext
    <2>4. CASE Receives(c) \/ Ends(c)
      <3>1. /\ call'[c].pc \in {"body", "done"} /\ cached' = cached
            /\ call'[c].pc = "body" =>
                  /\ call[c].pc = "fetch" /\ call'[c].status = call[c].status
                  /\ call'[c].attempt = call[c].attempt
                  /\ \/ call'[c].denied = call[c].denied /\ call[c].status # "denied"
                     \/ call[c].status = "denied" /\ call[c].attempt = MaxRetries
        BY <2>4 DEF Receives, Ends, Quiet
      <3>. QED
        BY <1>0, <2>1, <3>1 DEF Denials, Delivered, DeliveredNext
    <2>5. CASE LogsInLate(c) \/ Retries(c)
      <3>1. call'[c].pc \in {"start", "done"}
        BY <2>5 DEF LogsInLate, Retries, Again
      <3>2. ASSUME call'[c].pc = "start", cached'.token \in call'[c].denied, ~call'[c].force
            PROVE  FALSE
        <4>1. /\ call'[c].attempt = call[c].attempt + 1 /\ call[c].attempt # MaxRetries
              /\ \/ LogsInLate(c) /\ call'[c].denied = call[c].denied
                 \/ /\ cached' = cached /\ call[c].pc = "login"
                    /\ call'[c].force = call[c].force /\ call'[c].denied = call[c].denied
                 \/ /\ cached' = cached /\ call[c].pc \in {"fetch", "body"}
                    /\ call'[c].denied = call[c].denied
          <5>1. call'[c].attempt = call[c].attempt + 1
            BY <2>5, <3>2 DEF LogsInLate, Retries, Again
          <5>2. call'[c].attempt <= MaxRetries /\ call[c].attempt \in Int /\ MaxRetries \in Int
            BY <1>0, ClientAssumption DEF CallState, Attempts
          <5>3. call[c].attempt # MaxRetries
            BY <5>1, <5>2
          <5>. QED
            BY <2>5, <3>2, <5>1, <5>3 DEF LogsInLate, Retries, Again, Quiet
        <4>2. CASE LogsInLate(c) /\ call'[c].denied = call[c].denied
          <5>1. ~Delivered(Own(c)) /\ cached'.token = Own(c)
            BY <1>0, <4>2, OwnUndelivered DEF LogsInLate, CachesOwn, Late
          <5>. QED
            BY <1>0, <3>2, <4>2, <5>1 DEF Denials
        <4>. QED
          BY <1>0, <3>2, <4>1, <4>2 DEF Denials
      <3>. QED
        BY <2>1, <3>1, <3>2 DEF Denials, Delivered, DeliveredNext
    <2>. QED
      BY <1>6, <2>2, <2>3, <2>4, <2>5 DEF Kind
  <1>7. ASSUME Crashes, call'[c] # call[c]
        PROVE  /\ Denials(c)'
               /\ call'[c].denied \subseteq revoked'
               /\ call'[c].pc = "fetch" => call'[c].token \notin call'[c].denied
    <2>1. call'[c].pc = "done" /\ call'[c].denied = call[c].denied
      BY <1>7 DEF Crashes
    <2>. QED
      BY <1>0, <1>1, <1>2, <2>1 DEF Denials, Delivered, DeliveredNext
  <1>8. ASSUME NEW m \in wire, Handled(m)
        PROVE  /\ Denials(c)'
               /\ call'[c].denied \subseteq revoked'
               /\ call'[c].pc = "fetch" => call'[c].token \notin call'[c].denied
    BY <1>5, <1>8 DEF Handled
  <1>9. ASSUME NEW d \in Calls, d # c, Kind(d)  PROVE call'[c] = call[c]
    BY <1>9 DEF Kind, Begins, LogsIn, SendsCached, SendsOwn, LogsInLate, Retries, Receives, Ends,
                Sends, Again, Changes
  <1>. QED
    BY <1>5, <1>6, <1>7, <1>8, <1>9 DEF AnyKind, Mint, Revoke, Tick

-----------------------------------------------------------------------------
(* The invariant. *)

LEMMA ClientInvStep ==
    ASSUME ClientInv, Next
    PROVE  ClientInv'
  <1>1. AnyKind
    BY StepKinds DEF AnyKind, Kind
  <1>2. TypeOK'
    BY <1>1, TypeStep
  <1>3. TimeInv'
    BY <1>1, CacheTime, MintedStep, AgesStep DEF TimeInv
  <1>4. SentInv'
    BY <1>1, OutstandingStep, EffectsStep DEF SentInv
  <1>5. DenialInv'
    <2>1. ASSUME cached'.token # NoToken  PROVE Delivered(cached.token)'
      <3>1. CASE Calls # {}
        BY <1>1, <2>1, <3>1, CacheStep DEF Delivered, DeliveredNext
      <3>2. CASE Calls = {}
        BY <1>2, <2>1, <3>2 DEF TypeOK, Token
      <3>. QED
        BY <3>1, <3>2
    <2>. QED
      BY <1>1, <2>1, DenialsStep DEF DenialInv
  <1>6. OnlyRevokedDenied' /\ NoTokenDeniedTwice'
    BY <1>1, DenialsStep DEF OnlyRevokedDenied, NoTokenDeniedTwice
  <1>. QED
    BY <1>2, <1>3, <1>4, <1>5, <1>6 DEF ClientInv

(* In every state: a 401 is for a revoked token and never for one that ran    *)
(* out on the way, a call does not send a token again that it saw rejected,   *)
(* and no effect or answer belongs to an attempt that has not been sent       *)
(* (callPunchProcessor and getServiceToken of punchProcessorClient.ts).       *)
THEOREM ClientInvariant == Spec => []ClientInv
  <1>1. Init => ClientInv
    <2>1. 0 \in Attempts /\ 0 \in Nat
      BY ClientAssumption DEF Attempts
    <2>2. Init => TypeOK
      BY <2>1 DEF Init, TypeOK, NoCache, Fresh, CallState
    <2>3. Init => TimeInv
      BY DEF Init, TimeInv, NoCache, Fresh, Ages, Minted
    <2>4. Init => SentInv
      BY DEF Init, SentInv, Fresh, Effects
    <2>5. Init => DenialInv /\ OnlyRevokedDenied /\ NoTokenDeniedTwice
      BY DEF Init, DenialInv, NoCache, Fresh, Denials, OnlyRevokedDenied, NoTokenDeniedTwice
    <2>. QED
      BY <2>2, <2>3, <2>4, <2>5 DEF ClientInv
  <1>2. ClientInv /\ [Next]_vars => ClientInv'
    <2>1. ASSUME ClientInv, UNCHANGED vars  PROVE ClientInv'
      BY <2>1 DEF ClientInv, TypeOK, TimeInv, Ages, Minted, SentInv, Outstanding, Effects,
                  DenialInv, Denials, Delivered, OnlyRevokedDenied, NoTokenDeniedTwice, Own, vars
    <2>. QED
      BY <2>1, ClientInvStep
  <1>. QED
    BY <1>1, <1>2, PTL DEF Spec

-----------------------------------------------------------------------------
(* The promise. *)

LEMMA CallerStateIs ==
    ASSUME NEW k \in CallState
    PROVE  /\ k.pc = "idle" <=> CallerState(k) = "idle"
           /\ k.pc \in {"start", "login", "fetch", "body"} <=> CallerState(k) = "pending"
           /\ k.pc = "done" /\ k.status = "ok" => CallerState(k) = "ok"
           /\ k.pc = "done" /\ k.status # "ok" => CallerState(k) = "failed"
  BY DEF CallState, CallerState

\* What the callers see.
States == [c \in Calls |-> CallerState(call[c])]

LEMMA PromiseStep ==
    ASSUME ClientInv, ClientInv', Next
    PROVE  Promise!Next \/ UNCHANGED Promise!vars
  <1>0. /\ TypeOK /\ TypeOK' /\ \A c \in Calls : Effects(c)
        /\ \A c \in Calls : call[c] \in CallState /\ call'[c] \in CallState
    BY DEF ClientInv, SentInv, TypeOK
  <1>1. AnyKind
    BY StepKinds DEF AnyKind, Kind
  <1>2. ASSUME NEW c \in Calls, Kind(c)  PROVE Promise!Next \/ UNCHANGED Promise!vars
    <2>1. States' = [States EXCEPT ![c] = CallerState(call'[c])]
      <3>1. \A d \in Calls : d # c => call'[d] = call[d]
        BY <1>2 DEF Kind, Begins, LogsIn, SendsCached, SendsOwn, LogsInLate, Retries, Receives, Ends,
                    Sends, Again, Changes
      <3>. QED
        BY <3>1 DEF States
    <2>2. UNCHANGED performed
      BY <1>2 DEF Kind, Begins, LogsIn, SendsCached, SendsOwn, LogsInLate, Retries, Receives, Ends,
                  Quiet, CachesOwn
    <2>3. \/ call[c].pc = "idle" /\ call'[c].pc = "start"
          \/ /\ call[c].pc \in {"start", "login", "fetch", "body"}
             /\ \/ call'[c].pc \in {"start", "login", "fetch", "body"}
                \/ call'[c].pc = "done" /\ (call'[c].status = "ok" => call[c].status = "ok")
      BY <1>2 DEF Kind, Begins, LogsIn, SendsCached, SendsOwn, LogsInLate, Retries, Receives, Ends,
                  Sends, Again, CachesOwn
    <2>4. CASE call[c].pc = "idle" /\ call'[c].pc = "start"
      <3>1. States[c] = "idle" /\ CallerState(call'[c]) = "pending"
        BY <1>0, <2>4, CallerStateIs DEF States
      <3>2. Promise!Submit(c)
        BY <2>1, <2>2, <3>1 DEF Promise!Submit, States
      <3>. QED
        BY <3>2 DEF Promise!Next
    <2>5. CASE /\ call[c].pc \in {"start", "login", "fetch", "body"}
               /\ call'[c].pc \in {"start", "login", "fetch", "body"}
      <3>1. States[c] = "pending" /\ CallerState(call'[c]) = "pending"
        BY <1>0, <2>5, CallerStateIs DEF States
      <3>2. States' = States
        BY <2>1, <3>1 DEF States
      <3>. QED
        BY <2>2, <3>2 DEF Promise!vars, States
    <2>6. CASE /\ call[c].pc \in {"start", "login", "fetch", "body"} /\ call'[c].pc = "done"
               /\ (call'[c].status = "ok" => call[c].status = "ok")
      <3>1. States[c] = "pending"
        BY <1>0, <2>6, CallerStateIs DEF States
      <3>2. CASE call'[c].status = "ok"
        <4>1. CallerState(call'[c]) = "ok" /\ performed[c] # {}
          BY <1>0, <2>6, <3>2, CallerStateIs DEF Effects
        <4>2. Promise!Succeed(c)
          BY <2>1, <2>2, <3>1, <4>1 DEF Promise!Succeed, States
        <4>. QED
          BY <4>2 DEF Promise!Next
      <3>3. CASE call'[c].status # "ok"
        <4>1. CallerState(call'[c]) = "failed"
          BY <1>0, <2>6, <3>3, CallerStateIs
        <4>2. Promise!Fail(c)
          BY <2>1, <2>2, <3>1, <4>1 DEF Promise!Fail, States
        <4>. QED
          BY <4>2 DEF Promise!Next
      <3>. QED
        BY <3>2, <3>3
    <2>. QED
      BY <2>3, <2>4, <2>5, <2>6
  <1>3. ASSUME UNCHANGED <<call, performed>>  PROVE Promise!Next \/ UNCHANGED Promise!vars
    BY <1>3 DEF Promise!vars
  <1>4. ASSUME NEW m \in wire, Handled(m)  PROVE Promise!Next \/ UNCHANGED Promise!vars
    <2>1. States' = States
      <3>1. ASSUME NEW c \in Calls  PROVE CallerState(call'[c]) = CallerState(call[c])
        <4>1. call'[c].pc = call[c].pc /\ (call'[c].status = call[c].status \/ call[c].pc = "fetch")
          BY <1>4 DEF Handled
        <4>. QED
          BY <1>0, <4>1 DEF CallerState
      <3>. QED
        BY <3>1 DEF States
    <2>2. CASE UNCHANGED performed
      BY <2>1, <2>2 DEF Promise!vars, States
    <2>3. CASE performed' = [performed EXCEPT ![m.call] = @ \union {m.attempt}]
      <3>1. /\ m.call \in Calls /\ m.attempt \in Attempts \ performed[m.call]
            /\ \/ m.attempt < call[m.call].attempt
               \/ call[m.call].pc \in {"fetch", "body", "done"}
        BY <1>0 DEF TypeOK, ClientInv, SentInv, Outstanding, Delivered
      <3>2. call[m.call].pc # "idle"
        <4>1. SUFFICES ASSUME call[m.call].pc = "idle"  PROVE FALSE
          OBVIOUS
        <4>2. call[m.call].attempt = 0 /\ m.attempt < call[m.call].attempt /\ m.attempt \in 0..MaxRetries
          BY <1>0, <3>1, <4>1 DEF Effects, Attempts
        <4>. QED
          BY <4>2, ClientAssumption
      <3>3. States[m.call] # "idle"
        BY <1>0, <3>1, <3>2, CallerStateIs DEF States
      <3>4. m.attempt \in Promise!Attempts \ performed[m.call]
        BY <3>1 DEF Attempts, Promise!Attempts
      <3>5. Promise!Perform(m.call)
        BY <2>1, <2>3, <3>3, <3>4 DEF Promise!Perform, States
      <3>. QED
        BY <3>1, <3>5 DEF Promise!Next
    <2>. QED
      BY <1>4, <2>2, <2>3 DEF Handled
  <1>5. CASE Crashes
    <2>1. ASSUME NEW c \in Calls
          PROVE  CallerState(call'[c]) = IF CallerState(call[c]) = "pending" THEN "failed"
                                         ELSE CallerState(call[c])
      <3>1. CASE call'[c] = call[c] /\ call[c].pc \in {"idle", "done"}
        <4>1. CallerState(call[c]) # "pending"
          BY <1>0, <3>1 DEF CallerState
        <4>. QED
          BY <3>1, <4>1
      <3>2. CASE call'[c].pc = "done" /\ call'[c].status = "crashed" /\ call[c].pc \notin {"idle", "done"}
        <4>1. CallerState(call'[c]) = "failed" /\ CallerState(call[c]) = "pending"
          BY <1>0, <3>2 DEF CallerState
        <4>. QED
          BY <4>1
      <3>. QED
        BY <1>5, <3>1, <3>2 DEF Crashes
    <2>2. States' = [c \in Calls |-> IF States[c] = "pending" THEN "failed" ELSE States[c]]
      BY <2>1 DEF States
    <2>3. Promise!Crash
      BY <1>5, <2>2 DEF Promise!Crash, Crashes, States
    <2>. QED
      BY <2>3 DEF Promise!Next
  <1>. QED
    BY <1>1, <1>2, <1>3, <1>4, <1>5 DEF AnyKind, Mint, Revoke, Tick

(* The client with its retries, timers and token cache implements the promise *)
(* of ProcessorPromise: an effect per attempt at the most, no success without *)
(* an effect, one answer per call (callPunchProcessor).                       *)
THEOREM PromiseKept == Spec => PromiseSpec
  <1>1. Init => Promise!Init
    BY DEF Init, Promise!Init, Fresh, CallerState
  <1>2. ClientInv /\ ClientInv' /\ [Next]_vars => [Promise!Next]_(Promise!vars)
    <2>1. UNCHANGED vars => UNCHANGED Promise!vars
      BY DEF vars, Promise!vars
    <2>. QED
      BY <2>1, PromiseStep
  <1>. QED
    BY <1>1, <1>2, ClientInvariant, PTL DEF Spec, PromiseSpec, Promise!Spec

(* A 401 is never for a token that ran out while the request was on its way   *)
(* (TOKEN_REFRESH_BUFFER_MS against REQUEST_TIMEOUT_MS in getServiceToken).   *)
THEOREM DeniedTokensAreRevoked == Spec => []OnlyRevokedDenied
  <1>1. ClientInv => OnlyRevokedDenied
    BY DEF ClientInv
  <1>. QED
    BY <1>1, ClientInvariant, PTL

(* Whatever other calls put into the cache and whatever logins fail, no call  *)
(* sends a token again that it saw rejected (forceTokenRefresh).              *)
THEOREM DeniedTokensStayUnused == Spec => []NoTokenDeniedTwice
  <1>1. ClientInv => NoTokenDeniedTwice
    BY DEF ClientInv
  <1>. QED
    BY <1>1, ClientInvariant, PTL

-----------------------------------------------------------------------------
(* The loop runs down. *)

\* The steps left of an attempt.
Stage(pc) ==
    CASE pc = "start" -> 4 [] pc = "login" -> 3 [] pc = "fetch" -> 2 [] pc = "body" -> 1 [] OTHER -> 0

\* The steps left of a call: four for every attempt to come, and what is left of this one.
Left(k) == 4 * (MaxRetries - k.attempt) + Stage(k.pc)

(* A call that was made comes closer to its answer with every step it takes,  *)
(* and neither another call nor the processor nor a restart takes it back:    *)
(* the loop of callPunchProcessor ends after MAX_RETRIES + 1 attempts,        *)
(* whatever fails, and a call that is answered stays answered.                *)
CallsRunDown ==
    [][ \A c \in Calls : call[c].pc # "idle" =>
          /\ Left(call[c]) \in Nat
          /\ call[c].pc = "done" => call'[c] = call[c]
          /\ Proceed(c) => call'[c].pc = "done" \/ Left(call'[c]) < Left(call[c])
          /\ ~Proceed(c) => call'[c].pc \in {call[c].pc, "done"} /\ call'[c].attempt = call[c].attempt ]_vars

LEMMA LeftIsNat ==
    ASSUME NEW k \in CallState
    PROVE  Left(k) \in Nat
  <1>1. MaxRetries - k.attempt \in Nat
    BY ClientAssumption DEF CallState, Attempts
  <1>. QED
    BY <1>1 DEF Left, Stage, CallState

\* A step of the call itself: to its end, to the next stage of the attempt, or to the next attempt.
LEMMA KindRunsDown ==
    ASSUME ClientInv, ClientInv', NEW c \in Calls, Kind(c), call[c].pc # "idle"
    PROVE  /\ call[c].pc # "done"
           /\ call'[c].pc = "done" \/ Left(call'[c]) < Left(call[c])
  <1>0. /\ call[c] \in CallState /\ call'[c] \in CallState
        /\ call[c].attempt \in Attempts /\ call'[c].attempt \in Attempts
        /\ MaxRetries \in Nat
    BY ClientAssumption DEF ClientInv, TypeOK, CallState
  <1>1. /\ call[c].pc # "done"
        /\ \/ call'[c].pc = "done"
           \/ /\ call'[c].attempt = call[c].attempt
              /\ \/ call[c].pc = "start" /\ call'[c].pc \in {"login", "fetch"}
                 \/ call[c].pc = "login" /\ call'[c].pc = "fetch"
                 \/ call[c].pc = "fetch" /\ call'[c].pc = "body"
           \/ /\ call'[c].attempt = call[c].attempt + 1 /\ call'[c].pc = "start"
              /\ call[c].pc \in {"login", "fetch", "body"}
    BY DEF Kind, Begins, LogsIn, SendsCached, SendsOwn, LogsInLate, Retries, Receives, Ends,
           Sends, Again, CachesOwn
  <1>. DEFINE m == MaxRetries - call[c].attempt
  <1>2. m \in Nat
    BY <1>0 DEF Attempts
  <1>3. Left(call[c]) = 4 * m + Stage(call[c].pc)
    BY DEF Left
  <1>4. CASE /\ call'[c].attempt = call[c].attempt
             /\ \/ call[c].pc = "start" /\ call'[c].pc \in {"login", "fetch"}
                \/ call[c].pc = "login" /\ call'[c].pc = "fetch"
                \/ call[c].pc = "fetch" /\ call'[c].pc = "body"
    <2>1. Left(call'[c]) = 4 * m + Stage(call'[c].pc)
      BY <1>4 DEF Left
    <2>2. /\ Stage(call[c].pc) \in Nat /\ Stage(call'[c].pc) \in Nat
          /\ Stage(call'[c].pc) < Stage(call[c].pc)
      BY <1>4 DEF Stage
    <2>. HIDE DEF m
    <2>. QED
      BY <1>1, <1>2, <1>3, <2>1, <2>2
  <1>5. CASE /\ call'[c].attempt = call[c].attempt + 1 /\ call'[c].pc = "start"
             /\ call[c].pc \in {"login", "fetch", "body"}
    <2>1. Stage(call'[c].pc) = 4 /\ Stage(call[c].pc) \in Nat /\ Stage(call[c].pc) >= 1
      BY <1>5 DEF Stage
    <2>2. Left(call'[c]) = 4 * (MaxRetries - (call[c].attempt + 1)) + 4
      BY <1>5, <2>1 DEF Left
    <2>3. MaxRetries - (call[c].attempt + 1) = m - 1
      BY <1>0 DEF Attempts
    <2>. HIDE DEF m
    <2>. QED
      BY <1>1, <1>2, <1>3, <2>1, <2>2, <2>3
  <1>. QED
    BY <1>1, <1>4, <1>5

LEMMA OthersChange ==
    ASSUME NEW c \in Calls, NEW d \in Calls, Kind(d), d # c
    PROVE  call'[c] = call[c]
    BY DEF Kind, Begins, LogsIn, SendsCached, SendsOwn, LogsInLate, Retries, Receives, Ends,
           Sends, Again, Changes

\* Whatever happens elsewhere leaves a call where it is, or ends it with the process.
LEMMA ElsewhereKeeps ==
    ASSUME ClientInv, ClientInv', Next, NEW c \in Calls, call[c].pc # "idle", ~Proceed(c)
    PROVE  /\ call'[c].pc \in {call[c].pc, "done"} /\ call'[c].attempt = call[c].attempt
           /\ call[c].pc = "done" => call'[c] = call[c]
  <1>0. call[c] \in CallState /\ call'[c] \in CallState
    BY DEF ClientInv, TypeOK
  <1>1. ASSUME NEW d \in Calls, Submit(d) \/ Proceed(d)
        PROVE  call'[c] = call[c]
    <2>1. d # c
      BY <1>1 DEF Submit
    <2>2. Kind(d)
      BY <1>1, SubmitBegins, ProceedKinds DEF Kind
    <2>. QED
      BY <2>1, <2>2, OthersChange
  <1>2. ASSUME NEW m \in wire, Handle(m)
        PROVE  /\ call'[c].pc = call[c].pc /\ call'[c].attempt = call[c].attempt
               /\ call[c].pc = "done" => call'[c] = call[c]
    <2>1. /\ call'[c].pc = call[c].pc /\ call'[c].attempt = call[c].attempt
          /\ call'[c].force = call[c].force /\ call'[c].token = call[c].token
          /\ call'[c].started = call[c].started /\ call'[c].denied = call[c].denied
          /\ call[c].pc = "done" => call'[c].status = call[c].status
      BY <1>2, HandleIsHandled DEF Handled
    <2>. QED
      BY <1>0, <2>1 DEF CallState
  <1>3. CASE Crash
    <2>1. \/ call'[c] = call[c] /\ call[c].pc \in {"idle", "done"}
          \/ /\ call[c].pc \notin {"idle", "done"}
             /\ call'[c].pc = "done" /\ call'[c].attempt = call[c].attempt
      BY <1>3, CrashIsCrashes DEF Crashes
    <2>. QED
      BY <2>1
  <1>4. CASE Tick \/ (\E t \in Token : Revoke(t)) \/ (\E d \in Calls : Mint(d))
    BY <1>4 DEF Tick, Revoke, Mint
  <1>. QED
    BY <1>1, <1>2, <1>3, <1>4 DEF Next

(* A call ends after MAX_RETRIES + 1 attempts at the most and then stays      *)
(* answered (the loop of callPunchProcessor): what CallsAnswered adds to this *)
(* is the fairness.                                                           *)
THEOREM RetriesRunDown == Spec => CallsRunDown
  <1>1. ASSUME ClientInv, ClientInv', [Next]_vars, NEW c \in Calls, call[c].pc # "idle"
        PROVE  \/ UNCHANGED vars
               \/ /\ Left(call[c]) \in Nat
                  /\ call[c].pc = "done" => call'[c] = call[c]
                  /\ Proceed(c) => call'[c].pc = "done" \/ Left(call'[c]) < Left(call[c])
                  /\ ~Proceed(c) => call'[c].pc \in {call[c].pc, "done"} /\ call'[c].attempt = call[c].attempt
    <2>. SUFFICES ASSUME Next
                  PROVE  /\ Left(call[c]) \in Nat
                         /\ call[c].pc = "done" => call'[c] = call[c]
                         /\ Proceed(c) => call'[c].pc = "done" \/ Left(call'[c]) < Left(call[c])
                         /\ ~Proceed(c) => call'[c].pc \in {call[c].pc, "done"} /\ call'[c].attempt = call[c].attempt
      BY <1>1
    <2>1. Left(call[c]) \in Nat
      BY <1>1, LeftIsNat DEF ClientInv, TypeOK
    <2>2. CASE Proceed(c)
      <3>1. Kind(c)
        BY <1>1, <2>2, ProceedKinds DEF Kind
      <3>. QED
        BY <1>1, <2>1, <2>2, <3>1, KindRunsDown
    <2>3. CASE ~Proceed(c)
      BY <1>1, <2>1, <2>3, ElsewhereKeeps
    <2>. QED
      BY <2>2, <2>3
  <1>2. ClientInv /\ ClientInv' /\ [Next]_vars =>
          [ \A c \in Calls : call[c].pc # "idle" =>
              /\ Left(call[c]) \in Nat
              /\ call[c].pc = "done" => call'[c] = call[c]
              /\ Proceed(c) => call'[c].pc = "done" \/ Left(call'[c]) < Left(call[c])
              /\ ~Proceed(c) => call'[c].pc \in {call[c].pc, "done"} /\ call'[c].attempt = call[c].attempt ]_vars
    BY <1>1
  <1>. QED
    BY <1>2, ClientInvariant, PTL DEF Spec, CallsRunDown

-----------------------------------------------------------------------------
(* A 401 that reaches the handler. *)

(* The handler passes a 401 of the processor on to its own caller, to whom it *)
(* looks like a rejection of the caller's token.  This takes more than an     *)
(* expiry: all MAX_RETRIES + 1 attempts are spent, and at least one of the    *)
(* tokens that the call saw rejected was revoked, as all of them were.        *)
RejectionNeedsRevocation ==
    \A c \in Calls : call[c].pc = "done" /\ call[c].status = "denied" =>
        /\ call[c].attempt = MaxRetries
        /\ call[c].denied # {} /\ call[c].denied \subseteq revoked

\* The same of the answer whose body is still to be read.
LastDenied ==
    \A c \in Calls : call[c].pc \in {"body", "done"} /\ call[c].status = "denied" =>
        call[c].attempt = MaxRetries /\ call[c].denied # {}

LEMMA LastDeniedStep ==
    ASSUME ClientInv, LastDenied, [Next]_vars
    PROVE  LastDenied'
  <1>1. ASSUME NEW c \in Calls, call'[c] = call[c]
        PROVE  call'[c].pc \in {"body", "done"} /\ call'[c].status = "denied" =>
                   call'[c].attempt = MaxRetries /\ call'[c].denied # {}
    BY <1>1 DEF LastDenied
  <1>2. ASSUME NEW c \in Calls, Kind(c)
        PROVE  LastDenied'
    <2>1. call'[c].pc \in {"body", "done"} /\ call'[c].status = "denied" =>
              call'[c].attempt = MaxRetries /\ call'[c].denied # {}
      BY <1>2 DEF Kind, Begins, LogsIn, SendsCached, SendsOwn, LogsInLate, Retries, Receives, Ends,
                  Sends, Again, CachesOwn, LastDenied, ClientInv, SentInv, Effects
    <2>. QED
      BY <1>1, <1>2, <2>1, OthersChange DEF LastDenied
  <1>3. ASSUME NEW m \in wire, Handled(m)
        PROVE  LastDenied'
    BY <1>3 DEF Handled, LastDenied
  <1>4. CASE Crashes
    BY <1>1, <1>4 DEF Crashes, LastDenied
  <1>5. CASE UNCHANGED call
    BY <1>5 DEF LastDenied
  <1>. QED
    BY <1>2, <1>3, <1>4, <1>5, StepKinds DEF Kind, Mint, Revoke, Tick, vars

(* The service answers with a 401 of the processor only when its attempts are *)
(* spent and its tokens were revoked (ReceiveDenied on the last attempt of    *)
(* callPunchProcessor), never because a token ran out.                        *)
THEOREM RejectionsAreRevocations == Spec => []RejectionNeedsRevocation
  <1>1. Init => LastDenied
    BY DEF Init, Fresh, LastDenied
  <1>2. ClientInv /\ LastDenied /\ [Next]_vars => LastDenied'
    BY LastDeniedStep
  <1>3. ClientInv /\ LastDenied => RejectionNeedsRevocation
    BY DEF ClientInv, LastDenied, OnlyRevokedDenied, RejectionNeedsRevocation
  <1>. QED
    BY <1>1, <1>2, <1>3, ClientInvariant, PTL DEF Spec

=============================================================================
