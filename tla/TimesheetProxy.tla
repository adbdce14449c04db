---------------------------- MODULE TimesheetProxy ----------------------------
(* The handlers that pass requests on to tlm-punch-processor: the timesheet   *)
(* proxy and the processing proxy (src/src/modules/timesheetProxy and         *)
(* processingProxy).  The processor trusts this service and knows nothing of  *)
(* the caller, so each handler bounds what its caller may reach, by what it   *)
(* asks for or by a look at the timesheet first.  Of the client the handlers  *)
(* rely on ProcessorPromise alone: a call may have its effect several times,  *)
(* late, or without anybody knowing.  The process they run in is that of      *)
(* ServiceProcess and may stop under them.  The processor is external.        *)
EXTENDS Naturals, TenantScope

CONSTANTS
    Requests,   \* HTTP requests; each is used once
    Sheets,     \* ids of timesheets
    Owner,      \* Owner[s]: the client and site of timesheet s
    MaxRetries, \* MAX_RETRIES of the client
    Absent,     \* a query parameter that is not given
    Parts,      \* Parts[s]: the codes read where s stands in a list joined by commas; {s} without a comma in s
    Present,    \* the timesheets there are in the beginning
    Inputs      \* bound: who sends each request, and what it asks for

\* A request, as validateRequest leaves it.  GET /timesheets/:id and what lies below it name a timesheet.
ByIdAsk == [kind: {"get", "audit", "void"}, id: Sheets]
ListAsk == [kind: {"list"}, clientId: Clients \union {NoClient}]
GroupsAsk == [kind: {"groups"}, clientId: Clients \union {NoClient}, siteId: Sites \union {Absent}]
GridAsk == [kind: {"grid"}, siteId: Sites]
RunAsk == [kind: {"run"}, clientId: Clients]
Ask == ByIdAsk \union ListAsk \union GroupsAsk \union GridAsk \union RunAsk

ASSUME ProxyAssumption ==
    /\ Owner \in [Sheets -> [clientId: Clients, siteId: Sites]]
    /\ MaxRetries \in Nat
    /\ Absent \notin Sites
    /\ Parts \in [Sites -> SUBSET Sites]
    /\ Present \subseteq Sheets
    /\ Inputs \in [Requests -> SUBSET (Principal \X Ask)]

\* A handler makes at most two calls, one after the other.
Calls == Requests \X {1, 2}

VARIABLES
    phase, conn,        \* the process (ServiceProcess)
    state, performed,   \* the calls of the client (ProcessorPromise)
    req,                \* the state of each request
    sheets,             \* external: the timesheets of the processor
    found               \* external: the timesheets in the answer to a request's last call

Process == INSTANCE ServiceProcess
Promise == INSTANCE ProcessorPromise

vars == <<phase, conn, state, performed, req, sheets, found>>

Idle == [pc |-> "idle"]

\* ok and body are the answer, once there is one.
Active == [ pc: {"first", "second", "answer", "done"}, caller: Principal, ask: Ask,
            ok: BOOLEAN, body: SUBSET Sheets ]

TypeOK ==
    /\ Process!TypeOK
    /\ state \in [Calls -> {"idle", "pending", "ok", "failed"}]
    /\ performed \in [Calls -> SUBSET Promise!Attempts]
    /\ req \in [Requests -> {Idle} \union Active]
    /\ sheets \in [Sheets -> {"none", "completed", "voided"}]
    /\ found \in [Requests -> SUBSET Sheets]

-----------------------------------------------------------------------------
(* What a handler checks and asks *)

ById(a) == a.kind \in {"get", "audit", "void"}

\* The tests before the first call; by then a timesheet named by its id is not known.
Admitted(p, a) ==
    /\ a.kind \in {"list", "groups", "grid"} => MayScope(p)
    /\ a.kind = "run" => SameClient(p, a.clientId)
    /\ a.kind = "grid" \/ (a.kind = "groups" /\ a.siteId # Absent) => SameSite(p, p.clientId, a.siteId)

\* resolveClientIdForProxy; the query of the grid has no clientId, validateRequest drops it.
ClientsAsked(p, a) ==
    ReadClientFilter(p, IF a.kind = "grid" THEN NoClient ELSE a.clientId).clientId

\* Mutant: a manager's sites are not forwarded.
SitesAsked_NotForwarded(p, a) ==
    IF a.kind \in {"grid", "groups"} /\ a.siteId # Absent THEN {a.siteId} ELSE Sites

\* siteIds.join(","), as the processor reads it.
ReadBack(siteIds) == UNION {Parts[s] : s \in siteIds}

(* siteId and siteIds of the two site queries.  The grid and siteId name one  *)
(* site each, which narrows a list beside it.  An empty list of sites is not  *)
(* forwarded at all, and asks for every site.                                 *)
SitesAsked(p, a) ==
    CASE a.kind = "list" -> Sites
      [] a.kind \in {"grid", "groups"} /\ a.siteId # Absent -> {a.siteId}
      [] a.kind = "groups" /\ a.siteId = Absent ->
             IF p.role = "SITE_MANAGER" /\ p.siteIds # {} THEN ReadBack(p.siteIds) ELSE Sites

QueryFilter(p, a) == [clientId |-> ClientsAsked(p, a), siteId |-> SitesAsked(p, a)]

-----------------------------------------------------------------------------
(* The handlers *)

Begin(r) ==
    /\ req[r] = Idle
    /\ Process!Open(r)
    /\ \E input \in Inputs[r] :
          LET p == input[1]
              a == input[2]
              new == [pc |-> "first", caller |-> p, ask |-> a, ok |-> FALSE, body |-> {}]
          IN  \/ /\ Admitted(p, a)
                 /\ Promise!Submit(<<r, 1>>)
                 /\ req' = [req EXCEPT ![r] = new]
              \/ /\ ~Admitted(p, a)
                 /\ req' = [req EXCEPT ![r] = [new EXCEPT !.pc = "answer"]]
                 /\ UNCHANGED <<state, performed>>
    /\ UNCHANGED <<sheets, found>>

AnswerWith(r, ok, body) ==
    /\ req' = [req EXCEPT ![r].pc = "answer", ![r].ok = ok, ![r].body = body]
    /\ UNCHANGED <<state, performed>>

\* The list, the groups, the grid and the processing run are answered as they come.
PassOn(r) ==
    /\ req[r].pc = "first" /\ state[<<r, 1>>] = "ok"
    /\ ~ById(req[r].ask)
    /\ AnswerWith(r, TRUE, found[r])
    /\ UNCHANGED <<phase, conn, sheets, found>>

\* Mutant: the client of the timesheet is looked at only where the timesheet itself is shown.
Fetched_GetOnly(r) ==
    /\ req[r].pc = "first" /\ state[<<r, 1>>] = "ok"
    /\ ById(req[r].ask)
    /\ IF req[r].ask.kind = "get"
       THEN AnswerWith(r, SameClient(req[r].caller, Owner[req[r].ask.id].clientId), found[r])
       ELSE Promise!Submit(<<r, 2>>) /\ req' = [req EXCEPT ![r].pc = "second"]
    /\ UNCHANGED <<phase, conn, sheets, found>>

\* The timesheet is there: its client decides whether it is shown, or used further.
Fetched(r) ==
    /\ req[r].pc = "first" /\ state[<<r, 1>>] = "ok"
    /\ ById(req[r].ask)
    /\ LET mine == SameClient(req[r].caller, Owner[req[r].ask.id].clientId)
       IN  \/ mine /\ req[r].ask.kind = "get" /\ AnswerWith(r, TRUE, found[r])
           \/ ~mine /\ AnswerWith(r, FALSE, {})
           \/ /\ mine /\ req[r].ask.kind \in {"audit", "void"}
              /\ Promise!Submit(<<r, 2>>)
              /\ req' = [req EXCEPT ![r].pc = "second"]
    /\ UNCHANGED <<phase, conn, sheets, found>>

\* The audit trail, or the voided timesheet, is the answer.
Concluded(r) ==
    /\ req[r].pc = "second" /\ state[<<r, 2>>] = "ok"
    /\ AnswerWith(r, TRUE, found[r])
    /\ UNCHANGED <<phase, conn, sheets, found>>

\* Mutant: the rejection of the second call is not caught.
CallFailed_FirstOnly(r) ==
    /\ req[r].pc = "first" /\ state[<<r, 1>>] = "failed"
    /\ AnswerWith(r, FALSE, {})
    /\ UNCHANGED <<phase, conn, sheets, found>>

\* asyncHandler hands the error of the client to errorHandler.
CallFailed(r) ==
    /\ \/ req[r].pc = "first" /\ state[<<r, 1>>] = "failed"
       \/ req[r].pc = "second" /\ state[<<r, 2>>] = "failed"
    /\ AnswerWith(r, FALSE, {})
    /\ UNCHANGED <<phase, conn, sheets, found>>

Respond(r) ==
    /\ req[r].pc = "answer"
    /\ req' = [req EXCEPT ![r].pc = "done"]
    /\ Process!Answer(r)
    /\ UNCHANGED <<state, performed, sheets, found>>

-----------------------------------------------------------------------------
(* The client and the processor *)

Settle(c) ==
    /\ Promise!Succeed(c) \/ Promise!Fail(c)
    /\ UNCHANGED <<phase, conn, req, sheets, found>>

Stored == {s \in Sheets : sheets[s] # "none"}

\* An answer that nobody awaits is lost.
Awaited(r, n) == state[<<r, n>>] = "pending"

(* A look at the timesheet a request names, at its audit trail, or at those   *)
(* its query asks for.  One that comes late changes nothing and is left out.  *)
Read(r, n) ==
    LET a == req[r].ask
        visible == IF ById(a) THEN {a.id} ELSE {s \in Sheets : Matches(Owner[s], QueryFilter(req[r].caller, a))}
    IN  /\ Awaited(r, n)
        /\ a.kind # "run" /\ (a.kind = "void" => n = 1)
        /\ ById(a) => a.id \in Stored
        /\ found' = [found EXCEPT ![r] = visible \intersect Stored]
        /\ UNCHANGED sheets

VoidSheet(r, n) ==
    /\ req[r].ask.kind = "void" /\ n = 2
    /\ sheets' = [sheets EXCEPT ![req[r].ask.id] = "voided"]
    /\ UNCHANGED found

\* A run makes the timesheets of employees of its client.
RunClient(r, n) ==
    /\ req[r].ask.kind = "run"
    /\ \E made \in SUBSET {s \in Sheets \ Stored : Owner[s].clientId = req[r].ask.clientId} :
          /\ sheets' = [s \in Sheets |-> IF s \in made THEN "completed" ELSE sheets[s]]
          /\ found' = [found EXCEPT ![r] = IF Awaited(r, n) THEN made ELSE @]

\* The processor carries a call out: once, again, or long after the caller was told of a failure.
Perform(r, n) ==
    /\ Promise!Perform(<<r, n>>)
    /\ Read(r, n) \/ VoidSheet(r, n) \/ RunClient(r, n)
    /\ UNCHANGED <<phase, conn, req>>

-----------------------------------------------------------------------------
(* The process *)

\* What the process does for the requests under way when it ends.
CutOff ==
    /\ Promise!Crash
    /\ req' = [r \in Requests |-> IF req[r] = Idle THEN Idle ELSE [req[r] EXCEPT !.pc = "done"]]
    /\ UNCHANGED <<sheets, found>>

ExitStep == Process!Exit /\ CutOff

ForceExitStep == Process!ForceExit /\ CutOff

LifeStep ==
    /\ \/ Process!Start \/ Process!StartFails
       \/ \E r \in Requests : Process!HangUp(r) \/ Process!Expire(r)
       \/ Process!Signal \/ Process!Drained
    /\ UNCHANGED <<state, performed, req, sheets, found>>

Init ==
    /\ Process!Init
    /\ Promise!Init
    /\ req = [r \in Requests |-> Idle]
    /\ sheets = [s \in Sheets |-> IF s \in Present THEN "completed" ELSE "none"]
    /\ found = [r \in Requests |-> {}]

\* The steps of a handler whose call has settled.
Proceed(r) == PassOn(r) \/ Fetched(r) \/ Concluded(r) \/ CallFailed(r) \/ Respond(r)

Next ==
    \/ \E r \in Requests : Begin(r) \/ Proceed(r)
    \/ \E r \in Requests, n \in {1, 2} : Settle(<<r, n>>) \/ Perform(r, n)
    \/ LifeStep
    \/ ExitStep
    \/ ForceExitStep

Spec == Init /\ [][Next]_vars

(* The event loop serves what has settled, every call settles (CallsAnswered  *)
(* of ProcessorClient), and the timer of shutdown fires.  That connections    *)
(* end or databases disconnect is not assumed.                                *)
FairSpec ==
    /\ Spec
    /\ \A r \in Requests : WF_vars(Proceed(r))
    /\ \A c \in Calls : WF_vars(Settle(c))
    /\ WF_vars(ForceExitStep)

-----------------------------------------------------------------------------
(* Properties *)

\* The list of p's sites, where it stands in for a siteId, reaches the processor and is read as it was meant.
ListHolds(p, a) == a.siteId = Absent => p.siteIds # {} /\ ReadBack(p.siteIds) \subseteq p.siteIds

(* "the real tenant boundary is enforced HERE" (comment on                    *)
(* resolveClientIdForProxy): whatever a caller is shown lies in its client    *)
(* and, in the two views by site, in its managed sites - for the grid and     *)
(* with a siteId always, else if its list of sites is not empty and no code   *)
(* in it falls into others at a comma (see ManagersSeeOwnSites).              *)
RepliesInScope ==
    \A r \in Requests : req[r] # Idle =>
        LET p == req[r].caller
            a == req[r].ask
        IN  \A s \in req[r].body :
               /\ p.role # "PLATFORM_ADMIN" => Owner[s].clientId = p.clientId
               /\ a.kind \in {"groups", "grid"} /\ p.role = "SITE_MANAGER" /\ ListHolds(p, a)
                  => Owner[s].siteId \in p.siteIds

(* "a SITE_MANAGER's visibility is narrowed by forwarding their own managed   *)
(* siteIds as an allow-list ... mirrors getReadSiteFilter's {siteId: {$in:    *)
(* siteIds}} shape" (comment on resolveSiteIdsForProxy): in the views by site *)
(* a manager is shown sheets of its own sites only.                           *)
ManagersSeeOwnSites ==
    \A r \in Requests :
        req[r] # Idle /\ req[r].ask.kind \in {"groups", "grid"} /\ req[r].caller.role = "SITE_MANAGER" =>
            \A s \in req[r].body : Owner[s].siteId \in req[r].caller.siteIds

(* Every change at the processor, also one that a retry makes long after the  *)
(* caller was refused or cut off, is one that a caller of the same client (or *)
(* a platform admin) asked for: the check before the second call still holds  *)
(* when its effect comes (voidTimesheetHandler, createProcessingRunHandler).  *)
EffectsAuthorised ==
    [][ \A s \in Sheets : sheets'[s] # sheets[s] =>
          \E r \in Requests :
             /\ req[r] # Idle
             /\ req[r].caller.role = "PLATFORM_ADMIN" \/ req[r].caller.clientId = Owner[s].clientId
             /\ \/ req[r].ask.kind = "void" /\ req[r].ask.id = s /\ sheets'[s] = "voided"
                \/ req[r].ask.kind = "run" /\ req[r].ask.clientId = Owner[s].clientId ]_vars

(* "shutting down gracefully" (server.ts): when the exit code is 0, nobody    *)
(* who waited was left without an answer; from the moment the databases are   *)
(* disconnected, the handlers still running are those whose clients hung up.  *)
CleanExitServesAll ==
    phase \in {"disconnecting", "stopped"} => \A r \in Requests : conn[r] # "busy"

(* Nobody waits for ever, neither the client of a request (every path of a    *)
(* handler ends in an answer, those through asyncHandler's catch too) nor     *)
(* whoever sent the signal (the timer of shutdown outlives server.close).     *)
EverythingSettles ==
    /\ \A r \in Requests : conn[r] = "busy" ~> conn[r] # "busy"
    /\ phase = "closing" ~> phase \in {"stopped", "failed"}

-----------------------------------------------------------------------------
(* The strengthening behind RepliesInScope and EffectsAuthorised: what the    *)
(* checks of a handler have settled when it goes on.                          *)

\* What the answer to a request's last call can show.
Reach(r) ==
    LET a == req[r].ask
    IN  CASE ById(a) -> {a.id}
          [] a.kind = "run" -> {s \in Sheets : Owner[s].clientId = a.clientId}
          [] OTHER -> {s \in Sheets : Matches(Owner[s], QueryFilter(req[r].caller, a))}

\* A handler past its checks for the timesheet it names, or for what it asks.
Cleared(r) ==
    IF ById(req[r].ask) THEN SameClient(req[r].caller, Owner[req[r].ask.id].clientId)
    ELSE Admitted(req[r].caller, req[r].ask)

Checked(r) ==
    /\ req[r] = Idle => found[r] = {} /\ state[<<r, 1>>] = "idle" /\ state[<<r, 2>>] = "idle"
    /\ req[r] # Idle =>
          /\ state[<<r, 1>>] # "idle" => ById(req[r].ask) \/ Cleared(r)
          /\ state[<<r, 2>>] # "idle" => ById(req[r].ask) /\ Cleared(r)
          /\ found[r] \subseteq Reach(r)
          /\ req[r].body \subseteq Reach(r)
          /\ req[r].body # {} => Cleared(r)

ProxyInv == TypeOK /\ \A r \in Requests : Checked(r)

=============================================================================
