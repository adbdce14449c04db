# Verification of the site operations service

TLA+ models of the service in `src/`, the TLC configurations that check them
on small instances, and theorems about them checked with the TLA+ proof system.

1. [The system](#the-system)
2. [Modules](#modules)
3. [How the models correspond to the code](#how-the-models-correspond-to-the-code)
4. [Runs](#runs)
5. [Proofs](#proofs)
6. [Where code and documentation disagree](#where-code-and-documentation-disagree)
7. [What is not modelled](#what-is-not-modelled)
8. [Plan](#plan)

## The system

The service is one Node.js process (Express) that keeps schedules, punches and
master data in two MongoDB databases and forwards timesheet and processing
requests to `tlm-punch-processor`. Handlers run concurrently: they interleave
at every `await`, and nothing but MongoDB's unique indexes serialises them. No
transaction is used anywhere.

| Component | State | Operations | What is hard |
|---|---|---|---|
| schedule (`modules/schedule`) | `scheduledShifts` (own database) | create, bulk create, update, cancel, list | check-then-write of the overlap guard, stale documents saved late, batches that fail halfway |
| punch (`modules/punch`) | `punches` (rule repository database) | create, bulk create, correct, list | two writes per correction without a transaction, racing corrections, references by code |
| employee/site assignments (`modules/employeeSiteAssignment`) | `employeeSiteAssignments` | assign, update, unassign, list | read by the schedule module, unique and partial unique indexes, references by code |
| pay configuration chain (`modules/employee`, `employeeGroup`, `payPeriodConfig`, `payrollCalendar`) | one collection each | create, update, list, get | a chain of references, each link checked by another module before the write; cadence requirements |
| sites, tasks, custom field definitions | one collection each | create, update, list | the codes other documents refer to can be renamed |
| authentication (`middleware/auth.ts`, `punchIngestAuth.ts`, mounts in `app.ts`) | `profileCache` (memory) | authenticate | staleness of the cached profile, concurrent fetches for one token, order of the routers |
| tenant scope, permissions (`middleware/tenantScope.ts`, `permissions.ts`) | none | filters and assertions | the filter of a read authorises a later write |
| punch processor client (`clients/punchProcessorClient.ts`) | `cachedServiceToken` (memory) | login, call with retries, health probe | retries of calls that are not idempotent, token refresh races, attempts running out |
| adherence report (in `modules/schedule`) | none | compute | two reads that are no snapshots of collections others write; edges of windows, thresholds and rounding |
| timesheet and processing proxy | none | list, by site, grid, get, audit trail, void, trigger | fetch, check, then act on something another service owns; effects that come late; query parameters in place of a tenant filter |
| process (`server.ts`, `app.ts`, `config`) | connections, `shuttingDown` | start, shut down, health, rate limit | shutdown with requests in flight |

How they interact. A request passes the routers in the order `createApp` mounts
them, each of which authenticates it again through the shared profile cache;
the permission gate of its route and the tenant filter decide what it may do;
its handler then works on the collections. The schedule module reads the
assignments, the assignment and punch modules read employees, sites and tasks,
the four modules of the pay chain read each other's collections, the adherence
report reads shifts and punches. The proxies call the punch processor through
the client, which shares one cached service token among all calls.

What makes each component correct:

- schedule: no employee is booked twice for one instant unless two requests
  raced; cancelling is final; `businessDate` is the date of the start in the
  shift's zone; a shift is booked for an active assignment only; a batch reports
  each item once; nobody writes outside the own scope.
- punch: the collection is an append-only journal; a punch is retired only when
  its replacement is stored; following corrections one always meets a live
  punch; references were known when the item was looked up; a correction never
  ends before it starts.
- assignments: they dangle or pass to another employee only by renames; pairs
  are unique; a removed one does not come back; writes are to sites the caller
  manages; the schedule module sees one pair change at a time.
- pay chain: every employee's effective pay configuration is of the employee's
  client, is complete, and has a calendar of that client; overlapping updates
  do not take back each other's fields.
- authentication: no request is judged by a profile older than the cache time
  plus a fetch; the ingest key opens the ingestion routes and no others.
- adherence: work nobody touches while the report runs is never a no-show; what
  was over before it began does not show; left alone, the report agrees with
  the exact times.
- proxies: replies and changes at the processor keep to the caller's client, and
  in the views by site to the sites of a manager as far as its list of sites
  reaches the processor intact, also when a call is repeated or its effect comes
  after the caller was told of a failure.
- process: exit code 0 means nobody who waited was left without an answer; once
  told to stop the process ends.
- client: at most one effect per attempt, success only after an effect, a 401
  only for a token that was revoked, no call left without an answer.

## Modules

| Module | Models | Uses |
|---|---|---|
| `TenantScope` | the filters and assertions of `middleware/tenantScope.ts` as operators | |
| `Roster` | writes of the schedule module | `TenantScope` |
| `RosterBook` | abstract specification of `Roster`: a book of atomic bookings, moves and cancellations | |
| `ShiftFeed` | abstract specification of `Roster` as readers of the shifts see it, however requests race | |
| `PunchLedger` | writes of the punch module | `TenantScope` |
| `PunchJournal` | abstract specification of `PunchLedger`: entries are added, and retired once replaced | |
| `Adherence` | the adherence report, against writes of shifts and punches | `TenantScope`, `ShiftFeed`, `PunchJournal` |
| `SiteAssignments` | the assignment module, with creation and renaming of employees, sites and tasks around it | `TenantScope` |
| `AssignmentFeed` | abstract specification of `SiteAssignments` as `Roster` sees it | |
| `MasterData` | calendars, configs, groups, employees and plain catalogs: create and update | `TenantScope` |
| `Authentication` | routers, profile cache, ingest key and permission gate | |
| `ProcessorClient` | `callPunchProcessor`, its retries, timer and token cache | |
| `ProcessorPromise` | abstract specification of `ProcessorClient`: what the handlers may rely on | |
| `ServiceProcess` | start, connections, shutdown and exit of the process, as steps without a `Next` of their own | |
| `TimesheetProxy` | the handlers of the two proxies, with the processor around them | `TenantScope`, `ProcessorPromise`, `ServiceProcess` |
| `MC...` | the instances TLC checks: bodies, callers, seeds | the module named |
| `..._proofs` | theorems and proofs | the module named, `TLAPS` |

`Roster` treats the active assignments as an environment that changes one
triple of client, employee and site at a time (`Activate`, `Deactivate`).
`AssignmentFeed` states this assumption, and `SiteAssignments` is shown to meet
it (`FeedSpec`), so the two models compose although they run apart. In the same
way `PunchLedger` and `SiteAssignments` treat the catalogs they look up as
environments in which codes appear and are renamed, which is what the update
handlers of employees, sites and tasks allow.

Three abstract specifications are used the other way round, too: as the
environment of a module that relies on them. `Adherence` lets the shifts change
by any step of `ShiftFeed` and the punches by any step of `PunchJournal`, and
`TimesheetProxy` lets its calls behave as `ProcessorPromise` allows. `Roster`,
`PunchLedger` and `ProcessorClient` are proved to implement these
(`RosterFeedsReaders`, `LedgerImplementsJournal`, `PromiseKept`), so what holds
of the report and of the proxies does not depend on how the others are written.

## How the models correspond to the code

**Grain.** Every `await` of a database call or a fetch is one atomic step, and
what a handler does between two awaits belongs to the step before. A request is
a record in `req` whose `pc` names the call it performs next; everything a
handler holds in local variables across an await is a field of that record
(`snap` is a document loaded earlier, `patch` the body of the PATCH). MongoDB
executes a single-document write atomically and a lookup reads one state of the
collection. `Document.save()` sends the fields that differ from the loaded
document and no others, which is why `Saved` has three arguments: what is
stored now, what was loaded, and what the handler made of it. Two handlers that
overlap can therefore mix their fields in one document.

**Failures.** `CallFails` lets the pending call of a request fail without
effect. An insert or a save may also take effect and its acknowledgement be
lost, where the handler would go on differently (`InsertShift`,
`CreateReplacement`, writes of `MasterData`). `Crash` drops all requests in
flight and the caches in memory; the collections stay. Nothing in the code
repairs anything at the start, so there is no recovery action.

**Inputs.** Bodies, batches, patches and callers are constants: a theorem holds
for every choice of them, a run picks a small one. Their types are those the
zod schemas admit; a refinement a schema applies is a guard (`EndsAfterStart`,
`PatchAccepted`), and where an endpoint does not apply it the guard is missing,
as in the code. Callers are principals that passed authentication; whether a
principal gets there is the subject of `Authentication`.

**History variables.** `stale` (`Roster`), `lost` (`PunchLedger`), `renamed`
and `madeFor` (`SiteAssignments`), `untouched` (`Adherence`), `left`, `seen` and `seenAt`
(`Authentication`), `denied` and `performed` (`ProcessorClient`) are not in the
program: they record what others changed since a request looked, and no guard
reads them.

Per module:

- **`Roster`**. `BeginCreate`, `BeginBulk`: controller checks, then
  `createSchedule` for each item as `CheckAssignment`, `CheckOverlap`,
  `InsertShift`; a single create is a batch of one. An item's error is recorded
  (`Reject`) and the loop goes on; `Respond` is the 201 or 207. `FindForUpdate`,
  `RecheckOverlap`, `SaveUpdate` are `updateSchedule`; `FindForCancel`,
  `SaveCancel` are `cancelSchedule`. Instants are integers, a zone is an offset,
  a day `DayLength` instants. `randomUUID` is a value never used before.
- **`PunchLedger`**. The two existence lookups of a submission run in parallel
  and are taken one by one (`Lookup`), then `DecideLookup`, `InsertPunch`. A
  correction is `BeginCorrect`, `LoadOriginal`, `CheckSite` (if the patch names
  a site), `CreateReplacement`, `FlipOriginal`. The original's status is not
  looked at, so a punch may be corrected twice, also by one that is itself a
  correction.
- **`SiteAssignments`**. Each handler loads the employee and checks the caller's
  site (`Admitted`), then looks up site and task (`CheckSite`, `CheckTask`) and
  writes. The unique index on client, employee and site and the partial one on
  primary assignments are `Unique`. A save of a deleted document fails.
- **`MasterData`**. The services have one shape: find under the filter, load
  by id, look up each reference in turn for the owner (`CheckRef`), write. A
  `kind` says which collection; `RefFields` and `Target` hold the references.
  The cadence hook of the config model is `Valid`; an update that fails it ends
  with the error class the hook produces, and `StatusOf` is `errorHandler`.
- **`Authentication`**. `Mounted` is the order in `createApp`. At each router a
  request is judged by its key (`CheckKey`), by the cache (`UseCached`) or by a
  fetch (`Ask`, `Answer`, `Receive`, `FetchFails`). TLM is external: `Change`
  edits a user or refuses the token.
- **`ProcessorClient`**. One attempt is `StartAttempt`, perhaps a login
  (`LoginAnswered`, `LoginRefused`, `LoginFails`), the fetch (`Receive`,
  `FetchFails`) and the body (`ReadBody`, `BodyFails`). The processor, the rule
  repository and the network are external: `Mint`, `Handle`, `Revoke`. A
  request stays on `wire` after its attempt was given up, so it may take effect
  later; an answer may never be received. One clock (`now`) stands for those of
  all services. The clock skew that the code names among the causes of a 401
  (`punchProcessorClient.ts:124`) is in the model only as `Revoke`, a token turned
  down that this service takes for valid: the call then goes the same way. That a
  token is not turned down for having run out (`OnlyRevokedDenied`) holds as long
  as the clocks differ by less than the refresh buffer of 5 minutes minus the
  request timeout of 8 seconds, which realistic skew does, and tokens live longer.
- **`Adherence`**. A query of MongoDB is no snapshot: the cursor looks at each
  document once, in some order, while others write, so `ReadShift` and
  `ReadPunch` are one step per document. The last `ReadPunch` also computes the
  entries (`EntriesOf`, which is `buildAdherenceEntry`): nothing is awaited in
  between. A report of no shifts ends before the second query. With candidates
  of one clock-in any of them may come first, the order of the cursor not being
  fixed.
- **`ServiceProcess`**. `Start` is the end of `connectDb` and the listen,
  `Signal` is `shutdown`, `Drained` the callback of `server.close`, `Exit` the
  end of `disconnectDb` and the exit with 0, `ForceExit` the timer. Connections
  are those of Node's HTTP server, external: one may be kept alive for another
  request, also after the signal, and `server.close` closes those idle at that
  moment. A client may hang up, which no handler is told.
- **`TimesheetProxy`**. `Begin` is a handler up to its first call: the checks
  (`Admitted`) and the parameters (`ClientsAsked`, `SitesAsked`). A manager's list
  of sites is joined by commas, and a site code is any non-empty string, so what
  the processor reads need not be what was meant: `ReadBack`, with `Parts` the
  codes read for each one in the list. That the processor splits the list at
  commas is an assumption about code outside `src/`. `PassOn` answers the list, the two views by site and the run; `Fetched` looks at the
  client of the timesheet, then shows it or makes the second call; `Concluded`
  answers that. A request is one slot, used once, as its calls are those of
  `ProcessorPromise`. The processor is external: `Read`, `VoidSheet` and
  `RunClient` are the effect of a call, at any time after it was made.

## Runs

TLC finishes each within minutes with two workers. A run that passes has
explored every state of its instance.

| Run | Instance | Shows |
|---|---|---|
| `RosterRace` | 2 requests, 2 shifts, 1 employee; create, a batch of two, a patch of the start and one of the zone | `NewClashNeedsRace`: a double booking takes two racing requests. `ShiftFeedSpec`: readers see shifts appear, change their times and be cancelled, nothing else. `BookingNeedsAssignment`: each item rests on an assignment active when it was checked. `BulkReportSound`: a batch names every item exactly once, whatever fails in between. `BookUnlessRaced`: from a sound book every write is one of the atomic book, unless its request read before another one wrote. `RosterInv`: the inductive invariant |
| `RosterSerial` | 1 request at a time, 2 shifts, 2 clients with the same codes, callers of every scope, mixed and inverted batches, all combinations of patched fields; fair | `BookSpec`: the module is the atomic book. `NoDoubleBooking`: what the comments promise holds as long as requests do not overlap. `WritesStayInScope`: nobody writes outside the own scope. `RequestsAnswered` |
| `RosterFrozen` | 2 requests, 1 shift | counterexample: an update writes a cancelled shift |
| `PunchRaces` | 2 requests, 3 punches, submission, a batch of two, corrections of punches and of their replacements, renames | `JournalSpec`, `ChainsEndLive`, `CorrectionsSpanTime`, `PunchNeedsKnownRefs`, `LedgerInv` |
| `PunchFlip` | 1 request, 2 punches | counterexample: original and replacement both live |
| `AssignRaces` | 2 requests, 2 employees, 2 codes, 2 sites, 2 assignments, a manager of each site, renames | `DanglingNeedsRename`, `InheritedNeedsRename`, `RemovedStaysRemoved`, `AssignmentWritesInScope`, `FeedSpec`, `AssignmentsInv` |
| `MasterRaces` | 2 requests, 2 clients, a chain of calendar, config, group and employee, one new document; bodies that refer to either client | `PayChainUsable`, `NoCollateralChange`, `MasterInv` |
| `AuthChain` | 2 requests, each with a token or the ingest key, for an ingestion route, a correction or a route of another router; one user whose account is locked and unlocked; cache time 2, fetches of 1, clock to 4 | `ProfileWasLive`, `IngestOnlyIngests`, `IngestReachesPunches`, `RequestsAdvance` (each step brings a request nearer to its answer), `AuthInv` |
| `ClientRetries` | 2 calls that share the cache: one with 3 attempts and every outcome, one that logs in and succeeds at its first attempt; tokens of both revocable, clock to 2; fair | `OnlyRevokedDenied`, `NoTokenDeniedTwice`, `PromiseSpec`, `CallsAnswered` |
| `AdherenceReads` | 1 report, 2 shifts, 2 punches; a shift and the same moved, one of a namesake at another client, one at another site; punches on the edges of the window and of both thresholds, one open; corrections; queries with and without parameters by an administrator and a manager | `NoWorkIsMissed`, `ReportIsFresh`, `ReportIsExact` |
| `ProxyRequests` | 2 requests: one of any kind by callers who may or may not, one processing run; 3 timesheets of 2 clients that share a site code, one not there at first; managers of one site, of none and of one whose code holds a comma; 2 attempts per call; the process from start to exit; fair | `RepliesInScope`, `EffectsAuthorised`, `CleanExitServesAll`, `EverythingSettles` |
| `ProxySites` | the same | counterexample: a manager is shown a timesheet of a site it does not manage |

**Why the bounds are enough.** The races of this code are between two requests:
one has read, the other writes, the first writes. Two request slots, each used
again and again, show them all, and the theorems lift the safety properties to
any number. Two shifts are the fewest that clash, three punches the fewest with
a chain of two corrections or two rival corrections of one original. Ids
are never freed, so the number of ids bounds the length of a behaviour's
effects but not of the behaviour. Two clients share employee and site codes, so
a filter that forgets the client is noticed. The ranges of the bodies touch,
overlap and contain each other, one lies in another zone, so the dates differ.
`MaxTime` bounds the clock: it covers an entry cached, used to its last tick,
dropped and fetched again, and a token minted, expired in the buffer and
renewed. `Revocable` bounds which tokens get revoked. `SYMMETRY` is used on
sets whose members the model treats alike, in runs without liveness properties.

What calls do to each other in `ClientRetries` they do through the shared token:
one takes the token of the other from the cache and is denied with it, or the
other's late login replaces what the first has cached or is refreshing. Two
calls with three attempts each have more states than TLC can visit, so the
second one is bounded by the constraint `PeerSucceeds`: if it is made at all, it
succeeds at its first attempt before the clock moves. It can still log in, store
its token and use the other's at any point between two steps of the first call,
and its token may be revoked. A step of the first call never leaves the
constraint, so its liveness is checked in full beside a call that is not made or
is answered. `DeniedTokensStayUnused` and `PromiseKept` are proved for any number
of calls without the constraint. `AdherenceReads` has one report, as reports do
not write. A minute is two instants there, the fewest with a half; the window is
three minutes and the thresholds one, so that a shift has room for a punch
before, in and after each of them; two punches are a correction with its
original, or two candidates of one shift. In `ProxyRequests` the second request
is what makes a timesheet appear while the first one looks; two handlers share
nothing else but the process.

**Deadlock** is checked except for `ClientRetries`, whose calls are used once and
whose clock stops, and `ProxyRequests` and `ProxySites`, whose process exits: a
behaviour may come to its end there.

**Fairness.** `RosterSerial` and `ClientRetries` assume weak
fairness of `Proceed`, the steps a request or call takes by itself: every
promise the handler awaits is settled one day, with a result or an error
(`CallFails`, `BodyFails` and the like count as progress). The database driver
and the fetch of the runtime have time limits, and the client adds a timer of
its own. Nothing is assumed of arrivals, of crashes, of other services or of
which outcome a call has. In particular a fair behaviour may have every call fail.

`ProxyRequests` assumes that the event loop runs a handler whose call has
settled (`Proceed`), that every call settles (`Settle`, which is what
`CallsAnswered` says of the client), and that the timer of the shutdown fires
(`ForceExitStep`). It does not assume that a client ever closes its connection
or that the databases disconnect: that the process ends rests on the timer
alone. `AuthChain` needs no fairness: `RequestsAdvance` is about single steps.

## Proofs

The theorems hold for every number of requests, documents, employees, codes,
clients and calls, and every set of bodies and callers, under the assumptions
named in the modules: constants have their types, sentinels (`NoShift`,
`Absent`, ...) are not values, and for the client `ClientAssumption`
(`RequestTimeout <= RefreshBuffer`, `FallbackTTL <= RefreshBuffer`,
`RequestTimeout < TokenTTL`; the code has 8 s, 5 min and 5 min).

| Module | Theorems | Argument |
|---|---|---|
| `Roster_proofs` | `RosterInvariant`, `DoubleBookingNeedsRace`, `RosterFeedsReaders`, `BulkAccountsForAll`, `BookingsAreAssigned` | `RosterInv`: between its overlap check and its write, what a request checked holds of every shift not in its `stale` set. `NewClashNeedsRace` alone is not inductive: it says nothing of requests between check and write. For the feed, what a request loaded is still stored with the same owner, so a save changes no owner, and `Saved` writes back no status. For the batch, `ReportOK`: the items reported are those before the current one, each once, and distinct items have distinct shifts. For the booking, `AssignmentChecked`: until its insert the assignment found is active or its end was missed |
| `Roster_proofs`, races | `SoundUnlessRaced`, `RaceFreeImplementsBook`, `CancelledThawsOnlyRaced`, `DatesGoWrongOnlyRaced` | `RaceInv` adds to `RosterInv` that no shift was cancelled when it was loaded for an update. A write that acts on nothing stale (`ActsOnStale`) is then one step of the book, from a sound book to a sound one. `RaceFreeSpec` leaves only such writes; requests still interleave, fail and crash in it |
| `Roster_proofs`, a single request | `SerialNoDoubleBooking`, `SerialBusinessDate`, `SerialCancelledIsFrozen`, `SerialImplementsBook` | assuming a single request slot (`Alone`), no shift is ever in `stale`, so every execution is free of races |
| `Roster_proofs`, scope and work | `ReadAndWriteScopesAgree`, `WritesAreScoped`, `RequestsRunDown` | `ScopeInv`: the owner of a document in flight passed the check of a write or the filter of a read, which admit the same; the query parameter only narrows, and no write changes an owner. `WorkRunsDown` counts the calls a request has left, three for each item of a batch |
| `PunchLedger_proofs` | `LedgerInvariant`, `LedgerImplementsJournal`, `ChainsStayLive`, `CorrectionsAreSpans`, `SubmittedRefsExist`, `HistoriesAreSound`, `CorrectionsAreScoped`, `HalfDoneOnlyCutShort`, `UncutCorrectionsFlip`, `BulkPunchesAccounted` | `LedgerInv`: a request about to flip has a replacement of its original in store, and what it loaded is still there with the same owner. `ChainInv`, without an induction over chains: every punch has its replacements inside a set that is closed under replacement and does not contain the punch itself. `SpanInv`: the times a correction is about to store were compared. `RefsFound`: a lookup that said yes found a code that is known or was renamed since. Histories are `ChainInv` read the other way: no set of corrections holds the originals of all its members. A punch is `Settled` when its replacements have retired it or a correction is about to; what unsettles it is a step that cuts this correction short (`CutShort`), so without such steps every original is flipped. `ReportOK` ties the answer of a batch to the punches stored |
| `SiteAssignments_proofs` | `AssignmentsInvariant`, `DanglingComesFromRename`, `InheritanceComesFromRename`, `RemovalIsFinal`, `WritesKeepToScope`, `AssignmentsImplementFeed` | `AssignmentsInv`: codes and pairs are unique, and what a request has looked up still resolves or was renamed since. Uniqueness of pairs makes each write move one triple |
| `MasterData_proofs` | `MasterInvariant`, `PayChain`, `UpdatesTouchOnlyTheirFields`, `UpdatesAreScoped`, `HookRejectionsAre500` | `MasterInv`: each link of a stored document is to a document of the same owner, configs are complete, and a request in flight has checked what is not pending any more. Documents keep their kind, owner and cadence and are never removed, so a check does not become wrong, and what a caller's filter admitted at the read it admits at the save by id (`AdmittedInv`) |
| `Authentication_proofs` | `AuthInvariant`, `ActedOnLiveProfile`, `IngestKeyIsConfined`, `IngestKeyGetsThrough`, `RequestsGetThrough` | `AuthInv`: a cache entry was live at most a fetch before it was stored, an answer under way when it was asked for, and the routers before the present one do not have the route. `RequestsGetThrough` counts the steps a request has left, which every one of its own steps lowers and no other step changes |
| `ProcessorClient_proofs` | `ClientInvariant`, `PromiseKept`, `DeniedTokensAreRevoked`, `DeniedTokensStayUnused`, `RetriesRunDown`, `RejectionsAreRevocations` | `ClientInv`: the age of what is cached and sent (`TimeInv`), which attempts may have requests out or effects (`SentInv`), and that a rejected token is in the cache only while the refresh is forced (`DenialInv`). `CallsRunDown` counts the steps left in this attempt and the attempts left. `LastDenied`: only the last attempt passes a 401 on |
| `Adherence_proofs` | `ReportReadsWhatIsThere`, `WorkIsNotMissed`, `ReportStaysFresh`, `ReportAgrees` | `ReadInv`: of the documents nobody has written since the report began, it holds those it has looked at and that the query wants, as they are, and each shift once. With the last read of each query nothing is unread, so all that is left is about one pairing: `EntryFacts` (an earliest candidate) and `Rounded`, which puts `Math.round` without division and so turns each threshold into a bound on exact times |
| `TimesheetProxy_proofs` | `ProxyInvariant`, `TenantBoundary`, `ChangesAreAuthorised`, `CleanExitIsClean`, `SuccessIsReal`, `HandlersReachAnswers`, `ClientUsedAsPromised` | `ProxyInv`: what an answer can show is within `Reach`, a second call was made for a timesheet of the caller's client, a call that is not by id was admitted. A timesheet's client never changes, so the check before the second call holds whenever its effect comes. `ProcessInv`: after the server has drained no connection is opened. `Real`: an answer comes from calls that were carried out, and what they did lasts. Each step is one of `ProcessorPromise` or leaves its variables alone |

Each invariant is proved from `Init`, and for a step with one lemma per action
or group of actions. The runs check the properties on the small instances;
`ClientInv`, `ProxyInv` and `ReadInv` are proved only, as the properties they carry are
among those checked. Some theorems have no run of their own, either because a
checked property has them as a special case or because they say how a checked
one comes to fail; their properties are defined beside the theorem.

Each counterexample has a theorem that says what it takes.
`CancelledIsFrozen` fails (`RosterFrozen`), and `CancelledThawsOnlyRaced` says
that only an update overtaken by another write of the same shift breaks it.
`CorrectionFlipsOriginal` fails (`PunchFlip`), and `HalfDoneOnlyCutShort` says
that only a failure or crash at one of the two writes breaks it, never a race
of corrections (`UncutCorrectionsFlip`). `ManagersSeeOwnSites` fails
(`ProxySites`), and `TenantBoundary` says that only an empty list, or one that
falls apart at a comma, breaks it.

Liveness itself is out of reach, but its safety half is not: that the work left
is a natural number, that each step of a request lowers it and that nothing
else raises it. This is `RequestsRunDown`, `RequestsGetThrough`,
`RetriesRunDown` and `HandlersReachAnswers`; what the runs add is that a fair
execution keeps taking such steps.

How the theorems compose: `BookingsAreAssigned` rests on assignments that change
as `AssignmentFeed` says, which `AssignmentsImplementFeed` proves of the module
that writes them. `TenantBoundary` and `ChangesAreAuthorised` rest on calls that
do what `ProcessorPromise` says, which `PromiseKept` proves of the client, and
`ClientUsedAsPromised` says that the handlers ask no more of it. The
theorems of `Adherence` assume writes as `ShiftFeed` and `PunchJournal` allow them, which
`RosterFeedsReaders` and `LedgerImplementsJournal` prove of the modules that write.

Checked by TLC only:

- liveness (`RequestsAnswered`, `CallsAnswered`, `EverythingSettles`): it rests
  on fairness and `ENABLED`, which are out of this prover's reach;
- the three counterexamples.

## Where code and documentation disagree

With a run that shows it:

- *Cancelled shifts can be edited* (`RosterFrozen`). `updateSchedule` tests the
  status of the document it loaded and saves after another await; a
  cancellation in between is not noticed and the cancelled shift gets new
  times. It stays cancelled, though (`ShiftFeedSpec`), and nothing but this race
  does it (`CancelledThawsOnlyRaced`, `SerialCancelledIsFrozen`).
- *A correction may leave its original live* (`PunchFlip`). Replacement and flip
  are two writes. If the first is stored and the second not made or turned down,
  both punches stay live, and nothing repairs them: the acknowledgement of the
  replacement is lost (the trace of the run), the process stops in between, or
  the second write fails. A race of corrections alone does not do it
  (`HalfDoneOnlyCutShort`). The reverse, worked time that disappears, does not happen
  (`LedgerInv`, `ChainsEndLive`).
- *A manager may be shown sites it does not manage* (`ProxySites`). A manager of
  no site asks the processor for every site of the client, since the empty list is
  not forwarded (`punchProcessorClient.ts:176`), and one of the site `A,B` asks
  for `A` and `B`, since the codes are joined by commas, which they may contain
  (`site.validators.ts:16`). The comment on `resolveSiteIdsForProxy` likens the
  list to the clause `{siteId: {$in: siteIds}}`, which matches nothing when empty
  and compares whole codes. `RepliesInScope` and `TenantBoundary` say what is left:
  the client always, the sites in the grid and for a given `siteId` always, and
  for the list if it is not empty and read back as it was meant (`ListHolds`).

Behaviour the models have as well, described here only:

- Two overlapping PATCHes, one of the start and one of the zone, leave a
  `businessDate` that belongs to neither (`scheduledShift.model.ts:16` against
  `schedule.service.ts:141`). `BookUnlessRaced` and `DatesGoWrongOnlyRaced` say
  that this is the only way.
- A PATCH with one bound is compared with nothing (`schedule.validators.ts:18`
  sees only the body, `schedule.service.ts:130` does not repeat it), and the
  items of a bulk create skip the refinement, so a stored shift may end before
  it starts. Such a shift never clashes with anything that starts after its
  start. In the same way the items of a bulk punch may end before they start
  (`punch.validators.ts:26`); a correction may not (`CorrectionsSpanTime`).
- A 401 on the last attempt goes to the caller
  (`punchProcessorClient.ts:125-127`): two attempts fail by the network, the
  token is revoked, the third meets the 401 and there is no attempt left to
  refresh it. `RejectionsAreRevocations`: an expired token never leads to it.
- Changing an employee's code leaves its assignments matching nobody, or
  whoever gets the code later (`employeeSiteAssignment.model.ts:7`,
  `employee.service.ts:92`). `DanglingNeedsRename` and `InheritedNeedsRename`
  say that this is the only way.
- In the schedule list and the adherence report the parameter `siteId` takes the
  place of the site clause of a manager's filter (`schedule.service.ts:96`,
  `:196`); `FilterFor` has it so.
- The correction of a punch that lands while the report scans the punches can
  hide both: the original is met after its status flipped, the replacement's
  place in the scan was passed before it was stored. The shift is then a no-show
  in this report. `NoWorkIsMissed` therefore speaks of punches nobody writes
  meanwhile; the other punches of the shift may change as they like.
- Variances are rounded half up before they meet the thresholds: five and a half
  minutes late is late, five and a half minutes early is not early
  (`schedule.service.ts:242-249`). `ReportIsExact` states the exact times.
- A PATCH of a pay period config that its hook rejects is answered with 500: the
  hook passes a plain `Error` (`payPeriodConfig.model.ts:47`), which
  `errorHandler` does not take for a validation error, although its comment says
  such a rejection "must be a 400 too, not a 500" (`errorHandler.ts:28-31`).
  `HookRejectionsAre500` (`MasterData_proofs`) says that it is so in every case.
- List, single timesheet and audit trail are scoped by client, not by site.
- The query schema of the grid has no `clientId`
  (`timesheetProxy.validators.ts:41`), so a platform administrator's grid covers
  all clients that share the site's code, and one of a single client cannot be
  asked for.
- `z.coerce.boolean()` turns the query string `includeSuperseded=false` into
  true (`timesheetProxy.validators.ts:9`).
- A void or run whose call failed may have happened, or happen later: the
  caller is told of a failure either way (`ProcessorPromise`). With three
  attempts a run may be carried out three times.
- Exit code 0 says that no client was waiting. A handler whose client hung up may
  still be between two writes when the databases are disconnected
  (`server.ts:23`).
- The age of a cached profile is counted from the arrival of the answer, so a
  change of rights is seen a cache time *and a fetch* later
  (`auth.ts:31` says the cache time).

## What is not modelled

- The list and get queries of the modules: they change nothing, and their filters
  are the ones the modelled operations use (`ReadClientFilter`,
  `ReadSiteFilter`, `FilterFor`). Pages, sorting and totals are left out; a
  page and its total are two queries that need not agree.
- The health check, the rate limit and the checks of the configuration at the
  start: each looks at one thing and keeps no state another component reads.
- Custom field definitions: independent documents with one unique index each.
- The catalog of permissions: constant data.
- The content of documents no property tells apart (names, notes, addresses,
  custom fields, `createdBy`, timestamps), and the wording of errors.
- Path segments that URL parsing treats specially (`.` and `..`): the path of the
  grid is taken to name its site and pay period.
- Signature and expiry check of bearer tokens: local and deterministic, a token
  that fails it counts as none.
- The time the shutdown takes: the timer may fire at any moment after the
  signal, which covers every duration.
- The seed script.

## Plan

What would add most from here, in this order:

1. The measures of `SiteAssignments`, `PunchLedger` and `MasterData`, as
   `RequestsRunDown` has them for `Roster`, and runs under fairness beside them.
2. A run for the 401 on the last attempt.
3. A composition of `Roster` and `SiteAssignments` in one state, to check
   directly what `AssignmentFeed` splits.
4. The read side of the remaining modules, once more depends on it than a page.
