------------------------------- MODULE Roster -------------------------------
(* The schedule module of the service (src/src/modules/schedule): shifts are  *)
(* created one by one or in bulk, updated and cancelled by HTTP requests that *)
(* interleave at every await.  Each await on MongoDB is one atomic step, so a *)
(* request's pc names the database call it performs next; everything a        *)
(* handler does between two awaits belongs to the step before.  Assignments   *)
(* (another collection, edited by other requests) may change at any time, a   *)
(* database call may fail, and the process may crash: requests in flight are  *)
(* lost, documents stay.                                                      *)
EXTENDS Integers, Sequences, TenantScope

CONSTANTS
    Requests,       \* concurrent HTTP requests (slots)
    ShiftIds,       \* Mongo ids available for scheduledShifts documents
    Employees,      \* external employee ids
    Zones,          \* IANA time zones
    Offset,         \* Offset[z]: the UTC offset of zone z
    DayLength,      \* instants per calendar day
    Series,         \* seriesId values randomUUID can return
    NoSeries,       \* the null seriesId of a single create
    NoShift,        \* an id no document has
    Absent,         \* a field the PATCH body leaves out
    Callers,        \* principals past authenticate and requirePermission
    Bodies,         \* bodies of POST /schedules
    Batches,        \* bodies of POST /schedules/bulk
    Patches         \* bodies of PATCH /schedules/:id

Body == [ clientId: Clients, employeeId: Employees, siteId: Sites,
          shiftStart: Int, shiftEnd: Int, timezone: Zones ]

Patch == [ shiftStart: Int \union {Absent}, shiftEnd: Int \union {Absent},
           timezone: Zones \union {Absent} ]

\* A scheduledShifts document; task, notes, createdBy and the timestamps are left out.
ShiftDoc == [ clientId: Clients, employeeId: Employees, siteId: Sites,
              shiftStart: Int, shiftEnd: Int, timezone: Zones, businessDate: Int,
              status: {"scheduled", "cancelled"}, seriesId: Series \union {NoSeries} ]

Assignment == Clients \X Employees \X Sites

ASSUME RosterAssumption ==
    /\ Offset \in [Zones -> Int]
    /\ DayLength \in Nat \ {0}
    /\ NoSeries \notin Series
    /\ NoShift \notin ShiftDoc
    /\ ShiftIds \intersect Assignment = {}
    /\ Absent \notin Int /\ Absent \notin Zones
    /\ Callers \subseteq Principal
    /\ Bodies \subseteq Body
    /\ Batches \subseteq Seq(Body) \ {<<>>}
    /\ Patches \subseteq Patch

VARIABLES
    shifts,         \* the scheduledShifts collection
    assigned,       \* the employee/site assignments whose status is "active"
    usedSeries,     \* seriesIds handed out so far (randomUUID never repeats)
    req,            \* the state of each request
    stale           \* history: what a request has read and others changed since

vars == <<shifts, assigned, usedSeries, req, stale>>

-----------------------------------------------------------------------------
(* Requests.  A single create is a batch of one without a series: the error   *)
(* it throws is the one the batch loop records.                               *)

Idle == [pc |-> "idle"]

CreateRequest ==
    [ pc: {"assign", "overlap", "insert", "respond"}, caller: Callers,
      batch: Seq(Body), pos: Nat, seriesId: Series \union {NoSeries},
      accepted: SUBSET (Nat \X ShiftIds), rejected: SUBSET Nat ]

UpdateRequest == [ pc: {"recheck", "save"}, caller: Callers, id: ShiftIds,
                   snap: ShiftDoc, patch: Patch ]

CancelRequest == [ pc: {"cancel"}, caller: Callers, id: ShiftIds ]

Current(w) == req[w].batch[req[w].pos]
AssignmentOf(b) == <<b.clientId, b.employeeId, b.siteId>>
Watching == {w \in Requests : req[w].pc \in {"overlap", "insert", "recheck", "save"}}

\* What MongoDB holds.
StoreTypeOK ==
    /\ shifts \in [ShiftIds -> ShiftDoc \union {NoShift}]
    /\ assigned \in SUBSET Assignment
    /\ usedSeries \in SUBSET Series

\* What the process holds for the requests in flight.
FlightTypeOK ==
    /\ req \in [Requests -> {Idle} \union CreateRequest \union UpdateRequest \union CancelRequest]
    /\ \A w \in Requests : req[w].pc \in {"assign", "overlap", "insert"} =>
                              req[w].pos \in 1..Len(req[w].batch)
    /\ stale \in [Requests -> SUBSET (ShiftIds \union Assignment)]

TypeOK == StoreTypeOK /\ FlightTypeOK

-----------------------------------------------------------------------------
(* Data. *)

BusinessDate(instant, zone) == (instant + Offset[zone]) \div DayLength

EndsAfterStart(b) == b.shiftEnd > b.shiftStart

\* superRefine on the PATCH body compares the two bounds only when both are given.
PatchAccepted(p) == (p.shiftStart # Absent /\ p.shiftEnd # Absent) => EndsAfterStart(p)

PatchesRange(p) == p.shiftStart # Absent \/ p.shiftEnd # Absent

ScheduledFor(d, clientId, employeeId) ==
    /\ d # NoShift
    /\ d.status = "scheduled"
    /\ d.clientId = clientId
    /\ d.employeeId = employeeId

Overlaps(d, start, end) == d.shiftStart < end /\ d.shiftEnd > start

\* Mutant: only looks for shifts that start inside the new range.
NoOverlap_StartInside(clientId, employeeId, start, end, excluded) ==
    \A i \in ShiftIds \ excluded :
        ~( /\ ScheduledFor(shifts[i], clientId, employeeId)
           /\ start <= shifts[i].shiftStart /\ shifts[i].shiftStart < end )

\* assertNoOverlap: no scheduled shift of the employee, except those in excluded, meets the range.
NoOverlap(clientId, employeeId, start, end, excluded) ==
    \A i \in ShiftIds \ excluded :
        ~(ScheduledFor(shifts[i], clientId, employeeId) /\ Overlaps(shifts[i], start, end))

\* Mutant: takes the date in UTC.
NewShift_UtcDate(b, series) ==
    [ clientId |-> b.clientId, employeeId |-> b.employeeId, siteId |-> b.siteId,
      shiftStart |-> b.shiftStart, shiftEnd |-> b.shiftEnd, timezone |-> b.timezone,
      businessDate |-> b.shiftStart \div DayLength,
      status |-> "scheduled", seriesId |-> series ]

NewShift(b, series) ==
    [ clientId |-> b.clientId, employeeId |-> b.employeeId, siteId |-> b.siteId,
      shiftStart |-> b.shiftStart, shiftEnd |-> b.shiftEnd, timezone |-> b.timezone,
      businessDate |-> BusinessDate(b.shiftStart, b.timezone),
      status |-> "scheduled", seriesId |-> series ]

OrElse(given, old) == IF given = Absent THEN old ELSE given

\* Mutant: a new zone alone does not recompute the date.
Patched_StartOnly(d, p) ==
    LET start == OrElse(p.shiftStart, d.shiftStart)
        zone  == OrElse(p.timezone, d.timezone)
    IN  [ d EXCEPT !.shiftStart = start,
                   !.shiftEnd = OrElse(p.shiftEnd, d.shiftEnd),
                   !.timezone = zone,
                   !.businessDate = IF p.shiftStart # Absent
                                    THEN BusinessDate(start, zone) ELSE @ ]

\* The document in memory after updateSchedule has assigned the patched fields.
Patched(d, p) ==
    LET start == OrElse(p.shiftStart, d.shiftStart)
        zone  == OrElse(p.timezone, d.timezone)
    IN  [ d EXCEPT !.shiftStart = start,
                   !.shiftEnd = OrElse(p.shiftEnd, d.shiftEnd),
                   !.timezone = zone,
                   !.businessDate = IF p.shiftStart # Absent \/ p.timezone # Absent
                                    THEN BusinessDate(start, zone) ELSE @ ]

\* Document.save() sends only the paths that differ from the loaded document.
IfModified(new, loaded, current) == IF new # loaded THEN new ELSE current

\* Mutant: writes the whole document back.
Saved_Whole(current, loaded, new) == new

Saved(current, loaded, new) ==
    [ current EXCEPT
        !.shiftStart = IfModified(new.shiftStart, loaded.shiftStart, @),
        !.shiftEnd = IfModified(new.shiftEnd, loaded.shiftEnd, @),
        !.timezone = IfModified(new.timezone, loaded.timezone, @),
        !.businessDate = IfModified(new.businessDate, loaded.businessDate, @),
        !.status = IfModified(new.status, loaded.status, @) ]

-----------------------------------------------------------------------------
(* Bookkeeping of the history variable: request w, whose turn it is, still    *)
(* relies on what is in kept; every other request that has read something     *)
(* gains the shifts this step changes.                                        *)

Observe(w, kept, changed) ==
    stale' = [ v \in Requests |-> IF v = w THEN stale[v] \intersect kept
                                  ELSE IF v \in Watching THEN stale[v] \union changed
                                  ELSE stale[v] ]

\* The request is answered, or gives up with an error.
End(w, changed) == req' = [req EXCEPT ![w] = Idle] /\ Observe(w, {}, changed)

\* Mutant: checks the assignment only for the first item of a batch.
NextItem_SameAssignment(w, accepted, rejected, changed) ==
    /\ req' = [ req EXCEPT ![w].pc = IF req[w].pos = Len(req[w].batch) THEN "respond" ELSE "overlap",
                           ![w].pos = @ + 1,
                           ![w].accepted = @ \union accepted,
                           ![w].rejected = @ \union rejected ]
    /\ Observe(w, {}, changed)

\* The batch loop moves on; the last item leads to the 201/207 response.
NextItem(w, accepted, rejected, changed) ==
    /\ req' = [ req EXCEPT ![w].pc = IF req[w].pos = Len(req[w].batch) THEN "respond" ELSE "assign",
                           ![w].pos = @ + 1,
                           ![w].accepted = @ \union accepted,
                           ![w].rejected = @ \union rejected ]
    /\ Observe(w, {}, changed)

\* Mutant: reports the index of the item that comes next.
Reject_NextIndex(w, changed) == NextItem(w, {}, {req[w].pos + 1}, changed)

\* Mutant: tries the same item again until it succeeds.
Reject_TryAgain(w, changed) ==
    /\ req' = [req EXCEPT ![w].pc = "assign"]
    /\ Observe(w, {}, changed)

Reject(w, changed) == NextItem(w, {}, {req[w].pos}, changed)

-----------------------------------------------------------------------------
(* POST /schedules and POST /schedules/bulk *)

\* Mutant: looks at the first item only.
BatchInScope_First(p, batch) == SameSite(p, batch[1].clientId, batch[1].siteId)

\* The controllers check every item before the service is called.
BatchInScope(p, batch) ==
    \A k \in 1..Len(batch) : SameSite(p, batch[k].clientId, batch[k].siteId)

Begin(w, p, batch, series) ==
    /\ req[w] = Idle
    /\ BatchInScope(p, batch)
    /\ req' = [ req EXCEPT ![w] =
                  [ pc |-> "assign", caller |-> p, batch |-> batch, pos |-> 1,
                    seriesId |-> series, accepted |-> {}, rejected |-> {} ] ]
    /\ UNCHANGED <<shifts, assigned, stale>>

BeginCreate(w) ==
    \E p \in Callers, b \in Bodies :
        /\ EndsAfterStart(b)
        /\ Begin(w, p, <<b>>, NoSeries)
        /\ UNCHANGED usedSeries

\* The bulk schema does not apply the refinement on each element.
BeginBulk(w) ==
    \E p \in Callers, batch \in Batches, s \in Series \ usedSeries :
        /\ Begin(w, p, batch, s)
        /\ usedSeries' = usedSeries \union {s}

CheckAssignment(w) ==
    /\ req[w].pc = "assign"
    /\ UNCHANGED <<shifts, assigned, usedSeries>>
    /\ \/ /\ AssignmentOf(Current(w)) \in assigned
          /\ req' = [req EXCEPT ![w].pc = "overlap"]
          /\ Observe(w, {}, {})
       \/ /\ AssignmentOf(Current(w)) \notin assigned
          /\ Reject(w, {})

CheckOverlap(w) ==
    /\ req[w].pc = "overlap"
    /\ UNCHANGED <<shifts, assigned, usedSeries>>
    /\ LET b == Current(w)
           free == NoOverlap(b.clientId, b.employeeId, b.shiftStart, b.shiftEnd, {})
       IN  \/ /\ free
              /\ req' = [req EXCEPT ![w].pc = "insert"]
              /\ Observe(w, {AssignmentOf(b)}, {})
           \/ /\ ~free
              /\ Reject(w, {})

\* The insert may be applied and its acknowledgement lost: then the item is reported as rejected.
InsertShift(w) ==
    /\ req[w].pc = "insert"
    /\ \E i \in ShiftIds :
          /\ shifts[i] = NoShift
          /\ shifts' = [shifts EXCEPT ![i] = NewShift(Current(w), req[w].seriesId)]
          /\ \/ NextItem(w, {<<req[w].pos, i>>}, {}, {i})
             \/ Reject(w, {i})
    /\ UNCHANGED <<assigned, usedSeries>>

Respond(w) ==
    /\ req[w].pc = "respond"
    /\ End(w, {})
    /\ UNCHANGED <<shifts, assigned, usedSeries>>

-----------------------------------------------------------------------------
(* PATCH /schedules/:id *)

\* "Cannot edit a cancelled shift"
Editable(d) == d.status # "cancelled"

\* findOne, then the status check and the merge of the patch with the loaded document.
FindForUpdate(w) ==
    /\ req[w] = Idle
    /\ \E p \in Callers, i \in ShiftIds, patch \in Patches, requested \in Clients \union {NoClient} :
          /\ PatchAccepted(patch)
          /\ MayScope(p)
          /\ shifts[i] # NoShift
          /\ Matches(shifts[i], ReadSiteFilter(p, requested))
          /\ Editable(shifts[i])
          /\ req' = [ req EXCEPT ![w] =
                        [ pc |-> IF PatchesRange(patch) THEN "recheck" ELSE "save",
                          caller |-> p, id |-> i, snap |-> shifts[i], patch |-> patch ] ]
    /\ UNCHANGED <<shifts, assigned, usedSeries, stale>>

RecheckOverlap(w) ==
    /\ req[w].pc = "recheck"
    /\ UNCHANGED <<shifts, assigned, usedSeries>>
    /\ LET d == Patched(req[w].snap, req[w].patch)
           free == NoOverlap(d.clientId, d.employeeId, d.shiftStart, d.shiftEnd, {req[w].id})
       IN  \/ /\ free
              /\ req' = [req EXCEPT ![w].pc = "save"]
              /\ Observe(w, {req[w].id}, {})
           \/ /\ ~free
              /\ End(w, {})

SaveUpdate(w) ==
    /\ req[w].pc = "save"
    /\ LET r == req[w]
           doc == Saved(shifts[r.id], r.snap, Patched(r.snap, r.patch))
       IN  /\ shifts' = [shifts EXCEPT ![r.id] = doc]
           /\ End(w, {i \in {r.id} : doc # shifts[i]})
    /\ UNCHANGED <<assigned, usedSeries>>

-----------------------------------------------------------------------------
(* POST /schedules/:id/cancel.  The status is not looked at. *)

FindForCancel(w) ==
    /\ req[w] = Idle
    /\ \E p \in Callers, i \in ShiftIds, requested \in Clients \union {NoClient} :
          /\ MayScope(p)
          /\ shifts[i] # NoShift
          /\ Matches(shifts[i], ReadSiteFilter(p, requested))
          /\ req' = [req EXCEPT ![w] = [pc |-> "cancel", caller |-> p, id |-> i]]
    /\ UNCHANGED <<shifts, assigned, usedSeries, stale>>

SaveCancel(w) ==
    /\ req[w].pc = "cancel"
    /\ shifts' = [shifts EXCEPT ![req[w].id].status = "cancelled"]
    /\ End(w, {i \in {req[w].id} : shifts[i].status # "cancelled"})
    /\ UNCHANGED <<assigned, usedSeries>>

-----------------------------------------------------------------------------
(* Failures and the environment. *)

\* The pending database call of w fails without effect: the batch loop records it, other handlers throw.
CallFails(w) ==
    /\ \/ req[w].pc \in {"assign", "overlap", "insert"} /\ Reject(w, {})
       \/ req[w].pc \in {"recheck", "save", "cancel"} /\ End(w, {})
    /\ UNCHANGED <<shifts, assigned, usedSeries>>

Crash ==
    /\ req' = [w \in Requests |-> Idle]
    /\ stale' = [w \in Requests |-> {}]
    /\ UNCHANGED <<shifts, assigned, usedSeries>>

\* An assignment is created or set to active.
Activate(t) ==
    /\ t \notin assigned
    /\ assigned' = assigned \union {t}
    /\ UNCHANGED <<shifts, usedSeries, req, stale>>

\* An assignment is set to inactive or deleted.
Deactivate(t) ==
    /\ t \in assigned
    /\ assigned' = assigned \ {t}
    /\ stale' = [ w \in Requests |->
                    IF req[w].pc \in {"overlap", "insert"} THEN stale[w] \union {t} ELSE stale[w] ]
    /\ UNCHANGED <<shifts, usedSeries, req>>

-----------------------------------------------------------------------------

Init ==
    /\ shifts = [i \in ShiftIds |-> NoShift]
    /\ assigned \in SUBSET Assignment
    /\ usedSeries = {}
    /\ req = [w \in Requests |-> Idle]
    /\ stale = [w \in Requests |-> {}]

\* The steps of a request that has been accepted; each awaited call settles one way or the other.
Proceed(w) ==
    \/ CheckAssignment(w)
    \/ CheckOverlap(w)
    \/ InsertShift(w)
    \/ Respond(w)
    \/ RecheckOverlap(w)
    \/ SaveUpdate(w)
    \/ SaveCancel(w)
    \/ CallFails(w)

Next ==
    \/ \E w \in Requests :
          \/ BeginCreate(w)
          \/ BeginBulk(w)
          \/ FindForUpdate(w)
          \/ FindForCancel(w)
          \/ Proceed(w)
    \/ Crash
    \/ \E t \in Assignment : Activate(t) \/ Deactivate(t)

Spec == Init /\ [][Next]_vars

FairSpec == Spec /\ \A w \in Requests : WF_vars(Proceed(w))

-----------------------------------------------------------------------------
(* Properties *)

\* Two scheduled shifts of one employee that share an instant.
Clash(S, i, j) ==
    /\ i # j
    /\ S[i] # NoShift /\ S[i].status = "scheduled"
    /\ ScheduledFor(S[j], S[i].clientId, S[i].employeeId)
    /\ Overlaps(S[j], S[i].shiftStart, S[i].shiftEnd)

(* Double booking (comment on assertNoOverlap).  Holds only when requests do  *)
(* not overlap in time: it is checked for a single request slot.              *)
NoDoubleBooking == \A i, j \in ShiftIds : ~Clash(shifts, i, j)

(* What the check-then-write of assertNoOverlap guarantees when requests do   *)
(* interleave: a clash is never produced by one request alone.  The request   *)
(* that writes it must have read one of the two shifts before another request *)
(* changed it, so every double booking has two requests racing.               *)
NewClashNeedsRace ==
    [][ \A i, j \in ShiftIds :
          Clash(shifts', i, j) /\ ~Clash(shifts, i, j) =>
            \E w \in Requests : /\ req[w].pc \in {"insert", "save"}
                               /\ req'[w] # req[w]
                               /\ {i, j} \intersect stale[w] # {} ]_vars

(* "Cannot edit a cancelled shift" (updateSchedule): a cancelled shift keeps  *)
(* its interval, zone and date.  Holds for a single request slot; an update   *)
(* that raced the cancellation still writes its fields.                       *)
CancelledIsFrozen ==
    [][ \A i \in ShiftIds :
          shifts[i] # NoShift /\ shifts[i].status = "cancelled" =>
            shifts'[i] = shifts[i] ]_vars

(* businessDate is the date of shiftStart in the shift's own zone             *)
(* (scheduledShift.model.ts).  Holds for a single request slot; two updates   *)
(* that patch the start and the zone leave a date of neither.                 *)
BusinessDateMatches ==
    \A i \in ShiftIds : shifts[i] # NoShift =>
        shifts[i].businessDate = BusinessDate(shifts[i].shiftStart, shifts[i].timezone)

(* A shift is only ever booked for an active assignment                       *)
(* (assertEmployeeSiteAssignmentActive), unless the assignment was withdrawn  *)
(* between that check and the insert.                                         *)
BookingNeedsAssignment ==
    [][ \A i \in ShiftIds : shifts[i] = NoShift /\ shifts'[i] # NoShift =>
          \/ AssignmentOf(shifts'[i]) \in assigned
          \/ \E w \in Requests : /\ req[w].pc = "insert"
                                /\ req'[w] # req[w]
                                /\ AssignmentOf(shifts'[i]) \in stale[w] ]_vars

(* Whatever a request writes lies in its caller's scope at the time of the    *)
(* write: the filter of the first read still covers the document when the     *)
(* handler saves it (getReadSiteFilter, assertSameSite), also halfway through *)
(* a batch.                                                                   *)
WritesStayInScope ==
    [][ \A i \in ShiftIds : shifts'[i] # shifts[i] =>
          \E w \in Requests :
             /\ req[w] # Idle /\ req'[w] # req[w]
             /\ Matches(shifts'[i], ReadSiteFilter(req[w].caller, NoClient)) ]_vars

Creating(w) == req[w] \in CreateRequest
Reported(w) == {a[1] : a \in req[w].accepted} \union req[w].rejected

(* The 207 answer of bulkCreateSchedules accounts for every item exactly      *)
(* once, failures in the middle of the batch included, and each accepted item *)
(* is a stored shift of the series with the employee and site of that item.   *)
BulkReportSound ==
    \A w \in Requests : Creating(w) =>
        /\ Reported(w) = 1..(req[w].pos - 1)
        /\ req[w].pc = "respond" => Reported(w) = 1..Len(req[w].batch)
        /\ \A a \in req[w].accepted :
              /\ a[1] \notin req[w].rejected
              /\ shifts[a[2]] # NoShift
              /\ shifts[a[2]].seriesId = req[w].seriesId
              /\ AssignmentOf(shifts[a[2]]) = AssignmentOf(req[w].batch[a[1]])
              /\ \A b \in req[w].accepted : (a[1] = b[1]) <=> (a[2] = b[2])

(* Every accepted request is answered: the batch loop ends whatever fails.    *)
RequestsAnswered == \A w \in Requests : req[w] # Idle ~> req[w] = Idle

-----------------------------------------------------------------------------
(* The strengthening that makes the race property inductive. *)

\* Scheduled shifts of the employee that w has not missed a change of stay clear of the range.
ClearOf(w, d, excluded) ==
    \A i \in ShiftIds \ (excluded \union stale[w]) :
        ~(ScheduledFor(shifts[i], d.clientId, d.employeeId) /\ Overlaps(shifts[i], d.shiftStart, d.shiftEnd))

\* Between the overlap check and the insert, what the check found still holds of shifts not in stale.
InsertIsClear(w) == req[w].pc = "insert" => ClearOf(w, Current(w), {})

\* The same for the merged range of an update.
SaveIsClear(w) ==
    req[w].pc = "save" /\ PatchesRange(req[w].patch) =>
        ClearOf(w, Patched(req[w].snap, req[w].patch), {req[w].id})

(* A loaded document is still stored, belongs to the same employee, and is    *)
(* unchanged unless some other request wrote it since.                        *)
LoadedIsStored(w) ==
    /\ req[w].pc \in {"recheck", "save"} =>
          /\ shifts[req[w].id] # NoShift
          /\ shifts[req[w].id].clientId = req[w].snap.clientId
          /\ shifts[req[w].id].employeeId = req[w].snap.employeeId
          /\ req[w].id \notin stale[w] => shifts[req[w].id] = req[w].snap
    /\ req[w].pc = "cancel" => shifts[req[w].id] # NoShift

(* The types, and what every request in flight may rely on: the inductive     *)
(* invariant behind NewClashNeedsRace.                                        *)
RosterInv ==
    /\ TypeOK
    /\ \A w \in Requests : LoadedIsStored(w) /\ InsertIsClear(w) /\ SaveIsClear(w)

(* With a single request slot the module implements the book of RosterBook:   *)
(* every insert and save is one atomic booking, move or cancellation.         *)
Book == INSTANCE RosterBook WITH book <- shifts

BookSpec == Book!Spec

\* Request w was told of a change to a shift since it read the collection, and now acts on what it read.
ActsOnStale(w) ==
    /\ req[w].pc \in {"insert", "save"}
    /\ req'[w] # req[w]
    /\ stale[w] \intersect ShiftIds # {}

(* The races of assertNoOverlap and updateSchedule are the only way the book  *)
(* goes wrong: from a book without double bookings and with the right dates,  *)
(* every write is one atomic step of RosterBook, unless its request read the  *)
(* collection before another request changed a shift.                         *)
BookUnlessRaced ==
    [][ NoDoubleBooking /\ BusinessDateMatches =>
          \/ Book!Next
          \/ UNCHANGED shifts
          \/ \E w \in Requests : ActsOnStale(w) ]_vars

(* However the requests race, readers see the feed of ShiftFeed: a shift      *)
(* appears scheduled, keeps its employee, site and series, is never removed,  *)
(* and once cancelled stays cancelled, also when an update loaded it before   *)
(* the cancellation and saves it afterwards (Document.save in updateSchedule  *)
(* and cancelSchedule).                                                       *)
Feed == INSTANCE ShiftFeed WITH feed <- shifts

ShiftFeedSpec == Feed!Spec
=============================================================================
