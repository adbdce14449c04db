--------------------------- MODULE Roster_proofs ----------------------------
(* Proofs about Roster for every number of requests, shifts, employees and    *)
(* clients, and every set of request bodies.                                  *)
EXTENDS Roster, TLAPS

-----------------------------------------------------------------------------
(* Facts about the building blocks of the model. *)

\* The pc of a request says which record it is.
LEMMA RequestKind ==
    ASSUME FlightTypeOK, NEW w \in Requests
    PROVE  /\ req[w].pc \in {"assign", "overlap", "insert", "respond"} => req[w] \in CreateRequest
           /\ req[w].pc \in {"recheck", "save"} => req[w] \in UpdateRequest
           /\ req[w].pc = "cancel" => req[w] \in CancelRequest
    BY DEF FlightTypeOK, Idle, CreateRequest, UpdateRequest, CancelRequest

\* The date a document is given is an integer, whatever the zone.
LEMMA BusinessDateType ==
    ASSUME NEW t \in Int, NEW z \in Zones
    PROVE  BusinessDate(t, z) \in Int
    BY RosterAssumption DEF BusinessDate

\* A body becomes a well-formed document of the same employee.
LEMMA NewShiftType ==
    ASSUME NEW b \in Body, NEW s \in Series \union {NoSeries}
    PROVE  NewShift(b, s) \in ShiftDoc
    BY BusinessDateType DEF NewShift, ShiftDoc, Body

\* Patching keeps the owner, the series and the status of a document.
LEMMA PatchedType ==
    ASSUME NEW d \in ShiftDoc, NEW p \in Patch
    PROVE  /\ Patched(d, p) \in ShiftDoc
           /\ Patched(d, p).clientId = d.clientId
           /\ Patched(d, p).employeeId = d.employeeId
           /\ Patched(d, p).status = d.status
  <1>1. OrElse(p.shiftStart, d.shiftStart) \in Int
    BY RosterAssumption DEF OrElse, Patch, ShiftDoc
  <1>2. OrElse(p.shiftEnd, d.shiftEnd) \in Int
    BY RosterAssumption DEF OrElse, Patch, ShiftDoc
  <1>3. OrElse(p.timezone, d.timezone) \in Zones
    BY RosterAssumption DEF OrElse, Patch, ShiftDoc
  <1>4. BusinessDate(OrElse(p.shiftStart, d.shiftStart), OrElse(p.timezone, d.timezone)) \in Int
    BY <1>1, <1>3, BusinessDateType
  <1>. QED
    BY <1>1, <1>2, <1>3, <1>4 DEF Patched, ShiftDoc

\* Saving keeps the owner of the stored document, and its status when the patch does not touch it.
LEMMA SavedType ==
    ASSUME NEW cur \in ShiftDoc, NEW loaded \in ShiftDoc, NEW new \in ShiftDoc
    PROVE  /\ Saved(cur, loaded, new) \in ShiftDoc
           /\ Saved(cur, loaded, new).clientId = cur.clientId
           /\ Saved(cur, loaded, new).employeeId = cur.employeeId
           /\ Saved(cur, loaded, new).siteId = cur.siteId
           /\ Saved(cur, loaded, new).seriesId = cur.seriesId
           /\ new.status = loaded.status => Saved(cur, loaded, new).status = cur.status
    BY DEF Saved, IfModified, ShiftDoc

\* Saving over the document that was loaded stores the range and status in memory.
LEMMA SavedOverLoaded ==
    ASSUME NEW loaded \in ShiftDoc, NEW new \in ShiftDoc
    PROVE  /\ Saved(loaded, loaded, new).shiftStart = new.shiftStart
           /\ Saved(loaded, loaded, new).shiftEnd = new.shiftEnd
           /\ Saved(loaded, loaded, new).status = new.status
    BY DEF Saved, IfModified, ShiftDoc

-----------------------------------------------------------------------------
(* Type correctness of the request records under the shared sub-actions. *)

LEMMA ObserveType ==
    ASSUME FlightTypeOK, NEW w \in Requests, NEW kept, NEW changed \in SUBSET ShiftIds,
           Observe(w, kept, changed)
    PROVE  stale' \in [Requests -> SUBSET (ShiftIds \union Assignment)]
    BY DEF FlightTypeOK, Observe

LEMMA EndType ==
    ASSUME FlightTypeOK, NEW w \in Requests, NEW changed \in SUBSET ShiftIds, End(w, changed)
    PROVE  FlightTypeOK'
  <1>1. stale' \in [Requests -> SUBSET (ShiftIds \union Assignment)]
    BY ObserveType DEF End
  <1>. QED
    BY <1>1 DEF FlightTypeOK, End, Idle

LEMMA NextItemType ==
    ASSUME FlightTypeOK, NEW w \in Requests, req[w].pc \in {"assign", "overlap", "insert"},
           NEW accepted \in SUBSET (Nat \X ShiftIds), NEW rejected \in SUBSET Nat,
           NEW changed \in SUBSET ShiftIds, NextItem(w, accepted, rejected, changed)
    PROVE  FlightTypeOK'
  <1>1. stale' \in [Requests -> SUBSET (ShiftIds \union Assignment)]
    BY ObserveType DEF NextItem
  <1>2. req[w] \in CreateRequest /\ req[w].pos \in 1..Len(req[w].batch)
    BY RequestKind DEF FlightTypeOK
  <1>3. req[w].batch \in Seq(Body) /\ Len(req[w].batch) \in Nat
    BY <1>2 DEF CreateRequest
  <1>4. /\ req'[w] \in CreateRequest
        /\ req'[w].pc \in {"assign", "overlap", "insert"} => req'[w].pos \in 1..Len(req'[w].batch)
    BY <1>2, <1>3 DEF NextItem, CreateRequest, FlightTypeOK
  <1>5. \A v \in Requests \ {w} : req'[v] = req[v]
    BY DEF NextItem, FlightTypeOK
  <1>. QED
    BY <1>1, <1>4, <1>5 DEF FlightTypeOK, NextItem

-----------------------------------------------------------------------------
(* Type correctness, together with the fact it needs: the document a request  *)
(* has loaded is still stored and has the same owner.                         *)

TypeInv == TypeOK /\ \A w \in Requests : LoadedIsStored(w)

LEMMA TypeInit == Init => TypeInv
    BY DEF Init, TypeInv, TypeOK, StoreTypeOK, FlightTypeOK, LoadedIsStored, Idle

LEMMA BeginType ==
    ASSUME TypeOK, NEW w \in Requests, NEW p \in Callers, NEW batch \in Seq(Body) \ {<<>>},
           NEW s \in Series \union {NoSeries}, Begin(w, p, batch, s)
    PROVE  FlightTypeOK' /\ shifts' = shifts /\ assigned' = assigned
  <1>1. Len(batch) \in Nat /\ 1 \in 1..Len(batch)
    OBVIOUS
  <1>2. req'[w] \in CreateRequest /\ req'[w].pos \in 1..Len(req'[w].batch)
    BY <1>1 DEF Begin, CreateRequest, TypeOK, FlightTypeOK
  <1>. QED
    BY <1>2 DEF Begin, TypeOK, FlightTypeOK

LEMMA CurrentType ==
    ASSUME FlightTypeOK, NEW w \in Requests, req[w].pc \in {"assign", "overlap", "insert"}
    PROVE  /\ Current(w) \in Body
           /\ req[w].pos \in Nat
           /\ req[w].seriesId \in Series \union {NoSeries}
           /\ AssignmentOf(Current(w)) \in Assignment
  <1>1. req[w] \in CreateRequest /\ req[w].pos \in 1..Len(req[w].batch)
    BY RequestKind DEF FlightTypeOK
  <1>2. Current(w) \in Body
    BY <1>1 DEF CreateRequest, Current
  <1>. QED
    BY <1>1, <1>2 DEF CreateRequest, Body, AssignmentOf, Assignment

LEMMA NextTypeOK ==
    ASSUME TypeInv, [Next]_vars
    PROVE  TypeOK'
  <1>. USE DEF TypeInv, TypeOK
  <1>1. ASSUME NEW w \in Requests, BeginCreate(w)
        PROVE  TypeOK'
    <2>1. PICK p \in Callers, b \in Bodies : Begin(w, p, <<b>>, NoSeries)
      BY <1>1 DEF BeginCreate
    <2>2. <<b>> \in Seq(Body) \ {<<>>}
      BY RosterAssumption
    <2>. QED
      BY <1>1, <2>1, <2>2, BeginType DEF BeginCreate, StoreTypeOK
  <1>2. ASSUME NEW w \in Requests, BeginBulk(w)
        PROVE  TypeOK'
    <2>1. PICK p \in Callers, batch \in Batches, s \in Series \ usedSeries :
              Begin(w, p, batch, s) /\ usedSeries' = usedSeries \union {s}
      BY <1>2 DEF BeginBulk
    <2>2. batch \in Seq(Body) \ {<<>>}
      BY RosterAssumption
    <2>. QED
      BY <2>1, <2>2, BeginType DEF StoreTypeOK
  <1>3. ASSUME NEW w \in Requests, FindForUpdate(w)
        PROVE  TypeOK'
    <2>1. PICK p \in Callers, i \in ShiftIds, patch \in Patches :
             /\ shifts[i] # NoShift
             /\ req' = [ req EXCEPT ![w] =
                           [ pc |-> IF PatchesRange(patch) THEN "recheck" ELSE "save",
                             caller |-> p, id |-> i, snap |-> shifts[i], patch |-> patch ] ]
             /\ UNCHANGED <<shifts, assigned, usedSeries, stale>>
      BY <1>3 DEF FindForUpdate
    <2>2. req'[w] \in UpdateRequest
      BY <2>1, RosterAssumption DEF StoreTypeOK, FlightTypeOK, UpdateRequest
    <2>. QED
      BY <2>1, <2>2 DEF StoreTypeOK, FlightTypeOK, UpdateRequest
  <1>4. ASSUME NEW w \in Requests, FindForCancel(w)
        PROVE  TypeOK'
    <2>1. PICK p \in Callers, i \in ShiftIds :
             /\ req' = [req EXCEPT ![w] = [pc |-> "cancel", caller |-> p, id |-> i]]
             /\ UNCHANGED <<shifts, assigned, usedSeries, stale>>
      BY <1>4 DEF FindForCancel
    <2>2. req'[w] \in CancelRequest
      BY <2>1 DEF FlightTypeOK, CancelRequest
    <2>. QED
      BY <2>1, <2>2 DEF StoreTypeOK, FlightTypeOK, CancelRequest
  <1>5. ASSUME NEW w \in Requests, CheckAssignment(w)
        PROVE  TypeOK'
    <2>1. CASE Reject(w, {})
      <3>1. {req[w].pos} \in SUBSET Nat
        BY <1>5, CurrentType DEF CheckAssignment
      <3>. QED
        BY <1>5, <2>1, <3>1, NextItemType DEF CheckAssignment, Reject, StoreTypeOK
    <2>2. CASE req' = [req EXCEPT ![w].pc = "overlap"] /\ Observe(w, {}, {})
      <3>1. req[w] \in CreateRequest
        BY <1>5, RequestKind DEF CheckAssignment
      <3>2. req'[w] \in CreateRequest /\ req'[w].pos = req[w].pos /\ req'[w].batch = req[w].batch
        BY <2>2, <3>1 DEF CreateRequest, FlightTypeOK
      <3>. QED
        BY <1>5, <2>2, <3>2, ObserveType DEF CheckAssignment, StoreTypeOK, FlightTypeOK
    <2>. QED
      BY <1>5, <2>1, <2>2 DEF CheckAssignment
  <1>6. ASSUME NEW w \in Requests, CheckOverlap(w)
        PROVE  TypeOK'
    <2>1. CASE Reject(w, {})
      <3>1. {req[w].pos} \in SUBSET Nat
        BY <1>6, CurrentType DEF CheckOverlap
      <3>. QED
        BY <1>6, <2>1, <3>1, NextItemType DEF CheckOverlap, Reject, StoreTypeOK
    <2>2. CASE /\ req' = [req EXCEPT ![w].pc = "insert"]
               /\ Observe(w, {AssignmentOf(Current(w))}, {})
      <3>1. req[w] \in CreateRequest
        BY <1>6, RequestKind DEF CheckOverlap
      <3>2. req'[w] \in CreateRequest /\ req'[w].pos = req[w].pos /\ req'[w].batch = req[w].batch
        BY <2>2, <3>1 DEF CreateRequest, FlightTypeOK
      <3>. QED
        BY <1>6, <2>2, <3>2, ObserveType DEF CheckOverlap, StoreTypeOK, FlightTypeOK
    <2>. QED
      BY <1>6, <2>1, <2>2 DEF CheckOverlap
  <1>7. ASSUME NEW w \in Requests, InsertShift(w)
        PROVE  TypeOK'
    <2>1. PICK i \in ShiftIds :
             /\ shifts' = [shifts EXCEPT ![i] = NewShift(Current(w), req[w].seriesId)]
             /\ NextItem(w, {<<req[w].pos, i>>}, {}, {i}) \/ Reject(w, {i})
      BY <1>7 DEF InsertShift
    <2>2. NewShift(Current(w), req[w].seriesId) \in ShiftDoc
      BY <1>7, CurrentType, NewShiftType DEF InsertShift
    <2>3. StoreTypeOK'
      BY <1>7, <2>1, <2>2 DEF InsertShift, StoreTypeOK
    <2>4. /\ {<<req[w].pos, i>>} \in SUBSET (Nat \X ShiftIds)
          /\ {req[w].pos} \in SUBSET Nat
          /\ {i} \in SUBSET ShiftIds
          /\ req[w].pc \in {"assign", "overlap", "insert"}
      BY <1>7, CurrentType DEF InsertShift
    <2>5. FlightTypeOK'
      BY <2>1, <2>4, NextItemType DEF Reject
    <2>. QED
      BY <2>3, <2>5
  <1>8. ASSUME NEW w \in Requests, Respond(w)
        PROVE  TypeOK'
    BY <1>8, EndType DEF Respond, StoreTypeOK
  <1>9. ASSUME NEW w \in Requests, RecheckOverlap(w)
        PROVE  TypeOK'
    <2>1. CASE End(w, {})
      BY <1>9, <2>1, EndType DEF RecheckOverlap, StoreTypeOK
    <2>2. CASE req' = [req EXCEPT ![w].pc = "save"] /\ Observe(w, {req[w].id}, {})
      <3>1. req[w] \in UpdateRequest
        BY <1>9, RequestKind DEF RecheckOverlap
      <3>2. req'[w] \in UpdateRequest /\ req'[w].pc = "save"
        BY <2>2, <3>1 DEF UpdateRequest, FlightTypeOK
      <3>. QED
        BY <1>9, <2>2, <3>2, ObserveType DEF RecheckOverlap, StoreTypeOK, FlightTypeOK
    <2>. QED
      BY <1>9, <2>1, <2>2 DEF RecheckOverlap
  <1>10. ASSUME NEW w \in Requests, SaveUpdate(w)
         PROVE  TypeOK'
    <2>. DEFINE r == req[w]
                doc == Saved(shifts[r.id], r.snap, Patched(r.snap, r.patch))
    <2>1. r \in UpdateRequest /\ shifts[r.id] # NoShift
      BY <1>10, RequestKind DEF SaveUpdate, LoadedIsStored
    <2>2. shifts[r.id] \in ShiftDoc /\ r.snap \in ShiftDoc /\ r.patch \in Patch
      BY <2>1 DEF UpdateRequest, StoreTypeOK
    <2>3. doc \in ShiftDoc
      BY <2>2, PatchedType, SavedType
    <2>4. /\ shifts' = [shifts EXCEPT ![r.id] = doc]
          /\ End(w, {i \in {r.id} : doc # shifts[i]})
          /\ UNCHANGED <<assigned, usedSeries>>
      BY <1>10 DEF SaveUpdate
    <2>5. {i \in {r.id} : doc # shifts[i]} \in SUBSET ShiftIds
      BY <2>1 DEF UpdateRequest
    <2>6. FlightTypeOK'
      <3>. HIDE DEF r, doc
      <3>. QED
        BY <2>4, <2>5, EndType
    <2>. QED
      BY <2>3, <2>4, <2>6 DEF StoreTypeOK
  <1>11. ASSUME NEW w \in Requests, SaveCancel(w)
         PROVE  TypeOK'
    <2>1. req[w] \in CancelRequest /\ shifts[req[w].id] # NoShift
      BY <1>11, RequestKind DEF SaveCancel, LoadedIsStored
    <2>2. req[w].id \in ShiftIds /\ shifts[req[w].id] \in ShiftDoc
      BY <2>1 DEF CancelRequest, StoreTypeOK
    <2>3. [shifts[req[w].id] EXCEPT !.status = "cancelled"] \in ShiftDoc
      BY <2>2 DEF ShiftDoc
    <2>4. {i \in {req[w].id} : shifts[i].status # "cancelled"} \in SUBSET ShiftIds
      BY <2>2
    <2>5. FlightTypeOK'
      BY <1>11, <2>4, EndType DEF SaveCancel
    <2>. QED
      BY <1>11, <2>2, <2>3, <2>5 DEF SaveCancel, StoreTypeOK
  <1>12. ASSUME NEW w \in Requests, CallFails(w)
         PROVE  TypeOK'
    <2>1. CASE req[w].pc \in {"assign", "overlap", "insert"} /\ Reject(w, {})
      <3>1. {req[w].pos} \in SUBSET Nat
        BY <2>1, CurrentType
      <3>. QED
        BY <1>12, <2>1, <3>1, NextItemType DEF CallFails, Reject, StoreTypeOK
    <2>2. CASE End(w, {})
      BY <1>12, <2>2, EndType DEF CallFails, StoreTypeOK
    <2>. QED
      BY <1>12, <2>1, <2>2 DEF CallFails
  <1>13. CASE Crash
    BY <1>13 DEF Crash, StoreTypeOK, FlightTypeOK, Idle
  <1>14. ASSUME NEW t \in Assignment, Activate(t)
         PROVE  TypeOK'
    BY <1>14 DEF Activate, StoreTypeOK, FlightTypeOK
  <1>15. ASSUME NEW t \in Assignment, Deactivate(t)
         PROVE  TypeOK'
    BY <1>15 DEF Deactivate, StoreTypeOK, FlightTypeOK
  <1>16. CASE UNCHANGED vars
    BY <1>16 DEF vars, StoreTypeOK, FlightTypeOK
  <1>. QED
    BY <1>1, <1>2, <1>3, <1>4, <1>5, <1>6, <1>7, <1>8, <1>9, <1>10, <1>11, <1>12, <1>13,
       <1>14, <1>15, <1>16 DEF Next, Proceed

-----------------------------------------------------------------------------
(* What a step of request w means for everybody else: it changes only the     *)
(* shifts in changed, everybody who has read something learns of it through   *)
(* stale, and no document vanishes, changes owner or is revived.              *)

Step(w, changed) ==
    /\ \A v \in Requests \ {w} : /\ req'[v] = req[v]
                                 /\ stale[v] \subseteq stale'[v]
                                 /\ v \in Watching => changed \subseteq stale'[v]
    /\ \A i \in ShiftIds \ changed : shifts'[i] = shifts[i]
    /\ \A i \in ShiftIds : shifts[i] # NoShift =>
          /\ shifts'[i] # NoShift
          /\ shifts'[i].clientId = shifts[i].clientId
          /\ shifts'[i].employeeId = shifts[i].employeeId
          /\ shifts[i].status = "cancelled" => shifts'[i].status = "cancelled"

Relies(w) == LoadedIsStored(w) /\ InsertIsClear(w) /\ SaveIsClear(w)

\* A request that is not acting keeps what it relies on.
LEMMA Bystander ==
    ASSUME TypeOK, NEW w \in Requests, NEW changed, Step(w, changed),
           NEW v \in Requests \ {w}, Relies(v)
    PROVE  Relies(v)'
  <1>1. req'[v] = req[v] /\ stale[v] \subseteq stale'[v] /\ (v \in Watching => changed \subseteq stale'[v])
    BY DEF Step
  <1>2. LoadedIsStored(v)'
    <2>1. CASE req[v].pc \in {"recheck", "save"}
      <3>1. v \in Watching /\ req[v].id \in ShiftIds
        BY <2>1, RequestKind DEF Watching, UpdateRequest, TypeOK
      <3>. QED
        BY <1>1, <2>1, <3>1 DEF LoadedIsStored, Step, Relies
    <2>2. CASE req[v].pc = "cancel"
      <3>1. req[v].id \in ShiftIds
        BY <2>2, RequestKind DEF CancelRequest, TypeOK
      <3>. QED
        BY <1>1, <2>2, <3>1 DEF LoadedIsStored, Step, Relies
    <2>3. CASE req[v].pc \notin {"recheck", "save", "cancel"}
      BY <1>1, <2>3 DEF LoadedIsStored
    <2>. QED
      BY <2>1, <2>2, <2>3
  <1>3. InsertIsClear(v)'
    <2>. SUFFICES ASSUME req[v].pc = "insert", NEW i \in ShiftIds, i \notin stale'[v]
                  PROVE  ~( /\ ScheduledFor(shifts'[i], Current(v).clientId, Current(v).employeeId)
                            /\ Overlaps(shifts'[i], Current(v).shiftStart, Current(v).shiftEnd) )
      BY <1>1 DEF InsertIsClear, ClearOf, Current, ScheduledFor, Overlaps
    <2>1. v \in Watching
      BY DEF Watching
    <2>2. shifts'[i] = shifts[i] /\ i \notin stale[v]
      BY <1>1, <2>1 DEF Step
    <2>. QED
      BY <2>2 DEF Relies, InsertIsClear, ClearOf
  <1>4. SaveIsClear(v)'
    <2>. DEFINE d == Patched(req[v].snap, req[v].patch)
    <2>. SUFFICES ASSUME req[v].pc = "save", PatchesRange(req[v].patch),
                         NEW i \in ShiftIds \ {req[v].id}, i \notin stale'[v]
                  PROVE  ~( /\ ScheduledFor(shifts'[i], d.clientId, d.employeeId)
                            /\ Overlaps(shifts'[i], d.shiftStart, d.shiftEnd) )
      BY <1>1 DEF SaveIsClear, ClearOf
    <2>1. v \in Watching
      BY DEF Watching
    <2>2. shifts'[i] = shifts[i] /\ i \notin stale[v]
      BY <1>1, <2>1 DEF Step
    <2>. QED
      BY <2>2 DEF Relies, SaveIsClear, ClearOf
  <1>. QED
    BY <1>2, <1>3, <1>4 DEF Relies

\* A request that becomes idle, or goes back to the start of an item, relies on nothing.
LEMMA NothingToRelyOn ==
    ASSUME NEW w \in Requests, req'[w].pc \notin {"insert", "recheck", "save", "cancel"}
    PROVE  Relies(w)'
    BY DEF Relies, LoadedIsStored, InsertIsClear, SaveIsClear

\* A step that leaves the collection alone.
LEMMA QuietStep ==
    ASSUME TypeOK, NEW w \in Requests, shifts' = shifts,
           \A v \in Requests \ {w} : req'[v] = req[v] /\ stale[v] \subseteq stale'[v]
    PROVE  Step(w, {})
    BY DEF Step

LEMMA ObserveOthers ==
    ASSUME TypeOK, NEW w \in Requests, NEW kept, NEW changed, Observe(w, kept, changed)
    PROVE  \A v \in Requests \ {w} : /\ stale[v] \subseteq stale'[v]
                                     /\ v \in Watching => changed \subseteq stale'[v]
    BY DEF Observe

LEMMA EndStep ==
    ASSUME TypeOK, NEW w \in Requests, NEW changed, End(w, changed)
    PROVE  /\ \A v \in Requests \ {w} : /\ req'[v] = req[v]
                                        /\ stale[v] \subseteq stale'[v]
                                        /\ v \in Watching => changed \subseteq stale'[v]
           /\ req'[w] = Idle
    BY ObserveOthers DEF End, TypeOK, FlightTypeOK

LEMMA NextItemStep ==
    ASSUME TypeOK, NEW w \in Requests, NEW acc, NEW rej, NEW changed, NextItem(w, acc, rej, changed),
           req[w].pc \in {"assign", "overlap", "insert"}
    PROVE  /\ \A v \in Requests \ {w} : /\ req'[v] = req[v]
                                        /\ stale[v] \subseteq stale'[v]
                                        /\ v \in Watching => changed \subseteq stale'[v]
           /\ req'[w].pc \in {"assign", "respond"}
  <1>1. req[w] \in CreateRequest
    BY RequestKind DEF TypeOK
  <1>2. req'[w].pc \in {"assign", "respond"}
    BY <1>1 DEF NextItem, TypeOK, FlightTypeOK, CreateRequest
  <1>. QED
    BY <1>2, ObserveOthers DEF NextItem, TypeOK, FlightTypeOK

-----------------------------------------------------------------------------
(* Each action is a step of its request after which that request relies on    *)
(* nothing it has not just checked.                                           *)

StepOf(w) == (\E changed \in SUBSET ShiftIds : Step(w, changed)) /\ Relies(w)'

LEMMA BeginStep ==
    ASSUME RosterInv, NEW w \in Requests, BeginCreate(w) \/ BeginBulk(w)
    PROVE  StepOf(w)
  <1>1. PICK p, batch, s : Begin(w, p, batch, s)
    BY DEF BeginCreate, BeginBulk
  <1>2. req'[w].pc = "assign" /\ \A v \in Requests \ {w} : req'[v] = req[v]
    BY <1>1 DEF Begin, RosterInv, TypeOK, FlightTypeOK
  <1>3. Step(w, {})
    BY <1>1, <1>2, QuietStep DEF Begin, RosterInv
  <1>. QED
    BY <1>2, <1>3, NothingToRelyOn DEF StepOf

LEMMA FindForUpdateStep ==
    ASSUME RosterInv, NEW w \in Requests, FindForUpdate(w)
    PROVE  StepOf(w)
  <1>1. PICK p \in Callers, i \in ShiftIds, patch \in Patches :
           /\ shifts[i] # NoShift
           /\ req' = [ req EXCEPT ![w] =
                         [ pc |-> IF PatchesRange(patch) THEN "recheck" ELSE "save",
                           caller |-> p, id |-> i, snap |-> shifts[i], patch |-> patch ] ]
           /\ UNCHANGED <<shifts, assigned, usedSeries, stale>>
    BY DEF FindForUpdate
  <1>2. /\ req'[w] = [ pc |-> IF PatchesRange(patch) THEN "recheck" ELSE "save",
                       caller |-> p, id |-> i, snap |-> shifts[i], patch |-> patch ]
        /\ \A v \in Requests \ {w} : req'[v] = req[v]
    BY <1>1 DEF RosterInv, TypeOK, FlightTypeOK
  <1>3. Step(w, {})
    BY <1>1, <1>2, QuietStep DEF RosterInv
  <1>4. LoadedIsStored(w)'
    BY <1>1, <1>2 DEF LoadedIsStored
  <1>5. InsertIsClear(w)' /\ SaveIsClear(w)'
    BY <1>2 DEF InsertIsClear, SaveIsClear
  <1>. QED
    BY <1>3, <1>4, <1>5 DEF StepOf, Relies

LEMMA FindForCancelStep ==
    ASSUME RosterInv, NEW w \in Requests, FindForCancel(w)
    PROVE  StepOf(w)
  <1>1. PICK p \in Callers, i \in ShiftIds :
           /\ shifts[i] # NoShift
           /\ req' = [req EXCEPT ![w] = [pc |-> "cancel", caller |-> p, id |-> i]]
           /\ UNCHANGED <<shifts, assigned, usedSeries, stale>>
    BY DEF FindForCancel
  <1>2. /\ req'[w] = [pc |-> "cancel", caller |-> p, id |-> i]
        /\ \A v \in Requests \ {w} : req'[v] = req[v]
    BY <1>1 DEF RosterInv, TypeOK, FlightTypeOK
  <1>3. Step(w, {})
    BY <1>1, <1>2, QuietStep DEF RosterInv
  <1>4. Relies(w)'
    BY <1>1, <1>2 DEF Relies, LoadedIsStored, InsertIsClear, SaveIsClear
  <1>. QED
    BY <1>3, <1>4 DEF StepOf

LEMMA CheckAssignmentStep ==
    ASSUME RosterInv, NEW w \in Requests, CheckAssignment(w)
    PROVE  StepOf(w)
  <1>1. CASE Reject(w, {})
    BY <1>1, NextItemStep, QuietStep, NothingToRelyOn
       DEF CheckAssignment, Reject, RosterInv, StepOf
  <1>2. CASE req' = [req EXCEPT ![w].pc = "overlap"] /\ Observe(w, {}, {})
    <2>1. req[w] \in CreateRequest
      BY RequestKind DEF CheckAssignment, RosterInv, TypeOK
    <2>2. req'[w].pc = "overlap" /\ \A v \in Requests \ {w} : req'[v] = req[v]
      BY <1>2, <2>1 DEF RosterInv, TypeOK, FlightTypeOK, CreateRequest
    <2>. QED
      BY <1>2, <2>2, ObserveOthers, QuietStep, NothingToRelyOn
         DEF CheckAssignment, RosterInv, StepOf
  <1>. QED
    BY <1>1, <1>2 DEF CheckAssignment

LEMMA CheckOverlapStep ==
    ASSUME RosterInv, NEW w \in Requests, CheckOverlap(w)
    PROVE  StepOf(w)
  <1>. DEFINE b == Current(w)
  <1>1. CASE Reject(w, {})
    BY <1>1, NextItemStep, QuietStep, NothingToRelyOn
       DEF CheckOverlap, Reject, RosterInv, StepOf
  <1>2. CASE /\ NoOverlap(b.clientId, b.employeeId, b.shiftStart, b.shiftEnd, {})
             /\ req' = [req EXCEPT ![w].pc = "insert"]
             /\ Observe(w, {AssignmentOf(b)}, {})
    <2>1. req[w] \in CreateRequest
      BY RequestKind DEF CheckOverlap, RosterInv, TypeOK
    <2>2. /\ req'[w].pc = "insert" /\ req'[w].batch = req[w].batch /\ req'[w].pos = req[w].pos
          /\ \A v \in Requests \ {w} : req'[v] = req[v]
      BY <1>2, <2>1 DEF RosterInv, TypeOK, FlightTypeOK, CreateRequest
    <2>3. Step(w, {})
      BY <1>2, <2>2, ObserveOthers, QuietStep DEF CheckOverlap, RosterInv
    <2>4. InsertIsClear(w)'
      BY <1>2, <2>2 DEF CheckOverlap, NoOverlap, InsertIsClear, ClearOf, Current,
                        ScheduledFor, Overlaps
    <2>5. LoadedIsStored(w)' /\ SaveIsClear(w)'
      BY <2>2 DEF LoadedIsStored, SaveIsClear
    <2>. QED
      BY <2>3, <2>4, <2>5 DEF StepOf, Relies
  <1>. QED
    BY <1>1, <1>2 DEF CheckOverlap

LEMMA InsertShiftStep ==
    ASSUME RosterInv, NEW w \in Requests, InsertShift(w)
    PROVE  StepOf(w)
  <1>1. PICK i \in ShiftIds :
           /\ shifts[i] = NoShift
           /\ shifts' = [shifts EXCEPT ![i] = NewShift(Current(w), req[w].seriesId)]
           /\ NextItem(w, {<<req[w].pos, i>>}, {}, {i}) \/ Reject(w, {i})
    BY DEF InsertShift
  <1>2. /\ \A v \in Requests \ {w} : /\ req'[v] = req[v]
                                     /\ stale[v] \subseteq stale'[v]
                                     /\ v \in Watching => {i} \subseteq stale'[v]
        /\ req'[w].pc \in {"assign", "respond"}
    BY <1>1, NextItemStep DEF Reject, InsertShift, RosterInv
  <1>3. Step(w, {i})
    BY <1>1, <1>2 DEF Step, RosterInv, TypeOK, StoreTypeOK
  <1>. QED
    BY <1>2, <1>3, NothingToRelyOn DEF StepOf

LEMMA RespondStep ==
    ASSUME RosterInv, NEW w \in Requests, Respond(w)
    PROVE  StepOf(w)
    BY EndStep, QuietStep, NothingToRelyOn DEF Respond, RosterInv, StepOf, Idle

LEMMA RecheckOverlapStep ==
    ASSUME RosterInv, NEW w \in Requests, RecheckOverlap(w)
    PROVE  StepOf(w)
  <1>. DEFINE d == Patched(req[w].snap, req[w].patch)
  <1>1. CASE End(w, {})
    BY <1>1, EndStep, QuietStep, NothingToRelyOn DEF RecheckOverlap, RosterInv, StepOf, Idle
  <1>2. CASE /\ NoOverlap(d.clientId, d.employeeId, d.shiftStart, d.shiftEnd, {req[w].id})
             /\ req' = [req EXCEPT ![w].pc = "save"]
             /\ Observe(w, {req[w].id}, {})
    <2>1. req[w] \in UpdateRequest
      BY RequestKind DEF RecheckOverlap, RosterInv, TypeOK
    <2>2. /\ req'[w].pc = "save" /\ req'[w].snap = req[w].snap
          /\ req'[w].patch = req[w].patch /\ req'[w].id = req[w].id
          /\ \A v \in Requests \ {w} : req'[v] = req[v]
      BY <1>2, <2>1 DEF RosterInv, TypeOK, FlightTypeOK, UpdateRequest
    <2>3. Step(w, {})
      BY <1>2, <2>2, ObserveOthers, QuietStep DEF RecheckOverlap, RosterInv
    <2>4. shifts' = shifts /\ stale'[w] = stale[w] \intersect {req[w].id}
      BY <1>2 DEF RecheckOverlap, Observe
    <2>5. SaveIsClear(w)'
      <3>. SUFFICES ASSUME NEW i \in ShiftIds \ {req[w].id}
                    PROVE  ~( /\ ScheduledFor(shifts[i], d.clientId, d.employeeId)
                              /\ Overlaps(shifts[i], d.shiftStart, d.shiftEnd) )
        BY <2>2, <2>4 DEF SaveIsClear, ClearOf
      <3>. QED
        BY <1>2 DEF NoOverlap
    <2>6. LoadedIsStored(w)' /\ InsertIsClear(w)'
      BY <2>2, <2>4 DEF LoadedIsStored, InsertIsClear, RosterInv, RecheckOverlap
    <2>. QED
      BY <2>3, <2>5, <2>6 DEF StepOf, Relies
  <1>. QED
    BY <1>1, <1>2 DEF RecheckOverlap

\* The document SaveUpdate writes, and what it keeps of the stored one.
LEMMA SaveUpdateFacts ==
    ASSUME RosterInv, NEW w \in Requests, SaveUpdate(w)
    PROVE  LET r == req[w]
               new == Patched(r.snap, r.patch)
               doc == Saved(shifts[r.id], r.snap, new)
           IN  /\ r \in UpdateRequest /\ r.patch \in Patch
               /\ shifts[r.id] \in ShiftDoc /\ r.snap \in ShiftDoc /\ doc \in ShiftDoc
               /\ new \in ShiftDoc
               /\ new.clientId = r.snap.clientId /\ new.employeeId = r.snap.employeeId
               /\ new.status = r.snap.status
               /\ doc.clientId = shifts[r.id].clientId
               /\ doc.employeeId = shifts[r.id].employeeId
               /\ doc.siteId = shifts[r.id].siteId
               /\ doc.seriesId = shifts[r.id].seriesId
               /\ doc.status = shifts[r.id].status
               /\ shifts' = [shifts EXCEPT ![r.id] = doc]
               /\ End(w, {i \in {r.id} : doc # shifts[i]})
  <1>1. req[w] \in UpdateRequest /\ shifts[req[w].id] # NoShift
    BY RequestKind DEF SaveUpdate, LoadedIsStored, RosterInv, TypeOK
  <1>2. shifts[req[w].id] \in ShiftDoc /\ req[w].snap \in ShiftDoc /\ req[w].patch \in Patch
    BY <1>1 DEF UpdateRequest, RosterInv, TypeOK, StoreTypeOK
  <1>. DEFINE new == Patched(req[w].snap, req[w].patch)
              doc == Saved(shifts[req[w].id], req[w].snap, new)
  <1>3. /\ new \in ShiftDoc
        /\ new.clientId = req[w].snap.clientId /\ new.employeeId = req[w].snap.employeeId
        /\ new.status = req[w].snap.status
    BY <1>2, PatchedType
  <1>4. /\ doc \in ShiftDoc
        /\ doc.clientId = shifts[req[w].id].clientId
        /\ doc.employeeId = shifts[req[w].id].employeeId
        /\ doc.siteId = shifts[req[w].id].siteId
        /\ doc.seriesId = shifts[req[w].id].seriesId
        /\ doc.status = shifts[req[w].id].status
    <2>. HIDE DEF new
    <2>. QED
      BY <1>2, <1>3, SavedType
  <1>5. /\ shifts' = [shifts EXCEPT ![req[w].id] = doc]
        /\ End(w, {i \in {req[w].id} : doc # shifts[i]})
    BY DEF SaveUpdate
  <1>. QED
    BY <1>1, <1>2, <1>3, <1>4, <1>5

LEMMA SaveUpdateStep ==
    ASSUME RosterInv, NEW w \in Requests, SaveUpdate(w)
    PROVE  StepOf(w)
  <1>. DEFINE r == req[w]
              doc == Saved(shifts[r.id], r.snap, Patched(r.snap, r.patch))
              changed == {i \in {r.id} : doc # shifts[i]}
  <1>1. /\ r.id \in ShiftIds /\ doc \in ShiftDoc
        /\ doc.clientId = shifts[r.id].clientId /\ doc.employeeId = shifts[r.id].employeeId
        /\ doc.status = shifts[r.id].status
        /\ shifts' = [shifts EXCEPT ![r.id] = doc]
        /\ End(w, changed)
    BY SaveUpdateFacts DEF UpdateRequest
  <1>2. changed \in SUBSET ShiftIds
    BY <1>1
  <1>3. /\ \A v \in Requests \ {w} : /\ req'[v] = req[v]
                                     /\ stale[v] \subseteq stale'[v]
                                     /\ v \in Watching => changed \subseteq stale'[v]
        /\ req'[w] = Idle
    <2>. HIDE DEF changed
    <2>. QED
      BY <1>1, EndStep DEF RosterInv
  <1>4. Step(w, changed)
    <2>1. \A i \in ShiftIds \ changed : shifts'[i] = shifts[i]
      BY <1>1 DEF RosterInv, TypeOK, StoreTypeOK
    <2>2. doc # NoShift
      BY <1>1, RosterAssumption
    <2>. HIDE DEF doc, changed
    <2>. QED
      BY <1>1, <1>3, <2>1, <2>2 DEF Step, RosterInv, TypeOK, StoreTypeOK
  <1>. QED
    BY <1>2, <1>3, <1>4, NothingToRelyOn DEF StepOf, Idle

LEMMA SaveCancelStep ==
    ASSUME RosterInv, NEW w \in Requests, SaveCancel(w)
    PROVE  StepOf(w)
  <1>. DEFINE id == req[w].id
              changed == {i \in {id} : shifts[i].status # "cancelled"}
  <1>1. id \in ShiftIds /\ shifts[id] \in ShiftDoc
    BY RequestKind DEF SaveCancel, CancelRequest, LoadedIsStored, RosterInv, TypeOK, StoreTypeOK
  <1>2. changed \in SUBSET ShiftIds
    BY <1>1
  <1>3. /\ \A v \in Requests \ {w} : /\ req'[v] = req[v]
                                     /\ stale[v] \subseteq stale'[v]
                                     /\ v \in Watching => changed \subseteq stale'[v]
        /\ req'[w] = Idle
    BY EndStep DEF SaveCancel, RosterInv
  <1>4. Step(w, changed)
    <2>1. shifts' = [shifts EXCEPT ![id] = [shifts[id] EXCEPT !.status = "cancelled"]]
      BY DEF SaveCancel
    <2>2. /\ [shifts[id] EXCEPT !.status = "cancelled"] \in ShiftDoc
          /\ shifts[id].status = "cancelled" => [shifts[id] EXCEPT !.status = "cancelled"] = shifts[id]
      BY <1>1 DEF ShiftDoc
    <2>3. \A i \in ShiftIds \ changed : shifts'[i] = shifts[i]
      BY <1>1, <2>1, <2>2 DEF RosterInv, TypeOK, StoreTypeOK
    <2>4. \A i \in ShiftIds : shifts[i] # NoShift =>
             /\ shifts'[i] # NoShift
             /\ shifts'[i].clientId = shifts[i].clientId
             /\ shifts'[i].employeeId = shifts[i].employeeId
             /\ shifts[i].status = "cancelled" => shifts'[i].status = "cancelled"
      BY <1>1, <2>1, <2>2, RosterAssumption DEF RosterInv, TypeOK, StoreTypeOK, ShiftDoc
    <2>. QED
      BY <1>3, <2>3, <2>4 DEF Step
  <1>. QED
    BY <1>2, <1>3, <1>4, NothingToRelyOn DEF StepOf, Idle

LEMMA CallFailsStep ==
    ASSUME RosterInv, NEW w \in Requests, CallFails(w)
    PROVE  StepOf(w)
  <1>1. CASE req[w].pc \in {"assign", "overlap", "insert"} /\ Reject(w, {})
    BY <1>1, NextItemStep, QuietStep, NothingToRelyOn DEF CallFails, Reject, RosterInv, StepOf
  <1>2. CASE End(w, {})
    BY <1>2, EndStep, QuietStep, NothingToRelyOn DEF CallFails, RosterInv, StepOf, Idle
  <1>. QED
    BY <1>1, <1>2 DEF CallFails

LEMMA StepOfKeepsReliance ==
    ASSUME RosterInv, NEW w \in Requests, StepOf(w)
    PROVE  \A v \in Requests : Relies(v)'
  <1>1. PICK changed \in SUBSET ShiftIds : Step(w, changed)
    BY DEF StepOf
  <1>2. \A v \in Requests \ {w} : Relies(v)'
    BY <1>1, Bystander DEF RosterInv, Relies
  <1>. QED
    BY <1>2 DEF StepOf

-----------------------------------------------------------------------------
(* The invariant and what follows from it. *)

LEMMA InvNext ==
    ASSUME RosterInv, [Next]_vars
    PROVE  RosterInv'
  <1>1. TypeOK'
    BY NextTypeOK DEF RosterInv, TypeInv
  <1>2. ASSUME NEW w \in Requests,
               BeginCreate(w) \/ BeginBulk(w) \/ FindForUpdate(w) \/ FindForCancel(w) \/ Proceed(w)
        PROVE  \A v \in Requests : Relies(v)'
    BY <1>2, BeginStep, FindForUpdateStep, FindForCancelStep, CheckAssignmentStep, CheckOverlapStep,
       InsertShiftStep, RespondStep, RecheckOverlapStep, SaveUpdateStep, SaveCancelStep,
       CallFailsStep, StepOfKeepsReliance DEF Proceed
  <1>3. ASSUME Crash PROVE \A v \in Requests : Relies(v)'
    BY <1>3 DEF Crash, Relies, LoadedIsStored, InsertIsClear, SaveIsClear, Idle
  <1>4. ASSUME NEW t \in Assignment, Activate(t)
        PROVE  \A v \in Requests : Relies(v)'
    BY <1>4 DEF Activate, RosterInv, Relies, LoadedIsStored, InsertIsClear, SaveIsClear, ClearOf,
                Current, ScheduledFor, Overlaps
  <1>5. ASSUME NEW t \in Assignment, Deactivate(t)
        PROVE  \A v \in Requests : Relies(v)'
    <2>1. /\ shifts' = shifts /\ req' = req
          /\ \A v \in Requests : stale[v] \subseteq stale'[v]
      BY <1>5 DEF Deactivate
    <2>. QED
      BY <2>1 DEF RosterInv, Relies, LoadedIsStored, InsertIsClear, SaveIsClear, ClearOf,
                  Current, ScheduledFor, Overlaps
  <1>6. ASSUME UNCHANGED vars PROVE \A v \in Requests : Relies(v)'
    BY <1>6 DEF vars, RosterInv, Relies, LoadedIsStored, InsertIsClear, SaveIsClear, ClearOf,
                Current, ScheduledFor, Overlaps
  <1>7. \A v \in Requests : Relies(v)'
    BY <1>2, <1>3, <1>4, <1>5, <1>6 DEF Next
  <1>. QED
    BY <1>1, <1>7 DEF RosterInv, Relies

(* Every reachable state is well typed, and every request in flight may rely  *)
(* on what it has checked, except for the shifts other requests changed since *)
(* (assertNoOverlap and the loaded document of updateSchedule).               *)
THEOREM RosterInvariant == Spec => []RosterInv
  <1>1. Init => RosterInv
    BY TypeInit DEF TypeInv, RosterInv, Init, InsertIsClear, SaveIsClear, Idle
  <1>2. RosterInv /\ [Next]_vars => RosterInv'
    BY InvNext
  <1>. QED
    BY <1>1, <1>2, PTL DEF Spec

\* A step that is not the write of an insert or update produces no new clash.
LEMMA UnchangedShiftsNoNewClash ==
    ASSUME shifts' = shifts, NEW i \in ShiftIds, NEW j \in ShiftIds, Clash(shifts', i, j)
    PROVE  Clash(shifts, i, j)
    BY DEF Clash, ScheduledFor, Overlaps

\* Two shifts clash whichever is named first.
LEMMA ClashSymmetric ==
    ASSUME NEW S \in [ShiftIds -> ShiftDoc \union {NoShift}],
           NEW i \in ShiftIds, NEW j \in ShiftIds, Clash(S, i, j)
    PROVE  Clash(S, j, i)
  <1>1. S[i] \in ShiftDoc /\ S[j] \in ShiftDoc
    BY DEF Clash, ScheduledFor
  <1>. QED
    BY <1>1, RosterAssumption DEF Clash, ScheduledFor, Overlaps, ShiftDoc

\* An insert that clashes with j was prepared before somebody changed j.
LEMMA InsertClash ==
    ASSUME RosterInv, NEW w \in Requests, InsertShift(w), NEW i \in ShiftIds, NEW j \in ShiftIds,
           Clash(shifts', i, j), ~Clash(shifts, i, j)
    PROVE  {i, j} \intersect stale[w] # {}
  <1>. DEFINE b == Current(w)
  <1>1. PICK n \in ShiftIds : shifts' = [shifts EXCEPT ![n] = NewShift(b, req[w].seriesId)]
    BY DEF InsertShift
  <1>2. shifts' \in [ShiftIds -> ShiftDoc \union {NoShift}]
    BY NextTypeOK DEF RosterInv, TypeInv, Next, Proceed, TypeOK, StoreTypeOK
  <1>3. ASSUME NEW k \in ShiftIds, Clash(shifts', n, k)
        PROVE  k \in stale[w]
    <2>1. shifts'[k] = shifts[k] /\ shifts'[n] = NewShift(b, req[w].seriesId)
      BY <1>1, <1>3 DEF Clash, RosterInv, TypeOK, StoreTypeOK
    <2>2. ScheduledFor(shifts[k], b.clientId, b.employeeId) /\ Overlaps(shifts[k], b.shiftStart, b.shiftEnd)
      BY <1>3, <2>1 DEF Clash, NewShift
    <2>. QED
      BY <2>2 DEF RosterInv, InsertIsClear, ClearOf, InsertShift
  <1>4. i = n \/ j = n
    BY <1>1 DEF Clash, RosterInv, TypeOK, StoreTypeOK
  <1>. QED
    BY <1>2, <1>3, <1>4, ClashSymmetric

\* An update that newly clashes with j loaded its document, or checked, before a change.
LEMMA SaveClash ==
    ASSUME RosterInv, NEW w \in Requests, SaveUpdate(w), NEW i \in ShiftIds, NEW j \in ShiftIds,
           Clash(shifts', i, j), ~Clash(shifts, i, j)
    PROVE  {i, j} \intersect stale[w] # {}
  <1>. DEFINE r == req[w]
              new == Patched(r.snap, r.patch)
              doc == Saved(shifts[r.id], r.snap, new)
  <1>1. /\ r \in UpdateRequest /\ r.id \in ShiftIds /\ r.patch \in Patch
        /\ shifts[r.id] \in ShiftDoc /\ r.snap \in ShiftDoc /\ doc \in ShiftDoc /\ new \in ShiftDoc
        /\ new.clientId = r.snap.clientId /\ new.employeeId = r.snap.employeeId
        /\ new.status = r.snap.status
        /\ doc.clientId = shifts[r.id].clientId /\ doc.employeeId = shifts[r.id].employeeId
        /\ doc.status = shifts[r.id].status
        /\ shifts' = [shifts EXCEPT ![r.id] = doc]
    BY SaveUpdateFacts DEF UpdateRequest
  <1>2. /\ shifts \in [ShiftIds -> ShiftDoc \union {NoShift}]
        /\ shifts' \in [ShiftIds -> ShiftDoc \union {NoShift}]
    BY NextTypeOK DEF RosterInv, TypeInv, Next, Proceed, TypeOK, StoreTypeOK
  <1>3. ASSUME NEW k \in ShiftIds, Clash(shifts', r.id, k), ~Clash(shifts, r.id, k), r.id \notin stale[w]
        PROVE  k \in stale[w]
    <2>1. shifts[r.id] = r.snap
      BY <1>3 DEF RosterInv, LoadedIsStored, SaveUpdate
    <2>2. doc.shiftStart = new.shiftStart /\ doc.shiftEnd = new.shiftEnd
      <3>. HIDE DEF new
      <3>. QED
        BY <1>1, <2>1, SavedOverLoaded
    <2>3. k # r.id /\ shifts'[k] = shifts[k] /\ shifts'[r.id] = doc
      BY <1>1, <1>2, <1>3 DEF Clash
    <2>4. /\ ScheduledFor(shifts[k], new.clientId, new.employeeId)
          /\ Overlaps(shifts[k], new.shiftStart, new.shiftEnd)
      BY <1>1, <1>3, <2>1, <2>2, <2>3 DEF Clash
    <2>5. PatchesRange(r.patch)
      <3>. SUFFICES ASSUME ~PatchesRange(r.patch)
                    PROVE  Clash(shifts, r.id, k)
        BY <1>3
      <3>1. new.shiftStart = r.snap.shiftStart /\ new.shiftEnd = r.snap.shiftEnd
        BY <1>1 DEF PatchesRange, Patched, OrElse, ShiftDoc
      <3>2. shifts[r.id].status = "scheduled"
        BY <1>1, <1>3, <2>3 DEF Clash
      <3>. QED
        BY <1>1, <2>1, <2>3, <2>4, <3>1, <3>2, RosterAssumption DEF Clash
    <2>. QED
      BY <2>3, <2>4, <2>5 DEF RosterInv, SaveIsClear, ClearOf, SaveUpdate
  <1>4. i = r.id \/ j = r.id
    BY <1>1, <1>2 DEF Clash
  <1>. QED
    BY <1>2, <1>3, <1>4, ClashSymmetric

\* Cancelling only takes shifts out of the clashes.
LEMMA CancelNoNewClash ==
    ASSUME RosterInv, NEW w \in Requests, SaveCancel(w), NEW i \in ShiftIds, NEW j \in ShiftIds,
           Clash(shifts', i, j)
    PROVE  Clash(shifts, i, j)
  <1>1. req[w].id \in ShiftIds /\ shifts[req[w].id] \in ShiftDoc
    BY RequestKind DEF SaveCancel, CancelRequest, LoadedIsStored, RosterInv, TypeOK, StoreTypeOK
  <1>2. shifts'[req[w].id].status = "cancelled" /\ \A k \in ShiftIds \ {req[w].id} : shifts'[k] = shifts[k]
    BY <1>1 DEF SaveCancel, RosterInv, TypeOK, StoreTypeOK, ShiftDoc
  <1>. QED
    BY <1>2 DEF Clash, ScheduledFor

\* Whoever inserts or saves moves on.
LEMMA WriterMoves ==
    ASSUME RosterInv, NEW w \in Requests, InsertShift(w) \/ SaveUpdate(w)
    PROVE  req[w].pc \in {"insert", "save"} /\ req'[w] # req[w]
  <1>1. ASSUME InsertShift(w)
        PROVE  req[w].pc \in {"insert", "save"} /\ req'[w] # req[w]
    <2>1. req[w].pc = "insert"
      BY <1>1 DEF InsertShift
    <2>2. req'[w].pc \in {"assign", "respond"}
      BY <1>1, <2>1, NextItemStep DEF InsertShift, Reject, RosterInv
    <2>. QED
      BY <2>1, <2>2
  <1>2. ASSUME SaveUpdate(w)
        PROVE  req[w].pc \in {"insert", "save"} /\ req'[w] # req[w]
    <2>1. req[w].pc = "save" /\ req'[w] = Idle
      BY <1>2, SaveUpdateFacts DEF SaveUpdate, End, RosterInv, TypeOK, FlightTypeOK
    <2>. QED
      BY <2>1 DEF Idle
  <1>. QED
    BY <1>1, <1>2

\* The step form of NewClashNeedsRace.
LEMMA StepNeedsRace ==
    ASSUME RosterInv, [Next]_vars, NEW i \in ShiftIds, NEW j \in ShiftIds,
           Clash(shifts', i, j), ~Clash(shifts, i, j)
    PROVE  \E w \in Requests : /\ req[w].pc \in {"insert", "save"}
                              /\ req'[w] # req[w]
                              /\ {i, j} \intersect stale[w] # {}
  <1>1. ASSUME NEW w \in Requests, InsertShift(w) \/ SaveUpdate(w)
        PROVE  req[w].pc \in {"insert", "save"} /\ req'[w] # req[w]
    BY <1>1, WriterMoves
  <1>2. (\E w \in Requests : InsertShift(w)) \/ (\E w \in Requests : SaveUpdate(w))
    <2>1. shifts' # shifts
      BY UnchangedShiftsNoNewClash
    <2>2. \A w \in Requests : ~SaveCancel(w)
      BY CancelNoNewClash
    <2>. QED
      BY <2>1, <2>2 DEF Next, Proceed, vars, BeginCreate, BeginBulk, Begin, FindForUpdate,
         FindForCancel, CheckAssignment, CheckOverlap, Respond, RecheckOverlap, CallFails,
         Crash, Activate, Deactivate
  <1>. QED
    BY <1>1, <1>2, InsertClash, SaveClash

(* A double booking is always the work of two racing requests: the one that   *)
(* writes it read one of the two shifts before another request changed it     *)
(* (assertNoOverlap's "check-then-insert, not atomic").                       *)
THEOREM DoubleBookingNeedsRace == Spec => NewClashNeedsRace
  <1>1. RosterInv /\ [Next]_vars =>
          [ \A i, j \in ShiftIds :
              Clash(shifts', i, j) /\ ~Clash(shifts, i, j) =>
                \E w \in Requests : /\ req[w].pc \in {"insert", "save"}
                                   /\ req'[w] # req[w]
                                   /\ {i, j} \intersect stale[w] # {} ]_vars
    BY StepNeedsRace
  <1>. QED
    BY <1>1, RosterInvariant, PTL DEF Spec, NewClashNeedsRace

(* Every step of every interleaving is a step of ShiftFeed, or none: shifts   *)
(* appear scheduled, keep their owner, are never removed, and no update that  *)
(* was in flight revives a cancelled one.                                     *)
LEMMA InsertIsAppear ==
    ASSUME RosterInv, NEW w \in Requests, InsertShift(w)
    PROVE  Feed!Next
  <1>1. PICK i \in ShiftIds :
           /\ shifts[i] = NoShift
           /\ shifts' = [shifts EXCEPT ![i] = NewShift(Current(w), req[w].seriesId)]
    BY DEF InsertShift
  <1>2. NewShift(Current(w), req[w].seriesId) \in ShiftDoc
    BY CurrentType, NewShiftType DEF InsertShift, RosterInv, TypeOK
  <1>3. shifts'[i] = NewShift(Current(w), req[w].seriesId)
    BY <1>1 DEF RosterInv, TypeOK, StoreTypeOK
  <1>4. shifts'[i] # NoShift
    BY <1>2, <1>3, RosterAssumption
  <1>5. shifts'[i].status = "scheduled"
    BY <1>3 DEF NewShift
  <1>. QED
    BY <1>1, <1>3, <1>4, <1>5 DEF Feed!Next, Feed!Appear

LEMMA UpdateIsChange ==
    ASSUME RosterInv, NEW w \in Requests, SaveUpdate(w)
    PROVE  Feed!Next
  <1>. DEFINE id == req[w].id
              doc == Saved(shifts[id], req[w].snap, Patched(req[w].snap, req[w].patch))
  <1>1. /\ id \in ShiftIds /\ shifts[id] \in ShiftDoc /\ doc \in ShiftDoc
        /\ doc.clientId = shifts[id].clientId /\ doc.employeeId = shifts[id].employeeId
        /\ doc.siteId = shifts[id].siteId /\ doc.seriesId = shifts[id].seriesId
        /\ doc.status = shifts[id].status
        /\ shifts' = [shifts EXCEPT ![id] = doc]
    BY SaveUpdateFacts DEF UpdateRequest
  <1>. HIDE DEF id, doc
  <1>2. shifts'[id] = doc
    BY <1>1 DEF RosterInv, TypeOK, StoreTypeOK
  <1>3. Feed!Change(id)
    BY <1>1, <1>2, RosterAssumption DEF Feed!Change, Feed!Owner
  <1>. QED
    BY <1>1, <1>2, <1>3 DEF Feed!Next

LEMMA CancelIsChange ==
    ASSUME RosterInv, NEW w \in Requests, SaveCancel(w)
    PROVE  Feed!Next
  <1>. DEFINE id == req[w].id
              doc == [shifts[id] EXCEPT !.status = "cancelled"]
  <1>1. /\ id \in ShiftIds /\ shifts[id] \in ShiftDoc
        /\ shifts' = [shifts EXCEPT ![id] = doc]
    BY RequestKind DEF SaveCancel, CancelRequest, LoadedIsStored, RosterInv, TypeOK, StoreTypeOK
  <1>2. /\ doc \in ShiftDoc
        /\ doc.clientId = shifts[id].clientId /\ doc.employeeId = shifts[id].employeeId
        /\ doc.siteId = shifts[id].siteId /\ doc.seriesId = shifts[id].seriesId
        /\ doc.status = "cancelled"
    BY <1>1 DEF ShiftDoc
  <1>. HIDE DEF id, doc
  <1>3. shifts'[id] = doc
    BY <1>1 DEF RosterInv, TypeOK, StoreTypeOK
  <1>4. Feed!Change(id)
    BY <1>1, <1>2, <1>3, RosterAssumption DEF Feed!Change, Feed!Owner
  <1>. QED
    BY <1>1, <1>3, <1>4 DEF Feed!Next

LEMMA StepIsFeedStep ==
    ASSUME RosterInv, [Next]_vars
    PROVE  Feed!Next \/ UNCHANGED shifts
  <1>1. ASSUME NEW w \in Requests, Proceed(w)
        PROVE  Feed!Next \/ UNCHANGED shifts
    BY <1>1, InsertIsAppear, UpdateIsChange, CancelIsChange
       DEF Proceed, CheckAssignment, CheckOverlap, Respond, RecheckOverlap, CallFails
  <1>2. ASSUME NEW w \in Requests,
               BeginCreate(w) \/ BeginBulk(w) \/ FindForUpdate(w) \/ FindForCancel(w)
        PROVE  UNCHANGED shifts
    BY <1>2 DEF BeginCreate, BeginBulk, Begin, FindForUpdate, FindForCancel
  <1>. QED
    BY <1>1, <1>2 DEF Next, Crash, Activate, Deactivate, vars

(* Any number of racing requests implements the feed that readers rely on     *)
(* (scheduledShift documents are inserted, saved and never deleted).          *)
THEOREM RosterFeedsReaders == Spec => ShiftFeedSpec
  <1>1. Init => Feed!Init
    BY DEF Init, Feed!Init
  <1>2. RosterInv /\ [Next]_vars => [Feed!Next]_shifts
    BY StepIsFeedStep
  <1>. QED
    BY <1>1, <1>2, RosterInvariant, PTL DEF Spec, ShiftFeedSpec, Feed!Spec

-----------------------------------------------------------------------------
(* The report of a batch. *)

LEMMA OwnersKept ==
    ASSUME RosterInv, [Next]_vars, NEW i \in ShiftIds, shifts[i] # NoShift
    PROVE  /\ shifts'[i] # NoShift
           /\ shifts'[i].seriesId = shifts[i].seriesId
           /\ AssignmentOf(shifts'[i]) = AssignmentOf(shifts[i])
  <1>1. ASSUME NEW k \in ShiftIds, shifts' = [shifts EXCEPT ![k] = shifts'[k]],
               Feed!Appear(k) \/ Feed!Change(k)
        PROVE  shifts'[i] # NoShift /\ Feed!Owner(shifts'[i]) = Feed!Owner(shifts[i])
    <2>1. CASE k = i
      BY <1>1, <2>1 DEF Feed!Appear, Feed!Change
    <2>2. CASE k # i
      BY <1>1, <2>2 DEF RosterInv, TypeOK, StoreTypeOK
    <2>. QED
      BY <2>1, <2>2
  <1>2. shifts'[i] # NoShift /\ Feed!Owner(shifts'[i]) = Feed!Owner(shifts[i])
    BY <1>1, StepIsFeedStep DEF Feed!Next
  <1>. QED
    BY <1>2 DEF Feed!Owner, AssignmentOf

\* What the items handled so far have come to, the position in the batch included.
ItemOK(r, a) ==
    /\ a[1] \notin r.rejected
    /\ shifts[a[2]] # NoShift
    /\ shifts[a[2]].seriesId = r.seriesId
    /\ AssignmentOf(shifts[a[2]]) = AssignmentOf(r.batch[a[1]])
    /\ \A b \in r.accepted : (a[1] = b[1]) <=> (a[2] = b[2])

ReportOK(w) ==
    Creating(w) =>
        /\ Reported(w) = 1..(req[w].pos - 1)
        /\ req[w].pc = "respond" => req[w].pos = Len(req[w].batch) + 1
        /\ \A a \in req[w].accepted : ItemOK(req[w], a)

LEMMA NothingReported ==
    ASSUME NEW w \in Requests, req'[w].pc \in {"idle", "recheck", "save", "cancel"}
    PROVE  ReportOK(w)'
    BY DEF ReportOK, Creating, CreateRequest

\* A request that does not finish an item keeps its report.
LEMMA ReportKept ==
    ASSUME RosterInv, [Next]_vars, NEW w \in Requests, ReportOK(w), Creating(w),
           req'[w].batch = req[w].batch, req'[w].pos = req[w].pos,
           req'[w].seriesId = req[w].seriesId,
           req'[w].accepted = req[w].accepted, req'[w].rejected = req[w].rejected,
           req'[w].pc = "respond" => req[w].pc = "respond"
    PROVE  ReportOK(w)'
  <1>1. \A a \in req[w].accepted : a[2] \in ShiftIds
    BY DEF Creating, CreateRequest
  <1>2. Reported(w)' = Reported(w)
    BY DEF Reported
  <1>3. ASSUME NEW a \in req'[w].accepted
        PROVE  ItemOK(req[w], a)'
    <2>1. ItemOK(req[w], a) /\ a[2] \in ShiftIds
      BY <1>1, <1>3 DEF ReportOK
    <2>. QED
      BY <2>1, OwnersKept DEF ItemOK
  <1>. QED
    BY <1>2, <1>3 DEF ReportOK

LEMMA ReportBystander ==
    ASSUME RosterInv, [Next]_vars, NEW w \in Requests, ReportOK(w), req'[w] = req[w]
    PROVE  ReportOK(w)'
  <1>1. CASE Creating(w)
    BY <1>1, ReportKept
  <1>2. CASE ~Creating(w)
    BY <1>2 DEF ReportOK, Creating
  <1>. QED
    BY <1>1, <1>2

\* An item is finished: reported once, as rejected or with the shift this step stores for it.
LEMMA ItemReported ==
    ASSUME RosterInv, [Next]_vars, NEW w \in Requests, ReportOK(w),
           req[w].pc \in {"assign", "overlap", "insert"},
           NEW acc, NEW rej, NEW changed, NextItem(w, acc, rej, changed),
           \/ acc = {} /\ rej = {req[w].pos}
           \/ /\ rej = {}
              /\ \E i \in ShiftIds :
                    /\ acc = {<<req[w].pos, i>>}
                    /\ shifts[i] = NoShift
                    /\ shifts'[i] = NewShift(Current(w), req[w].seriesId)
    PROVE  ReportOK(w)'
  <1>. DEFINE r == req[w]
  <1>1. r \in CreateRequest /\ r.pos \in 1..Len(r.batch) /\ Creating(w)
    BY RequestKind DEF RosterInv, TypeOK, FlightTypeOK, Creating
  <1>2. r.batch \in Seq(Body) /\ Len(r.batch) \in Nat /\ r.pos \in Nat \ {0}
    BY <1>1 DEF CreateRequest
  <1>3. /\ req'[w].batch = r.batch /\ req'[w].pos = r.pos + 1 /\ req'[w].seriesId = r.seriesId
        /\ req'[w].accepted = r.accepted \union acc
        /\ req'[w].rejected = r.rejected \union rej
        /\ req'[w].pc = "respond" => r.pos = Len(r.batch)
    BY <1>1 DEF NextItem, RosterInv, TypeOK, FlightTypeOK, CreateRequest
  <1>4. r.pos \notin Reported(w) /\ Reported(w) = 1..(r.pos - 1)
    BY <1>1, <1>2 DEF ReportOK
  <1>5. \A a \in r.accepted : ItemOK(r, a) /\ a[2] \in ShiftIds /\ a[1] \in Reported(w)
    BY <1>1 DEF ReportOK, CreateRequest, Reported
  <1>6. r.rejected \subseteq Reported(w)
    BY DEF Reported
  <1>7. {a[1] : a \in acc} \union rej = {r.pos}
    <2>1. CASE acc = {} /\ rej = {r.pos}
      BY <2>1
    <2>2. ASSUME NEW i, acc = {<<r.pos, i>>}, rej = {}
          PROVE  {a[1] : a \in acc} \union rej = {r.pos}
      <3>1. \A a \in acc : a[1] = r.pos
        BY <2>2
      <3>2. acc # {}
        BY <2>2
      <3>. QED
        BY <2>2, <3>1, <3>2, Zenon
    <2>. QED
      BY <2>1, <2>2
  <1>8. Reported(w)' = Reported(w) \union {r.pos}
    BY <1>3, <1>7 DEF Reported
  <1>9. Reported(w)' = 1..(req'[w].pos - 1)
    <2>1. (1..(r.pos - 1)) \union {r.pos} = 1..r.pos
      BY <1>2
    <2>2. req'[w].pos - 1 = r.pos
      BY <1>2, <1>3
    <2>. QED
      BY <1>4, <1>8, <2>1, <2>2
  <1>10. ASSUME NEW a \in r.accepted
         PROVE  ItemOK(req[w], a)'
    <2>1. a[1] \notin req'[w].rejected
      BY <1>3, <1>4, <1>5 DEF ItemOK
    <2>2. /\ shifts[a[2]] # NoShift /\ shifts'[a[2]] # NoShift
          /\ shifts'[a[2]].seriesId = r.seriesId
          /\ AssignmentOf(shifts'[a[2]]) = AssignmentOf(r.batch[a[1]])
      BY <1>5, OwnersKept DEF ItemOK
    <2>3. ASSUME NEW b \in req'[w].accepted
          PROVE  (a[1] = b[1]) <=> (a[2] = b[2])
      <3>1. CASE b \in r.accepted
        BY <1>5, <3>1 DEF ItemOK
      <3>2. CASE b \in acc
        <4>1. b[1] = r.pos /\ shifts[b[2]] = NoShift
          BY <3>2
        <4>2. a[1] # b[1] /\ a[2] # b[2]
          BY <1>4, <1>5, <2>2, <4>1
        <4>. QED
          BY <4>2
      <3>. QED
        BY <1>3, <2>3, <3>1, <3>2
    <2>. QED
      BY <1>3, <2>1, <2>2, <2>3 DEF ItemOK
  <1>11. ASSUME NEW a \in acc
         PROVE  ItemOK(req[w], a)'
    <2>1. PICK i \in ShiftIds : /\ acc = {<<r.pos, i>>} /\ rej = {}
                                /\ shifts[i] = NoShift
                                /\ shifts'[i] = NewShift(Current(w), r.seriesId)
      BY <1>11
    <2>2. a[1] = r.pos /\ a[2] = i
      BY <1>11, <2>1
    <2>3. a[1] \notin req'[w].rejected
      BY <1>3, <1>4, <1>6, <2>1, <2>2
    <2>4. NewShift(Current(w), r.seriesId) \in ShiftDoc
      BY CurrentType, NewShiftType DEF RosterInv, TypeOK
    <2>5. shifts'[i] # NoShift
      BY <2>1, <2>4, RosterAssumption
    <2>6. shifts'[i].seriesId = r.seriesId /\ AssignmentOf(shifts'[i]) = AssignmentOf(r.batch[r.pos])
      BY <2>1 DEF NewShift, AssignmentOf, Current
    <2>7. ASSUME NEW b \in req'[w].accepted
          PROVE  (a[1] = b[1]) <=> (a[2] = b[2])
      <3>1. CASE b \in r.accepted
        <4>1. b[1] # r.pos /\ shifts[b[2]] # NoShift
          BY <1>4, <1>5, <3>1 DEF ItemOK
        <4>. QED
          BY <2>1, <2>2, <4>1
      <3>2. CASE b \in acc
        BY <2>1, <2>2, <3>2
      <3>. QED
        BY <1>3, <2>7, <3>1, <3>2
    <2>. QED
      BY <1>3, <2>2, <2>3, <2>5, <2>6, <2>7 DEF ItemOK
  <1>12. req'[w].pc = "respond" => req'[w].pos = Len(req'[w].batch) + 1
    BY <1>3
  <1>13. \A a \in req'[w].accepted : ItemOK(req[w], a)'
    BY <1>3, <1>10, <1>11
  <1>. QED
    BY <1>9, <1>12, <1>13 DEF ReportOK

LEMMA ReportStep ==
    ASSUME RosterInv, [Next]_vars, NEW v \in Requests, ReportOK(v)
    PROVE  ReportOK(v)'
  <1>0. TypeOK /\ FlightTypeOK /\ req \in [Requests -> {Idle} \union CreateRequest \union UpdateRequest \union CancelRequest]
    BY DEF RosterInv, TypeOK, FlightTypeOK
  <1>1. CASE req'[v] = req[v]
    BY <1>1, ReportBystander
  <1>2. ASSUME NEW w \in Requests, NEW changed, End(w, changed)
        PROVE  ReportOK(v)'
    BY <1>0, <1>1, <1>2, EndStep, NothingReported DEF Idle
  <1>3. ASSUME NEW w \in Requests, NEW changed, Reject(w, changed),
               req[w].pc \in {"assign", "overlap", "insert"}
        PROVE  ReportOK(v)'
    BY <1>0, <1>1, <1>3, ItemReported, NextItemStep DEF Reject
  <1>4. ASSUME NEW w \in Requests, NEW pc, req[w].pc \in {"assign", "overlap"}, pc # "respond",
               req' = [req EXCEPT ![w].pc = pc]
        PROVE  ReportOK(v)'
    <2>1. CASE w = v
      <3>1. Creating(v)
        BY <1>0, <1>4, <2>1, RequestKind DEF Creating
      <3>2. /\ req'[v].batch = req[v].batch /\ req'[v].pos = req[v].pos
            /\ req'[v].seriesId = req[v].seriesId /\ req'[v].accepted = req[v].accepted
            /\ req'[v].rejected = req[v].rejected /\ req'[v].pc = pc
        BY <1>0, <1>4, <2>1, <3>1 DEF Creating, CreateRequest
      <3>. QED
        BY <1>4, <3>1, <3>2, ReportKept
    <2>2. CASE w # v
      BY <1>0, <1>1, <1>4, <2>2
    <2>. QED
      BY <2>1, <2>2
  <1>5. ASSUME NEW w \in Requests, BeginCreate(w) \/ BeginBulk(w)
        PROVE  ReportOK(v)'
    <2>1. PICK p, batch, s : Begin(w, p, batch, s)
      BY <1>5 DEF BeginCreate, BeginBulk
    <2>2. CASE w = v
      <3>1. /\ req'[v].pc = "assign" /\ req'[v].pos = 1
            /\ req'[v].accepted = {} /\ req'[v].rejected = {}
        BY <1>0, <2>1, <2>2 DEF Begin
      <3>2. Reported(v)' = {} /\ 1..(req'[v].pos - 1) = {}
        BY <3>1 DEF Reported
      <3>. QED
        BY <3>1, <3>2 DEF ReportOK
    <2>3. CASE w # v
      BY <1>0, <1>1, <2>1, <2>3 DEF Begin
    <2>. QED
      BY <2>2, <2>3
  <1>6. ASSUME NEW w \in Requests, FindForUpdate(w) \/ FindForCancel(w)
        PROVE  ReportOK(v)'
    <2>1. CASE w = v
      <3>1. req'[v].pc \in {"recheck", "save", "cancel"}
        BY <1>0, <1>6, <2>1 DEF FindForUpdate, FindForCancel
      <3>. QED
        BY <3>1, NothingReported
    <2>2. CASE w # v
      BY <1>0, <1>1, <1>6, <2>2 DEF FindForUpdate, FindForCancel
    <2>. QED
      BY <2>1, <2>2
  <1>7. ASSUME NEW w \in Requests, CheckAssignment(w)
        PROVE  ReportOK(v)'
    BY <1>3, <1>4, <1>7 DEF CheckAssignment
  <1>8. ASSUME NEW w \in Requests, CheckOverlap(w)
        PROVE  ReportOK(v)'
    BY <1>3, <1>4, <1>8 DEF CheckOverlap
  <1>9. ASSUME NEW w \in Requests, InsertShift(w)
        PROVE  ReportOK(v)'
    <2>1. PICK i \in ShiftIds :
             /\ shifts[i] = NoShift
             /\ shifts' = [shifts EXCEPT ![i] = NewShift(Current(w), req[w].seriesId)]
             /\ NextItem(w, {<<req[w].pos, i>>}, {}, {i}) \/ Reject(w, {i})
      BY <1>9 DEF InsertShift
    <2>2. req[w].pc = "insert" /\ shifts'[i] = NewShift(Current(w), req[w].seriesId)
      BY <1>9, <2>1 DEF InsertShift, RosterInv, TypeOK, StoreTypeOK
    <2>3. CASE Reject(w, {i})
      BY <1>3, <2>2, <2>3
    <2>4. CASE NextItem(w, {<<req[w].pos, i>>}, {}, {i}) /\ w = v
      BY <2>1, <2>2, <2>4, ItemReported
    <2>5. CASE NextItem(w, {<<req[w].pos, i>>}, {}, {i}) /\ w # v
      BY <1>0, <1>1, <2>2, <2>5, NextItemStep
    <2>. QED
      BY <2>1, <2>3, <2>4, <2>5
  <1>10. ASSUME NEW w \in Requests, RecheckOverlap(w)
         PROVE  ReportOK(v)'
    <2>1. CASE req' = [req EXCEPT ![w].pc = "save"]
      <3>1. CASE w = v
        <4>1. req[v] \in UpdateRequest
          BY <1>0, <1>10, <3>1, RequestKind DEF RecheckOverlap
        <4>2. req'[v].pc = "save"
          BY <1>0, <2>1, <3>1, <4>1 DEF UpdateRequest
        <4>. QED
          BY <4>2, NothingReported
      <3>2. CASE w # v
        BY <1>0, <1>1, <2>1, <3>2
      <3>. QED
        BY <3>1, <3>2
    <2>. QED
      BY <1>2, <1>10, <2>1 DEF RecheckOverlap
  <1>11. ASSUME NEW w \in Requests, Respond(w) \/ SaveUpdate(w) \/ SaveCancel(w) \/ CallFails(w)
         PROVE  ReportOK(v)'
    BY <1>2, <1>3, <1>11 DEF Respond, SaveUpdate, SaveCancel, CallFails
  <1>12. CASE Crash
    BY <1>12, NothingReported DEF Crash, Idle
  <1>13. CASE UNCHANGED req
    BY <1>1, <1>13
  <1>. QED
    BY <1>5, <1>6, <1>7, <1>8, <1>9, <1>10, <1>11, <1>12, <1>13
       DEF Next, Proceed, Activate, Deactivate, vars

(* The answer to a bulk create accounts for every item exactly once, and      *)
(* every accepted item is a stored shift of that item, whatever fails or      *)
(* races (bulkCreateSchedules).                                               *)
THEOREM BulkAccountsForAll == Spec => []BulkReportSound
  <1>. DEFINE AllOK == \A w \in Requests : ReportOK(w)
  <1>1. Init => AllOK
    BY DEF Init, ReportOK, Creating, CreateRequest, Idle
  <1>2. RosterInv /\ AllOK /\ [Next]_vars => AllOK'
    BY ReportStep
  <1>3. RosterInv /\ AllOK => BulkReportSound
    <2>. SUFFICES ASSUME RosterInv, AllOK, NEW w \in Requests, Creating(w)
                  PROVE  /\ Reported(w) = 1..(req[w].pos - 1)
                         /\ req[w].pc = "respond" => Reported(w) = 1..Len(req[w].batch)
                         /\ \A a \in req[w].accepted : ItemOK(req[w], a)
      BY DEF BulkReportSound, ItemOK
    <2>1. req[w].batch \in Seq(Body)
      BY DEF Creating, CreateRequest
    <2>2. Len(req[w].batch) + 1 - 1 = Len(req[w].batch)
      BY <2>1
    <2>. QED
      BY <2>2 DEF ReportOK
  <1>. HIDE DEF AllOK
  <1>. QED
    BY <1>1, <1>2, <1>3, RosterInvariant, PTL DEF Spec

-----------------------------------------------------------------------------
(* Bookings and assignments. *)

\* Until its insert a request relies on the assignment it found, or has missed its end.
AssignmentChecked(w) ==
    req[w].pc \in {"overlap", "insert"} => AssignmentOf(Current(w)) \in assigned \union stale[w]

LEMMA AssignmentStep ==
    ASSUME RosterInv, [Next]_vars, NEW v \in Requests, AssignmentChecked(v)
    PROVE  AssignmentChecked(v)'
  <1>0. TypeOK /\ FlightTypeOK
    BY DEF RosterInv, TypeOK
  <1>1. ASSUME req'[v] = req[v], assigned' = assigned, stale[v] \subseteq stale'[v]
        PROVE  AssignmentChecked(v)'
    BY <1>1 DEF AssignmentChecked, Current
  <1>2. ASSUME req'[v].pc \notin {"overlap", "insert"}
        PROVE  AssignmentChecked(v)'
    BY <1>2 DEF AssignmentChecked
  <1>3. ASSUME NEW w \in Requests, w # v, StepOf(w), assigned' = assigned
        PROVE  AssignmentChecked(v)'
    BY <1>1, <1>3 DEF StepOf, Step
  <1>4. ASSUME NEW w \in Requests, NEW changed, End(w, changed), assigned' = assigned
        PROVE  AssignmentChecked(v)'
    BY <1>0, <1>1, <1>2, <1>4, EndStep DEF Idle
  <1>5. ASSUME NEW w \in Requests, NEW acc, NEW rej, NEW changed, NextItem(w, acc, rej, changed),
               req[w].pc \in {"assign", "overlap", "insert"}, assigned' = assigned
        PROVE  AssignmentChecked(v)'
    BY <1>0, <1>1, <1>2, <1>5, NextItemStep
  <1>6. ASSUME NEW w \in Requests, BeginCreate(w) \/ BeginBulk(w)
        PROVE  AssignmentChecked(v)'
    <2>1. PICK p, batch, s : Begin(w, p, batch, s)
      BY <1>6 DEF BeginCreate, BeginBulk
    <2>2. CASE w = v
      <3>1. req'[v].pc = "assign"
        BY <1>0, <2>1, <2>2 DEF Begin, FlightTypeOK
      <3>. QED
        BY <1>2, <3>1
    <2>3. CASE w # v
      BY <1>3, <1>6, <2>1, <2>3, BeginStep DEF Begin
    <2>. QED
      BY <2>2, <2>3
  <1>7. ASSUME NEW w \in Requests, FindForUpdate(w) \/ FindForCancel(w)
        PROVE  AssignmentChecked(v)'
    <2>1. CASE w = v
      <3>1. req'[v].pc \in {"recheck", "save", "cancel"}
        BY <1>0, <1>7, <2>1 DEF FindForUpdate, FindForCancel, FlightTypeOK
      <3>. QED
        BY <1>2, <3>1
    <2>2. CASE w # v
      BY <1>3, <1>7, <2>2, FindForUpdateStep, FindForCancelStep DEF FindForUpdate, FindForCancel
    <2>. QED
      BY <2>1, <2>2
  <1>8. ASSUME NEW w \in Requests, CheckAssignment(w)
        PROVE  AssignmentChecked(v)'
    <2>1. CASE Reject(w, {})
      BY <1>5, <1>8, <2>1 DEF CheckAssignment, Reject
    <2>2. CASE ~Reject(w, {}) /\ w = v
      <3>1. AssignmentOf(Current(v)) \in assigned /\ req' = [req EXCEPT ![v].pc = "overlap"]
            /\ assigned' = assigned
        BY <1>8, <2>2 DEF CheckAssignment
      <3>2. req[v] \in CreateRequest
        BY <1>0, <1>8, <2>2, RequestKind DEF CheckAssignment
      <3>3. req'[v].batch = req[v].batch /\ req'[v].pos = req[v].pos
        BY <1>0, <3>1, <3>2 DEF FlightTypeOK, CreateRequest
      <3>. QED
        BY <3>1, <3>3 DEF AssignmentChecked, Current
    <2>3. CASE w # v
      BY <1>3, <1>8, <2>3, CheckAssignmentStep DEF CheckAssignment
    <2>. QED
      BY <2>1, <2>2, <2>3
  <1>9. ASSUME NEW w \in Requests, CheckOverlap(w)
        PROVE  AssignmentChecked(v)'
    <2>1. CASE Reject(w, {})
      BY <1>5, <1>9, <2>1 DEF CheckOverlap, Reject
    <2>2. CASE ~Reject(w, {}) /\ w = v
      <3>1. /\ req' = [req EXCEPT ![v].pc = "insert"] /\ req[v].pc = "overlap"
            /\ Observe(v, {AssignmentOf(Current(v))}, {}) /\ assigned' = assigned
        BY <1>9, <2>2 DEF CheckOverlap
      <3>2. req[v] \in CreateRequest
        BY <1>0, <3>1, RequestKind
      <3>3. req'[v].batch = req[v].batch /\ req'[v].pos = req[v].pos
        BY <1>0, <3>1, <3>2 DEF FlightTypeOK, CreateRequest
      <3>4. stale'[v] = stale[v] \intersect {AssignmentOf(Current(v))}
        BY <3>1 DEF Observe
      <3>. QED
        BY <3>1, <3>3, <3>4 DEF AssignmentChecked, Current
    <2>3. CASE w # v
      BY <1>3, <1>9, <2>3, CheckOverlapStep DEF CheckOverlap
    <2>. QED
      BY <2>1, <2>2, <2>3
  <1>10. ASSUME NEW w \in Requests, InsertShift(w)
         PROVE  AssignmentChecked(v)'
    BY <1>5, <1>10 DEF InsertShift, Reject
  <1>11. ASSUME NEW w \in Requests, RecheckOverlap(w)
         PROVE  AssignmentChecked(v)'
    <2>1. CASE w = v /\ req' = [req EXCEPT ![w].pc = "save"]
      <3>1. req[v] \in UpdateRequest
        BY <1>0, <1>11, <2>1, RequestKind DEF RecheckOverlap
      <3>2. req'[v].pc = "save"
        BY <1>0, <2>1, <3>1 DEF FlightTypeOK, UpdateRequest
      <3>. QED
        BY <1>2, <3>2
    <2>2. CASE w # v
      BY <1>3, <1>11, <2>2, RecheckOverlapStep DEF RecheckOverlap
    <2>. QED
      BY <1>4, <1>11, <2>1, <2>2 DEF RecheckOverlap
  <1>12. ASSUME NEW w \in Requests, Respond(w) \/ SaveUpdate(w) \/ SaveCancel(w) \/ CallFails(w)
         PROVE  AssignmentChecked(v)'
    BY <1>4, <1>5, <1>12 DEF Respond, SaveUpdate, SaveCancel, CallFails, Reject
  <1>13. CASE Crash
    BY <1>2, <1>13 DEF Crash, Idle
  <1>14. ASSUME NEW t \in Assignment, Activate(t) \/ Deactivate(t)
         PROVE  AssignmentChecked(v)'
    BY <1>14 DEF Activate, Deactivate, AssignmentChecked, Current
  <1>15. CASE UNCHANGED vars
    BY <1>1, <1>15 DEF vars
  <1>. QED
    BY <1>6, <1>7, <1>8, <1>9, <1>10, <1>11, <1>12, <1>13, <1>14, <1>15 DEF Next, Proceed

\* Only an insert adds a shift.
LEMMA NewShiftIsInserted ==
    ASSUME RosterInv, [Next]_vars, NEW i \in ShiftIds, shifts[i] = NoShift, shifts'[i] # NoShift
    PROVE  \E w \in Requests : /\ req[w].pc = "insert" /\ req'[w] # req[w]
                               /\ AssignmentOf(shifts'[i]) = AssignmentOf(Current(w))
  <1>1. ASSUME NEW w \in Requests, InsertShift(w)
        PROVE  /\ req[w].pc = "insert" /\ req'[w] # req[w]
               /\ AssignmentOf(shifts'[i]) = AssignmentOf(Current(w))
    <2>1. PICK k \in ShiftIds :
             /\ shifts' = [shifts EXCEPT ![k] = NewShift(Current(w), req[w].seriesId)]
             /\ NextItem(w, {<<req[w].pos, k>>}, {}, {k}) \/ Reject(w, {k})
      BY <1>1 DEF InsertShift
    <2>2. shifts'[i] = NewShift(Current(w), req[w].seriesId)
      BY <2>1 DEF RosterInv, TypeOK, StoreTypeOK
    <2>3. req[w].pc = "insert" /\ req'[w].pc \in {"assign", "respond"}
      BY <1>1, <2>1, NextItemStep DEF InsertShift, Reject, RosterInv
    <2>. QED
      BY <2>2, <2>3 DEF NewShift, AssignmentOf
  <1>2. ASSUME NEW w \in Requests, SaveUpdate(w)
        PROVE  FALSE
    <2>1. /\ req[w].id \in ShiftIds /\ shifts[req[w].id] \in ShiftDoc
          /\ \E d : shifts' = [shifts EXCEPT ![req[w].id] = d]
      BY <1>2, SaveUpdateFacts DEF UpdateRequest
    <2>. QED
      BY <2>1, RosterAssumption DEF RosterInv, TypeOK, StoreTypeOK
  <1>3. ASSUME NEW w \in Requests, SaveCancel(w)
        PROVE  FALSE
    <2>1. /\ req[w].id \in ShiftIds /\ shifts[req[w].id] # NoShift
          /\ \E d : shifts' = [shifts EXCEPT ![req[w].id] = d]
      BY <1>3, RequestKind DEF SaveCancel, CancelRequest, LoadedIsStored, RosterInv, TypeOK
    <2>. QED
      BY <2>1 DEF RosterInv, TypeOK, StoreTypeOK
  <1>4. PICK w \in Requests : InsertShift(w) \/ SaveUpdate(w) \/ SaveCancel(w)
    BY DEF Next, Proceed, vars, BeginCreate, BeginBulk, Begin, FindForUpdate, FindForCancel,
           CheckAssignment, CheckOverlap, Respond, RecheckOverlap, CallFails, Crash, Activate,
           Deactivate
  <1>. QED
    BY <1>1, <1>2, <1>3, <1>4

(* A shift is booked for an assignment that is active, or that was withdrawn  *)
(* while the request that books it was past its check                         *)
(* (assertEmployeeSiteAssignmentActive), however many requests race.          *)
THEOREM BookingsAreAssigned == Spec => BookingNeedsAssignment
  <1>. DEFINE Checked == \A w \in Requests : AssignmentChecked(w)
  <1>1. Init => Checked
    BY DEF Init, AssignmentChecked, Idle
  <1>2. RosterInv /\ Checked /\ [Next]_vars => Checked'
    BY AssignmentStep
  <1>3. RosterInv /\ Checked /\ [Next]_vars =>
          [ \A i \in ShiftIds : shifts[i] = NoShift /\ shifts'[i] # NoShift =>
              \/ AssignmentOf(shifts'[i]) \in assigned
              \/ \E w \in Requests : /\ req[w].pc = "insert"
                                    /\ req'[w] # req[w]
                                    /\ AssignmentOf(shifts'[i]) \in stale[w] ]_vars
    BY NewShiftIsInserted DEF AssignmentChecked
  <1>. HIDE DEF Checked
  <1>. QED
    BY <1>1, <1>2, <1>3, RosterInvariant, PTL DEF Spec, BookingNeedsAssignment

-----------------------------------------------------------------------------
(* The life of a request: accepted while idle, then forward one call at a     *)
(* time with its caller and its body unchanged, until it is idle again.       *)

Continues(w) ==
    \/ /\ req[w] \in CreateRequest /\ req'[w] \in CreateRequest
       /\ req'[w].caller = req[w].caller /\ req'[w].batch = req[w].batch
       /\ \/ /\ req'[w].pos = req[w].pos
             /\ \/ req[w].pc = "assign" /\ req'[w].pc = "overlap"
                \/ req[w].pc = "overlap" /\ req'[w].pc = "insert"
          \/ /\ req'[w].pos = req[w].pos + 1
             /\ req[w].pc \in {"assign", "overlap", "insert"}
             /\ req'[w].pc = IF req[w].pos = Len(req[w].batch) THEN "respond" ELSE "assign"
    \/ /\ req[w] \in UpdateRequest /\ req'[w] \in UpdateRequest
       /\ req[w].pc = "recheck" /\ req'[w].pc = "save"
       /\ req'[w].caller = req[w].caller /\ req'[w].id = req[w].id /\ req'[w].snap = req[w].snap

Accepts(w) == BeginCreate(w) \/ BeginBulk(w) \/ FindForUpdate(w) \/ FindForCancel(w)

LEMMA NextItemContinues ==
    ASSUME RosterInv, NEW w \in Requests, NEW acc, NEW rej, NEW changed, NextItem(w, acc, rej, changed),
           req[w].pc \in {"assign", "overlap", "insert"}, req'[w] \in CreateRequest
    PROVE  Continues(w)
  <1>1. req[w] \in CreateRequest
    BY RequestKind DEF RosterInv, TypeOK
  <1>. QED
    BY <1>1 DEF NextItem, Continues, CreateRequest, RosterInv, TypeOK, FlightTypeOK

\* A create request keeps its type.
LEMMA CreateStays ==
    ASSUME RosterInv, [Next]_vars, NEW w \in Requests,
           req'[w].pc \in {"assign", "overlap", "insert", "respond"}
    PROVE  req'[w] \in CreateRequest
  <1>1. FlightTypeOK'
    BY InvNext DEF RosterInv, TypeOK
  <1>2. req'[w] \in {Idle} \union CreateRequest \union UpdateRequest \union CancelRequest
    BY <1>1 DEF FlightTypeOK, Idle, CreateRequest, UpdateRequest, CancelRequest
  <1>. QED
    BY <1>2 DEF Idle, UpdateRequest, CancelRequest

LEMMA ProceedContinues ==
    ASSUME RosterInv, NEW w \in Requests, Proceed(w)
    PROVE  req[w] # Idle /\ (req'[w] = Idle \/ Continues(w))
  <1>0. Next
    BY DEF Next
  <1>1. req[w] # Idle
    BY DEF Proceed, CheckAssignment, CheckOverlap, InsertShift, Respond, RecheckOverlap, SaveUpdate,
           SaveCancel, CallFails, Idle
  <1>2. ASSUME NEW acc, NEW rej, NEW changed, NextItem(w, acc, rej, changed),
               req[w].pc \in {"assign", "overlap", "insert"}
        PROVE  Continues(w)
    <2>1. req'[w].pc \in {"assign", "respond"}
      BY <1>2, NextItemStep DEF RosterInv
    <2>. QED
      BY <1>0, <1>2, <2>1, NextItemContinues, CreateStays
  <1>3. ASSUME NEW changed, End(w, changed)
        PROVE  req'[w] = Idle
    BY <1>3 DEF End, RosterInv, TypeOK, FlightTypeOK
  <1>4. ASSUME NEW l \in {"overlap", "insert"}, req' = [req EXCEPT ![w].pc = l],
               req[w].pc = IF l = "overlap" THEN "assign" ELSE "overlap"
        PROVE  Continues(w)
    <2>1. req[w] \in CreateRequest
      BY <1>4, RequestKind DEF RosterInv, TypeOK
    <2>. QED
      BY <1>4, <2>1 DEF Continues, CreateRequest, RosterInv, TypeOK, FlightTypeOK
  <1>5. CASE CheckAssignment(w)
    BY <1>1, <1>2, <1>4, <1>5 DEF CheckAssignment, Reject
  <1>6. CASE CheckOverlap(w)
    BY <1>1, <1>2, <1>4, <1>6 DEF CheckOverlap, Reject
  <1>7. CASE InsertShift(w)
    BY <1>1, <1>2, <1>7 DEF InsertShift, Reject
  <1>8. CASE RecheckOverlap(w)
    <2>1. ASSUME req' = [req EXCEPT ![w].pc = "save"]
          PROVE  Continues(w)
      <3>1. req[w] \in UpdateRequest /\ req[w].pc = "recheck"
        BY <1>8, RequestKind DEF RecheckOverlap, RosterInv, TypeOK
      <3>. QED
        BY <2>1, <3>1 DEF Continues, UpdateRequest, RosterInv, TypeOK, FlightTypeOK
    <2>. QED
      BY <1>1, <1>3, <1>8, <2>1 DEF RecheckOverlap
  <1>9. CASE Respond(w) \/ SaveUpdate(w) \/ SaveCancel(w)
    BY <1>1, <1>3, <1>9 DEF Respond, SaveUpdate, SaveCancel
  <1>10. CASE CallFails(w)
    BY <1>1, <1>2, <1>3, <1>10 DEF CallFails, Reject
  <1>. QED
    BY <1>1, <1>5, <1>6, <1>7, <1>8, <1>9, <1>10 DEF Proceed

\* What any step of the system does to request v.
LEMMA RequestLife ==
    ASSUME RosterInv, [Next]_vars, NEW v \in Requests
    PROVE  \/ req'[v] = req[v]
           \/ req'[v] = Idle
           \/ req[v] = Idle /\ Accepts(v)
           \/ Continues(v)
  <1>1. ASSUME NEW w \in Requests, Accepts(w)
        PROVE  req[w] = Idle /\ (v # w => req'[v] = req[v])
    BY <1>1 DEF Accepts, BeginCreate, BeginBulk, Begin, FindForUpdate, FindForCancel,
                RosterInv, TypeOK, FlightTypeOK
  <1>2. ASSUME NEW w \in Requests, Proceed(w), v # w
        PROVE  req'[v] = req[v]
    <2>1. StepOf(w)
      BY <1>2, CheckAssignmentStep, CheckOverlapStep, InsertShiftStep, RespondStep, RecheckOverlapStep,
         SaveUpdateStep, SaveCancelStep, CallFailsStep DEF Proceed
    <2>. QED
      BY <1>2, <2>1 DEF StepOf, Step
  <1>3. ASSUME Crash
        PROVE  req'[v] = Idle
    BY <1>3 DEF Crash
  <1>4. CASE UNCHANGED vars \/ \E t \in Assignment : Activate(t) \/ Deactivate(t)
    BY <1>4 DEF Activate, Deactivate, vars
  <1>. QED
    BY <1>1, <1>2, <1>3, <1>4, ProceedContinues DEF Next, Accepts

\* Only three actions touch the collection.
LEMMA OnlyWrites ==
    ASSUME [Next]_vars, \A w \in Requests : ~(InsertShift(w) \/ SaveUpdate(w) \/ SaveCancel(w))
    PROVE  shifts' = shifts
    BY DEF Next, Proceed, vars, BeginCreate, BeginBulk, Begin, FindForUpdate,
           FindForCancel, CheckAssignment, CheckOverlap, Respond, RecheckOverlap, CallFails,
           Crash, Activate, Deactivate

-----------------------------------------------------------------------------
(* Scope: what a request writes stays inside what its caller may write. *)

(* The two ways the code scopes a request agree: a document passes the filter *)
(* of a read exactly when its client and site pass the check of a write       *)
(* (getReadSiteFilter, assertSameSite).                                       *)
THEOREM ReadAndWriteScopesAgree ==
    ASSUME NEW p \in Principal, NEW d \in [clientId: Clients, siteId: Sites]
    PROVE  Matches(d, ReadSiteFilter(p, NoClient)) <=> SameSite(p, d.clientId, d.siteId)
  <1>1. ReadSiteFilter(p, NoClient).clientId = IF p.role = "PLATFORM_ADMIN" THEN Clients ELSE {p.clientId}
    BY DEF ReadSiteFilter, ReadClientFilter
  <1>2. ReadSiteFilter(p, NoClient).siteId = IF p.role = "SITE_MANAGER" THEN p.siteIds ELSE Sites
    BY DEF ReadSiteFilter, ReadClientFilter
  <1>. QED
    BY <1>1, <1>2 DEF Matches, SameSite, SameClient

\* The same for a document with more fields.
LEMMA InScopeDoc ==
    ASSUME NEW p \in Principal, NEW d, d.clientId \in Clients, d.siteId \in Sites
    PROVE  Matches(d, ReadSiteFilter(p, NoClient)) <=> SameSite(p, d.clientId, d.siteId)
  <1>1. [clientId |-> d.clientId, siteId |-> d.siteId] \in [clientId: Clients, siteId: Sites]
    OBVIOUS
  <1>. QED
    BY <1>1, ReadAndWriteScopesAgree DEF Matches

\* The client a platform admin asks for only narrows the filter.
LEMMA RequestedNarrows ==
    ASSUME NEW p \in Principal, NEW requested \in Clients \union {NoClient}, NEW d \in ShiftDoc,
           Matches(d, ReadSiteFilter(p, requested))
    PROVE  Matches(d, ReadSiteFilter(p, NoClient))
    BY DEF Matches, ReadSiteFilter, ReadClientFilter, ShiftDoc

\* What a request in flight was allowed to write when it was accepted is still allowed.
InScope(w) ==
    /\ req[w] \in CreateRequest => BatchInScope(req[w].caller, req[w].batch)
    /\ req[w].pc \in {"recheck", "save", "cancel"} =>
          Matches(shifts[req[w].id], ReadSiteFilter(req[w].caller, NoClient))

LEMMA MatchesOwner ==
    ASSUME NEW d, NEW e, NEW f, AssignmentOf(d) = AssignmentOf(e), Matches(d, f)
    PROVE  Matches(e, f)
    BY DEF AssignmentOf, Matches

LEMMA ScopeKept ==
    ASSUME RosterInv, [Next]_vars, NEW v \in Requests, InScope(v)
    PROVE  InScope(v)'
  <1>1. ASSUME NEW id \in ShiftIds, shifts[id] # NoShift, NEW p, Matches(shifts[id], ReadSiteFilter(p, NoClient))
        PROVE  Matches(shifts'[id], ReadSiteFilter(p, NoClient))
    BY <1>1, OwnersKept, MatchesOwner
  <1>2. req[v].pc \in {"recheck", "save", "cancel"} => req[v].id \in ShiftIds /\ shifts[req[v].id] # NoShift
    BY RequestKind DEF RosterInv, TypeOK, LoadedIsStored, UpdateRequest, CancelRequest
  <1>3. CASE req'[v] = req[v]
    BY <1>1, <1>2, <1>3 DEF InScope, BatchInScope, SameSite, SameClient, Matches
  <1>4. CASE req'[v] = Idle
    BY <1>4 DEF InScope, Idle, CreateRequest
  <1>5. CASE Continues(v)
    <2>1. CASE req'[v] \in CreateRequest
      BY <1>5, <2>1 DEF Continues, InScope, CreateRequest, UpdateRequest, BatchInScope, SameSite, SameClient
    <2>2. CASE req'[v] \in UpdateRequest
      <3>1. req[v].pc = "recheck" /\ req'[v].id = req[v].id /\ req'[v].caller = req[v].caller
        BY <1>5, <2>2 DEF Continues, CreateRequest, UpdateRequest
      <3>2. Matches(shifts'[req'[v].id], ReadSiteFilter(req'[v].caller, NoClient))
        BY <1>1, <1>2, <3>1 DEF InScope
      <3>3. req'[v] \notin CreateRequest
        BY <2>2 DEF CreateRequest, UpdateRequest
      <3>. QED
        BY <3>2, <3>3 DEF InScope, Matches
    <2>. QED
      BY <1>5, <2>1, <2>2 DEF Continues
  <1>6. CASE BeginCreate(v) \/ BeginBulk(v)
    <2>1. PICK p, batch, t : Begin(v, p, batch, t)
      BY <1>6 DEF BeginCreate, BeginBulk
    <2>2. /\ req'[v].pc = "assign" /\ req'[v].caller = p /\ req'[v].batch = batch
          /\ BatchInScope(p, batch)
      BY <2>1 DEF Begin, RosterInv, TypeOK, FlightTypeOK
    <2>. QED
      BY <2>2 DEF InScope, BatchInScope, SameSite, SameClient
  <1>7. CASE FindForUpdate(v)
    <2>1. PICK p \in Callers, i \in ShiftIds, patch \in Patches, requested \in Clients \union {NoClient} :
             /\ shifts[i] # NoShift
             /\ Matches(shifts[i], ReadSiteFilter(p, requested))
             /\ req' = [ req EXCEPT ![v] =
                           [ pc |-> IF PatchesRange(patch) THEN "recheck" ELSE "save",
                             caller |-> p, id |-> i, snap |-> shifts[i], patch |-> patch ] ]
      BY <1>7 DEF FindForUpdate
    <2>2. /\ req'[v].pc \in {"recheck", "save"} /\ req'[v].id = i /\ req'[v].caller = p
          /\ shifts[i] \in ShiftDoc /\ p \in Principal
      BY <2>1, RosterAssumption DEF RosterInv, TypeOK, StoreTypeOK, FlightTypeOK
    <2>3. Matches(shifts'[i], ReadSiteFilter(p, NoClient))
      BY <1>1, <2>1, <2>2, RequestedNarrows
    <2>4. req'[v] \notin CreateRequest
      BY <2>2 DEF CreateRequest
    <2>. QED
      BY <2>2, <2>3, <2>4 DEF InScope, Matches
  <1>8. CASE FindForCancel(v)
    <2>1. PICK p \in Callers, i \in ShiftIds, requested \in Clients \union {NoClient} :
             /\ shifts[i] # NoShift
             /\ Matches(shifts[i], ReadSiteFilter(p, requested))
             /\ req' = [req EXCEPT ![v] = [pc |-> "cancel", caller |-> p, id |-> i]]
      BY <1>8 DEF FindForCancel
    <2>2. /\ req'[v].pc = "cancel" /\ req'[v].id = i /\ req'[v].caller = p
          /\ shifts[i] \in ShiftDoc /\ p \in Principal
      BY <2>1, RosterAssumption DEF RosterInv, TypeOK, StoreTypeOK, FlightTypeOK
    <2>3. Matches(shifts'[i], ReadSiteFilter(p, NoClient))
      BY <1>1, <2>1, <2>2, RequestedNarrows
    <2>4. req'[v] \notin CreateRequest
      BY <2>2 DEF CreateRequest
    <2>. QED
      BY <2>2, <2>3, <2>4 DEF InScope, Matches
  <1>. QED
    BY <1>3, <1>4, <1>5, <1>6, <1>7, <1>8, RequestLife DEF Accepts

ScopeInv == RosterInv /\ \A w \in Requests : InScope(w)

LEMMA ScopeInvHolds == Spec => []ScopeInv
  <1>1. RosterInv /\ Init => ScopeInv
    BY DEF Init, ScopeInv, InScope, Idle, CreateRequest
  <1>2. ScopeInv /\ [Next]_vars => ScopeInv'
    BY InvNext, ScopeKept DEF ScopeInv
  <1>. QED
    BY <1>1, <1>2, RosterInvariant, PTL DEF Spec

\* The document each writer leaves lies in the scope of its caller.
LEMMA WriteInScope ==
    ASSUME ScopeInv, NEW w \in Requests, InsertShift(w) \/ SaveUpdate(w) \/ SaveCancel(w),
           NEW i \in ShiftIds, shifts'[i] # shifts[i]
    PROVE  /\ req[w] # Idle /\ req'[w] # req[w]
           /\ Matches(shifts'[i], ReadSiteFilter(req[w].caller, NoClient))
  <1>. USE DEF ScopeInv
  <1>0. Proceed(w) /\ Next
    BY DEF Proceed, Next
  <1>1. req[w] # Idle /\ req'[w] # req[w]
    <2>1. req[w] # Idle /\ (req'[w] = Idle \/ Continues(w))
      BY <1>0, ProceedContinues
    <2>2. Continues(w) => req'[w] # req[w]
      BY DEF Continues, CreateRequest
    <2>. QED
      BY <2>1, <2>2
  <1>2. CASE InsertShift(w)
    <2>. DEFINE b == Current(w)
    <2>1. shifts'[i] = NewShift(b, req[w].seriesId)
      BY <1>2 DEF InsertShift, RosterInv, TypeOK, StoreTypeOK
    <2>2. req[w] \in CreateRequest /\ req[w].pos \in 1..Len(req[w].batch) /\ b \in Body
      BY <1>2, RequestKind, CurrentType DEF InsertShift, RosterInv, TypeOK, FlightTypeOK
    <2>3. SameSite(req[w].caller, b.clientId, b.siteId)
      BY <2>2 DEF InScope, BatchInScope, Current
    <2>4. shifts'[i].clientId = b.clientId /\ shifts'[i].siteId = b.siteId
      BY <2>1 DEF NewShift
    <2>5. req[w].caller \in Principal /\ b.clientId \in Clients /\ b.siteId \in Sites
      BY <2>2, RosterAssumption DEF CreateRequest, Body
    <2>. HIDE DEF b
    <2>. QED
      BY <1>1, <2>3, <2>4, <2>5, InScopeDoc
  <1>3. CASE SaveUpdate(w) \/ SaveCancel(w)
    <2>1. req[w].pc \in {"save", "cancel"} /\ req[w].id \in ShiftIds /\ shifts[req[w].id] # NoShift
      BY <1>3, RequestKind DEF SaveUpdate, SaveCancel, RosterInv, TypeOK, LoadedIsStored,
         UpdateRequest, CancelRequest
    <2>2. i = req[w].id
      BY <1>3 DEF SaveUpdate, SaveCancel, RosterInv, TypeOK, StoreTypeOK
    <2>3. Matches(shifts[i], ReadSiteFilter(req[w].caller, NoClient))
      BY <2>1, <2>2 DEF InScope
    <2>. QED
      BY <1>0, <1>1, <2>1, <2>2, <2>3, OwnersKept, MatchesOwner
  <1>. QED
    BY <1>2, <1>3

(* However many requests race, every shift that changes is in the scope of    *)
(* the caller whose request writes it: the check made before the service is   *)
(* called, or the filter of the first read, still covers the document when    *)
(* it is written.                                                             *)
THEOREM WritesAreScoped == Spec => WritesStayInScope
  <1>1. ScopeInv /\ [Next]_vars =>
          [ \A i \in ShiftIds : shifts'[i] # shifts[i] =>
              \E w \in Requests :
                 /\ req[w] # Idle /\ req'[w] # req[w]
                 /\ Matches(shifts'[i], ReadSiteFilter(req[w].caller, NoClient)) ]_vars
    BY WriteInScope, OnlyWrites
  <1>. QED
    BY <1>1, ScopeInvHolds, PTL DEF Spec, WritesStayInScope

-----------------------------------------------------------------------------
(* Work left: the safety half of RequestsAnswered. *)

\* Database calls a request may still make, its answer included.
Left(r) ==
    CASE r.pc = "assign"  -> 3 * (Len(r.batch) - r.pos) + 4
      [] r.pc = "overlap" -> 3 * (Len(r.batch) - r.pos) + 3
      [] r.pc = "insert"  -> 3 * (Len(r.batch) - r.pos) + 2
      [] r.pc = "recheck" -> 2
      [] r.pc \in {"respond", "save", "cancel"} -> 1
      [] OTHER -> 0

(* The work of a request in flight is finite and never grows, whatever fails  *)
(* and whatever the other requests do: each of its own steps leaves it less,  *)
(* so the batch loop of bulkCreateSchedules and the handlers run down to      *)
(* their answer.                                                              *)
WorkRunsDown ==
    [][ \A w \in Requests :
          /\ Left(req[w]) \in Nat
          /\ req[w] # Idle => Left(req'[w]) <= Left(req[w])
          /\ Proceed(w) => Left(req'[w]) < Left(req[w]) ]_vars

LEMMA LeftIsNat ==
    ASSUME NEW r \in {Idle} \union CreateRequest \union UpdateRequest \union CancelRequest,
           r.pc \in {"assign", "overlap", "insert"} => r.pos \in 1..Len(r.batch)
    PROVE  Left(r) \in Nat /\ (r # Idle => Left(r) > 0)
  <1>1. CASE r.pc \in {"assign", "overlap", "insert"}
    <2>1. r.batch \in Seq(Body) /\ r.pos \in 1..Len(r.batch)
      BY <1>1 DEF Idle, CreateRequest, UpdateRequest, CancelRequest
    <2>2. Len(r.batch) \in Nat /\ Len(r.batch) - r.pos \in Nat
      BY <2>1
    <2>. QED
      BY <1>1, <2>2 DEF Left
  <1>2. CASE r.pc \in {"recheck", "save", "cancel", "respond"}
    BY <1>2 DEF Left
  <1>3. CASE r = Idle
    BY <1>3 DEF Left, Idle
  <1>. QED
    BY <1>1, <1>2, <1>3 DEF CreateRequest, UpdateRequest, CancelRequest

LEMMA ContinuesLeavesLess ==
    ASSUME RosterInv, NEW w \in Requests, Continues(w)
    PROVE  Left(req'[w]) < Left(req[w])
  <1>1. CASE req[w] \in UpdateRequest
    BY <1>1 DEF Continues, UpdateRequest, CreateRequest, Left
  <1>2. CASE req[w] \in CreateRequest
    <2>. DEFINE L == Len(req[w].batch)
    <2>1. /\ req[w].pc \in {"assign", "overlap", "insert"}
          /\ req'[w].batch = req[w].batch
          /\ req'[w].pos \in {req[w].pos, req[w].pos + 1}
      BY <1>2 DEF Continues, CreateRequest, UpdateRequest
    <2>2. L \in Nat /\ req[w].pos \in 1..L
      BY <1>2, <2>1 DEF RosterInv, TypeOK, FlightTypeOK, CreateRequest
    <2>. DEFINE m == 3 * (L - req[w].pos)
    <2>3. /\ m \in Nat
          /\ req[w].pc = "assign" => Left(req[w]) = m + 4
          /\ req[w].pc = "overlap" => Left(req[w]) = m + 3
          /\ req[w].pc = "insert" => Left(req[w]) = m + 2
      BY <2>2 DEF Left
    <2>4. CASE req'[w].pos = req[w].pos
      <3>1. /\ req'[w].pc = "overlap" => Left(req'[w]) = m + 3
            /\ req'[w].pc = "insert" => Left(req'[w]) = m + 2
        BY <2>1, <2>4 DEF Left
      <3>2. \/ req[w].pc = "assign" /\ req'[w].pc = "overlap"
            \/ req[w].pc = "overlap" /\ req'[w].pc = "insert"
        BY <1>2, <2>2, <2>4 DEF Continues, CreateRequest, UpdateRequest
      <3>. HIDE DEF m
      <3>. QED
        BY <2>3, <3>1, <3>2
    <2>5. CASE req'[w].pos = req[w].pos + 1
      <3>1. req'[w].pc = IF req[w].pos = L THEN "respond" ELSE "assign"
        BY <1>2, <2>2, <2>5 DEF Continues, CreateRequest, UpdateRequest
      <3>2. CASE req[w].pos = L
        <4>1. Left(req'[w]) = 1
          BY <3>1, <3>2 DEF Left
        <4>. HIDE DEF m
        <4>. QED
          BY <2>1, <2>3, <4>1
      <3>3. CASE req[w].pos # L
        <4>1. Left(req'[w]) = 3 * (L - (req[w].pos + 1)) + 4
          BY <2>1, <2>5, <3>1, <3>3 DEF Left
        <4>2. Left(req'[w]) = m + 1
          BY <2>2, <4>1
        <4>. HIDE DEF m
        <4>. QED
          BY <2>1, <2>3, <4>2
      <3>. QED
        BY <3>2, <3>3
    <2>. QED
      BY <2>1, <2>4, <2>5
  <1>. QED
    BY <1>1, <1>2 DEF Continues

(* Once accepted, a request takes at most as many steps as it has calls left; *)
(* nothing another request does can add to them.                              *)
THEOREM RequestsRunDown == Spec => WorkRunsDown
  <1>1. RosterInv /\ [Next]_vars =>
          [ \A w \in Requests :
              /\ Left(req[w]) \in Nat
              /\ req[w] # Idle => Left(req'[w]) <= Left(req[w])
              /\ Proceed(w) => Left(req'[w]) < Left(req[w]) ]_vars
    <2>. SUFFICES ASSUME RosterInv, [Next]_vars, NEW w \in Requests
                  PROVE  /\ Left(req[w]) \in Nat
                         /\ req[w] # Idle => Left(req'[w]) <= Left(req[w])
                         /\ Proceed(w) => Left(req'[w]) < Left(req[w])
      OBVIOUS
    <2>1. Left(req[w]) \in Nat /\ (req[w] # Idle => Left(req[w]) > 0)
      BY LeftIsNat DEF RosterInv, TypeOK, FlightTypeOK
    <2>2. Left(Idle) = 0
      BY DEF Left, Idle
    <2>3. Continues(w) => Left(req'[w]) < Left(req[w])
      BY ContinuesLeavesLess
    <2>4. Left(req'[w]) \in Nat
      <3>1. /\ req'[w] \in {Idle} \union CreateRequest \union UpdateRequest \union CancelRequest
            /\ req'[w].pc \in {"assign", "overlap", "insert"} => req'[w].pos \in 1..Len(req'[w].batch)
        BY InvNext DEF RosterInv, TypeOK, FlightTypeOK, Idle, CreateRequest, UpdateRequest, CancelRequest
      <3>. QED
        BY <3>1, LeftIsNat
    <2>5. req[w] # Idle => Left(req'[w]) <= Left(req[w])
      BY <2>1, <2>2, <2>3, <2>4, RequestLife
    <2>6. Proceed(w) => Left(req'[w]) < Left(req[w])
      BY <2>1, <2>2, <2>3, ProceedContinues
    <2>. QED
      BY <2>1, <2>5, <2>6
  <1>. QED
    BY <1>1, RosterInvariant, PTL DEF Spec, WorkRunsDown

-----------------------------------------------------------------------------
(* What Roster guarantees of a write whose request was told of no change: it  *)
(* saw the collection it writes to, so its checks still hold.                 *)

\* A loaded document was not cancelled when it was loaded.
LoadedLive == \A w \in Requests : req[w].pc \in {"recheck", "save"} => Editable(req[w].snap)

RaceInv == RosterInv /\ LoadedLive

\* Nobody changed a shift since w read the collection.
Calm(w) == stale[w] \intersect ShiftIds = {}

\* The writers of this step, if any, raced nobody.
CalmWrites == \A w \in Requests : InsertShift(w) \/ SaveUpdate(w) => Calm(w)

LEMMA LoadedStaysLive ==
    ASSUME RaceInv, [Next]_vars
    PROVE  LoadedLive'
  <1>. SUFFICES ASSUME NEW v \in Requests, req'[v].pc \in {"recheck", "save"}
                PROVE  Editable(req'[v].snap)
    BY DEF LoadedLive, Editable
  <1>. USE DEF RaceInv, LoadedLive
  <1>1. CASE req'[v] = req[v]
    BY <1>1
  <1>2. CASE Continues(v)
    BY <1>2 DEF Continues, CreateRequest
  <1>3. CASE FindForUpdate(v)
    BY <1>3 DEF FindForUpdate, RosterInv, TypeOK, FlightTypeOK
  <1>4. CASE req'[v] = Idle
    BY <1>4 DEF Idle
  <1>5. ASSUME NEW p, NEW batch, NEW t, Begin(v, p, batch, t)
        PROVE  FALSE
    BY <1>5 DEF Begin, RosterInv, TypeOK, FlightTypeOK
  <1>6. CASE FindForCancel(v)
    BY <1>6 DEF FindForCancel, RosterInv, TypeOK, FlightTypeOK
  <1>. QED
    BY <1>1, <1>2, <1>3, <1>4, <1>5, <1>6, RequestLife DEF Accepts, BeginCreate, BeginBulk

LEMMA RaceInvHolds == Spec => []RaceInv
  <1>1. RosterInv /\ Init => RaceInv
    BY DEF Init, RaceInv, LoadedLive, Idle
  <1>2. RaceInv /\ [Next]_vars => RaceInv'
    BY InvNext, LoadedStaysLive DEF RaceInv
  <1>. QED
    BY <1>1, <1>2, RosterInvariant, PTL DEF Spec

\* Saving over the loaded document stores the document in memory.
LEMMA SavedIsNew ==
    ASSUME NEW loaded \in ShiftDoc, NEW new \in ShiftDoc,
           new.clientId = loaded.clientId, new.employeeId = loaded.employeeId,
           new.siteId = loaded.siteId, new.seriesId = loaded.seriesId
    PROVE  Saved(loaded, loaded, new) = new
  <1>1. \A x, y : IfModified(x, y, y) = x
    BY DEF IfModified
  <1>2. Saved(loaded, loaded, new) =
          [ loaded EXCEPT !.shiftStart = new.shiftStart, !.shiftEnd = new.shiftEnd,
                          !.timezone = new.timezone, !.businessDate = new.businessDate,
                          !.status = new.status ]
    BY <1>1 DEF Saved, ShiftDoc
  <1>3. new = [ clientId |-> new.clientId, employeeId |-> new.employeeId, siteId |-> new.siteId,
                shiftStart |-> new.shiftStart, shiftEnd |-> new.shiftEnd,
                timezone |-> new.timezone, businessDate |-> new.businessDate,
                status |-> new.status, seriesId |-> new.seriesId ]
    BY DEF ShiftDoc
  <1>4. Saved(loaded, loaded, new) =
              [ clientId |-> loaded.clientId, employeeId |-> loaded.employeeId, siteId |-> loaded.siteId,
                shiftStart |-> new.shiftStart, shiftEnd |-> new.shiftEnd,
                timezone |-> new.timezone, businessDate |-> new.businessDate,
                status |-> new.status, seriesId |-> loaded.seriesId ]
    BY <1>2 DEF ShiftDoc
  <1>. QED
    BY <1>3, <1>4

\* If nobody wrote the document since it was loaded, the save stores the document in memory.
LEMMA SaveUnseen ==
    ASSUME RaceInv, NEW w \in Requests, SaveUpdate(w), req[w].id \notin stale[w]
    PROVE  LET id == req[w].id
               new == Patched(shifts[id], req[w].patch)
           IN  /\ id \in ShiftIds /\ shifts[id] \in ShiftDoc /\ shifts[id] = req[w].snap
               /\ shifts[id].status = "scheduled"
               /\ new \in ShiftDoc /\ req[w].patch \in Patch
               /\ shifts' = [shifts EXCEPT ![id] = new]
  <1>. DEFINE id == req[w].id
              new == Patched(shifts[id], req[w].patch)
  <1>1. /\ id \in ShiftIds /\ req[w].patch \in Patch
        /\ shifts[id] \in ShiftDoc
        /\ shifts' = [shifts EXCEPT ![id] = Saved(shifts[id], req[w].snap, Patched(req[w].snap, req[w].patch))]
    BY SaveUpdateFacts DEF UpdateRequest, RaceInv
  <1>2. shifts[id] = req[w].snap /\ shifts[id].status = "scheduled"
    BY <1>1 DEF RaceInv, LoadedLive, Editable, ShiftDoc, RosterInv, LoadedIsStored, SaveUpdate
  <1>3. new \in ShiftDoc
    BY <1>1, PatchedType
  <1>4. Saved(shifts[id], shifts[id], new) = new
    <2>1. /\ new.clientId = shifts[id].clientId /\ new.employeeId = shifts[id].employeeId
          /\ new.siteId = shifts[id].siteId /\ new.seriesId = shifts[id].seriesId
      BY <1>1 DEF Patched, ShiftDoc
    <2>. QED
      BY <1>1, <1>3, <2>1, SavedIsNew
  <1>. QED
    BY <1>1, <1>2, <1>3, <1>4

\* The document written clashes with no other shift.
LEMMA SaveCalmClear ==
    ASSUME RaceInv, NoDoubleBooking, NEW w \in Requests, SaveUpdate(w), Calm(w), NEW k \in ShiftIds
    PROVE  ~Clash(shifts', req[w].id, k) /\ ~Clash(shifts', k, req[w].id)
  <1>. DEFINE id == req[w].id
              new == Patched(shifts[id], req[w].patch)
  <1>1. /\ id \in ShiftIds /\ shifts[id] \in ShiftDoc /\ shifts[id] = req[w].snap
        /\ shifts[id].status = "scheduled"
        /\ new \in ShiftDoc /\ req[w].patch \in Patch
        /\ shifts' = [shifts EXCEPT ![id] = new]
    BY SaveUnseen, SaveUpdateFacts DEF Calm, RaceInv, UpdateRequest
  <1>2. shifts' \in [ShiftIds -> ShiftDoc \union {NoShift}]
    BY <1>1 DEF RaceInv, RosterInv, TypeOK, StoreTypeOK
  <1>. HIDE DEF id, new
  <1>3. ~Clash(shifts', id, k)
    <2>. SUFFICES ASSUME Clash(shifts', id, k)
                  PROVE  FALSE
      OBVIOUS
    <2>1. ~Clash(shifts, id, k)
      BY <1>1 DEF NoDoubleBooking
    <2>2. {id, k} \intersect stale[w] # {}
      BY <1>1, <2>1, SaveClash DEF RaceInv
    <2>. QED
      BY <1>1, <2>2 DEF Calm
  <1>4. ~Clash(shifts', k, id)
    BY <1>1, <1>2, <1>3, ClashSymmetric
  <1>. QED
    BY <1>3, <1>4 DEF id

\* The document written carries the date of its start in its zone.
LEMMA SaveUnseenDated ==
    ASSUME RaceInv, NEW w \in Requests, SaveUpdate(w), req[w].id \notin stale[w],
           shifts[req[w].id].businessDate =
               BusinessDate(shifts[req[w].id].shiftStart, shifts[req[w].id].timezone)
    PROVE  LET new == Patched(shifts[req[w].id], req[w].patch)
           IN  new.businessDate = BusinessDate(new.shiftStart, new.timezone)
  <1>. DEFINE d == shifts[req[w].id]
  <1>1. /\ req[w].id \in ShiftIds /\ d \in ShiftDoc /\ req[w].patch \in Patch
        /\ d.businessDate = BusinessDate(d.shiftStart, d.timezone)
    BY SaveUnseen
  <1>. HIDE DEF d
  <1>. DEFINE p == req[w].patch
              new == Patched(d, p)
  <1>2. /\ new.shiftStart = OrElse(p.shiftStart, d.shiftStart)
        /\ new.timezone = OrElse(p.timezone, d.timezone)
        /\ new.businessDate = IF p.shiftStart # Absent \/ p.timezone # Absent
                              THEN BusinessDate(OrElse(p.shiftStart, d.shiftStart),
                                                OrElse(p.timezone, d.timezone))
                              ELSE d.businessDate
    BY <1>1 DEF Patched, ShiftDoc
  <1>. HIDE DEF new
  <1>3. new.businessDate = BusinessDate(new.shiftStart, new.timezone)
    <2>1. CASE p.shiftStart # Absent \/ p.timezone # Absent
      BY <1>2, <2>1
    <2>2. CASE p.shiftStart = Absent /\ p.timezone = Absent
      BY <1>1, <1>2, <2>2 DEF OrElse
    <2>. QED
      BY <2>1, <2>2
  <1>. QED
    BY <1>3 DEF d, new

-----------------------------------------------------------------------------
(* A book that is clear and dated stays so through calm writes. *)

\* A new shift, inserted in calm, clashes with nothing.
LEMMA InsertCalmClear ==
    ASSUME RosterInv, NoDoubleBooking, NEW w \in Requests, InsertShift(w), Calm(w),
           NEW i \in ShiftIds, NEW j \in ShiftIds
    PROVE  ~Clash(shifts', i, j)
  <1>. SUFFICES ASSUME Clash(shifts', i, j)
                PROVE  FALSE
    OBVIOUS
  <1>1. ~Clash(shifts, i, j)
    BY DEF NoDoubleBooking
  <1>2. {i, j} \intersect stale[w] # {}
    BY <1>1, InsertClash
  <1>. QED
    BY <1>2 DEF Calm

\* What an insert and a cancellation write.
LEMMA InsertFacts ==
    ASSUME RosterInv, NEW w \in Requests, InsertShift(w)
    PROVE  \E i \in ShiftIds :
              /\ shifts[i] = NoShift
              /\ shifts' = [shifts EXCEPT ![i] = NewShift(Current(w), req[w].seriesId)]
              /\ NewShift(Current(w), req[w].seriesId) \in ShiftDoc
  <1>1. NewShift(Current(w), req[w].seriesId) \in ShiftDoc
    BY CurrentType, NewShiftType DEF InsertShift, RosterInv, TypeOK
  <1>. QED
    BY <1>1 DEF InsertShift

LEMMA CancelFacts ==
    ASSUME RosterInv, NEW w \in Requests, SaveCancel(w)
    PROVE  LET id == req[w].id
           IN  /\ id \in ShiftIds /\ shifts[id] \in ShiftDoc
               /\ shifts' = [shifts EXCEPT ![id] = [shifts[id] EXCEPT !.status = "cancelled"]]
    BY RequestKind DEF SaveCancel, CancelRequest, LoadedIsStored, RosterInv, TypeOK, StoreTypeOK

LEMMA BookStaysClear ==
    ASSUME RaceInv, NoDoubleBooking, CalmWrites, [Next]_vars
    PROVE  NoDoubleBooking'
  <1>. SUFFICES ASSUME NEW i \in ShiftIds, NEW j \in ShiftIds
                PROVE  ~Clash(shifts', i, j)
    BY DEF NoDoubleBooking, Clash, ScheduledFor, Overlaps
  <1>1. ASSUME NEW w \in Requests, SaveUpdate(w)
        PROVE  ~Clash(shifts', i, j)
    <2>1. CASE i = req[w].id \/ j = req[w].id
      BY <1>1, <2>1, SaveCalmClear DEF CalmWrites
    <2>2. CASE i # req[w].id /\ j # req[w].id
      <3>1. shifts'[i] = shifts[i] /\ shifts'[j] = shifts[j]
        BY <1>1, <2>2, SaveUpdateFacts DEF RaceInv, RosterInv, TypeOK, StoreTypeOK
      <3>. QED
        BY <3>1 DEF NoDoubleBooking, Clash, ScheduledFor, Overlaps
    <2>. QED
      BY <2>1, <2>2
  <1>2. ASSUME NEW w \in Requests, SaveCancel(w)
        PROVE  ~Clash(shifts', i, j)
    BY <1>2, CancelNoNewClash DEF RaceInv, NoDoubleBooking
  <1>3. CASE shifts' = shifts
    BY <1>3, UnchangedShiftsNoNewClash DEF NoDoubleBooking
  <1>. QED
    BY <1>1, <1>2, <1>3, InsertCalmClear, OnlyWrites DEF RaceInv, CalmWrites

\* Only a save over a document that another request wrote puts a shift on a wrong date.
LEMMA DateKept ==
    ASSUME RaceInv, [Next]_vars, NEW i \in ShiftIds, shifts'[i] # NoShift,
           shifts[i] # NoShift =>
               shifts[i].businessDate = BusinessDate(shifts[i].shiftStart, shifts[i].timezone),
           \A w \in Requests : SaveUpdate(w) /\ req[w].id = i => i \notin stale[w]
    PROVE  shifts'[i].businessDate = BusinessDate(shifts'[i].shiftStart, shifts'[i].timezone)
  <1>. USE DEF RaceInv
  <1>1. ASSUME NEW w \in Requests, InsertShift(w)
        PROVE  shifts'[i].businessDate = BusinessDate(shifts'[i].shiftStart, shifts'[i].timezone)
    <2>1. PICK n \in ShiftIds :
             shifts' = [shifts EXCEPT ![n] = NewShift(Current(w), req[w].seriesId)]
      BY <1>1, InsertFacts
    <2>2. shifts'[i] = shifts[i] \/ shifts'[i] = NewShift(Current(w), req[w].seriesId)
      BY <2>1 DEF RosterInv, TypeOK, StoreTypeOK
    <2>. QED
      BY <2>2 DEF NewShift
  <1>2. ASSUME NEW w \in Requests, SaveUpdate(w)
        PROVE  shifts'[i].businessDate = BusinessDate(shifts'[i].shiftStart, shifts'[i].timezone)
    <2>1. CASE req[w].id = i
      <3>1. shifts[i] \in ShiftDoc /\ shifts' = [shifts EXCEPT ![i] = Patched(shifts[i], req[w].patch)]
        BY <1>2, <2>1, SaveUnseen
      <3>2. shifts'[i] = Patched(shifts[i], req[w].patch) /\ shifts[i] # NoShift
        BY <3>1, RosterAssumption DEF RosterInv, TypeOK, StoreTypeOK
      <3>. QED
        BY <1>2, <2>1, <3>2, SaveUnseenDated
    <2>2. CASE req[w].id # i
      <3>1. shifts'[i] = shifts[i]
        BY <1>2, <2>2, SaveUpdateFacts DEF RosterInv, TypeOK, StoreTypeOK
      <3>. QED
        BY <3>1
    <2>. QED
      BY <2>1, <2>2
  <1>3. ASSUME NEW w \in Requests, SaveCancel(w)
        PROVE  shifts'[i].businessDate = BusinessDate(shifts'[i].shiftStart, shifts'[i].timezone)
    <2>1. CASE i = req[w].id
      <3>1. /\ shifts[i] \in ShiftDoc
            /\ shifts'[i] = [shifts[i] EXCEPT !.status = "cancelled"]
        BY <1>3, <2>1, CancelFacts DEF RosterInv, TypeOK, StoreTypeOK
      <3>2. /\ shifts'[i].businessDate = shifts[i].businessDate
            /\ shifts'[i].shiftStart = shifts[i].shiftStart
            /\ shifts'[i].timezone = shifts[i].timezone
        BY <3>1 DEF ShiftDoc
      <3>3. shifts[i] # NoShift
        BY <3>1, RosterAssumption
      <3>. QED
        BY <3>2, <3>3
    <2>2. CASE i # req[w].id
      <3>1. shifts'[i] = shifts[i]
        BY <1>3, <2>2 DEF SaveCancel, RosterInv, TypeOK, StoreTypeOK
      <3>. QED
        BY <3>1
    <2>. QED
      BY <2>1, <2>2
  <1>4. CASE shifts' = shifts
    BY <1>4
  <1>. QED
    BY <1>1, <1>2, <1>3, <1>4, OnlyWrites

LEMMA BookStaysDated ==
    ASSUME RaceInv, BusinessDateMatches, CalmWrites, [Next]_vars
    PROVE  BusinessDateMatches'
  <1>1. ASSUME NEW i \in ShiftIds, shifts'[i] # NoShift
        PROVE  shifts'[i].businessDate = BusinessDate(shifts'[i].shiftStart, shifts'[i].timezone)
    BY <1>1, DateKept DEF BusinessDateMatches, CalmWrites, Calm
  <1>. QED
    BY <1>1 DEF BusinessDateMatches, BusinessDate

-----------------------------------------------------------------------------
(* Refinement: the writes of the handlers are the steps of RosterBook. *)

\* Clear and Dated of the book are the absence of clashes and the date of Roster.
LEMMA BookClear ==
    ASSUME NoDoubleBooking', NEW i \in ShiftIds, shifts'[i] # NoShift, shifts'[i].status = "scheduled",
           shifts' \in [ShiftIds -> ShiftDoc \union {NoShift}]
    PROVE  Book!Clear(i)'
  <1>. SUFFICES ASSUME NEW j \in ShiftIds \ {i}, shifts'[j] # NoShift, shifts'[j].status = "scheduled",
                       shifts'[j].clientId = shifts'[i].clientId,
                       shifts'[j].employeeId = shifts'[i].employeeId,
                       Book!SharesInstant(shifts'[i], shifts'[j])
                PROVE  FALSE
    BY DEF Book!Clear, Book!IsScheduled, Book!SharesInstant
  <1>1. shifts'[i] \in ShiftDoc /\ shifts'[j] \in ShiftDoc
    OBVIOUS
  <1>2. Overlaps(shifts'[j], shifts'[i].shiftStart, shifts'[i].shiftEnd)
    BY <1>1 DEF Book!SharesInstant, Overlaps, ShiftDoc
  <1>3. Clash(shifts', i, j)
    BY <1>2 DEF Clash, ScheduledFor
  <1>4. ~Clash(shifts', i, j)
    BY DEF NoDoubleBooking, Clash, ScheduledFor, Overlaps
  <1>. QED
    BY <1>3, <1>4

LEMMA BookDated ==
    ASSUME BusinessDateMatches', NEW i \in ShiftIds, shifts'[i] # NoShift
    PROVE  Book!Dated(i)'
    BY DEF BusinessDateMatches, BusinessDate, Book!Dated

LEMMA BookNext ==
    ASSUME RaceInv, NoDoubleBooking, BusinessDateMatches, CalmWrites, [Next]_vars
    PROVE  [Book!Next]_shifts
  <1>1. /\ shifts \in [ShiftIds -> ShiftDoc \union {NoShift}]
        /\ shifts' \in [ShiftIds -> ShiftDoc \union {NoShift}]
        /\ NoDoubleBooking' /\ BusinessDateMatches'
    BY InvNext, BookStaysClear, BookStaysDated DEF RaceInv, RosterInv, TypeOK, StoreTypeOK
  <1>2. ASSUME NEW w \in Requests, InsertShift(w)
        PROVE  Book!Next
    <2>. DEFINE d == NewShift(Current(w), req[w].seriesId)
    <2>1. PICK i \in ShiftIds : /\ shifts[i] = NoShift
                                /\ shifts' = [shifts EXCEPT ![i] = d]
                                /\ d \in ShiftDoc
      BY <1>2, InsertFacts DEF RaceInv
    <2>2. shifts'[i] = d /\ d # NoShift /\ d.status = "scheduled"
      BY <1>1, <2>1, RosterAssumption DEF NewShift
    <2>3. Book!Clear(i)' /\ Book!Dated(i)'
      BY <1>1, <2>2, BookClear, BookDated
    <2>. HIDE DEF d
    <2>4. shifts' = [shifts EXCEPT ![i] = shifts'[i]]
      BY <1>1, <2>1, <2>2
    <2>5. Book!Enter(i)
      BY <2>1, <2>2, <2>3 DEF Book!Enter, Book!IsScheduled
    <2>. QED
      BY <2>4, <2>5 DEF Book!Next
  <1>3. ASSUME NEW w \in Requests, SaveUpdate(w)
        PROVE  Book!Next
    <2>0. PICK i \in ShiftIds : i = req[w].id /\ i \notin stale[w]
      BY <1>3, SaveUpdateFacts DEF RaceInv, UpdateRequest, CalmWrites, Calm
    <2>. DEFINE new == Patched(shifts[i], req[w].patch)
    <2>1. /\ shifts[i] \in ShiftDoc /\ shifts[i].status = "scheduled"
          /\ new \in ShiftDoc /\ req[w].patch \in Patch
          /\ shifts' = [shifts EXCEPT ![i] = new]
      BY <1>3, <2>0, SaveUnseen
    <2>2. /\ new.status = "scheduled"
          /\ new.clientId = shifts[i].clientId /\ new.employeeId = shifts[i].employeeId
          /\ new.siteId = shifts[i].siteId /\ new.seriesId = shifts[i].seriesId
      BY <2>1 DEF Patched, ShiftDoc
    <2>. HIDE DEF new
    <2>3. shifts'[i] = new /\ shifts[i] # NoShift /\ new # NoShift
      BY <1>1, <2>1, RosterAssumption
    <2>4. Book!Clear(i)' /\ Book!Dated(i)'
      BY <1>1, <2>1, <2>2, <2>3, BookClear, BookDated
    <2>5. shifts' = [shifts EXCEPT ![i] = shifts'[i]]
      BY <1>1, <2>1, <2>3
    <2>6. Book!Move(i)
      BY <2>1, <2>2, <2>3, <2>4 DEF Book!Move, Book!IsScheduled, Book!Owner
    <2>. QED
      BY <2>1, <2>5, <2>6 DEF Book!Next
  <1>4. ASSUME NEW w \in Requests, SaveCancel(w)
        PROVE  Book!Next \/ shifts' = shifts
    <2>. DEFINE i == req[w].id
                d == [shifts[i] EXCEPT !.status = "cancelled"]
    <2>1. /\ i \in ShiftIds /\ shifts[i] \in ShiftDoc
          /\ shifts' = [shifts EXCEPT ![i] = d]
      BY <1>4, CancelFacts DEF RaceInv
    <2>2. /\ shifts[i] # NoShift
          /\ shifts[i].status = "cancelled" => d = shifts[i]
          /\ shifts[i].status = "scheduled" \/ shifts[i].status = "cancelled"
      BY <2>1, RosterAssumption DEF ShiftDoc
    <2>3. shifts'[i] = d
      BY <1>1, <2>1
    <2>4. CASE shifts[i].status = "cancelled"
      <3>. HIDE DEF i, d
      <3>1. shifts' = shifts
        BY <1>1, <2>1, <2>2, <2>4
      <3>. QED
        BY <3>1
    <2>5. CASE shifts[i].status = "scheduled"
      <3>1. shifts' = [shifts EXCEPT ![i] = shifts'[i]]
        <4>. HIDE DEF i, d
        <4>. QED
          BY <1>1, <2>1, <2>3
      <3>2. Book!Cancel(i)
        BY <2>2, <2>3, <2>5 DEF Book!Cancel, Book!IsScheduled
      <3>. QED
        BY <2>1, <3>1, <3>2 DEF Book!Next
    <2>. QED
      BY <2>2, <2>4, <2>5
  <1>5. CASE \A w \in Requests : ~(InsertShift(w) \/ SaveUpdate(w) \/ SaveCancel(w))
    BY <1>5, OnlyWrites
  <1>. QED
    BY <1>2, <1>3, <1>4, <1>5

(* However many requests race, a sound book only leaves the steps of          *)
(* RosterBook at a write whose request read the collection before another     *)
(* request changed a shift (assertNoOverlap, updateSchedule).                 *)
THEOREM SoundUnlessRaced == Spec => BookUnlessRaced
  <1>1. RaceInv /\ [Next]_vars =>
          [ NoDoubleBooking /\ BusinessDateMatches =>
              \/ Book!Next
              \/ UNCHANGED shifts
              \/ \E w \in Requests : ActsOnStale(w) ]_vars
    <2>. SUFFICES ASSUME RaceInv, [Next]_vars, NoDoubleBooking, BusinessDateMatches
                  PROVE  \/ Book!Next
                         \/ UNCHANGED shifts
                         \/ \E w \in Requests : ActsOnStale(w)
      OBVIOUS
    <2>1. CASE CalmWrites
      BY <2>1, BookNext
    <2>2. CASE ~CalmWrites
      <3>1. PICK w \in Requests : (InsertShift(w) \/ SaveUpdate(w)) /\ ~Calm(w)
        BY <2>2 DEF CalmWrites
      <3>2. ActsOnStale(w)
        BY <3>1, WriterMoves DEF ActsOnStale, Calm, RaceInv
      <3>. QED
        BY <3>2
    <2>. QED
      BY <2>1, <2>2
  <1>. QED
    BY <1>1, RaceInvHolds, PTL DEF Spec, BookUnlessRaced

(* A cancelled shift changes only under an update that loaded it before the   *)
(* cancellation, or before another write, and saves it afterwards: the status *)
(* check of updateSchedule keeps out every other request.                     *)
ThawNeedsRace ==
    [][ \A i \in ShiftIds :
          shifts[i] # NoShift /\ shifts[i].status = "cancelled" /\ shifts'[i] # shifts[i] =>
            \E w \in Requests : /\ req[w].pc = "save" /\ req[w].id = i
                               /\ req'[w] = Idle
                               /\ i \in stale[w] ]_vars

LEMMA CancelledStays ==
    ASSUME RaceInv, [Next]_vars, NEW i \in ShiftIds, shifts[i] # NoShift, shifts[i].status = "cancelled",
           \A w \in Requests : SaveUpdate(w) /\ req[w].id = i => i \notin stale[w]
    PROVE  shifts'[i] = shifts[i]
  <1>. USE DEF RaceInv
  <1>1. ASSUME NEW w \in Requests, InsertShift(w)
        PROVE  shifts'[i] = shifts[i]
    BY <1>1, InsertFacts DEF RosterInv, TypeOK, StoreTypeOK
  <1>2. ASSUME NEW w \in Requests, SaveUpdate(w)
        PROVE  shifts'[i] = shifts[i]
    <2>1. req[w].id # i
      BY <1>2, SaveUnseen
    <2>. QED
      BY <1>2, <2>1, SaveUpdateFacts DEF RosterInv, TypeOK, StoreTypeOK
  <1>3. ASSUME NEW w \in Requests, SaveCancel(w)
        PROVE  shifts'[i] = shifts[i]
    <2>1. CASE i = req[w].id
      <3>1. shifts[i] \in ShiftDoc /\ shifts'[i] = [shifts[i] EXCEPT !.status = "cancelled"]
        BY <1>3, <2>1, CancelFacts DEF RosterInv, TypeOK, StoreTypeOK
      <3>. QED
        BY <3>1 DEF ShiftDoc
    <2>2. CASE i # req[w].id
      BY <1>3, <2>2 DEF SaveCancel, RosterInv, TypeOK, StoreTypeOK
    <2>. QED
      BY <2>1, <2>2
  <1>. QED
    BY <1>1, <1>2, <1>3, OnlyWrites

(* However many requests race, only an update overtaken by another write      *)
(* changes a cancelled shift.                                                 *)
THEOREM CancelledThawsOnlyRaced == Spec => ThawNeedsRace
  <1>1. RaceInv /\ [Next]_vars =>
          [ \A i \in ShiftIds :
              shifts[i] # NoShift /\ shifts[i].status = "cancelled" /\ shifts'[i] # shifts[i] =>
                \E w \in Requests : /\ req[w].pc = "save" /\ req[w].id = i
                                   /\ req'[w] = Idle
                                   /\ i \in stale[w] ]_vars
    <2>. SUFFICES ASSUME RaceInv, [Next]_vars, NEW i \in ShiftIds, shifts[i] # NoShift,
                         shifts[i].status = "cancelled", shifts'[i] # shifts[i]
                  PROVE  \E w \in Requests : /\ req[w].pc = "save" /\ req[w].id = i
                                            /\ req'[w] = Idle
                                            /\ i \in stale[w]
      OBVIOUS
    <2>1. PICK w \in Requests : SaveUpdate(w) /\ req[w].id = i /\ i \in stale[w]
      BY CancelledStays
    <2>2. req[w].pc = "save" /\ req'[w] = Idle
      BY <2>1 DEF SaveUpdate, End, RaceInv, RosterInv, TypeOK, FlightTypeOK
    <2>. QED
      BY <2>1, <2>2
  <1>. QED
    BY <1>1, RaceInvHolds, PTL DEF Spec, ThawNeedsRace

\* BusinessDateMatches at one shift.
DatedAt(i) == shifts[i] # NoShift =>
    shifts[i].businessDate = BusinessDate(shifts[i].shiftStart, shifts[i].timezone)

(* A shift leaves the date of its start only under an update that loaded it   *)
(* before another request wrote it (updateSchedule recomputes businessDate    *)
(* from the document in memory and save() sends the modified paths).          *)
WrongDateNeedsRace ==
    [][ \A i \in ShiftIds : DatedAt(i) /\ ~DatedAt(i)' =>
          \E w \in Requests : /\ req[w].pc = "save" /\ req[w].id = i
                             /\ req'[w] = Idle
                             /\ i \in stale[w] ]_vars

(* However many requests race, only an update overtaken by another write of   *)
(* its shift leaves a wrong businessDate.                                     *)
THEOREM DatesGoWrongOnlyRaced == Spec => WrongDateNeedsRace
  <1>1. RaceInv /\ [Next]_vars =>
          [ \A i \in ShiftIds : DatedAt(i) /\ ~DatedAt(i)' =>
              \E w \in Requests : /\ req[w].pc = "save" /\ req[w].id = i
                                 /\ req'[w] = Idle
                                 /\ i \in stale[w] ]_vars
    <2>. SUFFICES ASSUME RaceInv, [Next]_vars, NEW i \in ShiftIds, DatedAt(i), ~DatedAt(i)'
                  PROVE  \E w \in Requests : /\ req[w].pc = "save" /\ req[w].id = i
                                            /\ req'[w] = Idle
                                            /\ i \in stale[w]
      OBVIOUS
    <2>1. /\ shifts'[i] # NoShift
          /\ shifts'[i].businessDate # BusinessDate(shifts'[i].shiftStart, shifts'[i].timezone)
      BY DEF DatedAt, BusinessDate
    <2>2. PICK w \in Requests : SaveUpdate(w) /\ req[w].id = i /\ i \in stale[w]
      BY <2>1, DateKept DEF DatedAt
    <2>3. req[w].pc = "save" /\ req'[w] = Idle
      BY <2>2 DEF SaveUpdate, End, RaceInv, RosterInv, TypeOK, FlightTypeOK
    <2>. QED
      BY <2>2, <2>3
  <1>. QED
    BY <1>1, RaceInvHolds, PTL DEF Spec, WrongDateNeedsRace

-----------------------------------------------------------------------------
(* Executions without races.  Failing calls, crashes and assignments edited   *)
(* at any time are still allowed, and requests may interleave.                *)

RaceFreeSpec == Init /\ [][Next /\ \A w \in Requests : ~ActsOnStale(w)]_vars

RaceFreeInv == RaceInv /\ NoDoubleBooking /\ BusinessDateMatches

LEMMA RaceFreeStep ==
    ASSUME RaceFreeInv, [Next /\ \A w \in Requests : ~ActsOnStale(w)]_vars
    PROVE  RaceFreeInv' /\ [Book!Next]_shifts
  <1>1. CASE UNCHANGED vars
    <2>1. RaceInv'
      BY <1>1, InvNext, LoadedStaysLive DEF RaceFreeInv, RaceInv
    <2>. QED
      BY <1>1, <2>1 DEF vars, RaceFreeInv, NoDoubleBooking, Clash, ScheduledFor, Overlaps,
                        BusinessDateMatches, BusinessDate
  <1>2. CASE Next /\ \A w \in Requests : ~ActsOnStale(w)
    <2>1. CalmWrites
      BY <1>2, WriterMoves DEF CalmWrites, Calm, ActsOnStale, RaceFreeInv, RaceInv
    <2>. QED
      BY <1>2, <2>1, InvNext, LoadedStaysLive, BookStaysClear, BookStaysDated, BookNext
         DEF RaceFreeInv, RaceInv
  <1>. QED
    BY <1>1, <1>2

(* Requests may interleave in any way: as long as none acts on a stale read,  *)
(* the schedule module is a book of atomic bookings, moves and cancellations. *)
THEOREM RaceFreeImplementsBook == RaceFreeSpec => BookSpec /\ []RaceFreeInv
  <1>1. Init => Book!Init /\ RaceFreeInv
    <2>1. Init => RosterInv
      BY TypeInit DEF Init, TypeInv, RosterInv, InsertIsClear, SaveIsClear, Idle
    <2>. QED
      BY <2>1 DEF Init, Book!Init, RaceFreeInv, RaceInv, LoadedLive, NoDoubleBooking, Clash,
                  BusinessDateMatches, Idle
  <1>2. RaceFreeInv /\ [Next /\ \A w \in Requests : ~ActsOnStale(w)]_vars =>
            RaceFreeInv' /\ [Book!Next]_shifts
    BY RaceFreeStep
  <1>. QED
    BY <1>1, <1>2, PTL DEF RaceFreeSpec, BookSpec, Book!Spec

-----------------------------------------------------------------------------
(* With a single request slot there is nobody to race with. *)

Alone == \A v, w \in Requests : v = w

LEMMA NothingHeard ==
    ASSUME Alone, \A w \in Requests : Calm(w), [Next]_vars
    PROVE  \A w \in Requests : Calm(w)'
  <1>. SUFFICES ASSUME NEW v \in Requests
                PROVE  stale'[v] \intersect ShiftIds = {}
    BY DEF Calm
  <1>1. stale[v] \intersect ShiftIds = {}
    BY DEF Calm
  <1>2. ASSUME NEW w \in Requests, NEW kept, NEW changed, Observe(w, kept, changed)
        PROVE  stale'[v] \intersect ShiftIds = {}
    BY <1>1, <1>2 DEF Observe, Alone
  <1>3. CASE UNCHANGED stale
    BY <1>1, <1>3
  <1>4. CASE Crash
    BY <1>4 DEF Crash
  <1>5. ASSUME NEW t \in Assignment, Activate(t) \/ Deactivate(t)
        PROVE  stale'[v] \intersect ShiftIds = {}
    BY <1>1, <1>5, RosterAssumption DEF Activate, Deactivate
  <1>6. ASSUME NEW w \in Requests, BeginCreate(w) \/ BeginBulk(w) \/ FindForUpdate(w) \/ FindForCancel(w)
        PROVE  UNCHANGED stale
    BY <1>6 DEF BeginCreate, BeginBulk, Begin, FindForUpdate, FindForCancel
  <1>7. ASSUME NEW w \in Requests, Proceed(w)
        PROVE  \E kept, changed : Observe(w, kept, changed)
    <2>1. CASE CheckAssignment(w) \/ CheckOverlap(w) \/ InsertShift(w)
      BY <2>1 DEF CheckAssignment, CheckOverlap, InsertShift, Reject, NextItem
    <2>2. CASE Respond(w) \/ RecheckOverlap(w) \/ SaveUpdate(w) \/ SaveCancel(w)
      BY <2>2 DEF Respond, RecheckOverlap, SaveUpdate, SaveCancel, End
    <2>3. CASE CallFails(w)
      BY <2>3 DEF CallFails, Reject, NextItem, End
    <2>. QED
      BY <1>7, <2>1, <2>2, <2>3 DEF Proceed
  <1>. QED
    BY <1>2, <1>3, <1>4, <1>5, <1>6, <1>7 DEF Next, vars

LEMMA SerialIsRaceFree ==
    ASSUME Alone
    PROVE  Spec => RaceFreeSpec
  <1>. DEFINE AllCalm == \A w \in Requests : Calm(w)
  <1>1. Init => AllCalm
    BY DEF Init, Calm
  <1>2. AllCalm /\ [Next]_vars => AllCalm'
    BY NothingHeard
  <1>3. AllCalm /\ [Next]_vars => [Next /\ \A w \in Requests : ~ActsOnStale(w)]_vars
    BY DEF Calm, ActsOnStale
  <1>. QED
    BY <1>1, <1>2, <1>3, PTL DEF Spec, RaceFreeSpec

(* Requests that do not overlap in time never double-book an employee         *)
(* (assertNoOverlap), whatever fails in between.                              *)
THEOREM SerialNoDoubleBooking ==
    ASSUME Alone
    PROVE  Spec => []NoDoubleBooking
    BY SerialIsRaceFree, RaceFreeImplementsBook, PTL DEF RaceFreeInv

(* Requests that do not overlap in time keep businessDate equal to the date   *)
(* of the start in the zone of the shift (updateSchedule recomputes it).      *)
THEOREM SerialBusinessDate ==
    ASSUME Alone
    PROVE  Spec => []BusinessDateMatches
    BY SerialIsRaceFree, RaceFreeImplementsBook, PTL DEF RaceFreeInv

(* Requests that do not overlap in time leave a cancelled shift as it is      *)
(* ("Cannot edit a cancelled shift", updateSchedule).                         *)
THEOREM SerialCancelledIsFrozen ==
    ASSUME Alone
    PROVE  Spec => CancelledIsFrozen
  <1>. DEFINE AllCalm == \A w \in Requests : Calm(w)
  <1>1. Init => AllCalm
    BY DEF Init, Calm
  <1>2. AllCalm /\ [Next]_vars => AllCalm'
    BY NothingHeard
  <1>3. AllCalm /\ RaceInv /\ [Next]_vars =>
          [ \A i \in ShiftIds :
              shifts[i] # NoShift /\ shifts[i].status = "cancelled" => shifts'[i] = shifts[i] ]_vars
    BY CancelledStays DEF Calm
  <1>. QED
    BY <1>1, <1>2, <1>3, RaceInvHolds, PTL DEF Spec, CancelledIsFrozen

(* Requests that do not overlap in time make the schedule module a book of    *)
(* atomic bookings, moves and cancellations (RosterBook).                     *)
THEOREM SerialImplementsBook ==
    ASSUME Alone
    PROVE  Spec => BookSpec
    BY SerialIsRaceFree, RaceFreeImplementsBook, PTL

=============================================================================
