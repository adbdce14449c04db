----------------------- MODULE SiteAssignments_proofs ------------------------
(* Proofs about SiteAssignments for every number of requests, employees and   *)
(* assignments, every catalog, and every set of callers and bodies.           *)
EXTENDS SiteAssignments, TLAPS

-----------------------------------------------------------------------------
(* Facts about the building blocks of the model. *)

Request == AssignRequest \union FindRequest \union SaveRequest \union UnassignRequest

\* The pc and op of a request say which record it is.
LEMMA RequestKind ==
    ASSUME NEW r \in {Idle} \union Request
    PROVE  /\ r.pc \in {"site", "insert"} => r \in AssignRequest
           /\ r.pc = "task" /\ r.op = "assign" => r \in AssignRequest
           /\ r.pc = "task" /\ r.op # "assign" => r \in SaveRequest
           /\ r.pc = "save" => r \in SaveRequest
           /\ r.pc = "find" => r \in FindRequest
           /\ r.pc = "delete" => r \in UnassignRequest
           /\ r # Idle => r.pc # "idle"
  <1>1. CASE r = Idle
    BY <1>1 DEF Idle
  <1>2. CASE r \in AssignRequest
    BY <1>2 DEF AssignRequest, Idle
  <1>3. CASE r \in FindRequest
    BY <1>3 DEF FindRequest, Idle
  <1>4. CASE r \in SaveRequest
    BY <1>4 DEF SaveRequest, Idle
  <1>5. CASE r \in UnassignRequest
    BY <1>5 DEF UnassignRequest, Idle
  <1>. QED
    BY <1>1, <1>2, <1>3, <1>4, <1>5 DEF Request

\* A record of one kind is of no other.
LEMMA KindsDiffer ==
    /\ \A r \in AssignRequest : r \notin SaveRequest \union FindRequest \union UnassignRequest
    /\ \A r \in SaveRequest : r \notin AssignRequest \union FindRequest \union UnassignRequest
    /\ \A r \in FindRequest \union UnassignRequest : r \notin AssignRequest \union SaveRequest
    /\ Idle \notin Request
  <1>1. \A r \in AssignRequest : r.op = "assign" /\ r.pc # "idle"
    BY DEF AssignRequest
  <1>2. \A r \in SaveRequest : r.op = "update" /\ r.pc \in {"task", "save"}
    BY DEF SaveRequest
  <1>3. \A r \in FindRequest : r.op = "update" /\ r.pc = "find"
    BY DEF FindRequest
  <1>4. \A r \in UnassignRequest : r.op = "unassign" /\ r.pc = "delete"
    BY DEF UnassignRequest
  <1>5. Idle.pc = "idle"
    BY DEF Idle
  <1>. QED
    BY <1>1, <1>2, <1>3, <1>4, <1>5 DEF Request

LEMMA StoredIsDoc ==
    ASSUME TypeOK, NEW i \in Stored
    PROVE  i \in AssignmentIds /\ assignments[i] \in AssignmentDoc
    BY DEF TypeOK, Stored

\* A reference to a site or a task resolves in the catalog.
LEMMA CatalogRefs ==
    ASSUME NEW c, NEW x
    PROVE  /\ Kept(SiteRef(c, x)) <=> SiteRef(c, x) \in catalog \union renamed
           /\ Kept(TaskRef(c, x)) <=> TaskRef(c, x) \in catalog \union renamed
    BY DEF Kept, Resolves, SiteRef, TaskRef

-----------------------------------------------------------------------------
(* What every step leaves in place: references that were good stay good or    *)
(* are renamed, and assignments keep their pair until they are removed.       *)

RefsPersist ==
    /\ catalog \union renamed \subseteq catalog' \union renamed'
    /\ \A e \in EmployeeIds, c \in Clients, k \in Codes :
          KeepsCode(e, c, k) => code'[e] = k \/ EmployeeRef(c, k) \in renamed'

DocsPersist ==
    \A i \in AssignmentIds : assignments[i] # NoAssignment =>
        /\ assignments'[i] # NoAssignment
        /\ assignments'[i] # Removed =>
              /\ assignments[i] # Removed
              /\ Pair(assignments'[i]) = Pair(assignments[i])
              /\ assignments'[i].madeFor = assignments[i].madeFor

LEMMA SameRefs ==
    ASSUME UNCHANGED <<code, catalog, renamed>>
    PROVE  RefsPersist
    BY DEF RefsPersist, KeepsCode

LEMMA SameDocs ==
    ASSUME UNCHANGED assignments
    PROVE  DocsPersist
    BY DEF DocsPersist

\* A request that rests stays right.
LEMMA RequestPersists ==
    ASSUME TypeOK, AssignmentsAssumption, RefsPersist, DocsPersist,
           NEW r \in {Idle} \union Request, RequestOK(r),
           NEW w \in Requests, req'[w] = r
    PROVE  RequestOK(req[w])'
  <1>1. CASE r \in AssignRequest
    <2>1. r.of \in EmployeeIds /\ r.employee.clientId \in Clients /\ r.employee.employeeId \in Codes
      BY <1>1 DEF AssignRequest, Loaded
    <2>2. AssignRequestInv(r)
      BY <1>1 DEF RequestOK
    <2>3. KeepsCode(r.of, r.employee.clientId, r.employee.employeeId)
      BY <2>2 DEF AssignRequestInv
    <2>4. /\ ClientOf[r.of] = r.employee.clientId
          /\ code'[r.of] = r.employee.employeeId
                \/ EmployeeRef(r.employee.clientId, r.employee.employeeId) \in renamed'
      BY <2>1, <2>3 DEF RefsPersist, KeepsCode
    <2>5. /\ r.pc \in {"task", "insert"} => SiteRef(r.employee.clientId, r.body.siteId) \in catalog' \union renamed'
          /\ r.pc = "insert" => TaskRef(r.employee.clientId, r.body.task) \in catalog' \union renamed'
      BY <2>2, CatalogRefs DEF AssignRequestInv, RefsPersist
    <2>6. AssignRequestInv(req[w])'
      BY <2>2, <2>4, <2>5 DEF AssignRequestInv, KeepsCode, Kept, Resolves, SiteRef, TaskRef
    <2>. QED
      BY <1>1, <2>6, KindsDiffer DEF RequestOK
  <1>2. CASE r \in SaveRequest
    <2>1. r.id \in AssignmentIds
      BY <1>2 DEF SaveRequest
    <2>2. SaveRequestInv(r)
      BY <1>2 DEF RequestOK
    <2>3. /\ assignments'[r.id] # NoAssignment
          /\ r.id \in Stored' => /\ Pair(assignments'[r.id]) = Pair(r.snap)
                                  /\ assignments'[r.id].madeFor = r.snap.madeFor
      BY <2>1, <2>2 DEF SaveRequestInv, DocsPersist, Stored
    <2>4. r.pc = "save" /\ r.patch.task # Absent => TaskRef(r.snap.clientId, r.patch.task) \in catalog' \union renamed'
      BY <2>2, CatalogRefs DEF SaveRequestInv, RefsPersist
    <2>5. SaveRequestInv(req[w])'
      BY <2>2, <2>3, <2>4 DEF SaveRequestInv, Kept, Resolves, TaskRef
    <2>. QED
      BY <1>2, <2>5, KindsDiffer DEF RequestOK
  <1>3. CASE r \notin AssignRequest \union SaveRequest
    BY <1>3 DEF RequestOK
  <1>. QED
    BY <1>1, <1>2, <1>3

\* So does a stored assignment that keeps its task, or whose new task is known.
LEMMA DocPersists ==
    ASSUME TypeOK, AssignmentsAssumption, RefsPersist,
           NEW i \in AssignmentIds, NEW d \in AssignmentDoc,
           KeepsCode(d.madeFor, d.clientId, d.employeeId), Kept(SiteRef(d.clientId, d.siteId)), Kept(TaskRef(d.clientId, d.task)),
           assignments'[i] = d,
           \A j \in Stored' : Pair(assignments'[j]) = Pair(d) => i = j
    PROVE  StoredInv(i)'
  <1>1. /\ ClientOf[d.madeFor] = d.clientId
        /\ code'[d.madeFor] = d.employeeId \/ EmployeeRef(d.clientId, d.employeeId) \in renamed'
    BY DEF RefsPersist, KeepsCode, AssignmentDoc
  <1>2. /\ SiteRef(d.clientId, d.siteId) \in catalog' \union renamed'
        /\ TaskRef(d.clientId, d.task) \in catalog' \union renamed'
    BY CatalogRefs DEF RefsPersist
  <1>. QED
    BY <1>1, <1>2 DEF StoredInv, KeepsCode, Kept, Resolves, SiteRef, TaskRef

\* With nothing stored anew, every stored assignment stays right.
LEMMA SameStored ==
    ASSUME TypeOK, AssignmentsAssumption, RefsPersist, \A i \in Stored : StoredInv(i), UNCHANGED assignments
    PROVE  \A i \in Stored' : StoredInv(i)'
  <1>1. SUFFICES ASSUME NEW i \in Stored PROVE StoredInv(i)'
    BY DEF Stored
  <1>2. PICK d \in AssignmentDoc : d = assignments[i]
    BY StoredIsDoc
  <1>3. i \in AssignmentIds
    BY StoredIsDoc
  <1>4. StoredInv(i)
    OBVIOUS
  <1>5. /\ KeepsCode(d.madeFor, d.clientId, d.employeeId)
        /\ Kept(SiteRef(d.clientId, d.siteId)) /\ Kept(TaskRef(d.clientId, d.task))
    BY <1>2, <1>4 DEF StoredInv
  <1>6. \A j \in Stored' : Pair(assignments'[j]) = Pair(d) => i = j
    BY <1>2, <1>4 DEF StoredInv, Stored
  <1>. QED
    BY <1>2, <1>3, <1>5, <1>6, DocPersists

\* One request moves on, the others rest.
Moves(w) == \E q \in {Idle} \union Request : RequestOK(q) /\ req' = [req EXCEPT ![w] = q]

LEMMA IdleIsOK == RequestOK(Idle)
    BY KindsDiffer DEF RequestOK, Request

LEMMA EndMoves ==
    ASSUME NEW w \in Requests, End(w)
    PROVE  Moves(w)
    BY IdleIsOK DEF End, Moves

LEMMA RequestsKept ==
    ASSUME TypeOK, AssignmentsAssumption, RefsPersist, DocsPersist,
           \A v \in Requests : RequestOK(req[v]), NEW w \in Requests, Moves(w)
    PROVE  /\ req' \in [Requests -> {Idle} \union Request]
           /\ \A v \in Requests : RequestOK(req[v])'
  <1>1. PICK q \in {Idle} \union Request : RequestOK(q) /\ req' = [req EXCEPT ![w] = q]
    BY DEF Moves
  <1>2. req \in [Requests -> {Idle} \union Request]
    BY DEF TypeOK, Request
  <1>3. req' \in [Requests -> {Idle} \union Request]
    BY <1>1, <1>2
  <1>4. ASSUME NEW v \in Requests PROVE RequestOK(req[v])'
    <2>1. PICK r \in {Idle} \union Request : r = req'[v] /\ RequestOK(r)
      BY <1>1, <1>2
    <2>. QED
      BY <2>1, RequestPersists
  <1>. QED
    BY <1>3, <1>4

\* A step that changes nothing but its request keeps the invariant.
LEMMA QuietStep ==
    ASSUME AssignmentsInv, AssignmentsAssumption, NEW w \in Requests, Moves(w),
           UNCHANGED <<assignments, code, catalog, renamed>>
    PROVE  AssignmentsInv'
  <1>1. RefsPersist /\ DocsPersist
    BY SameRefs, SameDocs
  <1>2. \A i \in Stored' : StoredInv(i)'
    BY <1>1, SameStored DEF AssignmentsInv
  <1>3. /\ req' \in [Requests -> {Idle} \union Request]
        /\ \A v \in Requests : RequestOK(req[v])'
    BY <1>1, RequestsKept DEF AssignmentsInv
  <1>4. TypeOK'
    BY <1>3 DEF AssignmentsInv, TypeOK, Request
  <1>5. CodesUnique'
    BY DEF AssignmentsInv, CodesUnique
  <1>. QED
    BY <1>2, <1>3, <1>4, <1>5 DEF AssignmentsInv

-----------------------------------------------------------------------------
(* The steps of a request that change nothing else. *)

LEMMA AdmittedFacts ==
    ASSUME TypeOK, AssignmentsAssumption, NEW p \in Callers, NEW e \in EmployeeIds, NEW s \in Sites, Admitted(p, e, s)
    PROVE  /\ LoadedEmployee(e) \in Loaded
           /\ SameSite(p, LoadedEmployee(e).clientId, s)
           /\ KeepsCode(e, LoadedEmployee(e).clientId, LoadedEmployee(e).employeeId)
  <1>1. ClientOf[e] \in Clients /\ code[e] \in Codes
    BY DEF Admitted, TypeOK, AssignmentsAssumption
  <1>2. SameSite(p, ClientOf[e], s)
    BY DEF Admitted, MayAssign
  <1>. QED
    BY <1>1, <1>2 DEF LoadedEmployee, Loaded, KeepsCode

LEMMA BeginAssignMoves ==
    ASSUME AssignmentsInv, AssignmentsAssumption, NEW w \in Requests, BeginAssign(w)
    PROVE  Moves(w)
  <1>1. PICK p \in Callers, e \in EmployeeIds, b \in Creations :
            /\ Admitted(p, e, b.siteId)
            /\ req' = [ req EXCEPT ![w] = [ pc |-> "site", op |-> "assign", caller |-> p, of |-> e,
                                            employee |-> LoadedEmployee(e), body |-> b ] ]
    BY DEF BeginAssign
  <1>2. b \in Creation /\ b.siteId \in Sites
    BY DEF AssignmentsAssumption, Creation
  <1>3. PICK l \in Loaded : /\ l = LoadedEmployee(e) /\ SameSite(p, l.clientId, b.siteId)
                            /\ KeepsCode(e, l.clientId, l.employeeId)
    BY <1>1, <1>2, AdmittedFacts DEF AssignmentsInv
  <1>. DEFINE q == [pc |-> "site", op |-> "assign", caller |-> p, of |-> e, employee |-> l, body |-> b]
  <1>4. q \in AssignRequest
    BY <1>2 DEF AssignRequest
  <1>5. AssignRequestInv(q)
    BY <1>3 DEF AssignRequestInv
  <1>6. RequestOK(q) /\ q \in Request
    BY <1>4, <1>5, KindsDiffer DEF RequestOK, Request
  <1>7. req' = [req EXCEPT ![w] = q]
    BY <1>1, <1>3
  <1>. QED
    BY <1>6, <1>7 DEF Moves

LEMMA BeginUpdateMoves ==
    ASSUME AssignmentsInv, AssignmentsAssumption, NEW w \in Requests, BeginUpdate(w)
    PROVE  Moves(w)
  <1>1. PICK p \in Callers, e \in EmployeeIds, s \in Sites, b \in Patches :
            /\ Admitted(p, e, s)
            /\ req' = [ req EXCEPT ![w] = [ pc |-> "find", op |-> "update", caller |-> p,
                                            employee |-> LoadedEmployee(e), siteId |-> s, patch |-> b ] ]
    BY DEF BeginUpdate
  <1>2. b \in Patch
    BY DEF AssignmentsAssumption
  <1>3. PICK l \in Loaded : l = LoadedEmployee(e) /\ SameSite(p, l.clientId, s)
    BY <1>1, AdmittedFacts DEF AssignmentsInv
  <1>. DEFINE q == [pc |-> "find", op |-> "update", caller |-> p, employee |-> l, siteId |-> s, patch |-> b]
  <1>4. q \in FindRequest
    BY <1>2 DEF FindRequest
  <1>5. SameSite(q.caller, q.employee.clientId, q.siteId)
    BY <1>3
  <1>6. RequestOK(q) /\ q \in Request
    BY <1>4, <1>5, KindsDiffer DEF RequestOK, Request
  <1>7. req' = [req EXCEPT ![w] = q]
    BY <1>1, <1>3
  <1>. QED
    BY <1>6, <1>7 DEF Moves

LEMMA BeginUnassignMoves ==
    ASSUME AssignmentsInv, AssignmentsAssumption, NEW w \in Requests, BeginUnassign(w)
    PROVE  Moves(w)
  <1>1. PICK p \in Callers, e \in EmployeeIds, s \in Sites :
            /\ Admitted(p, e, s)
            /\ req' = [ req EXCEPT ![w] = [ pc |-> "delete", op |-> "unassign", caller |-> p,
                                            employee |-> LoadedEmployee(e), siteId |-> s ] ]
    BY DEF BeginUnassign
  <1>2. PICK l \in Loaded : l = LoadedEmployee(e) /\ SameSite(p, l.clientId, s)
    BY <1>1, AdmittedFacts DEF AssignmentsInv
  <1>. DEFINE q == [pc |-> "delete", op |-> "unassign", caller |-> p, employee |-> l, siteId |-> s]
  <1>3. q \in UnassignRequest
    BY DEF UnassignRequest
  <1>4. SameSite(q.caller, q.employee.clientId, q.siteId)
    BY <1>2
  <1>5. RequestOK(q) /\ q \in Request
    BY <1>3, <1>4, KindsDiffer DEF RequestOK, Request
  <1>6. req' = [req EXCEPT ![w] = q]
    BY <1>1, <1>2
  <1>. QED
    BY <1>5, <1>6 DEF Moves

LEMMA CheckSiteMoves ==
    ASSUME AssignmentsInv, AssignmentsAssumption, NEW w \in Requests, CheckSite(w)
    PROVE  Moves(w)
  <1>1. PICK r \in {Idle} \union Request : r = req[w] /\ RequestOK(r)
    BY DEF AssignmentsInv, TypeOK, Request
  <1>2. r \in AssignRequest /\ AssignRequestInv(r) /\ r.pc = "site"
    BY <1>1, RequestKind DEF CheckSite, RequestOK
  <1>3. CASE SiteKnown(r.employee.clientId, r.body.siteId)
    <2>. DEFINE q == [r EXCEPT !.pc = "task"]
    <2>1. /\ q \in AssignRequest /\ q.pc = "task"
          /\ q.of = r.of /\ q.employee = r.employee /\ q.caller = r.caller /\ q.body = r.body
      BY <1>2 DEF AssignRequest
    <2>2. req' = [req EXCEPT ![w] = q]
      BY <1>1, <1>3 DEF CheckSite, Step
    <2>3. Kept(SiteRef(r.employee.clientId, r.body.siteId))
      BY <1>3, CatalogRefs DEF SiteKnown
    <2>. HIDE DEF q
    <2>4. AssignRequestInv(q)
      BY <1>2, <2>1, <2>3 DEF AssignRequestInv
    <2>5. RequestOK(q) /\ q \in Request
      BY <2>1, <2>4, KindsDiffer DEF RequestOK, Request
    <2>. QED
      BY <2>2, <2>5 DEF Moves
  <1>4. CASE ~SiteKnown(r.employee.clientId, r.body.siteId)
    BY <1>1, <1>4, EndMoves DEF CheckSite
  <1>. QED
    BY <1>3, <1>4

LEMMA CheckTaskMoves ==
    ASSUME AssignmentsInv, AssignmentsAssumption, NEW w \in Requests, CheckTask(w)
    PROVE  Moves(w)
  <1>1. PICK r \in {Idle} \union Request : r = req[w] /\ RequestOK(r)
    BY DEF AssignmentsInv, TypeOK, Request
  <1>2. r.pc = "task"
    BY <1>1 DEF CheckTask
  <1>3. CASE r.op = "assign" /\ TaskKnown(r.employee.clientId, r.body.task)
    <2>. DEFINE q == [r EXCEPT !.pc = "insert"]
    <2>1. r \in AssignRequest /\ AssignRequestInv(r)
      BY <1>1, <1>2, <1>3, RequestKind DEF RequestOK
    <2>2. /\ q \in AssignRequest /\ q.pc = "insert"
          /\ q.of = r.of /\ q.employee = r.employee /\ q.caller = r.caller /\ q.body = r.body
      BY <2>1 DEF AssignRequest
    <2>3. req' = [req EXCEPT ![w] = q]
      BY <1>1, <1>3 DEF CheckTask, Step
    <2>4. Kept(TaskRef(r.employee.clientId, r.body.task))
      BY <1>3, CatalogRefs DEF TaskKnown
    <2>. HIDE DEF q
    <2>5. AssignRequestInv(q)
      BY <1>2, <2>1, <2>2, <2>4 DEF AssignRequestInv
    <2>6. RequestOK(q) /\ q \in Request
      BY <2>2, <2>5, KindsDiffer DEF RequestOK, Request
    <2>. QED
      BY <2>3, <2>6 DEF Moves
  <1>4. CASE r.op # "assign" /\ TaskKnown(r.snap.clientId, r.patch.task)
    <2>. DEFINE q == [r EXCEPT !.pc = "save"]
    <2>1. r \in SaveRequest /\ SaveRequestInv(r)
      BY <1>1, <1>2, <1>4, RequestKind DEF RequestOK
    <2>2. /\ q \in SaveRequest /\ q.pc = "save"
          /\ q.id = r.id /\ q.snap = r.snap /\ q.caller = r.caller /\ q.patch = r.patch
      BY <2>1 DEF SaveRequest
    <2>3. req' = [req EXCEPT ![w] = q]
      BY <1>1, <1>4 DEF CheckTask, Step
    <2>4. Kept(TaskRef(r.snap.clientId, r.patch.task))
      BY <1>4, CatalogRefs DEF TaskKnown
    <2>. HIDE DEF q
    <2>5. SaveRequestInv(q)
      BY <2>1, <2>2, <2>4 DEF SaveRequestInv
    <2>6. RequestOK(q) /\ q \in Request
      BY <2>2, <2>5, KindsDiffer DEF RequestOK, Request
    <2>. QED
      BY <2>3, <2>6 DEF Moves
  <1>5. CASE /\ r.op = "assign" => ~TaskKnown(r.employee.clientId, r.body.task)
             /\ r.op # "assign" => ~TaskKnown(r.snap.clientId, r.patch.task)
    BY <1>1, <1>5, EndMoves DEF CheckTask
  <1>. QED
    BY <1>3, <1>4, <1>5

LEMMA FindAssignmentMoves ==
    ASSUME AssignmentsInv, AssignmentsAssumption, NEW w \in Requests, FindAssignment(w)
    PROVE  Moves(w)
  <1>1. PICK r \in {Idle} \union Request : r = req[w] /\ RequestOK(r)
    BY DEF AssignmentsInv, TypeOK, Request
  <1>2. r \in FindRequest
    BY <1>1, RequestKind DEF FindAssignment
  <1>3. SameSite(r.caller, r.employee.clientId, r.siteId)
    BY <1>1, <1>2 DEF RequestOK
  <1>4. CASE End(w)
    BY <1>4, EndMoves
  <1>5. CASE ~End(w)
    <2>1. PICK i \in AssignmentAt(r.employee, r.siteId) :
             req' = [ req EXCEPT ![w] = [ pc |-> IF r.patch.task = Absent THEN "save" ELSE "task",
                                          op |-> "update", caller |-> r.caller, patch |-> r.patch,
                                          id |-> i, snap |-> assignments[i] ] ]
      BY <1>1, <1>5 DEF FindAssignment
    <2>2. i \in Stored /\ Pair(assignments[i]) = <<r.employee.clientId, r.employee.employeeId, r.siteId>>
      BY DEF AssignmentAt
    <2>3. PICK d \in AssignmentDoc : d = assignments[i] /\ i \in AssignmentIds
      BY <2>2, StoredIsDoc DEF AssignmentsInv
    <2>4. SameSite(r.caller, d.clientId, d.siteId)
      BY <1>3, <2>2, <2>3 DEF Pair
    <2>5. assignments[i] # NoAssignment
      BY <2>2 DEF Stored
    <2>. DEFINE q == [ pc |-> IF r.patch.task = Absent THEN "save" ELSE "task", op |-> "update",
                       caller |-> r.caller, patch |-> r.patch, id |-> i, snap |-> d ]
    <2>6. /\ q \in SaveRequest /\ q.caller = r.caller /\ q.patch = r.patch /\ q.id = i /\ q.snap = d
          /\ q.pc = "task" => r.patch.task # Absent
          /\ q.pc = "save" => r.patch.task = Absent
      BY <1>2, <2>3 DEF SaveRequest, FindRequest
    <2>7. req' = [req EXCEPT ![w] = q]
      BY <2>1, <2>3
    <2>. HIDE DEF q
    <2>8. SaveRequestInv(q)
      BY <2>3, <2>4, <2>5, <2>6 DEF SaveRequestInv
    <2>9. RequestOK(q) /\ q \in Request
      BY <2>6, <2>8, KindsDiffer DEF RequestOK, Request
    <2>. QED
      BY <2>7, <2>9 DEF Moves
  <1>. QED
    BY <1>4, <1>5

-----------------------------------------------------------------------------
(* The steps that write assignments. *)

\* The index kept the new assignment's pair from every stored one.
LEMMA InsertStores ==
    ASSUME AssignmentsInv, AssignmentsAssumption, NEW w \in Requests, InsertAssignment(w)
    PROVE  \/ UNCHANGED assignments
           \/ \E i \in AssignmentIds, d \in AssignmentDoc :
                /\ assignments[i] = NoAssignment /\ assignments' = [assignments EXCEPT ![i] = d]
                /\ Unique(i, d)
                /\ KeepsCode(d.madeFor, d.clientId, d.employeeId)
                /\ Kept(SiteRef(d.clientId, d.siteId)) /\ Kept(TaskRef(d.clientId, d.task))
                /\ SameSite(req[w].caller, d.clientId, d.siteId)
  <1>1. PICK r \in {Idle} \union Request : r = req[w] /\ RequestOK(r)
    BY DEF AssignmentsInv, TypeOK, Request
  <1>2. r \in AssignRequest /\ AssignRequestInv(r) /\ r.pc = "insert"
    BY <1>1, RequestKind DEF InsertAssignment, RequestOK
  <1>3. PICK d : d = NewAssignment(w)
    OBVIOUS
  <1>4. d = [ clientId |-> r.employee.clientId, employeeId |-> r.employee.employeeId,
              siteId |-> r.body.siteId, task |-> r.body.task, isPrimary |-> r.body.isPrimary,
              status |-> r.body.status, madeFor |-> r.of ]
    BY <1>1, <1>3 DEF NewAssignment
  <1>5. r.body \in Creation /\ r.employee \in Loaded /\ r.of \in EmployeeIds
    BY <1>2 DEF AssignRequest
  <1>6. d \in AssignmentDoc
    BY <1>4, <1>5 DEF AssignmentDoc, Creation, Loaded
  <1>7. /\ d.clientId = r.employee.clientId /\ d.employeeId = r.employee.employeeId /\ d.madeFor = r.of
        /\ d.siteId = r.body.siteId /\ d.task = r.body.task
    BY <1>4
  <1>8. /\ KeepsCode(d.madeFor, d.clientId, d.employeeId)
        /\ Kept(SiteRef(d.clientId, d.siteId)) /\ Kept(TaskRef(d.clientId, d.task))
        /\ SameSite(req[w].caller, d.clientId, d.siteId)
    BY <1>1, <1>2, <1>7 DEF AssignRequestInv
  <1>. QED
    BY <1>3, <1>6, <1>8 DEF InsertAssignment

\* A save changes neither the pair nor the employee of the assignment it finds.
LEMMA SaveStores ==
    ASSUME AssignmentsInv, AssignmentsAssumption, NEW w \in Requests, SaveAssignment(w)
    PROVE  \/ UNCHANGED assignments
           \/ \E i \in Stored, d \in AssignmentDoc :
                /\ assignments' = [assignments EXCEPT ![i] = d]
                /\ Pair(d) = Pair(assignments[i]) /\ d.madeFor = assignments[i].madeFor
                /\ Kept(TaskRef(d.clientId, d.task))
                /\ SameSite(req[w].caller, d.clientId, d.siteId)
  <1>1. PICK r \in {Idle} \union Request : r = req[w] /\ RequestOK(r)
    BY DEF AssignmentsInv, TypeOK, Request
  <1>2. r \in SaveRequest /\ SaveRequestInv(r) /\ r.pc = "save"
    BY <1>1, RequestKind DEF SaveAssignment, RequestOK
  <1>3. SUFFICES ASSUME ~UNCHANGED assignments
        PROVE \E i \in Stored, d \in AssignmentDoc :
                /\ assignments' = [assignments EXCEPT ![i] = d]
                /\ Pair(d) = Pair(assignments[i]) /\ d.madeFor = assignments[i].madeFor
                /\ Kept(TaskRef(d.clientId, d.task))
                /\ SameSite(req[w].caller, d.clientId, d.siteId)
    OBVIOUS
  <1>4. r.id \in AssignmentIds /\ r.snap \in AssignmentDoc /\ r.patch \in Patch
    BY <1>2 DEF SaveRequest
  <1>5. /\ assignments[r.id] # Removed
        /\ assignments' = [assignments EXCEPT ![r.id] = Saved(assignments[r.id], r.snap, r.patch)]
    <2>1. PICK doc : doc = Saved(SaveTarget(w), r.snap, r.patch)
      OBVIOUS
    <2>2. assignments' = IF SaveTarget(w) # Removed /\ Unique(r.id, doc)
                         THEN [assignments EXCEPT ![r.id] = doc] ELSE assignments
      BY <1>1, <2>1 DEF SaveAssignment
    <2>3. SaveTarget(w) # Removed /\ assignments' = [assignments EXCEPT ![r.id] = doc]
      BY <1>3, <2>2
    <2>. QED
      BY <1>1, <2>1, <2>3 DEF SaveTarget
  <1>6. r.id \in Stored
    BY <1>2, <1>4, <1>5 DEF SaveRequestInv, Stored
  <1>7. PICK o \in AssignmentDoc : o = assignments[r.id]
    BY <1>6, StoredIsDoc DEF AssignmentsInv
  <1>8. PICK d : d = Saved(o, r.snap, r.patch)
    OBVIOUS
  <1>9. /\ Set(r.patch.task, r.snap.task, o.task) \in Tasks
        /\ Set(r.patch.isPrimary, r.snap.isPrimary, o.isPrimary) \in BOOLEAN
        /\ Set(r.patch.status, r.snap.status, o.status) \in Status
    BY <1>4, <1>7 DEF Set, Patch, AssignmentDoc
  <1>10. /\ d \in AssignmentDoc
         /\ d.clientId = o.clientId /\ d.employeeId = o.employeeId /\ d.siteId = o.siteId /\ d.madeFor = o.madeFor
         /\ d.task = Set(r.patch.task, r.snap.task, o.task)
    BY <1>7, <1>8, <1>9 DEF Saved, AssignmentDoc
  <1>11. Pair(o) = Pair(r.snap)
    BY <1>2, <1>6, <1>7 DEF SaveRequestInv
  <1>12. o.clientId = r.snap.clientId /\ o.siteId = r.snap.siteId
    BY <1>11 DEF Pair
  <1>13. Kept(TaskRef(o.clientId, o.task))
    BY <1>6, <1>7 DEF AssignmentsInv, StoredInv
  <1>14. Kept(TaskRef(d.clientId, d.task))
    BY <1>2, <1>10, <1>12, <1>13 DEF SaveRequestInv, Set
  <1>15. SameSite(req[w].caller, d.clientId, d.siteId)
    BY <1>1, <1>2, <1>10, <1>12 DEF SaveRequestInv
  <1>16. Pair(d) = Pair(o)
    BY <1>10 DEF Pair
  <1>. QED
    BY <1>5, <1>6, <1>7, <1>8, <1>10, <1>14, <1>15, <1>16

\* What is deleted has the pair the caller named.
LEMMA DeleteRemoves ==
    ASSUME AssignmentsInv, AssignmentsAssumption, NEW w \in Requests, Delete(w)
    PROVE  \E t \in Clients \X Codes \X Sites :
             /\ SameSite(req[w].caller, t[1], t[3])
             /\ assignments' = [i \in AssignmentIds |->
                    IF i \in Stored /\ Pair(assignments[i]) = t THEN Removed ELSE assignments[i]]
  <1>1. PICK r \in {Idle} \union Request : r = req[w] /\ RequestOK(r)
    BY DEF AssignmentsInv, TypeOK, Request
  <1>2. r \in UnassignRequest
    BY <1>1, RequestKind DEF Delete
  <1>3. SameSite(r.caller, r.employee.clientId, r.siteId)
    BY <1>1, <1>2 DEF RequestOK
  <1>. DEFINE t == <<r.employee.clientId, r.employee.employeeId, r.siteId>>
  <1>4. t \in Clients \X Codes \X Sites
    BY <1>2 DEF UnassignRequest, Loaded
  <1>5. assignments' = [i \in AssignmentIds |->
                    IF i \in Stored /\ Pair(assignments[i]) = t THEN Removed ELSE assignments[i]]
    BY <1>1 DEF Delete, Deleted, AssignmentAt
  <1>. QED
    BY <1>1, <1>3, <1>4, <1>5

-----------------------------------------------------------------------------
(* The invariant *)

\* A new or another code of an employee.
LEMMA RefsOfCodes ==
    ASSUME AssignmentsInv, AssignmentsAssumption, NEW e \in EmployeeIds, NEW c \in Codes, SetCode(e, c)
    PROVE  RefsPersist /\ CodesUnique' /\ code' \in [EmployeeIds -> Codes \union {NoEmployee}] /\ renamed' \in SUBSET Ref
  <1>1. /\ code \in [EmployeeIds -> Codes \union {NoEmployee}] /\ renamed \in SUBSET Ref
        /\ code' = [code EXCEPT ![e] = c] /\ catalog' = catalog
        /\ renamed \subseteq renamed'
    BY DEF AssignmentsInv, TypeOK, SetCode
  <1>2. code[e] \in {NoEmployee, c} \/ EmployeeRef(ClientOf[e], code[e]) \in renamed'
    BY DEF SetCode
  <1>3. RefsPersist
    <2>1. ASSUME NEW f \in EmployeeIds, NEW cl \in Clients, NEW k \in Codes, KeepsCode(f, cl, k)
          PROVE  code'[f] = k \/ EmployeeRef(cl, k) \in renamed'
      <3>1. CASE EmployeeRef(cl, k) \in renamed
        BY <1>1, <3>1
      <3>2. CASE code[f] = k /\ f # e
        BY <1>1, <3>2
      <3>3. CASE code[f] = k /\ f = e
        BY <1>1, <1>2, <2>1, <3>3 DEF KeepsCode, AssignmentsAssumption
      <3>. QED
        BY <2>1, <3>1, <3>2, <3>3 DEF KeepsCode
    <2>. QED
      BY <1>1, <2>1 DEF RefsPersist
  <1>4. CodesUnique'
    <2>1. SUFFICES ASSUME NEW f \in EmployeeIds, NEW g \in EmployeeIds, code'[f] # NoEmployee,
                          ClientOf[f] = ClientOf[g], code'[f] = code'[g], f # g
                   PROVE  FALSE
      BY DEF CodesUnique
    <2>2. \A other \in EmployeeIds \ {e} : ClientOf[other] = ClientOf[e] => code[other] # c
      BY DEF SetCode
    <2>3. CASE f # e /\ g # e
      BY <1>1, <2>1, <2>3 DEF AssignmentsInv, CodesUnique
    <2>4. CASE f = e \/ g = e
      BY <1>1, <2>1, <2>2, <2>4
    <2>. QED
      BY <2>3, <2>4
  <1>5. renamed' \in SUBSET Ref
    <2>1. CASE code[e] \in {NoEmployee, c}
      BY <1>1, <2>1 DEF SetCode
    <2>2. CASE code[e] \notin {NoEmployee, c}
      <3>1. EmployeeRef(ClientOf[e], code[e]) \in Ref
        BY <1>1, <2>2 DEF EmployeeRef, Ref, AssignmentsAssumption
      <3>. QED
        BY <1>1, <2>2, <3>1 DEF SetCode
    <2>. QED
      BY <2>1, <2>2
  <1>. QED
    BY <1>1, <1>3, <1>4, <1>5

\* A step of the modules that own employees, sites and tasks.
LEMMA OwnersKeep ==
    ASSUME AssignmentsInv, AssignmentsAssumption, RefsPersist, UNCHANGED <<assignments, req>>,
           code' \in [EmployeeIds -> Codes \union {NoEmployee}], CodesUnique',
           catalog' \in SUBSET Catalog, renamed' \in SUBSET Ref
    PROVE  AssignmentsInv'
  <1>1. DocsPersist
    BY SameDocs
  <1>2. \A i \in Stored' : StoredInv(i)'
    BY SameStored DEF AssignmentsInv
  <1>3. ASSUME NEW v \in Requests PROVE RequestOK(req[v])'
    <2>1. PICK r \in {Idle} \union Request : r = req[v] /\ RequestOK(r)
      BY DEF AssignmentsInv, TypeOK, Request
    <2>. QED
      BY <1>1, <2>1, RequestPersists DEF AssignmentsInv
  <1>4. TypeOK'
    BY DEF AssignmentsInv, TypeOK
  <1>. QED
    BY <1>2, <1>3, <1>4 DEF AssignmentsInv

\* The end of a request that has written.
LEMMA WriteKeeps ==
    ASSUME AssignmentsInv, AssignmentsAssumption, NEW w \in Requests, End(w),
           UNCHANGED <<code, catalog, renamed>>, DocsPersist,
           assignments' \in [AssignmentIds -> AssignmentDoc \union {NoAssignment, Removed}],
           \A i \in Stored' : StoredInv(i)'
    PROVE  AssignmentsInv'
  <1>1. RefsPersist
    BY SameRefs
  <1>2. /\ req' \in [Requests -> {Idle} \union Request]
        /\ \A v \in Requests : RequestOK(req[v])'
    BY <1>1, EndMoves, RequestsKept DEF AssignmentsInv
  <1>3. TypeOK'
    BY <1>2 DEF AssignmentsInv, TypeOK, Request
  <1>4. CodesUnique'
    BY DEF AssignmentsInv, CodesUnique
  <1>. QED
    BY <1>2, <1>3, <1>4 DEF AssignmentsInv

LEMMA InsertKeeps ==
    ASSUME AssignmentsInv, AssignmentsAssumption, NEW w \in Requests, InsertAssignment(w)
    PROVE  AssignmentsInv'
  <1>1. End(w) /\ UNCHANGED <<code, catalog, renamed>>
    BY DEF InsertAssignment
  <1>2. CASE UNCHANGED assignments
    BY <1>1, <1>2, EndMoves, QuietStep
  <1>3. CASE ~UNCHANGED assignments
    <2>1. PICK i \in AssignmentIds, d \in AssignmentDoc :
            /\ assignments[i] = NoAssignment /\ assignments' = [assignments EXCEPT ![i] = d]
            /\ Unique(i, d)
            /\ KeepsCode(d.madeFor, d.clientId, d.employeeId)
            /\ Kept(SiteRef(d.clientId, d.siteId)) /\ Kept(TaskRef(d.clientId, d.task))
      BY <1>3, InsertStores
    <2>2. assignments \in [AssignmentIds -> AssignmentDoc \union {NoAssignment, Removed}]
      BY DEF AssignmentsInv, TypeOK
    <2>3. assignments' \in [AssignmentIds -> AssignmentDoc \union {NoAssignment, Removed}]
      BY <2>1, <2>2
    <2>4. DocsPersist
      BY <2>1, <2>2 DEF DocsPersist
    <2>5. Stored' = Stored \union {i}
      BY <2>1, <2>2 DEF Stored, AssignmentsAssumption
    <2>6. RefsPersist
      BY <1>1, SameRefs
    <2>7. \A j \in Stored : Pair(assignments[j]) # Pair(d) /\ j # i
      BY <2>1 DEF Unique, Stored
    <2>8. StoredInv(i)'
      <3>1. assignments'[i] = d
        BY <2>1, <2>2
      <3>2. \A j \in Stored' : Pair(assignments'[j]) = Pair(d) => i = j
        BY <2>1, <2>2, <2>5, <2>7, StoredIsDoc DEF AssignmentsInv
      <3>. QED
        BY <2>1, <2>6, <3>1, <3>2, DocPersists DEF AssignmentsInv
    <2>9. ASSUME NEW j \in Stored PROVE StoredInv(j)'
      <3>1. PICK o \in AssignmentDoc : o = assignments[j] /\ j \in AssignmentIds
        BY StoredIsDoc DEF AssignmentsInv
      <3>2. StoredInv(j)
        BY DEF AssignmentsInv
      <3>3. /\ KeepsCode(o.madeFor, o.clientId, o.employeeId)
            /\ Kept(SiteRef(o.clientId, o.siteId)) /\ Kept(TaskRef(o.clientId, o.task))
            /\ \A k \in Stored : Pair(assignments[k]) = Pair(o) => j = k
        BY <3>1, <3>2 DEF StoredInv
      <3>4. assignments'[j] = o
        BY <2>1, <2>2, <2>7, <3>1
      <3>5. \A k \in Stored' : Pair(assignments'[k]) = Pair(o) => j = k
        BY <2>1, <2>2, <2>5, <2>7, <3>1, <3>3, StoredIsDoc DEF AssignmentsInv
      <3>. QED
        BY <2>6, <3>1, <3>3, <3>4, <3>5, DocPersists DEF AssignmentsInv
    <2>10. \A j \in Stored' : StoredInv(j)'
      BY <2>5, <2>8, <2>9
    <2>. QED
      BY <1>1, <2>3, <2>4, <2>10, WriteKeeps
  <1>. QED
    BY <1>2, <1>3

LEMMA SaveKeeps ==
    ASSUME AssignmentsInv, AssignmentsAssumption, NEW w \in Requests, SaveAssignment(w)
    PROVE  AssignmentsInv'
  <1>1. End(w) /\ UNCHANGED <<code, catalog, renamed>>
    BY DEF SaveAssignment
  <1>2. CASE UNCHANGED assignments
    BY <1>1, <1>2, EndMoves, QuietStep
  <1>3. CASE ~UNCHANGED assignments
    <2>1. PICK i \in Stored, d \in AssignmentDoc :
            /\ assignments' = [assignments EXCEPT ![i] = d]
            /\ Pair(d) = Pair(assignments[i]) /\ d.madeFor = assignments[i].madeFor
            /\ Kept(TaskRef(d.clientId, d.task))
      BY <1>3, SaveStores
    <2>2. assignments \in [AssignmentIds -> AssignmentDoc \union {NoAssignment, Removed}]
      BY DEF AssignmentsInv, TypeOK
    <2>3. i \in AssignmentIds /\ assignments'[i] = d /\ assignments[i] \notin {NoAssignment, Removed}
      BY <2>1, <2>2 DEF Stored
    <2>4. d \notin {NoAssignment, Removed}
      BY DEF AssignmentsAssumption
    <2>5. assignments' \in [AssignmentIds -> AssignmentDoc \union {NoAssignment, Removed}]
      BY <2>1, <2>2, <2>3
    <2>6. DocsPersist
      BY <2>1, <2>2, <2>3, <2>4 DEF DocsPersist
    <2>7. Stored' = Stored
      BY <2>1, <2>2, <2>3, <2>4 DEF Stored
    <2>8. RefsPersist
      BY <1>1, SameRefs
    <2>9. \A j \in Stored : Pair(assignments'[j]) = Pair(assignments[j])
      BY <2>1, <2>2, <2>3 DEF Stored
    <2>10. ASSUME NEW j \in Stored PROVE StoredInv(j)'
      <3>1. PICK o \in AssignmentDoc : o = assignments[j] /\ j \in AssignmentIds
        BY StoredIsDoc DEF AssignmentsInv
      <3>2. StoredInv(j)
        BY DEF AssignmentsInv
      <3>3. /\ KeepsCode(o.madeFor, o.clientId, o.employeeId)
            /\ Kept(SiteRef(o.clientId, o.siteId)) /\ Kept(TaskRef(o.clientId, o.task))
            /\ \A k \in Stored : Pair(assignments[k]) = Pair(o) => j = k
        BY <3>1, <3>2 DEF StoredInv
      <3>4. \A k \in Stored' : Pair(assignments'[k]) = Pair(o) => j = k
        BY <2>7, <2>9, <3>3
      <3>5. CASE j # i
        <4>1. assignments'[j] = o
          BY <2>1, <2>2, <3>1, <3>5
        <4>. QED
          BY <2>8, <3>1, <3>3, <3>4, <4>1, DocPersists DEF AssignmentsInv
      <3>6. CASE j = i
        <4>1. Pair(d) = Pair(o) /\ d.madeFor = o.madeFor
          BY <2>1, <3>1, <3>6
        <4>2. d.clientId = o.clientId /\ d.employeeId = o.employeeId /\ d.siteId = o.siteId
          BY <4>1 DEF Pair
        <4>3. /\ KeepsCode(d.madeFor, d.clientId, d.employeeId)
              /\ Kept(SiteRef(d.clientId, d.siteId)) /\ Kept(TaskRef(d.clientId, d.task))
          BY <2>1, <3>3, <4>1, <4>2
        <4>4. assignments'[j] = d /\ \A k \in Stored' : Pair(assignments'[k]) = Pair(d) => j = k
          BY <2>3, <3>4, <3>6, <4>1
        <4>. QED
          BY <2>8, <3>1, <4>3, <4>4, DocPersists DEF AssignmentsInv
      <3>. QED
        BY <3>5, <3>6
    <2>. QED
      BY <1>1, <2>5, <2>6, <2>7, <2>10, WriteKeeps
  <1>. QED
    BY <1>2, <1>3

LEMMA DeleteKeeps ==
    ASSUME AssignmentsInv, AssignmentsAssumption, NEW w \in Requests, Delete(w)
    PROVE  AssignmentsInv'
  <1>1. End(w) /\ UNCHANGED <<code, catalog, renamed>>
    BY DEF Delete
  <1>2. PICK t : assignments' = [i \in AssignmentIds |->
                    IF i \in Stored /\ Pair(assignments[i]) = t THEN Removed ELSE assignments[i]]
    BY DeleteRemoves
  <1>3. assignments \in [AssignmentIds -> AssignmentDoc \union {NoAssignment, Removed}]
    BY DEF AssignmentsInv, TypeOK
  <1>4. assignments' \in [AssignmentIds -> AssignmentDoc \union {NoAssignment, Removed}]
    BY <1>2, <1>3
  <1>5. \A i \in AssignmentIds : assignments'[i] \in {Removed, assignments[i]}
    BY <1>2
  <1>6. DocsPersist
    BY <1>2, <1>3 DEF DocsPersist, Stored, AssignmentsAssumption
  <1>7. \A i \in Stored' : i \in Stored /\ assignments'[i] = assignments[i]
    BY <1>5 DEF Stored
  <1>8. RefsPersist
    BY <1>1, SameRefs
  <1>9. ASSUME NEW i \in Stored' PROVE StoredInv(i)'
    <2>1. PICK d \in AssignmentDoc : d = assignments[i] /\ i \in AssignmentIds
      BY <1>7, StoredIsDoc DEF AssignmentsInv
    <2>2. StoredInv(i)
      BY <1>7 DEF AssignmentsInv
    <2>3. /\ KeepsCode(d.madeFor, d.clientId, d.employeeId)
          /\ Kept(SiteRef(d.clientId, d.siteId)) /\ Kept(TaskRef(d.clientId, d.task))
          /\ \A j \in Stored : Pair(assignments[j]) = Pair(d) => i = j
      BY <2>1, <2>2 DEF StoredInv
    <2>4. assignments'[i] = d /\ \A j \in Stored' : Pair(assignments'[j]) = Pair(d) => i = j
      BY <1>7, <2>1, <2>3
    <2>. QED
      BY <1>8, <2>1, <2>3, <2>4, DocPersists DEF AssignmentsInv
  <1>. QED
    BY <1>1, <1>4, <1>6, <1>9, WriteKeeps

LEMMA OwnerSteps ==
    ASSUME AssignmentsInv, AssignmentsAssumption,
           \/ \E e \in EmployeeIds, c \in Codes : SetCode(e, c)
           \/ \E ref \in Catalog : Add(ref)
           \/ \E ref, new \in Catalog : Rename(ref, new)
    PROVE  AssignmentsInv'
  <1>1. TypeOK /\ CodesUnique
    BY DEF AssignmentsInv
  <1>2. ASSUME NEW e \in EmployeeIds, NEW c \in Codes, SetCode(e, c) PROVE AssignmentsInv'
    <2>1. RefsPersist /\ CodesUnique' /\ code' \in [EmployeeIds -> Codes \union {NoEmployee}] /\ renamed' \in SUBSET Ref
      BY <1>2, RefsOfCodes
    <2>2. UNCHANGED <<assignments, req>> /\ catalog' = catalog
      BY <1>2 DEF SetCode
    <2>3. catalog' \in SUBSET Catalog
      BY <1>1, <2>2 DEF TypeOK
    <2>. QED
      BY <2>1, <2>2, <2>3, OwnersKeep
  <1>3. ASSUME NEW ref \in Catalog, Add(ref) PROVE AssignmentsInv'
    <2>1. UNCHANGED <<assignments, req, code, renamed>> /\ catalog' = catalog \union {ref}
      BY <1>3 DEF Add
    <2>2. RefsPersist
      BY <2>1 DEF RefsPersist, KeepsCode
    <2>3. /\ code' \in [EmployeeIds -> Codes \union {NoEmployee}] /\ catalog' \in SUBSET Catalog /\ renamed' \in SUBSET Ref
      BY <1>1, <2>1 DEF TypeOK
    <2>4. CodesUnique'
      BY <1>1, <2>1 DEF CodesUnique
    <2>. QED
      BY <2>1, <2>2, <2>3, <2>4, OwnersKeep
  <1>4. ASSUME NEW ref \in Catalog, NEW new \in Catalog, Rename(ref, new) PROVE AssignmentsInv'
    <2>1. /\ UNCHANGED <<assignments, req, code>> /\ catalog' = (catalog \ {ref}) \union {new}
          /\ renamed' = renamed \union {ref}
      BY <1>4 DEF Rename
    <2>2. RefsPersist
      BY <2>1 DEF RefsPersist, KeepsCode
    <2>3. ref \in Ref
      BY DEF AssignmentsAssumption, Ref
    <2>4. /\ code' \in [EmployeeIds -> Codes \union {NoEmployee}] /\ catalog' \in SUBSET Catalog /\ renamed' \in SUBSET Ref
      BY <1>1, <2>1, <2>3 DEF TypeOK
    <2>5. CodesUnique'
      BY <1>1, <2>1 DEF CodesUnique
    <2>. QED
      BY <2>1, <2>2, <2>4, <2>5, OwnersKeep
  <1>. QED
    BY <1>2, <1>3, <1>4

\* The steps of requests that leave the data alone.
QuietSteps(w) ==
    \/ BeginAssign(w) \/ CheckSite(w) \/ CheckTask(w)
    \/ BeginUpdate(w) \/ FindAssignment(w) \/ BeginUnassign(w)
    \/ CallFails(w)

LEMMA QuietMoves ==
    ASSUME AssignmentsInv, AssignmentsAssumption, NEW w \in Requests, QuietSteps(w)
    PROVE  Moves(w) /\ UNCHANGED <<assignments, code, catalog, renamed>>
  <1>1. CASE BeginAssign(w)
    BY <1>1, BeginAssignMoves DEF BeginAssign
  <1>2. CASE CheckSite(w)
    BY <1>2, CheckSiteMoves DEF CheckSite
  <1>3. CASE CheckTask(w)
    BY <1>3, CheckTaskMoves DEF CheckTask
  <1>4. CASE BeginUpdate(w)
    BY <1>4, BeginUpdateMoves DEF BeginUpdate
  <1>5. CASE FindAssignment(w)
    BY <1>5, FindAssignmentMoves DEF FindAssignment
  <1>6. CASE BeginUnassign(w)
    BY <1>6, BeginUnassignMoves DEF BeginUnassign
  <1>7. CASE CallFails(w)
    BY <1>7, EndMoves DEF CallFails
  <1>. QED
    BY <1>1, <1>2, <1>3, <1>4, <1>5, <1>6, <1>7 DEF QuietSteps

LEMMA CrashKeeps ==
    ASSUME AssignmentsInv, AssignmentsAssumption, Crash
    PROVE  AssignmentsInv'
  <1>1. UNCHANGED <<assignments, code, catalog, renamed>> /\ req' = [w \in Requests |-> Idle]
    BY DEF Crash
  <1>2. \A i \in Stored' : StoredInv(i)'
    BY <1>1, SameRefs, SameStored DEF AssignmentsInv
  <1>3. \A w \in Requests : RequestOK(req[w])'
    <2>1. RequestOK(Idle)'
      BY KindsDiffer DEF RequestOK, Request
    <2>. QED
      BY <1>1, <2>1
  <1>4. TypeOK' /\ CodesUnique'
    BY <1>1 DEF AssignmentsInv, TypeOK, CodesUnique
  <1>. QED
    BY <1>2, <1>3, <1>4 DEF AssignmentsInv

LEMMA InitEstablishes ==
    ASSUME AssignmentsAssumption, Init
    PROVE  AssignmentsInv
  <1>1. Stored = {}
    BY DEF Init, Stored
  <1>2. \A w \in Requests : RequestOK(req[w])
    BY IdleIsOK DEF Init
  <1>3. TypeOK /\ CodesUnique
    BY DEF Init, TypeOK, CodesUnique, AssignmentsAssumption
  <1>. QED
    BY <1>1, <1>2, <1>3 DEF AssignmentsInv

\* Every step is of one of these kinds.
LEMMA StepKinds ==
    ASSUME Next
    PROVE  \/ \E w \in Requests : QuietSteps(w)
           \/ \E w \in Requests : InsertAssignment(w) \/ SaveAssignment(w) \/ Delete(w)
           \/ Crash
           \/ \/ \E e \in EmployeeIds, c \in Codes : SetCode(e, c)
              \/ \E ref \in Catalog : Add(ref)
              \/ \E ref, new \in Catalog : Rename(ref, new)
    BY DEF Next, QuietSteps

LEMMA StepKeeps ==
    ASSUME AssignmentsAssumption, AssignmentsInv, [Next]_vars
    PROVE  AssignmentsInv'
  <1>1. CASE UNCHANGED vars
    <2>1. UNCHANGED <<assignments, code, catalog, renamed, req>>
      BY <1>1 DEF vars
    <2>2. RefsPersist
      BY <2>1, SameRefs
    <2>3. /\ code' \in [EmployeeIds -> Codes \union {NoEmployee}] /\ catalog' \in SUBSET Catalog /\ renamed' \in SUBSET Ref
          /\ CodesUnique'
      BY <2>1 DEF AssignmentsInv, TypeOK, CodesUnique
    <2>. QED
      BY <2>1, <2>2, <2>3, OwnersKeep
  <1>2. ASSUME NEW w \in Requests, QuietSteps(w) PROVE AssignmentsInv'
    BY <1>2, QuietMoves, QuietStep
  <1>3. ASSUME NEW w \in Requests, InsertAssignment(w) \/ SaveAssignment(w) \/ Delete(w) PROVE AssignmentsInv'
    BY <1>3, InsertKeeps, SaveKeeps, DeleteKeeps
  <1>4. CASE Crash
    BY <1>4, CrashKeeps
  <1>. QED
    BY <1>1, <1>2, <1>3, <1>4, OwnerSteps, StepKinds

-----------------------------------------------------------------------------
(* Theorems *)

(* Whatever an assignment names existed for its client when it was looked up, *)
(* pairs of employee and site are unique, and what requests in flight have    *)
(* looked up is still there or was renamed.                                   *)
THEOREM AssignmentsInvariant ==
    Spec => []AssignmentsInv
  <1>1. Init => AssignmentsInv
    BY InitEstablishes, AssignmentsAssumption
  <1>2. AssignmentsInv /\ [Next]_vars => AssignmentsInv'
    BY StepKeeps, AssignmentsAssumption
  <1>. QED
    BY <1>1, <1>2, PTL DEF Spec

(* No assignment names a site, task or employee that its client does not      *)
(* have, unless its code was changed (assertSiteOwnedByClient,                *)
(* assertTaskOwnedByClient).                                                  *)
THEOREM DanglingComesFromRename ==
    Spec => []DanglingNeedsRename
  <1>1. AssignmentsInv => DanglingNeedsRename
    <2>1. SUFFICES ASSUME AssignmentsInv, NEW i \in Stored, NEW ref \in RefsOf(assignments[i])
                   PROVE  Kept(ref)
      BY DEF DanglingNeedsRename, Kept
    <2>2. PICK d \in AssignmentDoc : d = assignments[i]
      BY <2>1, StoredIsDoc DEF AssignmentsInv
    <2>3. /\ KeepsCode(d.madeFor, d.clientId, d.employeeId)
          /\ Kept(SiteRef(d.clientId, d.siteId)) /\ Kept(TaskRef(d.clientId, d.task))
      BY <2>1, <2>2 DEF AssignmentsInv, StoredInv
    <2>4. d.madeFor \in EmployeeIds
      BY DEF AssignmentDoc
    <2>5. Kept(EmployeeRef(d.clientId, d.employeeId))
      BY <2>3, <2>4 DEF KeepsCode, Kept, Resolves, EmployeeRef
    <2>. QED
      BY <2>1, <2>2, <2>3, <2>5 DEF RefsOf
  <1>. QED
    BY <1>1, AssignmentsInvariant, PTL

(* An assignment passes to another employee only with a code that was renamed *)
(* away from the first (employee.service.ts).                                 *)
THEOREM InheritanceComesFromRename ==
    Spec => []InheritedNeedsRename
  <1>1. AssignmentsInv => InheritedNeedsRename
    <2>1. SUFFICES ASSUME AssignmentsInv, NEW i \in Stored, NEW e \in EmployeeIds,
                          ClientOf[e] = assignments[i].clientId, code[e] = assignments[i].employeeId,
                          e # assignments[i].madeFor
                   PROVE  EmployeeRef(assignments[i].clientId, assignments[i].employeeId) \in renamed
      BY DEF InheritedNeedsRename
    <2>2. PICK d \in AssignmentDoc : d = assignments[i]
      BY <2>1, StoredIsDoc DEF AssignmentsInv
    <2>3. KeepsCode(d.madeFor, d.clientId, d.employeeId)
      BY <2>1, <2>2 DEF AssignmentsInv, StoredInv
    <2>4. d.madeFor \in EmployeeIds /\ d.employeeId \in Codes
      BY DEF AssignmentDoc
    <2>5. code[d.madeFor] # d.employeeId
      BY <2>1, <2>2, <2>3, <2>4, AssignmentsAssumption DEF AssignmentsInv, CodesUnique, KeepsCode
    <2>. QED
      BY <2>1, <2>2, <2>3, <2>5 DEF KeepsCode
  <1>. QED
    BY <1>1, AssignmentsInvariant, PTL

\* Only three steps change assignments.
LEMMA OnlyWrites ==
    ASSUME AssignmentsInv, [Next]_vars, ~UNCHANGED assignments
    PROVE  \E w \in Requests : /\ InsertAssignment(w) \/ SaveAssignment(w) \/ Delete(w)
                               /\ req[w] # Idle /\ req'[w] = Idle
  <1>1. Next
    BY DEF vars
  <1>2. ASSUME NEW w \in Requests, QuietSteps(w) PROVE FALSE
    BY <1>2, QuietMoves, AssignmentsAssumption
  <1>3. ~Crash /\ ~(\/ \E e \in EmployeeIds, c \in Codes : SetCode(e, c)
                    \/ \E ref \in Catalog : Add(ref)
                    \/ \E ref, new \in Catalog : Rename(ref, new))
    BY DEF Crash, SetCode, Add, Rename
  <1>4. PICK w \in Requests : InsertAssignment(w) \/ SaveAssignment(w) \/ Delete(w)
    BY <1>1, <1>2, <1>3, StepKinds
  <1>5. req[w].pc \in {"insert", "save", "delete"} /\ End(w)
    BY <1>4 DEF InsertAssignment, SaveAssignment, Delete
  <1>6. req[w] # Idle
    BY <1>5 DEF Idle
  <1>7. req'[w] = Idle
    BY <1>5 DEF End, AssignmentsInv, TypeOK
  <1>. QED
    BY <1>4, <1>6, <1>7

(* A removed assignment stays removed (updateEmployeeSiteAssignment saves by  *)
(* id a document that may be gone).                                           *)
THEOREM RemovalIsFinal ==
    Spec => RemovedStaysRemoved
  <1>1. ASSUME AssignmentsInv, [Next]_vars, NEW i \in AssignmentIds, assignments[i] = Removed
        PROVE  assignments'[i] = Removed
    <2>1. CASE UNCHANGED assignments
      BY <1>1, <2>1
    <2>2. CASE ~UNCHANGED assignments
      <3>1. PICK w \in Requests : InsertAssignment(w) \/ SaveAssignment(w) \/ Delete(w)
        BY <1>1, <2>2, OnlyWrites
      <3>2. assignments \in [AssignmentIds -> AssignmentDoc \union {NoAssignment, Removed}]
        BY <1>1 DEF AssignmentsInv, TypeOK
      <3>3. CASE InsertAssignment(w)
        <4>1. PICK k \in AssignmentIds, d \in AssignmentDoc :
                assignments[k] = NoAssignment /\ assignments' = [assignments EXCEPT ![k] = d]
          BY <1>1, <2>2, <3>3, InsertStores, AssignmentsAssumption
        <4>. QED
          BY <1>1, <3>2, <4>1, AssignmentsAssumption
      <3>4. CASE SaveAssignment(w)
        <4>1. PICK k \in Stored, d \in AssignmentDoc : assignments' = [assignments EXCEPT ![k] = d]
          BY <1>1, <2>2, <3>4, SaveStores, AssignmentsAssumption
        <4>. QED
          BY <1>1, <3>2, <4>1 DEF Stored
      <3>5. CASE Delete(w)
        <4>1. PICK t : assignments' = [j \in AssignmentIds |->
                    IF j \in Stored /\ Pair(assignments[j]) = t THEN Removed ELSE assignments[j]]
          BY <1>1, <3>5, DeleteRemoves, AssignmentsAssumption
        <4>. QED
          BY <1>1, <4>1
      <3>. QED
        BY <3>1, <3>3, <3>4, <3>5
    <2>. QED
      BY <2>1, <2>2
  <1>2. AssignmentsInv /\ [Next]_vars =>
          [\A i \in AssignmentIds : assignments[i] = Removed => assignments'[i] = Removed]_vars
    BY <1>1
  <1>. QED
    BY <1>2, AssignmentsInvariant, PTL DEF Spec, RemovedStaysRemoved

\* What a step that changes assignments does to them.
LEMMA WriteCases ==
    ASSUME AssignmentsInv, [Next]_vars, ~UNCHANGED assignments
    PROVE  \E w \in Requests :
             /\ req[w] # Idle /\ req'[w] = Idle
             /\ \/ \E i \in AssignmentIds, d \in AssignmentDoc :
                     /\ assignments[i] = NoAssignment /\ assignments' = [assignments EXCEPT ![i] = d]
                     /\ SameSite(req[w].caller, d.clientId, d.siteId)
                \/ \E i \in Stored, d \in AssignmentDoc :
                     /\ assignments' = [assignments EXCEPT ![i] = d] /\ Pair(d) = Pair(assignments[i])
                     /\ SameSite(req[w].caller, d.clientId, d.siteId)
                \/ \E t \in Clients \X Codes \X Sites :
                     /\ SameSite(req[w].caller, t[1], t[3])
                     /\ assignments' = [i \in AssignmentIds |->
                            IF i \in Stored /\ Pair(assignments[i]) = t THEN Removed ELSE assignments[i]]
  <1>1. PICK w \in Requests : /\ InsertAssignment(w) \/ SaveAssignment(w) \/ Delete(w)
                              /\ req[w] # Idle /\ req'[w] = Idle
    BY OnlyWrites
  <1>2. CASE InsertAssignment(w)
    BY <1>1, <1>2, InsertStores, AssignmentsAssumption
  <1>3. CASE SaveAssignment(w)
    BY <1>1, <1>3, SaveStores, AssignmentsAssumption
  <1>4. CASE Delete(w)
    BY <1>1, <1>4, DeleteRemoves, AssignmentsAssumption
  <1>. QED
    BY <1>1, <1>2, <1>3, <1>4

\* The caller of a step that changes an assignment may manage its site.
LEMMA WritesKeepScope ==
    ASSUME AssignmentsInv, [Next]_vars, NEW i \in AssignmentIds, assignments'[i] # assignments[i]
    PROVE  LET d == IF assignments[i] = NoAssignment THEN assignments'[i] ELSE assignments[i]
           IN  \E w \in Requests : /\ req[w] # Idle /\ req'[w] # req[w]
                                   /\ SameSite(req[w].caller, d.clientId, d.siteId)
  <1>. DEFINE d == IF assignments[i] = NoAssignment THEN assignments'[i] ELSE assignments[i]
  <1>1. assignments \in [AssignmentIds -> AssignmentDoc \union {NoAssignment, Removed}]
    BY DEF AssignmentsInv, TypeOK
  <1>2. PICK w \in Requests :
             /\ req[w] # Idle /\ req'[w] = Idle
             /\ \/ \E k \in AssignmentIds, e \in AssignmentDoc :
                     /\ assignments[k] = NoAssignment /\ assignments' = [assignments EXCEPT ![k] = e]
                     /\ SameSite(req[w].caller, e.clientId, e.siteId)
                \/ \E k \in Stored, e \in AssignmentDoc :
                     /\ assignments' = [assignments EXCEPT ![k] = e] /\ Pair(e) = Pair(assignments[k])
                     /\ SameSite(req[w].caller, e.clientId, e.siteId)
                \/ \E t \in Clients \X Codes \X Sites :
                     /\ SameSite(req[w].caller, t[1], t[3])
                     /\ assignments' = [k \in AssignmentIds |->
                            IF k \in Stored /\ Pair(assignments[k]) = t THEN Removed ELSE assignments[k]]
    BY WriteCases
  <1>3. CASE \E k \in AssignmentIds, e \in AssignmentDoc :
                     /\ assignments[k] = NoAssignment /\ assignments' = [assignments EXCEPT ![k] = e]
                     /\ SameSite(req[w].caller, e.clientId, e.siteId)
    <2>1. PICK k \in AssignmentIds, e \in AssignmentDoc :
                     /\ assignments[k] = NoAssignment /\ assignments' = [assignments EXCEPT ![k] = e]
                     /\ SameSite(req[w].caller, e.clientId, e.siteId)
      BY <1>3
    <2>2. d = e
      BY <1>1, <2>1
    <2>. QED
      BY <1>2, <2>1, <2>2
  <1>4. CASE \E k \in Stored, e \in AssignmentDoc :
                     /\ assignments' = [assignments EXCEPT ![k] = e] /\ Pair(e) = Pair(assignments[k])
                     /\ SameSite(req[w].caller, e.clientId, e.siteId)
    <2>1. PICK k \in Stored, e \in AssignmentDoc :
                     /\ assignments' = [assignments EXCEPT ![k] = e] /\ Pair(e) = Pair(assignments[k])
                     /\ SameSite(req[w].caller, e.clientId, e.siteId)
      BY <1>4
    <2>2. k = i /\ assignments[i] # NoAssignment
      BY <1>1, <2>1 DEF Stored
    <2>3. d.clientId = e.clientId /\ d.siteId = e.siteId
      BY <2>1, <2>2 DEF Pair
    <2>. QED
      BY <1>2, <2>1, <2>3
  <1>5. CASE \E t \in Clients \X Codes \X Sites :
                     /\ SameSite(req[w].caller, t[1], t[3])
                     /\ assignments' = [k \in AssignmentIds |->
                            IF k \in Stored /\ Pair(assignments[k]) = t THEN Removed ELSE assignments[k]]
    <2>1. PICK t \in Clients \X Codes \X Sites :
                     /\ SameSite(req[w].caller, t[1], t[3])
                     /\ assignments' = [k \in AssignmentIds |->
                            IF k \in Stored /\ Pair(assignments[k]) = t THEN Removed ELSE assignments[k]]
      BY <1>5
    <2>2. i \in Stored /\ Pair(assignments[i]) = t
      BY <2>1
    <2>3. d.clientId = t[1] /\ d.siteId = t[3]
      BY <2>2 DEF Pair, Stored
    <2>. QED
      BY <1>2, <2>1, <2>3
  <1>. QED
    BY <1>2, <1>3, <1>4, <1>5

(* Nobody's request writes or removes an assignment to a site its caller may  *)
(* not manage (assertSameSite).                                               *)
THEOREM WritesKeepToScope ==
    Spec => AssignmentWritesInScope
  <1>1. AssignmentsInv /\ [Next]_vars =>
          [ \A i \in AssignmentIds : assignments'[i] # assignments[i] =>
              LET d == IF assignments[i] = NoAssignment THEN assignments'[i] ELSE assignments[i]
              IN  \E w \in Requests : /\ req[w] # Idle /\ req'[w] # req[w]
                                      /\ SameSite(req[w].caller, d.clientId, d.siteId) ]_vars
    BY WritesKeepScope
  <1>. QED
    BY <1>1, AssignmentsInvariant, PTL DEF Spec, AssignmentWritesInScope

-----------------------------------------------------------------------------
(* The refinement *)

\* A triple is active when the one assignment that has it is.
LEMMA ActiveMember ==
    ASSUME NEW t
    PROVE  t \in Active <=> \E j \in Stored : assignments[j].status = "active" /\ Pair(assignments[j]) = t
  BY DEF Active

LEMMA ActiveMemberNext ==
    ASSUME NEW t
    PROVE  t \in Active' <=> \E j \in Stored' : assignments'[j].status = "active" /\ Pair(assignments'[j]) = t
  BY DEF Active

\* Storing an assignment at i moves no triple but its own, when what was there had the same.
LEMMA StoreMovesOne ==
    ASSUME AssignmentsInv, AssignmentsAssumption,
           NEW i \in AssignmentIds, NEW d \in AssignmentDoc,
           assignments' = [assignments EXCEPT ![i] = d],
           i \in Stored => Pair(assignments[i]) = Pair(d)
    PROVE  Feed!Next
  <1>. DEFINE t == Pair(d)
  <1>1. assignments \in [AssignmentIds -> AssignmentDoc \union {NoAssignment, Removed}]
    BY DEF AssignmentsInv, TypeOK
  <1>2. t \in Clients \X Codes \X Sites
    BY DEF Pair, AssignmentDoc
  <1>3. /\ \A j \in AssignmentIds : j # i => assignments'[j] = assignments[j]
        /\ assignments'[i] = d
    BY <1>1
  <1>4. d \notin {NoAssignment, Removed}
    BY DEF AssignmentsAssumption
  <1>5. Stored' = Stored \union {i}
    BY <1>3, <1>4 DEF Stored
  <1>6. \A s : s # t => (s \in Active' <=> s \in Active)
    BY <1>3, <1>5, ActiveMember, ActiveMemberNext
  <1>7. Active' = Active \union {t} \/ Active' = Active \ {t}
    <2>1. CASE t \in Active'
      BY <1>6, <2>1
    <2>2. CASE t \notin Active'
      BY <1>6, <2>2
    <2>. QED
      BY <2>1, <2>2
  <1>. QED
    BY <1>2, <1>7 DEF Feed!Next

\* Removing the assignment with a triple moves no other.
LEMMA RemovalMovesOne ==
    ASSUME AssignmentsInv, AssignmentsAssumption, NEW t \in Clients \X Codes \X Sites,
           assignments' = [j \in AssignmentIds |->
               IF j \in Stored /\ Pair(assignments[j]) = t THEN Removed ELSE assignments[j]]
    PROVE  Feed!Next
  <1>1. \A j \in AssignmentIds :
          assignments'[j] = IF j \in Stored /\ Pair(assignments[j]) = t THEN Removed ELSE assignments[j]
    OBVIOUS
  <1>2. Stored' = {j \in Stored : Pair(assignments[j]) # t}
    BY <1>1 DEF Stored
  <1>3. \A j \in Stored' : j \in AssignmentIds /\ assignments'[j] = assignments[j]
    BY <1>1, <1>2 DEF Stored
  <1>4. \A s : s \in Active' <=> s \in Active /\ s # t
    BY <1>2, <1>3, ActiveMember, ActiveMemberNext
  <1>5. Active' = Active \ {t}
    BY <1>4
  <1>. QED
    BY <1>5 DEF Feed!Next

LEMMA FeedStep ==
    ASSUME AssignmentsInv, [Next]_vars
    PROVE  [Feed!Next]_Active
  <1>1. CASE UNCHANGED assignments
    BY <1>1 DEF Active, Stored
  <1>2. CASE ~UNCHANGED assignments
    <2>1. PICK w \in Requests :
             \/ \E k \in AssignmentIds, e \in AssignmentDoc :
                  assignments[k] = NoAssignment /\ assignments' = [assignments EXCEPT ![k] = e]
             \/ \E k \in Stored, e \in AssignmentDoc :
                  assignments' = [assignments EXCEPT ![k] = e] /\ Pair(e) = Pair(assignments[k])
             \/ \E t \in Clients \X Codes \X Sites :
                  assignments' = [k \in AssignmentIds |->
                      IF k \in Stored /\ Pair(assignments[k]) = t THEN Removed ELSE assignments[k]]
      BY <1>2, WriteCases
    <2>2. CASE \E k \in AssignmentIds, e \in AssignmentDoc :
                  assignments[k] = NoAssignment /\ assignments' = [assignments EXCEPT ![k] = e]
      BY <2>2, StoreMovesOne, AssignmentsAssumption DEF Stored
    <2>3. CASE \E k \in Stored, e \in AssignmentDoc :
                  assignments' = [assignments EXCEPT ![k] = e] /\ Pair(e) = Pair(assignments[k])
      <3>1. PICK k \in Stored, e \in AssignmentDoc :
                  assignments' = [assignments EXCEPT ![k] = e] /\ Pair(e) = Pair(assignments[k])
        BY <2>3
      <3>2. k \in AssignmentIds
        BY DEF Stored
      <3>. QED
        BY <3>1, <3>2, StoreMovesOne, AssignmentsAssumption
    <2>4. CASE \E t \in Clients \X Codes \X Sites :
                  assignments' = [k \in AssignmentIds |->
                      IF k \in Stored /\ Pair(assignments[k]) = t THEN Removed ELSE assignments[k]]
      BY <2>4, RemovalMovesOne, AssignmentsAssumption
    <2>. QED
      BY <2>1, <2>2, <2>3, <2>4
  <1>. QED
    BY <1>1, <1>2

(* The assignments change as AssignmentFeed says: at most one triple of       *)
(* client, employee and site becomes active or inactive in a step, which is   *)
(* what the model of the schedule module takes for granted.                   *)
THEOREM AssignmentsImplementFeed ==
    Spec => FeedSpec
  <1>1. Init => Feed!Init
    BY AssignmentsAssumption DEF Init, Feed!Init, Active, Stored
  <1>2. AssignmentsInv /\ [Next]_vars => [Feed!Next]_Active
    BY FeedStep
  <1>. QED
    BY <1>1, <1>2, AssignmentsInvariant, PTL DEF Spec, FeedSpec, Feed!Spec
=============================================================================
