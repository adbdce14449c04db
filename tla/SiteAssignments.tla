--------------------------- MODULE SiteAssignments ---------------------------
(* The assignments of employees to sites                                      *)
(* (src/src/modules/employeeSiteAssignment), while the employees, sites and   *)
(* tasks they name by code are created and renamed by other modules.  As in   *)
(* Roster, a request's pc names the database call it performs next, a call    *)
(* may fail, and the process may crash.                                       *)
EXTENDS Integers, TenantScope

CONSTANTS
    Requests,       \* concurrent HTTP requests (slots)
    EmployeeIds,    \* Mongo ids of employees
    ClientOf,       \* ClientOf[e]: the client of employee e, which never changes
    Codes,          \* external employee ids (employeeId)
    Tasks,          \* task names
    Catalog,        \* bound: the references to sites and tasks that are ever created or renamed
    Seed,           \* the sites and tasks that exist at the start
    AssignmentIds,  \* Mongo ids of assignments, never used twice
    NoEmployee,     \* no employee has been created under this id yet
    NoAssignment,   \* the same for an assignment
    Removed,        \* the assignment was deleted
    Absent,         \* a field the PATCH body leaves out
    Callers,        \* principals past authentication and the permission gate
    Creations,      \* bodies of POST /employees/:id/sites
    Patches         \* bodies of PATCH /employees/:id/sites/:siteId

Status == {"active", "inactive"}

Creation == [siteId: Sites, task: Tasks, isPrimary: BOOLEAN, status: Status]

Patch == [task: Tasks \union {Absent}, isPrimary: BOOLEAN \union {Absent}, status: Status \union {Absent}]

\* madeFor is not stored: it is the employee the assignment was created for.
AssignmentDoc == [ clientId: Clients, employeeId: Codes, siteId: Sites, task: Tasks,
                   isPrimary: BOOLEAN, status: Status, madeFor: EmployeeIds ]

\* What an assignment names by code.
EmployeeRef(c, code) == <<"employee", c, code>>
SiteRef(c, s) == <<"site", c, s>>
TaskRef(c, t) == <<"task", c, t>>

CatalogRef == ({"site"} \X Clients \X Sites) \union ({"task"} \X Clients \X Tasks)
Ref == ({"employee"} \X Clients \X Codes) \union CatalogRef

ASSUME AssignmentsAssumption ==
    /\ ClientOf \in [EmployeeIds -> Clients]
    /\ NoEmployee \notin Codes
    /\ Catalog \subseteq CatalogRef /\ Seed \subseteq Catalog
    /\ NoAssignment \notin AssignmentDoc /\ Removed \notin AssignmentDoc /\ NoAssignment # Removed
    /\ Absent \notin Tasks /\ Absent \notin BOOLEAN /\ Absent \notin Status
    /\ Callers \subseteq Principal
    /\ Creations \subseteq Creation /\ Patches \subseteq Patch

VARIABLES
    assignments,    \* the employeeSiteAssignments collection
    code,           \* code[e]: the employeeId of employee e
    catalog,        \* the sites and tasks that exist, by code
    renamed,        \* history: references that stopped resolving at some time
    req             \* the state of each request

vars == <<assignments, code, catalog, renamed, req>>

Idle == [pc |-> "idle"]

\* The employee as getEmployeeInScope loaded it.
Loaded == [clientId: Clients, employeeId: Codes]

AssignRequest == [ pc: {"site", "task", "insert"}, op: {"assign"}, caller: Callers,
                   of: EmployeeIds, employee: Loaded, body: Creation ]

FindRequest == [pc: {"find"}, op: {"update"}, caller: Callers, employee: Loaded, siteId: Sites, patch: Patch]

SaveRequest == [ pc: {"task", "save"}, op: {"update"}, caller: Callers, patch: Patch,
                 id: AssignmentIds, snap: AssignmentDoc ]

UnassignRequest == [pc: {"delete"}, op: {"unassign"}, caller: Callers, employee: Loaded, siteId: Sites]

TypeOK ==
    /\ assignments \in [AssignmentIds -> AssignmentDoc \union {NoAssignment, Removed}]
    /\ code \in [EmployeeIds -> Codes \union {NoEmployee}]
    /\ catalog \in SUBSET Catalog
    /\ renamed \in SUBSET Ref
    /\ req \in [Requests -> {Idle} \union AssignRequest \union FindRequest \union SaveRequest \union UnassignRequest]

-----------------------------------------------------------------------------
(* Data *)

Stored == {i \in AssignmentIds : assignments[i] \notin {NoAssignment, Removed}}

Pair(d) == <<d.clientId, d.employeeId, d.siteId>>

\* The assignment of an employee to a site is looked up by their codes.
AssignmentAt(employee, siteId) ==
    {i \in Stored : Pair(assignments[i]) = <<employee.clientId, employee.employeeId, siteId>>}

\* The unique index on client, employee and site, and the partial one on primary assignments.
Unique(i, d) ==
    \A j \in Stored \ {i} :
        /\ Pair(assignments[j]) # Pair(d)
        /\ d.isPrimary /\ assignments[j].isPrimary =>
              <<assignments[j].clientId, assignments[j].employeeId>> # <<d.clientId, d.employeeId>>

NewAssignment(w) ==
    [ clientId |-> req[w].employee.clientId, employeeId |-> req[w].employee.employeeId,
      siteId |-> req[w].body.siteId, task |-> req[w].body.task, isPrimary |-> req[w].body.isPrimary,
      status |-> req[w].body.status, madeFor |-> req[w].of ]

\* The stored document after save() has set the fields the patch changed in the loaded one.
Set(given, loaded, stored) == IF given \in {Absent, loaded} THEN stored ELSE given

Saved(stored, loaded, p) ==
    [ stored EXCEPT !.task = Set(p.task, loaded.task, @),
                    !.isPrimary = Set(p.isPrimary, loaded.isPrimary, @),
                    !.status = Set(p.status, loaded.status, @) ]

End(w) == req' = [req EXCEPT ![w] = Idle]

Step(w, pc) == req' = [req EXCEPT ![w].pc = pc]

-----------------------------------------------------------------------------
(* The three writing handlers start alike: load the employee under the        *)
(* caller's filter, then check the site against the caller's own.             *)

\* Mutant: managed sites are not looked at.
MayAssign_AnySite(p, clientId, siteId) == SameClient(p, clientId)

MayAssign(p, clientId, siteId) == SameSite(p, clientId, siteId)

\* Both checks passed for caller p, employee e and the site named in body or path.
Admitted(p, e, siteId) ==
    \E requested \in Clients \union {NoClient} :
        /\ MayScope(p)
        /\ code[e] # NoEmployee
        /\ ClientOf[e] \in ReadClientFilter(p, requested).clientId
        /\ MayAssign(p, ClientOf[e], siteId)

LoadedEmployee(e) == [clientId |-> ClientOf[e], employeeId |-> code[e]]

BeginAssign(w) ==
    /\ req[w] = Idle
    /\ \E p \in Callers, e \in EmployeeIds, b \in Creations :
          /\ Admitted(p, e, b.siteId)
          /\ req' = [ req EXCEPT ![w] = [ pc |-> "site", op |-> "assign", caller |-> p, of |-> e,
                                          employee |-> LoadedEmployee(e), body |-> b ] ]
    /\ UNCHANGED <<assignments, code, catalog, renamed>>

BeginUpdate(w) ==
    /\ req[w] = Idle
    /\ \E p \in Callers, e \in EmployeeIds, s \in Sites, b \in Patches :
          /\ Admitted(p, e, s)
          /\ req' = [ req EXCEPT ![w] = [ pc |-> "find", op |-> "update", caller |-> p,
                                          employee |-> LoadedEmployee(e), siteId |-> s, patch |-> b ] ]
    /\ UNCHANGED <<assignments, code, catalog, renamed>>

BeginUnassign(w) ==
    /\ req[w] = Idle
    /\ \E p \in Callers, e \in EmployeeIds, s \in Sites :
          /\ Admitted(p, e, s)
          /\ req' = [ req EXCEPT ![w] = [ pc |-> "delete", op |-> "unassign", caller |-> p,
                                          employee |-> LoadedEmployee(e), siteId |-> s ] ]
    /\ UNCHANGED <<assignments, code, catalog, renamed>>

-----------------------------------------------------------------------------
(* POST /employees/:id/sites *)

\* assertSiteOwnedByClient
SiteKnown(clientId, siteId) == SiteRef(clientId, siteId) \in catalog

\* Mutant: the site is not looked up.
CheckSite_TakenOnTrust(w) ==
    /\ req[w].pc = "site"
    /\ Step(w, "task")
    /\ UNCHANGED <<assignments, code, catalog, renamed>>

CheckSite(w) ==
    /\ req[w].pc = "site"
    /\ IF SiteKnown(req[w].employee.clientId, req[w].body.siteId) THEN Step(w, "task") ELSE End(w)
    /\ UNCHANGED <<assignments, code, catalog, renamed>>

\* assertTaskOwnedByClient
TaskKnown(clientId, task) == TaskRef(clientId, task) \in catalog

CheckTask(w) ==
    /\ req[w].pc = "task"
    /\ IF req[w].op = "assign"
       THEN IF TaskKnown(req[w].employee.clientId, req[w].body.task) THEN Step(w, "insert") ELSE End(w)
       ELSE IF TaskKnown(req[w].snap.clientId, req[w].patch.task) THEN Step(w, "save") ELSE End(w)
    /\ UNCHANGED <<assignments, code, catalog, renamed>>

InsertAssignment(w) ==
    /\ req[w].pc = "insert"
    /\ \E i \in AssignmentIds :
          /\ assignments[i] = NoAssignment
          /\ assignments' = IF Unique(i, NewAssignment(w)) THEN [assignments EXCEPT ![i] = NewAssignment(w)]
                            ELSE assignments
    /\ End(w)
    /\ UNCHANGED <<code, catalog, renamed>>

-----------------------------------------------------------------------------
(* PATCH /employees/:id/sites/:siteId *)

FindAssignment(w) ==
    /\ req[w].pc = "find"
    /\ \/ /\ AssignmentAt(req[w].employee, req[w].siteId) = {}
          /\ End(w)
       \/ \E i \in AssignmentAt(req[w].employee, req[w].siteId) :
             req' = [ req EXCEPT ![w] = [ pc |-> IF req[w].patch.task = Absent THEN "save" ELSE "task",
                                          op |-> "update", caller |-> req[w].caller, patch |-> req[w].patch,
                                          id |-> i, snap |-> assignments[i] ] ]
    /\ UNCHANGED <<assignments, code, catalog, renamed>>

\* Mutant: the save puts the loaded document back when it is gone.
SaveTarget_Upsert(w) == IF req[w].id \in Stored THEN assignments[req[w].id] ELSE req[w].snap

\* The document the save finds under its id, if it is still there.
SaveTarget(w) == assignments[req[w].id]

\* save() of a deleted document changes nothing and throws DocumentNotFoundError.
SaveAssignment(w) ==
    /\ req[w].pc = "save"
    /\ LET doc == Saved(SaveTarget(w), req[w].snap, req[w].patch)
       IN  assignments' = IF SaveTarget(w) # Removed /\ Unique(req[w].id, doc)
                          THEN [assignments EXCEPT ![req[w].id] = doc] ELSE assignments
    /\ End(w)
    /\ UNCHANGED <<code, catalog, renamed>>

-----------------------------------------------------------------------------
(* DELETE /employees/:id/sites/:siteId *)

\* Mutant: deletes every assignment of the employee.
Deleted_AllSites(w) ==
    {i \in Stored : /\ assignments[i].clientId = req[w].employee.clientId
                    /\ assignments[i].employeeId = req[w].employee.employeeId}

Deleted(w) == AssignmentAt(req[w].employee, req[w].siteId)

Delete(w) ==
    /\ req[w].pc = "delete"
    /\ assignments' = [i \in AssignmentIds |-> IF i \in Deleted(w) THEN Removed ELSE assignments[i]]
    /\ End(w)
    /\ UNCHANGED <<code, catalog, renamed>>

-----------------------------------------------------------------------------
(* Failures, and the modules that own what assignments refer to. *)

\* The pending database call of w fails, with or without its effect.
CallFails(w) ==
    /\ req[w] # Idle
    /\ End(w)
    /\ UNCHANGED <<assignments, code, catalog, renamed>>

Crash ==
    /\ req' = [w \in Requests |-> Idle]
    /\ UNCHANGED <<assignments, code, catalog, renamed>>

\* Mutant: no unique index on client and code.
SetCode_NotUnique(e, c) ==
    /\ code' = [code EXCEPT ![e] = c]
    /\ renamed' = IF code[e] \in {NoEmployee, c} THEN renamed
                  ELSE renamed \union {EmployeeRef(ClientOf[e], code[e])}
    /\ UNCHANGED <<assignments, catalog, req>>

\* POST or PATCH /employees: the code is unique within the client.
SetCode(e, c) ==
    /\ \A other \in EmployeeIds \ {e} : ClientOf[other] = ClientOf[e] => code[other] # c
    /\ code' = [code EXCEPT ![e] = c]
    /\ renamed' = IF code[e] \in {NoEmployee, c} THEN renamed
                  ELSE renamed \union {EmployeeRef(ClientOf[e], code[e])}
    /\ UNCHANGED <<assignments, catalog, req>>

\* POST /sites or /tasks.
Add(ref) ==
    /\ ref \notin catalog
    /\ catalog' = catalog \union {ref}
    /\ UNCHANGED <<assignments, code, renamed, req>>

\* PATCH /sites/:id or /tasks/:id with a new code.
Rename(ref, new) ==
    /\ ref \in catalog /\ new \notin catalog
    /\ ref[1] = new[1] /\ ref[2] = new[2]
    /\ catalog' = (catalog \ {ref}) \union {new}
    /\ renamed' = renamed \union {ref}
    /\ UNCHANGED <<assignments, code, req>>

-----------------------------------------------------------------------------

Init ==
    /\ assignments = [i \in AssignmentIds |-> NoAssignment]
    /\ code = [e \in EmployeeIds |-> NoEmployee]
    /\ catalog = Seed
    /\ renamed = {}
    /\ req = [w \in Requests |-> Idle]

Next ==
    \/ \E w \in Requests :
          \/ BeginAssign(w) \/ CheckSite(w) \/ CheckTask(w) \/ InsertAssignment(w)
          \/ BeginUpdate(w) \/ FindAssignment(w) \/ SaveAssignment(w)
          \/ BeginUnassign(w) \/ Delete(w)
          \/ CallFails(w)
    \/ Crash
    \/ \E e \in EmployeeIds, c \in Codes : SetCode(e, c)
    \/ \E ref \in Catalog : Add(ref)
    \/ \E ref, new \in Catalog : Rename(ref, new)

Spec == Init /\ [][Next]_vars

-----------------------------------------------------------------------------
(* Properties *)

Resolves(ref) ==
    IF ref[1] = "employee" THEN \E e \in EmployeeIds : EmployeeRef(ClientOf[e], code[e]) = ref
    ELSE ref \in catalog

RefsOf(d) == {EmployeeRef(d.clientId, d.employeeId), SiteRef(d.clientId, d.siteId), TaskRef(d.clientId, d.task)}

(* An assignment "may only point at a site owned by the SAME client" and the  *)
(* like for its task (assertSiteOwnedByClient, assertTaskOwnedByClient): a    *)
(* reference that does not resolve has been renamed since it was looked up.   *)
DanglingNeedsRename ==
    \A i \in Stored : \A ref \in RefsOf(assignments[i]) : Resolves(ref) \/ ref \in renamed

(* An assignment counts for the employee it was made for: another employee    *)
(* gets it only by taking over a code that was renamed away.                  *)
InheritedNeedsRename ==
    \A i \in Stored, e \in EmployeeIds :
        LET d == assignments[i]
        IN  <<ClientOf[e], code[e]>> = <<d.clientId, d.employeeId>> /\ e # d.madeFor =>
                EmployeeRef(d.clientId, d.employeeId) \in renamed

(* An assignment that was removed stays removed: an update that loaded it     *)
(* before and saves it afterwards does not bring it back.                     *)
RemovedStaysRemoved ==
    [][\A i \in AssignmentIds : assignments[i] = Removed => assignments'[i] = Removed]_vars

(* Whatever is written or removed is an assignment to a site its caller may   *)
(* manage (assertSameSite on the site of the body or the path, while the      *)
(* document is found by code).                                                *)
AssignmentWritesInScope ==
    [][ \A i \in AssignmentIds : assignments'[i] # assignments[i] =>
          LET d == IF assignments[i] = NoAssignment THEN assignments'[i] ELSE assignments[i]
          IN  \E w \in Requests : /\ req[w] # Idle /\ req'[w] # req[w]
                                  /\ SameSite(req[w].caller, d.clientId, d.siteId) ]_vars

(* What the schedule module reads changes one pair at a time, whatever        *)
(* requests race: the environment Roster assumes.                             *)
Active == {Pair(assignments[i]) : i \in {j \in Stored : assignments[j].status = "active"}}

Feed == INSTANCE AssignmentFeed WITH Assignment <- Clients \X Codes \X Sites, active <- Active

FeedSpec == Feed!Spec

-----------------------------------------------------------------------------
(* The strengthening behind these properties. *)

Kept(ref) == Resolves(ref) \/ ref \in renamed

\* The employee still has the code it was loaded with, or changed it since.
KeepsCode(e, clientId, employeeId) ==
    /\ ClientOf[e] = clientId
    /\ code[e] = employeeId \/ EmployeeRef(clientId, employeeId) \in renamed

CodesUnique ==
    \A e, f \in EmployeeIds :
        code[e] # NoEmployee /\ <<ClientOf[e], code[e]>> = <<ClientOf[f], code[f]>> => e = f

StoredInv(i) ==
    LET d == assignments[i]
    IN  /\ KeepsCode(d.madeFor, d.clientId, d.employeeId)
        /\ Kept(SiteRef(d.clientId, d.siteId)) /\ Kept(TaskRef(d.clientId, d.task))
        /\ \A j \in Stored : Pair(assignments[j]) = Pair(d) => i = j

\* What the checks of a request found is still there, or was renamed since.
AssignRequestInv(r) ==
    /\ KeepsCode(r.of, r.employee.clientId, r.employee.employeeId)
    /\ SameSite(r.caller, r.employee.clientId, r.body.siteId)
    /\ r.pc \in {"task", "insert"} => Kept(SiteRef(r.employee.clientId, r.body.siteId))
    /\ r.pc = "insert" => Kept(TaskRef(r.employee.clientId, r.body.task))

SaveRequestInv(r) ==
    /\ SameSite(r.caller, r.snap.clientId, r.snap.siteId)
    /\ assignments[r.id] # NoAssignment
    /\ r.id \in Stored => /\ Pair(assignments[r.id]) = Pair(r.snap)
                           /\ assignments[r.id].madeFor = r.snap.madeFor
    /\ r.pc = "task" => r.patch.task # Absent
    /\ r.pc = "save" /\ r.patch.task # Absent => Kept(TaskRef(r.snap.clientId, r.patch.task))

RequestOK(r) ==
    /\ r \in AssignRequest => AssignRequestInv(r)
    /\ r \in SaveRequest => SaveRequestInv(r)
    /\ r \in FindRequest \union UnassignRequest => SameSite(r.caller, r.employee.clientId, r.siteId)

AssignmentsInv ==
    /\ TypeOK
    /\ CodesUnique
    /\ \A i \in Stored : StoredInv(i)
    /\ \A w \in Requests : RequestOK(req[w])
=============================================================================
