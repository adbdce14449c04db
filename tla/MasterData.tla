----------------------------- MODULE MasterData -----------------------------
(* The client-owned documents behind payroll, kept in the collections that    *)
(* are shared with the rule repository: payroll calendars, pay period configs *)
(* that may name a calendar, employee groups that name a config, employees    *)
(* that may name both, and the plain catalogs (sites, tasks, custom fields).  *)
(* The services of these modules have one shape: find under the caller's      *)
(* filter, load, look up each reference for the owner, write.  As in Roster,  *)
(* a request's pc names the database call it performs next.                   *)
EXTENDS Integers, TenantScope

CONSTANTS
    Requests,   \* concurrent HTTP requests (slots)
    DocIds,     \* Mongo ids
    Names,      \* values of the natural key: name, siteId or employeeId
    NoDoc,      \* an id no document has; the null reference; no document at all
    Null,       \* a null weekStartDay or anchorDate
    Absent,     \* a field the body leaves out
    Malformed,  \* a reference that is no ObjectId
    AnchorDates,
    Seed,       \* the collections at the start
    Callers,    \* principals past authentication and the permission gate
    Creations,  \* bodies of the POST requests
    Patches     \* bodies of the PATCH requests

\* "catalog" stands for sites and tasks, "definition" for the custom field definitions, which are never updated.
Kind == {"calendar", "config", "group", "employee", "catalog", "definition"}
Field == {"payCalendarId", "payPeriodConfigId", "employeeGroupId"}

\* The collection a reference field points into.
Target(f) ==
    CASE f = "payCalendarId" -> "calendar"
      [] f = "payPeriodConfigId" -> "config"
      [] f = "employeeGroupId" -> "group"

\* The reference fields of each kind of document.
RefFields(kind) ==
    CASE kind = "config" -> {"payCalendarId"}
      [] kind = "group" -> {"payPeriodConfigId"}
      [] kind = "employee" -> {"employeeGroupId", "payPeriodConfigId"}
      [] OTHER -> {}

Cadence == {"daily", "weekly", "biweekly", "semi_monthly", "monthly", "salaried"}

\* cadence, weekStartDay and anchorDate matter for configs only.
Doc == [ kind: Kind, clientId: Clients, name: Names, refs: [Field -> DocIds \union {NoDoc}],
         cadence: Cadence, weekStartDay: (0..6) \union {Null}, anchorDate: AnchorDates \union {Null} ]

Given == DocIds \union {NoDoc, Malformed, Absent}

Creation == [ kind: Kind, clientId: Clients, name: Names, refs: [Field -> Given],
              cadence: Cadence, weekStartDay: (0..6) \union {Null}, anchorDate: AnchorDates \union {Null} ]

Patch == [ name: Names \union {Absent}, refs: [Field -> Given],
           weekStartDay: (0..6) \union {Null, Absent}, anchorDate: AnchorDates \union {Null, Absent} ]

\* What errorHandler tells errors apart by, and the status it answers with.
Error == {"none", "ForbiddenError", "NotFoundError", "BadRequestError", "CastError",
          "DuplicateKey", "ValidationError", "Error"}

StatusOf(error) ==
    CASE error = "none" -> 200
      [] error = "ForbiddenError" -> 403
      [] error = "NotFoundError" -> 404
      [] error \in {"BadRequestError", "CastError", "ValidationError"} -> 400
      [] error = "DuplicateKey" -> 409
      [] OTHER -> 500

\* What the database holds: references of the owner's own, and configs with what their cadence needs.
Complete(d) ==
    /\ d.cadence \in {"weekly", "biweekly"} => d.weekStartDay # Null
    /\ d.cadence = "biweekly" => d.anchorDate # Null

Owned(docs, d) ==
    \A f \in Field : d.refs[f] # NoDoc =>
        /\ docs[d.refs[f]] # NoDoc
        /\ docs[d.refs[f]].kind = Target(f)
        /\ docs[d.refs[f]].clientId = d.clientId

WellFormed(docs, d) ==
    /\ Owned(docs, d)
    /\ \A f \in Field \ RefFields(d.kind) : d.refs[f] = NoDoc
    /\ d.kind = "group" => d.refs["payPeriodConfigId"] # NoDoc
    /\ d.kind = "config" => Complete(d)

ASSUME MasterAssumption ==
    /\ NoDoc \notin Doc /\ NoDoc \notin DocIds
    /\ Absent \notin Names \union DocIds \union AnchorDates \union (0..6) \union {NoDoc, Null, Malformed}
    /\ Malformed \notin DocIds \union {NoDoc}
    /\ Null \notin AnchorDates \union (0..6)
    /\ Callers \subseteq Principal
    /\ Creations \subseteq Creation /\ Patches \subseteq Patch
    /\ Seed \in [DocIds -> Doc \union {NoDoc}]
    /\ \A i \in DocIds : Seed[i] # NoDoc => WellFormed(Seed, Seed[i])

VARIABLES
    docs,   \* the collections
    req,    \* the state of each request
    answer  \* the error of the last answer sent, and whether the pre-validate hook raised it

vars == <<docs, req, answer>>

Idle == [pc |-> "idle"]

CreateRequest == [pc: {"check", "write"}, op: {"create"}, body: Creation, pending: SUBSET Field]

UpdateRequest ==
    [ pc: {"load", "check", "write"}, op: {"update"}, filter: Filter, kind: Kind, id: DocIds,
      body: Patch, snap: Doc \union {NoDoc}, pending: SUBSET Field ]

TypeOK ==
    /\ docs \in [DocIds -> Doc \union {NoDoc}]
    /\ req \in [Requests -> {Idle} \union CreateRequest \union UpdateRequest]
    /\ answer \in [error: Error, hook: BOOLEAN]

-----------------------------------------------------------------------------
(* Requests and data *)

End(w, error) ==
    /\ req' = [req EXCEPT ![w] = Idle]
    /\ answer' = [error |-> error, hook |-> FALSE]

KindOf(w) == IF req[w].op = "create" THEN req[w].body.kind ELSE req[w].kind

\* The client whose documents a request may refer to: the body's on a create, the document's on an update.
OwnerOf(w) == IF req[w].op = "create" THEN req[w].body.clientId ELSE req[w].snap.clientId

\* The references that are looked up: those the body sets; a required one always.
Asked(kind, refs) == {f \in RefFields(kind) : refs[f] \notin {NoDoc, Absent}}

\* A reference that is absent or null is stored as null.
Stored(ref) == IF ref = Absent THEN NoDoc ELSE ref

NewDoc(b) == [b EXCEPT !.refs = [f \in Field |-> IF f \in RefFields(b.kind) THEN Stored(b.refs[f]) ELSE NoDoc]]

OrElse(given, old) == IF given = Absent THEN old ELSE given

Patched(d, p) ==
    [ d EXCEPT !.name = OrElse(p.name, d.name),
               !.refs = [f \in Field |-> IF f \in RefFields(d.kind) THEN OrElse(p.refs[f], d.refs[f]) ELSE d.refs[f]],
               !.weekStartDay = IF d.kind = "config" THEN OrElse(p.weekStartDay, @) ELSE @,
               !.anchorDate = IF d.kind = "config" THEN OrElse(p.anchorDate, @) ELSE @ ]

IfModified(new, loaded, stored) == IF new = loaded THEN stored ELSE new

\* Mutant: writes every field of the document, not only the modified ones.
Saved_Whole(stored, loaded, new) == new

\* save() sets the modified fields of the stored document.
Saved(stored, loaded, new) ==
    [ stored EXCEPT !.name = IfModified(new.name, loaded.name, @),
                    !.refs = [f \in Field |-> IfModified(new.refs[f], loaded.refs[f], stored.refs[f])],
                    !.weekStartDay = IfModified(new.weekStartDay, loaded.weekStartDay, @),
                    !.anchorDate = IfModified(new.anchorDate, loaded.anchorDate, @) ]

\* The unique index on clientId and the natural key.
Taken(i, d) ==
    \E j \in DocIds \ {i} :
        docs[j] # NoDoc /\ docs[j].kind = d.kind /\ docs[j].clientId = d.clientId /\ docs[j].name = d.name

-----------------------------------------------------------------------------
(* POST *)

\* A group always looks its config up; the config schema requires what the cadence needs.
BeginCreate(w) ==
    /\ req[w] = Idle
    /\ \E p \in Callers, b \in Creations :
          /\ b.kind = "config" => Complete(b)
          /\ b.kind = "group" => b.refs["payPeriodConfigId"] \notin {NoDoc, Absent}
          /\ IF SameClient(p, b.clientId)
             THEN /\ req' = [ req EXCEPT ![w] =
                                [ pc |-> IF Asked(b.kind, b.refs) = {} THEN "write" ELSE "check",
                                  op |-> "create", body |-> b, pending |-> Asked(b.kind, b.refs) ] ]
                  /\ UNCHANGED answer
             ELSE End(w, "ForbiddenError")
    /\ UNCHANGED docs

\* The insert may be applied and its acknowledgement lost.
Insert(w) ==
    /\ req[w].pc = "write" /\ req[w].op = "create"
    /\ \E i \in DocIds :
          /\ docs[i] = NoDoc
          /\ IF Taken(i, req[w].body)
             THEN End(w, "DuplicateKey") /\ UNCHANGED docs
             ELSE /\ docs' = [docs EXCEPT ![i] = NewDoc(req[w].body)]
                  /\ \E error \in {"none", "Error"} : End(w, error)

-----------------------------------------------------------------------------
(* PATCH *)

\* findOne({ _id, ...filter }) in the collection of that kind.
Found(kind, i, filter) == docs[i] # NoDoc /\ docs[i].kind = kind /\ docs[i].clientId \in filter.clientId

\* The handler's own read, followed by assertSameClient on the document's client.
FindForUpdate(w) ==
    /\ req[w] = Idle
    /\ \E p \in Callers, kind \in Kind \ {"definition"}, i \in DocIds, b \in Patches, requested \in Clients \union {NoClient} :
          LET filter == ReadClientFilter(p, requested)
          IN  /\ MayScope(p)
              /\ kind = "group" => b.refs["payPeriodConfigId"] # NoDoc
              /\ IF ~Found(kind, i, filter) THEN End(w, "NotFoundError")
                 ELSE IF ~SameClient(p, docs[i].clientId) THEN End(w, "ForbiddenError")
                 ELSE /\ req' = [ req EXCEPT ![w] =
                                    [ pc |-> "load", op |-> "update", filter |-> filter, kind |-> kind,
                                      id |-> i, body |-> b, snap |-> NoDoc, pending |-> {} ] ]
                      /\ UNCHANGED answer
    /\ UNCHANGED docs

\* The service's read: the document that is patched from here on.
Load(w) ==
    /\ req[w].pc = "load"
    /\ IF ~Found(req[w].kind, req[w].id, req[w].filter) THEN End(w, "NotFoundError")
       ELSE LET asked == Asked(req[w].kind, req[w].body.refs)
            IN  /\ req' = [ req EXCEPT ![w].pc = IF asked = {} THEN "write" ELSE "check",
                                       ![w].snap = docs[req[w].id], ![w].pending = asked ]
                /\ UNCHANGED answer
    /\ UNCHANGED docs

\* Mutant: the lookup leaves out the owner.
Resolves_AnyOwner(ref, f, owner) ==
    ref # Malformed /\ docs[ref] # NoDoc /\ docs[ref].kind = Target(f)

\* exists({ _id, clientId }) in the collection of the reference.
Resolves(ref, f, owner) ==
    ref # Malformed /\ docs[ref] # NoDoc /\ docs[ref].kind = Target(f) /\ docs[ref].clientId = owner

\* One lookup at a time, the group of an employee before its config.
CheckRef(w) ==
    /\ req[w].pc = "check"
    /\ \E f \in req[w].pending :
          /\ f = "employeeGroupId" \/ "employeeGroupId" \notin req[w].pending
          /\ IF Resolves(req[w].body.refs[f], f, OwnerOf(w))
             THEN /\ req' = [ req EXCEPT ![w].pending = @ \ {f},
                                         ![w].pc = IF req[w].pending = {f} THEN "write" ELSE "check" ]
                  /\ UNCHANGED answer
             ELSE End(w, IF req[w].body.refs[f] = Malformed /\ KindOf(w) = "employee"
                         THEN "CastError" ELSE "BadRequestError")
    /\ UNCHANGED docs

\* Mutant: the pre-validate hook is gone.
Valid_Always(d) == TRUE

\* The pre-validate hook of the config model, on the document as it was loaded and patched.
Valid(d) == d.kind = "config" => Complete(d)

\* save(); the hook's error is a plain Error.
SaveUpdate(w) ==
    /\ req[w].pc = "write" /\ req[w].op = "update"
    /\ LET new == Patched(req[w].snap, req[w].body)
           now == Saved(docs[req[w].id], req[w].snap, new)
       IN  IF ~Valid(new)
           THEN /\ req' = [req EXCEPT ![w] = Idle]
                /\ answer' = [error |-> "Error", hook |-> TRUE]
                /\ UNCHANGED docs
           ELSE IF Taken(req[w].id, now)
           THEN End(w, "DuplicateKey") /\ UNCHANGED docs
           ELSE /\ docs' = [docs EXCEPT ![req[w].id] = now]
                /\ \E error \in {"none", "Error"} : End(w, error)

-----------------------------------------------------------------------------

\* The pending database call of w fails without effect.
CallFails(w) ==
    /\ req[w] # Idle
    /\ End(w, "Error")
    /\ UNCHANGED docs

Crash ==
    /\ req' = [w \in Requests |-> Idle]
    /\ UNCHANGED <<docs, answer>>

Init ==
    /\ docs = Seed
    /\ req = [w \in Requests |-> Idle]
    /\ answer = [error |-> "none", hook |-> FALSE]

Next ==
    \/ \E w \in Requests :
          \/ BeginCreate(w) \/ Insert(w)
          \/ FindForUpdate(w) \/ Load(w) \/ SaveUpdate(w)
          \/ CheckRef(w)
          \/ CallFails(w)
    \/ Crash

Spec == Init /\ [][Next]_vars

-----------------------------------------------------------------------------
(* Properties *)

Existing == {i \in DocIds : docs[i] # NoDoc}

(* "payPeriodConfigId ... falls back to the employeeGroup's config when null" *)
(* (employee.model.ts): where an employee has a config at all, its own or its *)
(* group's, that config is of the employee's client, has what its cadence     *)
(* needs, and its calendar, if it names one, is of the same client.  Four     *)
(* modules write these documents, each checking one link only.                *)
EffectiveConfig(e) ==
    IF e.refs["payPeriodConfigId"] # NoDoc THEN e.refs["payPeriodConfigId"]
    ELSE IF e.refs["employeeGroupId"] # NoDoc THEN docs[e.refs["employeeGroupId"]].refs["payPeriodConfigId"]
    ELSE NoDoc

UsableConfig(i, client) ==
    /\ docs[i] # NoDoc /\ docs[i].kind = "config" /\ docs[i].clientId = client
    /\ Complete(docs[i])
    /\ docs[i].refs["payCalendarId"] # NoDoc =>
          /\ docs[docs[i].refs["payCalendarId"]] # NoDoc
          /\ docs[docs[i].refs["payCalendarId"]].clientId = client

PayChainUsable ==
    \A i \in Existing : docs[i].kind = "employee" /\ EffectiveConfig(docs[i]) # NoDoc =>
        UsableConfig(EffectiveConfig(docs[i]), docs[i].clientId)

(* An update changes no field that its body leaves out, whatever other        *)
(* updates of the document finished since it was loaded: a change somebody    *)
(* else made is not taken back.                                               *)
NoCollateralChange ==
    [][ \A i \in Existing : docs'[i] # docs[i] =>
          \E w \in Requests :
             /\ req[w].pc = "write" /\ req[w].op = "update" /\ req[w].id = i /\ req'[w] = Idle
             /\ docs'[i].name \in {docs[i].name, req[w].body.name}
             /\ \A f \in Field : docs'[i].refs[f] \in {docs[i].refs[f], req[w].body.refs[f]}
             /\ docs'[i].weekStartDay \in {docs[i].weekStartDay, req[w].body.weekStartDay}
             /\ docs'[i].anchorDate \in {docs[i].anchorDate, req[w].body.anchorDate} ]_vars

-----------------------------------------------------------------------------
(* The strengthening behind PayChainUsable. *)

\* What a request has loaded or looked up is still there and of the same owner.
RequestInv(w) ==
    LET r == req[w]
    IN  /\ r.pc = "check" => r.pending # {}
        /\ r.pc \in {"check", "write"} =>
              /\ r.op = "update" =>
                    /\ r.snap # NoDoc /\ docs[r.id] # NoDoc
                    /\ r.snap.kind = r.kind
                    /\ docs[r.id].kind = r.kind /\ docs[r.id].clientId = r.snap.clientId
                    /\ docs[r.id].cadence = r.snap.cadence
                    /\ WellFormed(docs, r.snap)
                    /\ r.pending \subseteq Asked(r.kind, r.body.refs)
                    /\ r.kind = "group" => r.body.refs["payPeriodConfigId"] # NoDoc
                    /\ \A f \in Asked(r.kind, r.body.refs) \ r.pending :
                          Resolves(r.body.refs[f], f, r.snap.clientId)
              /\ r.op = "create" =>
                    /\ r.pending \subseteq Asked(r.body.kind, r.body.refs)
                    /\ r.body.kind = "config" => Complete(r.body)
                    /\ r.body.kind = "group" => r.body.refs["payPeriodConfigId"] \notin {NoDoc, Absent}
                    /\ \A f \in Asked(r.body.kind, r.body.refs) \ r.pending :
                          Resolves(r.body.refs[f], f, r.body.clientId)
        /\ r.pc = "write" => r.pending = {}
        /\ (r.pc = "load" /\ r.kind = "group") => r.body.refs["payPeriodConfigId"] # NoDoc

MasterInv ==
    /\ TypeOK
    /\ \A i \in Existing : WellFormed(docs, docs[i])
    /\ \A w \in Requests : RequestInv(w)

=============================================================================
