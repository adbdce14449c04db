----------------------------- MODULE PunchLedger ----------------------------
(* The punch module of the service (src/src/modules/punch): punches are       *)
(* submitted one by one or in bulk by users and by the ingest key, and        *)
(* corrected by users.  A correction is two separate writes, first the        *)
(* replacement, then the status of the original.  As in Roster, a request's   *)
(* pc names the database call it performs next, requests interleave, any call *)
(* may fail and the process may crash between two calls.                      *)
EXTENDS Integers, Sequences, TenantScope

CONSTANTS
    Requests,       \* concurrent HTTP requests (slots)
    PunchIds,       \* Mongo ids available for punches documents
    Employees,      \* external employee ids
    NoPunch,        \* an id no document has; also the null correctionOfPunchId
    NoTime,         \* the null clockOut of an open punch
    Absent,         \* a field the PATCH body leaves out
    Callers,        \* principals past authentication and the permission gate
    Bodies,         \* bodies of POST /punches
    Batches,        \* bodies of POST /punches/bulk
    Patches         \* bodies of PATCH /punches/:id

Body == [ clientId: Clients, employeeId: Employees, siteId: Sites,
          clockIn: Int, clockOut: Int \union {NoTime} ]

Patch == [ siteId: Sites \union {Absent}, clockIn: Int \union {Absent},
           clockOut: Int \union {NoTime, Absent} ]

\* A punches document; task, timezone, rejectionReason and the timestamps are left out.
PunchDoc == [ clientId: Clients, employeeId: Employees, siteId: Sites,
              clockIn: Int, clockOut: Int \union {NoTime},
              status: {"open", "closed", "corrected"},
              correctionOfPunchId: PunchIds \union {NoPunch} ]

\* What a punch refers to by its external code: employees and sites of a client.
Ref == ({"employee"} \X Clients \X Employees) \union ({"site"} \X Clients \X Sites)

ASSUME PunchAssumption ==
    /\ NoPunch \notin PunchDoc /\ NoPunch \notin PunchIds
    /\ NoTime \notin Int /\ Absent \notin Int /\ Absent # NoTime
    /\ Absent \notin Sites
    /\ Callers \subseteq Principal
    /\ Bodies \subseteq Body
    /\ Batches \subseteq Seq(Body) \ {<<>>}
    /\ Patches \subseteq Patch

VARIABLES
    punches,        \* the punches collection
    known,          \* the employee and site codes that exist
    req,            \* the state of each request
    lost            \* history: codes a request found and that were renamed since

vars == <<punches, known, req, lost>>

-----------------------------------------------------------------------------
(* Requests *)

Idle == [pc |-> "idle"]

CreateRequest ==
    [ pc: {"lookup", "insert", "respond"}, batch: Seq(Body), pos: Nat,
      answers: SUBSET (Ref \X BOOLEAN),
      accepted: SUBSET (Nat \X PunchIds), rejected: SUBSET Nat ]

CorrectRequest ==
    [ pc: {"load", "site", "replace", "flip"}, caller: Callers, id: PunchIds,
      patch: Patch, snap: PunchDoc \union {NoPunch} ]

Current(w) == req[w].batch[req[w].pos]
EmployeeRef(b) == <<"employee", b.clientId, b.employeeId>>
SiteRef(b) == <<"site", b.clientId, b.siteId>>

TypeOK ==
    /\ punches \in [PunchIds -> PunchDoc \union {NoPunch}]
    /\ known \in SUBSET Ref
    /\ req \in [Requests -> {Idle} \union CreateRequest \union CorrectRequest]
    /\ \A w \in Requests : req[w].pc \in {"lookup", "insert"} => req[w].pos \in 1..Len(req[w].batch)
    /\ lost \in [Requests -> SUBSET Ref]

-----------------------------------------------------------------------------
(* Data *)

StatusFor(clockOut) == IF clockOut = NoTime THEN "open" ELSE "closed"

NewPunch(b) ==
    [ clientId |-> b.clientId, employeeId |-> b.employeeId, siteId |-> b.siteId,
      clockIn |-> b.clockIn, clockOut |-> b.clockOut,
      status |-> StatusFor(b.clockOut), correctionOfPunchId |-> NoPunch ]

OutAfterIn(clockIn, clockOut) == clockOut # NoTime => clockOut > clockIn

\* superRefine on the PATCH body compares the two times only when both are given.
PatchAccepted(p) ==
    (p.clockIn # Absent /\ p.clockOut # Absent) => OutAfterIn(p.clockIn, p.clockOut)

OrElse(given, old) == IF given = Absent THEN old ELSE given

\* Mutant: takes the status over from the corrected punch.
Replacement_KeepsStatus(id, d, p) ==
    [ d EXCEPT !.siteId = OrElse(p.siteId, d.siteId),
               !.clockIn = OrElse(p.clockIn, d.clockIn),
               !.clockOut = OrElse(p.clockOut, d.clockOut),
               !.correctionOfPunchId = id ]

\* The replacement document of a correction of d.
Replacement(id, d, p) ==
    LET clockOut == OrElse(p.clockOut, d.clockOut)
    IN  [ d EXCEPT !.siteId = OrElse(p.siteId, d.siteId),
                   !.clockIn = OrElse(p.clockIn, d.clockIn),
                   !.clockOut = clockOut,
                   !.status = StatusFor(clockOut),
                   !.correctionOfPunchId = id ]

-----------------------------------------------------------------------------
End(w) ==
    /\ req' = [req EXCEPT ![w] = Idle]
    /\ lost' = [lost EXCEPT ![w] = {}]

\* The batch loop moves on; the last item leads to the 201/207 response.
NextItem(w, accepted, rejected) ==
    /\ req' = [ req EXCEPT ![w].pc = IF req[w].pos = Len(req[w].batch) THEN "respond" ELSE "lookup",
                           ![w].pos = @ + 1,
                           ![w].answers = {},
                           ![w].accepted = @ \union accepted,
                           ![w].rejected = @ \union rejected ]
    /\ lost' = [lost EXCEPT ![w] = {}]

Reject(w) == NextItem(w, {}, {req[w].pos})

-----------------------------------------------------------------------------
(* POST /punches and POST /punches/bulk *)

MayWritePunch(p, clientId) == p.role = "PUNCH_INGEST" \/ SameClient(p, clientId)

Begin(w, p, batch) ==
    /\ req[w] = Idle
    /\ \A k \in 1..Len(batch) : MayWritePunch(p, batch[k].clientId)
    /\ req' = [ req EXCEPT ![w] = [ pc |-> "lookup", batch |-> batch, pos |-> 1, answers |-> {},
                                    accepted |-> {}, rejected |-> {} ] ]
    /\ UNCHANGED <<punches, known, lost>>

BeginCreate(w) ==
    \E p \in Callers, b \in Bodies :
        /\ OutAfterIn(b.clockIn, b.clockOut)
        /\ Begin(w, p, <<b>>)

\* The bulk schema does not apply the refinement on each element.
BeginBulk(w) == \E p \in Callers, batch \in Batches : Begin(w, p, batch)

\* The two reads of assertEmployeeAndSiteExist run in parallel: either may be answered first.
Lookup(w) ==
    /\ req[w].pc = "lookup"
    /\ \E ref \in {EmployeeRef(Current(w)), SiteRef(Current(w))} :
          /\ \A a \in req[w].answers : a[1] # ref
          /\ req' = [req EXCEPT ![w].answers = @ \union {<<ref, ref \in known>>}]
    /\ UNCHANGED <<punches, known, lost>>

\* Mutant: the first answer decides.
DecideLookup_First(w) ==
    /\ req[w].pc = "lookup"
    /\ \/ /\ \E a \in req[w].answers : a[2]
          /\ req' = [req EXCEPT ![w].pc = "insert"]
          /\ UNCHANGED lost
       \/ /\ \E a \in req[w].answers : ~a[2]
          /\ Reject(w)
    /\ UNCHANGED <<punches, known>>

\* Promise.all has both answers.
DecideLookup(w) ==
    /\ req[w].pc = "lookup"
    /\ {a[1] : a \in req[w].answers} = {EmployeeRef(Current(w)), SiteRef(Current(w))}
    /\ \/ /\ \A a \in req[w].answers : a[2]
          /\ req' = [req EXCEPT ![w].pc = "insert"]
          /\ UNCHANGED lost
       \/ /\ \E a \in req[w].answers : ~a[2]
          /\ Reject(w)
    /\ UNCHANGED <<punches, known>>

\* The insert may be applied and its acknowledgement lost: then the item is reported as rejected.
InsertPunch(w) ==
    /\ req[w].pc = "insert"
    /\ \E i \in PunchIds :
          /\ punches[i] = NoPunch
          /\ punches' = [punches EXCEPT ![i] = NewPunch(Current(w))]
          /\ \/ NextItem(w, {<<req[w].pos, i>>}, {})
             \/ Reject(w)
    /\ UNCHANGED known

Respond(w) ==
    /\ req[w].pc = "respond"
    /\ End(w)
    /\ UNCHANGED <<punches, known>>

-----------------------------------------------------------------------------
(* PATCH /punches/:id *)

\* The handler's own getPunch, followed by assertSameClient.
BeginCorrect(w) ==
    /\ req[w] = Idle
    /\ \E p \in Callers, i \in PunchIds, patch \in Patches, requested \in Clients \union {NoClient} :
          /\ p.role # "PUNCH_INGEST"
          /\ MayScope(p)
          /\ PatchAccepted(patch)
          /\ punches[i] # NoPunch
          /\ Matches(punches[i], ReadClientFilter(p, requested))
          /\ SameClient(p, punches[i].clientId)
          /\ req' = [ req EXCEPT ![w] = [ pc |-> "load", caller |-> p, id |-> i,
                                          patch |-> patch, snap |-> NoPunch ] ]
    /\ UNCHANGED <<punches, known, lost>>

\* Mutant: relies on the check of the body alone.
AfterSiteCheck_BodyOnly(w, d, p) ==
    req' = [req EXCEPT ![w].pc = "replace", ![w].snap = d] /\ UNCHANGED lost

\* The check on the merged times comes after the site lookup, if there is one.
AfterSiteCheck(w, d, p) ==
    LET n == Replacement(req[w].id, d, p)
    IN  IF OutAfterIn(n.clockIn, n.clockOut)
        THEN req' = [req EXCEPT ![w].pc = "replace", ![w].snap = d] /\ UNCHANGED lost
        ELSE End(w)

\* findOne: the document that is corrected from here on.
LoadOriginal(w) ==
    /\ req[w].pc = "load"
    /\ LET d == punches[req[w].id]
       IN  IF req[w].patch.siteId = Absent
           THEN AfterSiteCheck(w, d, req[w].patch)
           ELSE req' = [req EXCEPT ![w].pc = "site", ![w].snap = d] /\ UNCHANGED lost
    /\ UNCHANGED <<punches, known>>

CheckSite(w) ==
    /\ req[w].pc = "site"
    /\ LET r == req[w]
       IN  IF <<"site", r.snap.clientId, r.patch.siteId>> \in known
           THEN AfterSiteCheck(w, r.snap, r.patch)
           ELSE End(w)
    /\ UNCHANGED <<punches, known>>

\* Mutant: an error of the create does not stop the handler.
CreateReplacement_GoesOn(w) ==
    /\ req[w].pc = "replace"
    /\ \E i \in PunchIds :
          /\ punches[i] = NoPunch
          /\ \/ punches' = [punches EXCEPT ![i] = Replacement(req[w].id, req[w].snap, req[w].patch)]
             \/ UNCHANGED punches
          /\ req' = [req EXCEPT ![w].pc = "flip"]
    /\ UNCHANGED <<known, lost>>

\* Again the acknowledgement may be lost: the handler then throws before it flips the original.
CreateReplacement(w) ==
    /\ req[w].pc = "replace"
    /\ \E i \in PunchIds :
          /\ punches[i] = NoPunch
          /\ punches' = [punches EXCEPT ![i] = Replacement(req[w].id, req[w].snap, req[w].patch)]
          /\ \/ req' = [req EXCEPT ![w].pc = "flip"] /\ UNCHANGED lost
             \/ End(w)
    /\ UNCHANGED known

\* Mutant: stores the corrected fields in the original, too.
FlipOriginal_Patched(w) ==
    /\ req[w].pc = "flip"
    /\ punches' = [ punches EXCEPT ![req[w].id] =
                      [ Replacement(@.correctionOfPunchId, @, req[w].patch) EXCEPT !.status = "corrected" ] ]
    /\ End(w)
    /\ UNCHANGED known

\* The original's status is not looked at before, by this request or by another one.
FlipOriginal(w) ==
    /\ req[w].pc = "flip"
    /\ punches' = [punches EXCEPT ![req[w].id].status = "corrected"]
    /\ End(w)
    /\ UNCHANGED known

-----------------------------------------------------------------------------
(* Failures and the environment *)

\* The pending database call of w fails without effect.
CallFails(w) ==
    /\ \/ req[w].pc \in {"lookup", "insert"} /\ Reject(w)
       \/ req[w].pc \in {"load", "site", "replace", "flip"} /\ End(w)
    /\ UNCHANGED <<punches, known>>

Crash ==
    /\ req' = [w \in Requests |-> Idle]
    /\ lost' = [w \in Requests |-> {}]
    /\ UNCHANGED <<punches, known>>

\* An employee or a site is created, or takes this code.
Learn(ref) ==
    /\ ref \notin known
    /\ known' = known \union {ref}
    /\ UNCHANGED <<punches, req, lost>>

\* PATCH /employees/:id and PATCH /sites/:id may change the code of an employee or a site.
Rename(ref) ==
    /\ ref \in known
    /\ known' = known \ {ref}
    /\ lost' = [ w \in Requests |->
                   IF req[w].pc \in {"lookup", "insert"} /\ <<ref, TRUE>> \in req[w].answers
                   THEN lost[w] \union {ref} ELSE lost[w] ]
    /\ UNCHANGED <<punches, req>>

-----------------------------------------------------------------------------

Init ==
    /\ punches = [i \in PunchIds |-> NoPunch]
    /\ known \in SUBSET Ref
    /\ req = [w \in Requests |-> Idle]
    /\ lost = [w \in Requests |-> {}]

Next ==
    \/ \E w \in Requests :
          \/ BeginCreate(w) \/ BeginBulk(w) \/ Lookup(w) \/ DecideLookup(w) \/ InsertPunch(w)
          \/ Respond(w)
          \/ BeginCorrect(w) \/ LoadOriginal(w) \/ CheckSite(w) \/ CreateReplacement(w)
          \/ FlipOriginal(w)
          \/ CallFails(w)
    \/ Crash
    \/ \E ref \in Ref : Learn(ref) \/ Rename(ref)

Spec == Init /\ [][Next]_vars

-----------------------------------------------------------------------------
(* Properties *)

Stored == {i \in PunchIds : punches[i] # NoPunch}
ReplacementsOf(i) == {q \in Stored : punches[q].correctionOfPunchId = i}

(* A punch is only retired once its replacement is stored (correctPunch       *)
(* creates the replacement first), whatever crashes or races in between.      *)
CorrectedIsReplaced ==
    \A i \in Stored : punches[i].status = "corrected" => ReplacementsOf(i) # {}

(* Time worked is never lost: following the corrections of any punch one      *)
(* always meets a punch that is open or closed, because no set of corrected   *)
(* punches contains all the replacements of its members.                      *)
ChainsEndLive ==
    \A S \in (SUBSET Stored) \ {{}} :
        (\A i \in S : ReplacementsOf(i) \subseteq S) => \E i \in S : punches[i].status # "corrected"

(* The journal of PunchJournal: the original stays as it was, apart from its  *)
(* status, and corrections point back to an older punch of the same employee  *)
(* ("a correction NEVER mutates the original punch").                         *)
Journal == INSTANCE PunchJournal WITH journal <- punches

JournalSpec == Journal!Spec

(* A submitted punch names an employee and a site that exist                  *)
(* (assertEmployeeAndSiteExist), unless one was renamed after it was looked   *)
(* up; a batch looks up every item anew.                                      *)
PunchNeedsKnownRefs ==
    [][ \A i \in PunchIds :
          punches[i] = NoPunch /\ punches'[i] # NoPunch /\ punches'[i].correctionOfPunchId = NoPunch =>
            \E w \in Requests :
               /\ req[w].pc = "insert" /\ req'[w] # req[w]
               /\ {EmployeeRef(punches'[i]), SiteRef(punches'[i])} \subseteq known \union lost[w] ]_vars

(* "links back via correctionOfPunchId, and flips the original to status      *)
(* "corrected"" (correctPunch): once no correction of it is under way, a      *)
(* punch with a replacement is retired.                                       *)
CorrectionFlipsOriginal ==
    \A i \in Stored :
        ReplacementsOf(i) # {} /\ (\A w \in Requests : req[w].pc = "flip" => req[w].id # i)
          => punches[i].status = "corrected"

(* The corrections of a closed punch never make it span no time: correctPunch *)
(* checks the merged times, also when the body gives only one of them.        *)
CorrectionsSpanTime ==
    \A i \in Stored : punches[i].correctionOfPunchId # NoPunch =>
        OutAfterIn(punches[i].clockIn, punches[i].clockOut)

-----------------------------------------------------------------------------
(* The strengthening behind CorrectedIsReplaced and the refinement: a request *)
(* about to flip has its replacement stored, and what it loaded is still      *)
(* there, unchanged except for its status.                                    *)

LoadedIsStored(w) ==
    /\ req[w].pc \in {"load", "site", "replace", "flip"} => punches[req[w].id] # NoPunch
    /\ req[w].pc \in {"site", "replace", "flip"} =>
          /\ req[w].snap # NoPunch
          /\ req[w].snap.clientId = punches[req[w].id].clientId
          /\ req[w].snap.employeeId = punches[req[w].id].employeeId
    /\ req[w].pc = "flip" => ReplacementsOf(req[w].id) # {}

LedgerInv ==
    /\ TypeOK
    /\ \A w \in Requests : LoadedIsStored(w)
    /\ CorrectedIsReplaced

=============================================================================
