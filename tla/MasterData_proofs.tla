-------------------------- MODULE MasterData_proofs --------------------------
(* Proofs about MasterData for every number of requests and documents, every  *)
(* set of clients, and every set of request bodies.                           *)
EXTENDS MasterData, TLAPS

-----------------------------------------------------------------------------
(* Facts about the building blocks of the model. *)

\* The pc and op of a request say which record it is.
LEMMA RequestKind ==
    ASSUME TypeOK, NEW w \in Requests
    PROVE  /\ req[w].pc = "load" => req[w] \in UpdateRequest
           /\ req[w].pc \in {"check", "write"} => req[w] \in CreateRequest \union UpdateRequest
           /\ req[w].pc \in {"check", "write"} /\ req[w].op = "create" => req[w] \in CreateRequest
           /\ req[w].pc \in {"check", "write"} /\ req[w].op = "update" => req[w] \in UpdateRequest
           /\ req[w].pc \in {"check", "write"} => req[w].op \in {"create", "update"}
    BY DEF TypeOK, Idle, CreateRequest, UpdateRequest

\* A reference that is looked up and found is the id of a document of the owner.
LEMMA ResolvedIsOwned ==
    ASSUME NEW ref \in Given \ {NoDoc, Absent}, NEW f, NEW owner, Resolves(ref, f, owner)
    PROVE  /\ ref \in DocIds /\ docs[ref] # NoDoc
           /\ docs[ref].kind = Target(f) /\ docs[ref].clientId = owner
    BY DEF Resolves, Given

LEMMA RefFieldsType ==
    ASSUME NEW kind
    PROVE  RefFields(kind) \subseteq Field
    BY DEF RefFields, Field

-----------------------------------------------------------------------------
(* No step deletes a document or changes its kind, client or cadence, so what *)
(* was once looked up stays good.                                             *)

Persist ==
    \A i \in DocIds : docs[i] # NoDoc =>
        /\ docs'[i] # NoDoc
        /\ docs'[i].kind = docs[i].kind
        /\ docs'[i].clientId = docs[i].clientId
        /\ docs'[i].cadence = docs[i].cadence

LEMMA WellFormedPersists ==
    ASSUME Persist, NEW d \in Doc, WellFormed(docs, d)
    PROVE  WellFormed(docs', d)
  <1>1. ASSUME NEW f \in Field, d.refs[f] # NoDoc
        PROVE  /\ docs'[d.refs[f]] # NoDoc
               /\ docs'[d.refs[f]].kind = Target(f)
               /\ docs'[d.refs[f]].clientId = d.clientId
    <2>1. d.refs[f] \in DocIds
      BY <1>1 DEF Doc
    <2>2. /\ docs[d.refs[f]] # NoDoc
          /\ docs[d.refs[f]].kind = Target(f)
          /\ docs[d.refs[f]].clientId = d.clientId
      BY <1>1 DEF WellFormed, Owned
    <2>. QED
      BY <2>1, <2>2 DEF Persist
  <1>2. Owned(docs', d)
    BY <1>1 DEF Owned
  <1>. QED
    BY <1>2 DEF WellFormed

\* Resolves in the next state.
ResolvesNext(ref, f, owner) ==
    ref # Malformed /\ docs'[ref] # NoDoc /\ docs'[ref].kind = Target(f) /\ docs'[ref].clientId = owner

LEMMA ResolvesPersists ==
    ASSUME Persist, NEW ref \in Given \ {NoDoc, Absent}, NEW f, NEW owner, Resolves(ref, f, owner)
    PROVE  ResolvesNext(ref, f, owner)
  <1>1. ref \in DocIds /\ docs[ref] # NoDoc /\ docs[ref].kind = Target(f) /\ docs[ref].clientId = owner
    BY ResolvedIsOwned
  <1>. QED
    BY <1>1 DEF Persist, Resolves, ResolvesNext

\* What the lookups of a request settled, for the references of a body.
Settled(kind, refs, pending, owner) ==
    /\ pending \subseteq Asked(kind, refs)
    /\ \A f \in Asked(kind, refs) \ pending : Resolves(refs[f], f, owner)

\* A request that this step leaves alone keeps what it relies on.
LEMMA RequestPersists ==
    ASSUME MasterInv, Persist, NEW w \in Requests, req'[w] = req[w]
    PROVE  RequestInv(w)'
  <1>. DEFINE r == req[w]
  <1>0. RequestInv(w)
    BY DEF MasterInv
  <1>1. ASSUME r.pc \in {"check", "write"}, r.op = "update"
        PROVE  /\ r.snap # NoDoc /\ docs'[r.id] # NoDoc
               /\ r.snap.kind = r.kind
               /\ docs'[r.id].kind = r.kind /\ docs'[r.id].clientId = r.snap.clientId
               /\ docs'[r.id].cadence = r.snap.cadence
               /\ WellFormed(docs', r.snap)
               /\ r.pending \subseteq Asked(r.kind, r.body.refs)
               /\ r.kind = "group" => r.body.refs["payPeriodConfigId"] # NoDoc
               /\ \A f \in Asked(r.kind, r.body.refs) \ r.pending :
                     ResolvesNext(r.body.refs[f], f, r.snap.clientId)
    <2>1. r \in UpdateRequest
      BY <1>1, RequestKind DEF MasterInv
    <2>2. r.id \in DocIds /\ r.snap \in Doc
      BY <2>1, <1>0, <1>1 DEF UpdateRequest, RequestInv
    <2>3. WellFormed(docs', r.snap)
      BY <2>2, <1>0, <1>1, WellFormedPersists DEF RequestInv
    <2>4. ASSUME NEW f \in Asked(r.kind, r.body.refs) \ r.pending
          PROVE  ResolvesNext(r.body.refs[f], f, r.snap.clientId)
      <3>1. Resolves(r.body.refs[f], f, r.snap.clientId)
        BY <1>0, <1>1, <2>4 DEF RequestInv
      <3>2. r.body.refs[f] \in Given \ {NoDoc, Absent}
        BY <2>1, <2>4, RefFieldsType DEF UpdateRequest, Patch, Asked
      <3>. QED
        BY <3>1, <3>2, ResolvesPersists
    <2>5. /\ docs'[r.id] # NoDoc
          /\ docs'[r.id].kind = r.kind /\ docs'[r.id].clientId = r.snap.clientId
          /\ docs'[r.id].cadence = r.snap.cadence
      BY <2>2, <1>0, <1>1 DEF RequestInv, Persist
    <2>. QED
      BY <2>3, <2>4, <2>5, <1>0, <1>1 DEF RequestInv
  <1>2. ASSUME r.pc \in {"check", "write"}, r.op = "create",
               NEW f \in Asked(r.body.kind, r.body.refs) \ r.pending
        PROVE  ResolvesNext(r.body.refs[f], f, r.body.clientId)
    <2>1. Resolves(r.body.refs[f], f, r.body.clientId)
      BY <1>0, <1>2 DEF RequestInv
    <2>2. r \in CreateRequest
      BY <1>2, RequestKind DEF MasterInv
    <2>3. r.body.refs[f] \in Given \ {NoDoc, Absent}
      BY <2>2, <1>2, RefFieldsType DEF CreateRequest, Creation, Asked
    <2>. QED
      BY <2>1, <2>3, ResolvesPersists
  <1>. QED
    BY <1>0, <1>1, <1>2 DEF RequestInv, Resolves, ResolvesNext

-----------------------------------------------------------------------------
(* What is written is well formed. *)

\* The document of a create whose lookups are all done.
LEMMA NewDocFits ==
    ASSUME TypeOK, NEW b \in Creation,
           b.kind = "config" => Complete(b),
           b.kind = "group" => b.refs["payPeriodConfigId"] \notin {NoDoc, Absent},
           \A f \in Asked(b.kind, b.refs) : Resolves(b.refs[f], f, b.clientId)
    PROVE  NewDoc(b) \in Doc /\ WellFormed(docs, NewDoc(b))
  <1>. DEFINE refs == [f \in Field |-> IF f \in RefFields(b.kind) THEN Stored(b.refs[f]) ELSE NoDoc]
              d == [b EXCEPT !.refs = refs]
  <1>1. ASSUME NEW f \in Field
        PROVE  \/ refs[f] = NoDoc
               \/ /\ f \in RefFields(b.kind) /\ refs[f] = b.refs[f] /\ refs[f] \in DocIds
                  /\ docs[refs[f]] # NoDoc /\ docs[refs[f]].kind = Target(f)
                  /\ docs[refs[f]].clientId = b.clientId
    <2>1. CASE f \in Asked(b.kind, b.refs)
      <3>1. f \in RefFields(b.kind) /\ b.refs[f] \in Given \ {NoDoc, Absent}
        BY <2>1 DEF Asked, Creation
      <3>2. Resolves(b.refs[f], f, b.clientId)
        BY <2>1
      <3>3. refs[f] = b.refs[f]
        BY <3>1 DEF Stored
      <3>. QED
        BY <3>1, <3>2, <3>3, ResolvedIsOwned
    <2>2. CASE f \notin Asked(b.kind, b.refs)
      BY <2>2 DEF Asked, Stored
    <2>. QED
      BY <2>1, <2>2
  <1>2. refs \in [Field -> DocIds \union {NoDoc}]
    BY <1>1
  <1>3. \A f \in Field \ RefFields(b.kind) : refs[f] = NoDoc
    OBVIOUS
  <1>4. b.kind = "group" => refs["payPeriodConfigId"] # NoDoc
    BY DEF RefFields, Field, Stored
  <1>. HIDE DEF refs
  <1>5. d \in Doc /\ d.refs = refs /\ d.kind = b.kind /\ d.clientId = b.clientId
        /\ d.cadence = b.cadence /\ d.weekStartDay = b.weekStartDay /\ d.anchorDate = b.anchorDate
    BY <1>2 DEF Creation, Doc
  <1>6. NewDoc(b) = d
    BY DEF NewDoc, refs
  <1>. HIDE DEF d
  <1>7. Owned(docs, d)
    BY <1>1, <1>5 DEF Owned
  <1>8. d.kind = "config" => Complete(d)
    BY <1>5 DEF Complete
  <1>. QED
    BY <1>3, <1>4, <1>5, <1>6, <1>7, <1>8 DEF WellFormed

\* The stored document after an update whose lookups are all done, whatever other updates wrote since it was loaded.
LEMMA SavedFits ==
    ASSUME TypeOK, NEW stored \in Doc, NEW loaded \in Doc, NEW p \in Patch,
           WellFormed(docs, stored), WellFormed(docs, loaded),
           stored.kind = loaded.kind, stored.clientId = loaded.clientId, stored.cadence = loaded.cadence,
           loaded.kind = "group" => p.refs["payPeriodConfigId"] # NoDoc,
           \A f \in Asked(loaded.kind, p.refs) : Resolves(p.refs[f], f, loaded.clientId),
           Valid(Patched(loaded, p))
    PROVE  /\ Saved(stored, loaded, Patched(loaded, p)) \in Doc
           /\ WellFormed(docs, Saved(stored, loaded, Patched(loaded, p)))
           /\ Saved(stored, loaded, Patched(loaded, p)).kind = stored.kind
           /\ Saved(stored, loaded, Patched(loaded, p)).clientId = stored.clientId
           /\ Saved(stored, loaded, Patched(loaded, p)).cadence = stored.cadence
  <1>. DEFINE new == Patched(loaded, p)
              now == Saved(stored, loaded, new)
  <1>1. /\ new.name = OrElse(p.name, loaded.name)
        /\ new.kind = loaded.kind /\ new.cadence = loaded.cadence
        /\ \A f \in Field : new.refs[f] = IF f \in RefFields(loaded.kind) THEN OrElse(p.refs[f], loaded.refs[f])
                                          ELSE loaded.refs[f]
        /\ new.weekStartDay = IF loaded.kind = "config" THEN OrElse(p.weekStartDay, loaded.weekStartDay)
                              ELSE loaded.weekStartDay
        /\ new.anchorDate = IF loaded.kind = "config" THEN OrElse(p.anchorDate, loaded.anchorDate)
                            ELSE loaded.anchorDate
    BY DEF Patched, Doc
  <1>2. /\ new.name \in Names
        /\ new.weekStartDay \in (0..6) \union {Null}
        /\ new.anchorDate \in AnchorDates \union {Null}
    BY <1>1 DEF OrElse, Patch, Doc
  <1>. HIDE DEF new
  <1>. DEFINE refs == [f \in Field |-> IfModified(new.refs[f], loaded.refs[f], stored.refs[f])]
              name == IfModified(new.name, loaded.name, stored.name)
              day == IfModified(new.weekStartDay, loaded.weekStartDay, stored.weekStartDay)
              anchor == IfModified(new.anchorDate, loaded.anchorDate, stored.anchorDate)
  <1>a. now = [stored EXCEPT !.name = name, !.refs = refs, !.weekStartDay = day, !.anchorDate = anchor]
    BY DEF Saved
  <1>b. name \in Names /\ day \in {stored.weekStartDay, new.weekStartDay}
        /\ anchor \in {stored.anchorDate, new.anchorDate}
    BY <1>2 DEF IfModified, Doc
  <1>. HIDE DEF now, refs, name, day, anchor
  <1>3. /\ now.kind = stored.kind /\ now.clientId = stored.clientId /\ now.cadence = stored.cadence
        /\ now.name = name /\ now.refs = refs /\ now.weekStartDay = day /\ now.anchorDate = anchor
    BY <1>a DEF Doc
  <1>4. ASSUME NEW f \in Field
        PROVE  \/ now.refs[f] = stored.refs[f]
               \/ f \in RefFields(loaded.kind) /\ p.refs[f] = NoDoc /\ now.refs[f] = NoDoc
               \/ /\ f \in RefFields(loaded.kind) /\ now.refs[f] \in DocIds
                  /\ docs[now.refs[f]] # NoDoc /\ docs[now.refs[f]].kind = Target(f)
                  /\ docs[now.refs[f]].clientId = loaded.clientId
    <2>0. /\ now.refs[f] = IfModified(new.refs[f], loaded.refs[f], stored.refs[f])
          /\ new.refs[f] = IF f \in RefFields(loaded.kind) THEN OrElse(p.refs[f], loaded.refs[f])
                           ELSE loaded.refs[f]
      BY <1>1, <1>3 DEF refs
    <2>1. CASE f \in Asked(loaded.kind, p.refs)
      <3>1. f \in RefFields(loaded.kind) /\ p.refs[f] \in Given \ {NoDoc, Absent}
        BY <2>1 DEF Asked, Patch
      <3>2. Resolves(p.refs[f], f, loaded.clientId)
        BY <2>1
      <3>3. /\ p.refs[f] \in DocIds /\ docs[p.refs[f]] # NoDoc
            /\ docs[p.refs[f]].kind = Target(f) /\ docs[p.refs[f]].clientId = loaded.clientId
        BY <3>1, <3>2, ResolvedIsOwned
      <3>. QED
        BY <2>0, <3>1, <3>3 DEF IfModified, OrElse
    <2>2. CASE f \notin Asked(loaded.kind, p.refs)
      BY <2>0, <2>2 DEF Asked, IfModified, OrElse
    <2>. QED
      BY <2>1, <2>2
  <1>5. now.refs \in [Field -> DocIds \union {NoDoc}]
    <2>1. \A f \in Field : stored.refs[f] \in DocIds \union {NoDoc}
      BY DEF Doc
    <2>2. \A f \in Field : now.refs[f] \in DocIds \union {NoDoc}
      BY <1>4, <2>1
    <2>. QED
      BY <1>3, <2>2 DEF refs
  <1>6. now \in Doc
    BY <1>2, <1>3, <1>5, <1>a, <1>b DEF Doc
  <1>7. Owned(docs, now)
    BY <1>3, <1>4 DEF Owned, WellFormed
  <1>8. \A f \in Field \ RefFields(now.kind) : now.refs[f] = NoDoc
    BY <1>3, <1>4 DEF WellFormed
  <1>9. now.kind = "group" => now.refs["payPeriodConfigId"] # NoDoc
    <2>1. "payPeriodConfigId" \in Field
      BY DEF Field
    <2>. QED
      BY <2>1, <1>3, <1>4, MasterAssumption DEF WellFormed
  <1>10. now.kind = "config" => Complete(now)
    <2>1. ASSUME now.kind = "config" PROVE Complete(new) /\ Complete(stored)
      BY <2>1, <1>1, <1>3 DEF Valid, WellFormed, new
    <2>. QED
      BY <2>1, <1>1, <1>3, <1>b DEF Complete
  <1>. QED
    BY <1>3, <1>6, <1>7, <1>8, <1>9, <1>10 DEF WellFormed, now, new

-----------------------------------------------------------------------------
(* A step of the database. *)

\* A step stores one well-formed document, new or with its identity kept.
Stores(i, d) ==
    /\ docs' = [docs EXCEPT ![i] = d]
    /\ d \in Doc /\ WellFormed(docs, d)
    /\ docs[i] # NoDoc =>
          d.kind = docs[i].kind /\ d.clientId = docs[i].clientId /\ d.cadence = docs[i].cadence

LEMMA InsertStores ==
    ASSUME MasterInv, NEW w \in Requests, Insert(w)
    PROVE  docs' = docs \/ \E i \in DocIds : Stores(i, NewDoc(req[w].body))
  <1>1. req[w] \in CreateRequest /\ RequestInv(w) /\ TypeOK
    BY RequestKind DEF MasterInv, Insert
  <1>2. req[w].body \in Creation /\ req[w].pc = "write" /\ req[w].op = "create"
    BY <1>1 DEF CreateRequest, Insert
  <1>3. NewDoc(req[w].body) \in Doc /\ WellFormed(docs, NewDoc(req[w].body))
    <2>1. /\ req[w].body.kind = "config" => Complete(req[w].body)
          /\ req[w].body.kind = "group" => req[w].body.refs["payPeriodConfigId"] \notin {NoDoc, Absent}
          /\ \A f \in Asked(req[w].body.kind, req[w].body.refs) :
                Resolves(req[w].body.refs[f], f, req[w].body.clientId)
      BY <1>1, <1>2 DEF RequestInv
    <2>. QED
      BY <1>1, <1>2, <2>1, NewDocFits
  <1>. QED
    BY <1>3 DEF Insert, Stores

LEMMA SaveStores ==
    ASSUME MasterInv, NEW w \in Requests, SaveUpdate(w)
    PROVE  docs' = docs \/ \E i \in DocIds, d \in Doc : Stores(i, d)
  <1>. DEFINE r == req[w]
              now == Saved(docs[r.id], r.snap, Patched(r.snap, r.body))
  <1>1. r \in UpdateRequest /\ RequestInv(w) /\ TypeOK /\ r.pc = "write" /\ r.op = "update"
    BY RequestKind DEF MasterInv, SaveUpdate
  <1>2. /\ r.id \in DocIds /\ r.body \in Patch /\ r.snap \in Doc
        /\ r.pending = {} /\ docs[r.id] # NoDoc
        /\ docs[r.id].kind = r.snap.kind /\ docs[r.id].clientId = r.snap.clientId
        /\ docs[r.id].cadence = r.snap.cadence /\ r.snap.kind = r.kind
        /\ WellFormed(docs, r.snap)
        /\ r.snap.kind = "group" => r.body.refs["payPeriodConfigId"] # NoDoc
        /\ \A f \in Asked(r.snap.kind, r.body.refs) : Resolves(r.body.refs[f], f, r.snap.clientId)
    BY <1>1 DEF UpdateRequest, RequestInv
  <1>3. docs[r.id] \in Doc /\ WellFormed(docs, docs[r.id])
    BY <1>1, <1>2 DEF TypeOK, MasterInv, Existing
  <1>4. CASE Valid(Patched(r.snap, r.body))
    <2>1. /\ now \in Doc /\ WellFormed(docs, now)
          /\ now.kind = docs[r.id].kind /\ now.clientId = docs[r.id].clientId
          /\ now.cadence = docs[r.id].cadence
      BY <1>1, <1>2, <1>3, <1>4, SavedFits
    <2>2. docs' = docs \/ docs' = [docs EXCEPT ![r.id] = now]
      BY DEF SaveUpdate
    <2>. HIDE DEF now
    <2>. QED
      BY <1>2, <2>1, <2>2 DEF Stores
  <1>5. CASE ~Valid(Patched(r.snap, r.body))
    BY <1>5 DEF SaveUpdate
  <1>. QED
    BY <1>4, <1>5

LEMMA StoreStep ==
    ASSUME MasterInv, [Next]_vars
    PROVE  docs' = docs \/ \E i \in DocIds, d \in Doc : Stores(i, d)
  <1>1. ASSUME NEW w \in Requests, Insert(w)
        PROVE  docs' = docs \/ \E i \in DocIds, d \in Doc : Stores(i, d)
    BY <1>1, InsertStores DEF Stores
  <1>2. ASSUME NEW w \in Requests, SaveUpdate(w)
        PROVE  docs' = docs \/ \E i \in DocIds, d \in Doc : Stores(i, d)
    BY <1>2, SaveStores
  <1>3. CASE \A w \in Requests : ~(Insert(w) \/ SaveUpdate(w))
    BY <1>3 DEF Next, vars, BeginCreate, FindForUpdate, Load, CheckRef, CallFails, Crash
  <1>. QED
    BY <1>1, <1>2, <1>3

LEMMA StepsPersist ==
    ASSUME MasterInv, [Next]_vars
    PROVE  /\ Persist
           /\ docs' \in [DocIds -> Doc \union {NoDoc}]
           /\ \A i \in DocIds : docs'[i] # NoDoc => WellFormed(docs', docs'[i])
  <1>0. /\ docs \in [DocIds -> Doc \union {NoDoc}]
        /\ \A i \in DocIds : docs[i] # NoDoc => WellFormed(docs, docs[i])
    BY DEF MasterInv, TypeOK, Existing
  <1>1. CASE docs' = docs
    BY <1>0, <1>1 DEF Persist
  <1>2. ASSUME NEW i \in DocIds, NEW d \in Doc, Stores(i, d)
        PROVE  /\ Persist
               /\ docs' \in [DocIds -> Doc \union {NoDoc}]
               /\ \A j \in DocIds : docs'[j] # NoDoc => WellFormed(docs', docs'[j])
    <2>1. docs'[i] = d /\ \A j \in DocIds \ {i} : docs'[j] = docs[j]
      BY <1>0, <1>2 DEF Stores
    <2>2. Persist
      BY <2>1, <1>2, MasterAssumption DEF Persist, Stores
    <2>3. docs' \in [DocIds -> Doc \union {NoDoc}]
      BY <1>0, <1>2 DEF Stores
    <2>4. ASSUME NEW j \in DocIds, docs'[j] # NoDoc PROVE WellFormed(docs', docs'[j])
      <3>1. docs'[j] \in Doc /\ WellFormed(docs, docs'[j])
        BY <1>0, <1>2, <2>1, <2>3, <2>4 DEF Stores
      <3>. QED
        BY <2>2, <3>1, WellFormedPersists
    <2>. QED
      BY <2>2, <2>3, <2>4
  <1>. QED
    BY <1>1, <1>2, StoreStep

-----------------------------------------------------------------------------
(* A step of a request. *)

\* The request that moves is answered, or goes on with what it relies on; the others stay where they are.
Moves(w) ==
    /\ req' \in [Requests -> {Idle} \union CreateRequest \union UpdateRequest]
    /\ answer' \in [error: Error, hook: BOOLEAN]
    /\ RequestInv(w)'
    /\ \A v \in Requests \ {w} : req'[v] = req[v]

LEMMA GoesIdle ==
    ASSUME MasterInv, NEW w \in Requests, req' = [req EXCEPT ![w] = Idle],
           answer' \in [error: Error, hook: BOOLEAN]
    PROVE  Moves(w)
  <1>1. req'[w] = Idle /\ \A v \in Requests \ {w} : req'[v] = req[v]
    BY DEF MasterInv, TypeOK
  <1>2. RequestInv(w)'
    BY <1>1 DEF RequestInv, Idle
  <1>. QED
    BY <1>1, <1>2 DEF Moves, MasterInv, TypeOK

LEMMA EndMoves ==
    ASSUME MasterInv, NEW w \in Requests, NEW error \in Error, End(w, error)
    PROVE  Moves(w)
    BY GoesIdle DEF End

LEMMA BeginCreateMoves ==
    ASSUME MasterInv, NEW w \in Requests, BeginCreate(w)
    PROVE  Moves(w)
  <1>1. PICK p \in Callers, b \in Creations :
          /\ b.kind = "config" => Complete(b)
          /\ b.kind = "group" => b.refs["payPeriodConfigId"] \notin {NoDoc, Absent}
          /\ IF SameClient(p, b.clientId)
             THEN /\ req' = [ req EXCEPT ![w] =
                                [ pc |-> IF Asked(b.kind, b.refs) = {} THEN "write" ELSE "check",
                                  op |-> "create", body |-> b, pending |-> Asked(b.kind, b.refs) ] ]
                  /\ UNCHANGED answer
             ELSE End(w, "ForbiddenError")
    BY DEF BeginCreate
  <1>2. CASE SameClient(p, b.clientId)
    <2>. DEFINE r == [ pc |-> IF Asked(b.kind, b.refs) = {} THEN "write" ELSE "check",
                       op |-> "create", body |-> b, pending |-> Asked(b.kind, b.refs) ]
    <2>1. b \in Creation
      BY MasterAssumption
    <2>2. Asked(b.kind, b.refs) \subseteq Field
      BY RefFieldsType DEF Asked
    <2>3. r \in CreateRequest
      BY <2>1, <2>2 DEF CreateRequest
    <2>4. req'[w] = r /\ \A v \in Requests \ {w} : req'[v] = req[v]
      BY <1>1, <1>2 DEF MasterInv, TypeOK
    <2>5. req' \in [Requests -> {Idle} \union CreateRequest \union UpdateRequest]
      BY <1>1, <1>2, <2>3 DEF MasterInv, TypeOK
    <2>6. RequestInv(w)'
      BY <1>1, <2>4 DEF RequestInv
    <2>. QED
      BY <1>1, <1>2, <2>4, <2>5, <2>6 DEF Moves, MasterInv, TypeOK
  <1>3. CASE ~SameClient(p, b.clientId)
    BY <1>1, <1>3, EndMoves DEF Error
  <1>. QED
    BY <1>2, <1>3

LEMMA FindForUpdateMoves ==
    ASSUME MasterInv, NEW w \in Requests, FindForUpdate(w)
    PROVE  Moves(w)
  <1>1. PICK p \in Callers, kind \in Kind \ {"definition"}, i \in DocIds, b \in Patches,
            requested \in Clients \union {NoClient} :
          /\ MayScope(p)
          /\ kind = "group" => b.refs["payPeriodConfigId"] # NoDoc
          /\ \/ End(w, "NotFoundError")
             \/ End(w, "ForbiddenError")
             \/ /\ req' = [ req EXCEPT ![w] =
                              [ pc |-> "load", op |-> "update", filter |-> ReadClientFilter(p, requested),
                                kind |-> kind, id |-> i, body |-> b, snap |-> NoDoc, pending |-> {} ] ]
                /\ UNCHANGED answer
    BY DEF FindForUpdate
  <1>2. CASE End(w, "NotFoundError") \/ End(w, "ForbiddenError")
    BY <1>2, EndMoves DEF Error
  <1>3. CASE /\ req' = [ req EXCEPT ![w] =
                           [ pc |-> "load", op |-> "update", filter |-> ReadClientFilter(p, requested),
                             kind |-> kind, id |-> i, body |-> b, snap |-> NoDoc, pending |-> {} ] ]
             /\ UNCHANGED answer
    <2>. DEFINE r == [ pc |-> "load", op |-> "update", filter |-> ReadClientFilter(p, requested),
                       kind |-> kind, id |-> i, body |-> b, snap |-> NoDoc, pending |-> {} ]
    <2>1. ReadClientFilter(p, requested) \in Filter
      <3>1. p \in Principal
        BY MasterAssumption
      <3>2. p.role = "PLATFORM_ADMIN" \/ p.clientId \in Clients
        BY <1>1, <3>1 DEF MayScope, Principal
      <3>. QED
        BY <3>2 DEF ReadClientFilter, Filter
    <2>2. r \in UpdateRequest
      BY <2>1, MasterAssumption DEF UpdateRequest
    <2>3. req'[w] = r /\ \A v \in Requests \ {w} : req'[v] = req[v]
      BY <1>3 DEF MasterInv, TypeOK
    <2>4. req' \in [Requests -> {Idle} \union CreateRequest \union UpdateRequest]
      BY <1>3, <2>2 DEF MasterInv, TypeOK
    <2>5. RequestInv(w)'
      BY <1>1, <2>3 DEF RequestInv
    <2>. QED
      BY <1>3, <2>3, <2>4, <2>5 DEF Moves, MasterInv, TypeOK
  <1>. QED
    BY <1>1, <1>2, <1>3

LEMMA LoadMoves ==
    ASSUME MasterInv, NEW w \in Requests, Load(w)
    PROVE  Moves(w)
  <1>. DEFINE old == req[w]
              asked == Asked(old.kind, old.body.refs)
  <1>1. CASE ~Found(old.kind, old.id, old.filter)
    BY <1>1, EndMoves DEF Load, Error
  <1>2. CASE Found(old.kind, old.id, old.filter)
    <2>1. old \in UpdateRequest /\ old.pc = "load" /\ RequestInv(w) /\ UNCHANGED docs
      BY RequestKind DEF MasterInv, Load
    <2>. DEFINE r == [ old EXCEPT !.pc = IF asked = {} THEN "write" ELSE "check",
                                  !.snap = docs[old.id], !.pending = asked ]
    <2>2. asked \subseteq Field
      BY RefFieldsType DEF Asked
    <2>3. /\ old.id \in DocIds /\ docs[old.id] \in Doc /\ docs[old.id] # NoDoc
          /\ docs[old.id].kind = old.kind /\ WellFormed(docs, docs[old.id])
      BY <1>2, <2>1 DEF Found, UpdateRequest, MasterInv, TypeOK, Existing
    <2>4. /\ r \in UpdateRequest
          /\ r.op = "update" /\ r.kind = old.kind /\ r.id = old.id /\ r.body = old.body
          /\ r.snap = docs[old.id] /\ r.pending = asked /\ r.pc = IF asked = {} THEN "write" ELSE "check"
      BY <2>1, <2>2, <2>3 DEF UpdateRequest
    <2>5. req' = [req EXCEPT ![w] = r] /\ UNCHANGED answer
      BY <1>2 DEF Load
    <2>. HIDE DEF r
    <2>6. req'[w] = r /\ \A v \in Requests \ {w} : req'[v] = req[v]
      BY <2>5 DEF MasterInv, TypeOK
    <2>7. req' \in [Requests -> {Idle} \union CreateRequest \union UpdateRequest]
      BY <2>4, <2>5 DEF MasterInv, TypeOK
    <2>8. RequestInv(w)'
      BY <2>1, <2>3, <2>4, <2>6 DEF RequestInv
    <2>. QED
      BY <2>5, <2>6, <2>7, <2>8 DEF Moves, MasterInv, TypeOK
  <1>. QED
    BY <1>1, <1>2

LEMMA CheckRefMoves ==
    ASSUME MasterInv, NEW w \in Requests, CheckRef(w)
    PROVE  Moves(w)
  <1>. DEFINE old == req[w]
  <1>1. PICK f \in old.pending :
          IF Resolves(old.body.refs[f], f, OwnerOf(w))
          THEN /\ req' = [ req EXCEPT ![w].pending = @ \ {f},
                                      ![w].pc = IF old.pending = {f} THEN "write" ELSE "check" ]
               /\ UNCHANGED answer
          ELSE End(w, IF old.body.refs[f] = Malformed /\ KindOf(w) = "employee"
                      THEN "CastError" ELSE "BadRequestError")
    BY DEF CheckRef
  <1>2. CASE ~Resolves(old.body.refs[f], f, OwnerOf(w))
    BY <1>1, <1>2, EndMoves DEF Error
  <1>3. CASE Resolves(old.body.refs[f], f, OwnerOf(w))
    <2>. DEFINE r == [ old EXCEPT !.pending = old.pending \ {f},
                                  !.pc = IF old.pending = {f} THEN "write" ELSE "check" ]
    <2>1. /\ old \in CreateRequest \union UpdateRequest /\ old.op \in {"create", "update"}
          /\ old.op = "create" => old \in CreateRequest
          /\ old.op = "update" => old \in UpdateRequest
          /\ old.pc = "check" /\ RequestInv(w) /\ UNCHANGED docs
      BY RequestKind DEF MasterInv, CheckRef
    <2>2. req' = [req EXCEPT ![w] = r] /\ UNCHANGED answer
      BY <1>1, <1>3
    <2>3. CASE old.op = "create"
      <3>1. /\ r \in CreateRequest /\ r.op = "create" /\ r.body = old.body
            /\ r.pending = old.pending \ {f} /\ r.pc = IF old.pending = {f} THEN "write" ELSE "check"
        BY <2>1, <2>3 DEF CreateRequest
      <3>. HIDE DEF r
      <3>2. req'[w] = r /\ \A v \in Requests \ {w} : req'[v] = req[v]
        BY <2>2 DEF MasterInv, TypeOK
      <3>3. req' \in [Requests -> {Idle} \union CreateRequest \union UpdateRequest]
        BY <2>2, <3>1 DEF MasterInv, TypeOK
      <3>4. RequestInv(w)'
        BY <1>3, <2>1, <2>3, <3>1, <3>2 DEF RequestInv, OwnerOf, Resolves
      <3>. QED
        BY <2>2, <3>2, <3>3, <3>4 DEF Moves, MasterInv, TypeOK
    <2>4. CASE old.op = "update"
      <3>1. /\ r \in UpdateRequest /\ r.op = "update" /\ r.body = old.body
            /\ r.kind = old.kind /\ r.id = old.id /\ r.snap = old.snap
            /\ r.pending = old.pending \ {f} /\ r.pc = IF old.pending = {f} THEN "write" ELSE "check"
        BY <2>1, <2>4 DEF UpdateRequest
      <3>. HIDE DEF r
      <3>2. req'[w] = r /\ \A v \in Requests \ {w} : req'[v] = req[v]
        BY <2>2 DEF MasterInv, TypeOK
      <3>3. req' \in [Requests -> {Idle} \union CreateRequest \union UpdateRequest]
        BY <2>2, <3>1 DEF MasterInv, TypeOK
      <3>4. RequestInv(w)'
        <4>1. /\ r.snap # NoDoc /\ docs[r.id] # NoDoc /\ r.snap.kind = r.kind
              /\ docs[r.id].kind = r.kind /\ docs[r.id].clientId = r.snap.clientId
              /\ docs[r.id].cadence = r.snap.cadence /\ WellFormed(docs, r.snap)
              /\ r.kind = "group" => r.body.refs["payPeriodConfigId"] # NoDoc
              /\ r.pending \subseteq Asked(r.kind, r.body.refs)
          BY <2>1, <2>4, <3>1 DEF RequestInv
        <4>2. \A g \in Asked(r.kind, r.body.refs) \ r.pending : Resolves(r.body.refs[g], g, r.snap.clientId)
          BY <1>3, <2>1, <2>4, <3>1 DEF RequestInv, OwnerOf
        <4>3. r.pc = "check" => r.pending # {}
          BY <1>1, <3>1
        <4>4. r.pc = "write" => r.pending = {}
          BY <3>1
        <4>5. r.pc \in {"check", "write"}
          BY <3>1
        <4>. QED
          BY <2>1, <3>1, <3>2, <4>1, <4>2, <4>3, <4>4, <4>5 DEF RequestInv, Resolves
      <3>. QED
        BY <2>2, <3>2, <3>3, <3>4 DEF Moves, MasterInv, TypeOK
    <2>. QED
      BY <2>1, <2>3, <2>4
  <1>. QED
    BY <1>2, <1>3

\* The steps after which the request is answered.
LEMMA LastStepMoves ==
    ASSUME MasterInv, NEW w \in Requests, Insert(w) \/ SaveUpdate(w) \/ CallFails(w)
    PROVE  Moves(w)
  <1>1. CASE \E error \in Error : End(w, error)
    BY <1>1, EndMoves
  <1>2. CASE req' = [req EXCEPT ![w] = Idle] /\ answer' = [error |-> "Error", hook |-> TRUE]
    BY <1>2, GoesIdle DEF Error
  <1>. QED
    BY <1>1, <1>2 DEF Insert, SaveUpdate, CallFails, Error

-----------------------------------------------------------------------------
(* The theorems. *)

LEMMA MasterInit ==
    ASSUME Init
    PROVE  MasterInv
  <1>1. TypeOK
    BY MasterAssumption DEF Init, TypeOK, Error
  <1>2. \A i \in Existing : WellFormed(docs, docs[i])
    BY MasterAssumption DEF Init, Existing
  <1>3. \A w \in Requests : RequestInv(w)
    BY DEF Init, RequestInv, Idle
  <1>. QED
    BY <1>1, <1>2, <1>3 DEF MasterInv

LEMMA MasterStep ==
    ASSUME MasterInv, [Next]_vars
    PROVE  MasterInv'
  <1>1. /\ Persist
        /\ docs' \in [DocIds -> Doc \union {NoDoc}]
        /\ \A i \in DocIds : docs'[i] # NoDoc => WellFormed(docs', docs'[i])
    BY StepsPersist
  <1>2. /\ req' \in [Requests -> {Idle} \union CreateRequest \union UpdateRequest]
        /\ answer' \in [error: Error, hook: BOOLEAN]
        /\ \A v \in Requests : RequestInv(v)'
    <2>1. ASSUME NEW w \in Requests, Moves(w)
          PROVE  \A v \in Requests : RequestInv(v)'
      BY <1>1, <2>1, RequestPersists DEF Moves
    <2>2. ASSUME NEW w \in Requests,
                 \/ BeginCreate(w) \/ Insert(w) \/ FindForUpdate(w) \/ Load(w)
                 \/ SaveUpdate(w) \/ CheckRef(w) \/ CallFails(w)
          PROVE  Moves(w)
      BY <2>2, BeginCreateMoves, FindForUpdateMoves, LoadMoves, CheckRefMoves, LastStepMoves
    <2>3. CASE Crash
      BY <2>3 DEF Crash, MasterInv, TypeOK, RequestInv, Idle
    <2>4. CASE UNCHANGED vars
      <3>1. \A v \in Requests : req'[v] = req[v]
        BY <2>4 DEF vars
      <3>. QED
        BY <2>4, <3>1, <1>1, RequestPersists DEF vars, MasterInv, TypeOK
    <2>. QED
      BY <2>1, <2>2, <2>3, <2>4 DEF Next, Moves
  <1>. QED
    BY <1>1, <1>2 DEF MasterInv, TypeOK, Existing

(* Every stored document refers to documents of its own client only, configs  *)
(* have what their cadence needs, and what a request has loaded or looked up  *)
(* stays good until it writes (the services of the master data modules).      *)
THEOREM MasterInvariant == Spec => []MasterInv
  <1>1. Init => MasterInv
    BY MasterInit
  <1>2. MasterInv /\ [Next]_vars => MasterInv'
    BY MasterStep
  <1>. QED
    BY <1>1, <1>2, PTL DEF Spec

(* An employee's effective config, its own or its group's, can be used by     *)
(* payroll: it is of the same client, complete, and its calendar is too.      *)
THEOREM PayChain == Spec => []PayChainUsable
  <1>1. ASSUME MasterInv PROVE PayChainUsable
    <2>. SUFFICES ASSUME NEW i \in Existing, docs[i].kind = "employee", EffectiveConfig(docs[i]) # NoDoc
                  PROVE  UsableConfig(EffectiveConfig(docs[i]), docs[i].clientId)
      BY DEF PayChainUsable
    <2>1. \A j \in DocIds : docs[j] # NoDoc => docs[j] \in Doc /\ WellFormed(docs, docs[j])
      BY <1>1 DEF MasterInv, TypeOK, Existing
    <2>2. "payPeriodConfigId" \in Field /\ "employeeGroupId" \in Field /\ "payCalendarId" \in Field
      BY DEF Field
    <2>. DEFINE c == EffectiveConfig(docs[i])
    <2>3. ASSUME NEW j \in DocIds, docs[j] # NoDoc, NEW f \in Field, docs[j].refs[f] # NoDoc
          PROVE  /\ docs[j].refs[f] \in DocIds /\ docs[docs[j].refs[f]] # NoDoc
                 /\ docs[docs[j].refs[f]].kind = Target(f)
                 /\ docs[docs[j].refs[f]].clientId = docs[j].clientId
      BY <2>1, <2>3 DEF WellFormed, Owned, Doc
    <2>4. c \in DocIds /\ docs[c] # NoDoc /\ docs[c].kind = "config" /\ docs[c].clientId = docs[i].clientId
      <3>1. CASE docs[i].refs["payPeriodConfigId"] # NoDoc
        BY <3>1, <2>2, <2>3 DEF EffectiveConfig, Existing, Target
      <3>2. CASE docs[i].refs["payPeriodConfigId"] = NoDoc
        <4>. DEFINE g == docs[i].refs["employeeGroupId"]
        <4>1. g # NoDoc /\ c = docs[g].refs["payPeriodConfigId"]
          BY <3>2 DEF EffectiveConfig
        <4>2. g \in DocIds /\ docs[g] # NoDoc /\ docs[g].clientId = docs[i].clientId
          BY <4>1, <2>2, <2>3 DEF Existing
        <4>. QED
          BY <4>1, <4>2, <2>2, <2>3 DEF Target
      <3>. QED
        BY <3>1, <3>2
    <2>5. Complete(docs[c])
      BY <2>1, <2>4 DEF WellFormed
    <2>. HIDE DEF c
    <2>6. docs[c].refs["payCalendarId"] # NoDoc =>
            /\ docs[docs[c].refs["payCalendarId"]] # NoDoc
            /\ docs[docs[c].refs["payCalendarId"]].clientId = docs[i].clientId
      BY <2>2, <2>3, <2>4
    <2>7. UsableConfig(c, docs[i].clientId)
      BY <2>4, <2>5, <2>6 DEF UsableConfig
    <2>. QED
      BY <2>7 DEF c
  <1>. QED
    BY <1>1, MasterInvariant, PTL

\* An update leaves a field alone that its body leaves out.
LEMMA SavedFields ==
    ASSUME NEW stored \in Doc, NEW loaded \in Doc, NEW p \in Patch
    PROVE  LET now == Saved(stored, loaded, Patched(loaded, p))
           IN  /\ now.name \in {stored.name, p.name}
               /\ \A f \in Field : now.refs[f] \in {stored.refs[f], p.refs[f]}
               /\ now.weekStartDay \in {stored.weekStartDay, p.weekStartDay}
               /\ now.anchorDate \in {stored.anchorDate, p.anchorDate}
  <1>. DEFINE new == Patched(loaded, p)
              now == Saved(stored, loaded, new)
  <1>1. /\ new.name \in {loaded.name, p.name}
        /\ \A f \in Field : new.refs[f] \in {loaded.refs[f], p.refs[f]}
        /\ new.weekStartDay \in {loaded.weekStartDay, p.weekStartDay}
        /\ new.anchorDate \in {loaded.anchorDate, p.anchorDate}
    BY DEF Patched, OrElse, Doc
  <1>. HIDE DEF new
  <1>2. /\ now.name = IfModified(new.name, loaded.name, stored.name)
        /\ \A f \in Field : now.refs[f] = IfModified(new.refs[f], loaded.refs[f], stored.refs[f])
        /\ now.weekStartDay = IfModified(new.weekStartDay, loaded.weekStartDay, stored.weekStartDay)
        /\ now.anchorDate = IfModified(new.anchorDate, loaded.anchorDate, stored.anchorDate)
    BY DEF Saved, Doc
  <1>. HIDE DEF now
  <1>3. /\ now.name \in {stored.name, p.name}
        /\ \A f \in Field : now.refs[f] \in {stored.refs[f], p.refs[f]}
        /\ now.weekStartDay \in {stored.weekStartDay, p.weekStartDay}
        /\ now.anchorDate \in {stored.anchorDate, p.anchorDate}
    BY <1>1, <1>2 DEF IfModified
  <1>. QED
    BY <1>3 DEF now, new

(* However updates of one document overlap, none takes back what another one  *)
(* wrote to a field it does not itself set (updateEmployee and its siblings). *)
THEOREM UpdatesTouchOnlyTheirFields == Spec => NoCollateralChange
  <1>. DEFINE Own(i, w) ==
                /\ req[w].pc = "write" /\ req[w].op = "update" /\ req[w].id = i /\ req'[w] = Idle
                /\ docs'[i].name \in {docs[i].name, req[w].body.name}
                /\ \A f \in Field : docs'[i].refs[f] \in {docs[i].refs[f], req[w].body.refs[f]}
                /\ docs'[i].weekStartDay \in {docs[i].weekStartDay, req[w].body.weekStartDay}
                /\ docs'[i].anchorDate \in {docs[i].anchorDate, req[w].body.anchorDate}
              Touch == \A i \in Existing : docs'[i] # docs[i] => \E w \in Requests : Own(i, w)
  <1>1. ASSUME MasterInv, Next PROVE Touch
    <2>0. docs \in [DocIds -> Doc \union {NoDoc}]
      BY <1>1 DEF MasterInv, TypeOK
    <2>1. ASSUME NEW w \in Requests, Insert(w) PROVE Touch
      <3>1. docs' = docs \/ \E i \in DocIds : docs[i] = NoDoc /\ docs' = [docs EXCEPT ![i] = NewDoc(req[w].body)]
        BY <2>1 DEF Insert
      <3>2. \A i \in Existing : docs'[i] = docs[i]
        BY <3>1, <2>0 DEF Existing
      <3>. QED
        BY <3>2
    <2>2. ASSUME NEW w \in Requests, SaveUpdate(w), docs' # docs PROVE Touch
      <3>. DEFINE r == req[w]
                  now == Saved(docs[r.id], r.snap, Patched(r.snap, r.body))
      <3>1. r \in UpdateRequest /\ RequestInv(w) /\ r.pc = "write" /\ r.op = "update"
        BY <1>1, <2>2, RequestKind DEF MasterInv, SaveUpdate
      <3>2. r.id \in DocIds /\ r.body \in Patch /\ r.snap \in Doc /\ docs[r.id] \in Doc
        BY <3>1, <2>0 DEF UpdateRequest, RequestInv
      <3>3. docs' = [docs EXCEPT ![r.id] = now] /\ req' = [req EXCEPT ![w] = Idle]
        BY <2>2 DEF SaveUpdate, End
      <3>4. /\ now.name \in {docs[r.id].name, r.body.name}
            /\ \A f \in Field : now.refs[f] \in {docs[r.id].refs[f], r.body.refs[f]}
            /\ now.weekStartDay \in {docs[r.id].weekStartDay, r.body.weekStartDay}
            /\ now.anchorDate \in {docs[r.id].anchorDate, r.body.anchorDate}
        BY <3>2, SavedFields
      <3>. HIDE DEF now
      <3>5. docs'[r.id] = now /\ (\A i \in DocIds \ {r.id} : docs'[i] = docs[i]) /\ req'[w] = Idle
        BY <3>2, <3>3, <2>0, <1>1 DEF MasterInv, TypeOK
      <3>6. Own(r.id, w)
        BY <3>1, <3>4, <3>5
      <3>. HIDE DEF Own
      <3>. QED
        BY <3>5, <3>6 DEF Existing
    <2>3. CASE \A w \in Requests : ~(Insert(w) \/ (SaveUpdate(w) /\ docs' # docs))
      <3>1. docs' = docs
        BY <2>3, <1>1 DEF Next, BeginCreate, FindForUpdate, Load, CheckRef, CallFails, Crash
      <3>. QED
        BY <3>1
    <2>. QED
      BY <2>1, <2>2, <2>3
  <1>2. MasterInv /\ [Next]_vars => [Touch]_vars
    BY <1>1
  <1>3. Spec => [][Touch]_vars
    BY <1>2, MasterInvariant, PTL DEF Spec
  <1>. QED
    BY <1>3 DEF NoCollateralChange

-----------------------------------------------------------------------------
(* The filter of the read still authorises the write. *)

(* A document changes only by an update whose caller's filter admits the      *)
(* client that document has when it is written, and stays with that client    *)
(* and in its collection: the service reads by the filter and saves by the id *)
(* alone, after lookups during which others write.                            *)
UpdatesKeepToFilter ==
    [][ \A i \in Existing : docs'[i] # docs[i] =>
          /\ docs'[i].kind = docs[i].kind /\ docs'[i].clientId = docs[i].clientId
          /\ \E w \in Requests :
                /\ req[w].pc = "write" /\ req[w].op = "update" /\ req[w].id = i
                /\ docs[i].kind = req[w].kind /\ docs[i].clientId \in req[w].filter.clientId ]_vars

\* The document a request has loaded is one its filter admits.
Admitted(w) ==
    req[w].pc \in {"check", "write"} /\ req[w].op = "update" =>
        req[w].snap.clientId \in req[w].filter.clientId

AdmittedInv == MasterInv /\ \A w \in Requests : Admitted(w)

\* A loaded document and its filter stay as they are until the request ends.
LEMMA AdmittedGoesOn ==
    ASSUME MasterInv, NEW w \in Requests, Admitted(w),
           Insert(w) \/ SaveUpdate(w) \/ CallFails(w) \/ CheckRef(w)
    PROVE  Admitted(w)'
  <1>0. req \in [Requests -> {Idle} \union CreateRequest \union UpdateRequest]
    BY DEF MasterInv, TypeOK
  <1>1. CASE req'[w] = Idle
    BY <1>1 DEF Admitted, Idle
  <1>2. CASE CheckRef(w) /\ req'[w] # Idle
    <2>1. PICK f \in req[w].pending :
             req' = [ req EXCEPT ![w].pending = @ \ {f},
                                 ![w].pc = IF req[w].pending = {f} THEN "write" ELSE "check" ]
      BY <1>0, <1>2 DEF CheckRef, End
    <2>2. req[w].pc = "check" /\ req[w] \in CreateRequest \union UpdateRequest
      BY <1>2, RequestKind DEF CheckRef, MasterInv
    <2>3. CASE req[w] \in CreateRequest
      <3>1. req'[w].op = "create"
        BY <1>0, <2>1, <2>3 DEF CreateRequest
      <3>. QED
        BY <3>1 DEF Admitted
    <2>4. CASE req[w] \in UpdateRequest
      <3>1. req'[w].snap = req[w].snap /\ req'[w].filter = req[w].filter /\ req[w].op = "update"
        BY <1>0, <2>1, <2>4 DEF UpdateRequest
      <3>. QED
        BY <2>2, <3>1 DEF Admitted
    <2>. QED
      BY <2>2, <2>3, <2>4
  <1>. QED
    BY <1>0, <1>1, <1>2 DEF Insert, SaveUpdate, CallFails, End

\* The second read of an update is made under the filter of the first one.
LEMMA LoadAdmits ==
    ASSUME MasterInv, NEW w \in Requests, Load(w)
    PROVE  Admitted(w)'
  <1>0. /\ req \in [Requests -> {Idle} \union CreateRequest \union UpdateRequest]
        /\ req[w] \in UpdateRequest
    BY RequestKind DEF MasterInv, TypeOK, Load
  <1>1. CASE ~Found(req[w].kind, req[w].id, req[w].filter)
    <2>1. req'[w] = Idle
      BY <1>0, <1>1 DEF Load, End
    <2>. QED
      BY <2>1 DEF Admitted, Idle
  <1>2. CASE Found(req[w].kind, req[w].id, req[w].filter)
    <2>. DEFINE old == req[w]
                asked == Asked(old.kind, old.body.refs)
                r == [ old EXCEPT !.pc = IF asked = {} THEN "write" ELSE "check",
                                  !.snap = docs[old.id], !.pending = asked ]
    <2>1. r.snap = docs[old.id] /\ r.filter = old.filter
      BY <1>0 DEF UpdateRequest
    <2>2. req' = [req EXCEPT ![w] = r]
      BY <1>2 DEF Load
    <2>. HIDE DEF r
    <2>3. req'[w] = r
      BY <1>0, <2>2
    <2>. QED
      BY <1>2, <2>1, <2>3 DEF Admitted, Found
  <1>. QED
    BY <1>1, <1>2

LEMMA AdmittedKept ==
    ASSUME AdmittedInv, [Next]_vars, NEW v \in Requests
    PROVE  Admitted(v)'
  <1>0. /\ MasterInv /\ Admitted(v)
        /\ req \in [Requests -> {Idle} \union CreateRequest \union UpdateRequest]
    BY DEF AdmittedInv, MasterInv, TypeOK
  <1>1. CASE req'[v] = req[v]
    BY <1>0, <1>1 DEF Admitted
  <1>2. ASSUME NEW w \in Requests, Moves(w), w # v
        PROVE  Admitted(v)'
    BY <1>1, <1>2 DEF Moves
  <1>3. CASE BeginCreate(v)
    <2>1. req'[v] = Idle \/ req'[v].op = "create"
      BY <1>0, <1>3 DEF BeginCreate, End
    <2>. QED
      BY <2>1 DEF Admitted, Idle
  <1>4. CASE FindForUpdate(v)
    <2>1. req'[v] = Idle \/ req'[v].pc = "load"
      BY <1>0, <1>4 DEF FindForUpdate, End
    <2>. QED
      BY <2>1 DEF Admitted, Idle
  <1>5. CASE Load(v)
    BY <1>0, <1>5, LoadAdmits
  <1>6. CASE Insert(v) \/ SaveUpdate(v) \/ CallFails(v) \/ CheckRef(v)
    BY <1>0, <1>6, AdmittedGoesOn
  <1>7. CASE Crash
    BY <1>7 DEF Crash, Admitted, Idle
  <1>8. CASE UNCHANGED vars
    BY <1>1, <1>8 DEF vars
  <1>9. ASSUME NEW w \in Requests, w # v,
               \/ BeginCreate(w) \/ Insert(w) \/ FindForUpdate(w) \/ Load(w)
               \/ SaveUpdate(w) \/ CheckRef(w) \/ CallFails(w)
        PROVE  Admitted(v)'
    BY <1>0, <1>2, <1>9, BeginCreateMoves, FindForUpdateMoves, LoadMoves, CheckRefMoves, LastStepMoves
  <1>. QED
    BY <1>3, <1>4, <1>5, <1>6, <1>7, <1>8, <1>9 DEF Next

LEMMA AdmittedInvHolds == Spec => []AdmittedInv
  <1>1. MasterInv /\ Init => AdmittedInv
    BY DEF Init, AdmittedInv, Admitted, Idle
  <1>2. AdmittedInv /\ [Next]_vars => AdmittedInv'
    BY MasterStep, AdmittedKept DEF AdmittedInv
  <1>. QED
    BY <1>1, <1>2, MasterInvariant, PTL DEF Spec

(* Between the read under the caller's filter and the save by id, lookups and *)
(* other requests take their time; the document that is written is one the    *)
(* filter admits all the same (updateEmployee and its siblings).              *)
THEOREM UpdatesAreScoped == Spec => UpdatesKeepToFilter
  <1>. DEFINE Kept(i) == docs'[i].kind = docs[i].kind /\ docs'[i].clientId = docs[i].clientId
              By(i, w) == /\ req[w].pc = "write" /\ req[w].op = "update" /\ req[w].id = i
                          /\ docs[i].kind = req[w].kind /\ docs[i].clientId \in req[w].filter.clientId
              Scoped == \A i \in Existing : docs'[i] # docs[i] =>
                            /\ docs'[i].kind = docs[i].kind /\ docs'[i].clientId = docs[i].clientId
                            /\ \E w \in Requests : By(i, w)
  <1>1. ASSUME AdmittedInv, Next PROVE Scoped
    <2>0. /\ MasterInv /\ docs \in [DocIds -> Doc \union {NoDoc}]
          /\ \A i \in Existing : Kept(i)
      BY <1>1, StepsPersist DEF AdmittedInv, MasterInv, TypeOK, Persist, Existing
    <2>1. ASSUME NEW w \in Requests, Insert(w) PROVE Scoped
      <3>1. docs' = docs \/ \E i \in DocIds : docs[i] = NoDoc /\ docs' = [docs EXCEPT ![i] = NewDoc(req[w].body)]
        BY <2>1 DEF Insert
      <3>2. \A i \in Existing : docs'[i] = docs[i]
        BY <3>1, <2>0 DEF Existing
      <3>. QED
        BY <3>2
    <2>2. ASSUME NEW w \in Requests, SaveUpdate(w) PROVE Scoped
      <3>1. req[w].pc = "write" /\ req[w].op = "update"
        BY <2>2 DEF SaveUpdate
      <3>2. \A i \in DocIds : i # req[w].id => docs'[i] = docs[i]
        BY <2>0, <2>2 DEF SaveUpdate
      <3>3. RequestInv(w) /\ Admitted(w)
        BY <1>1 DEF AdmittedInv, MasterInv
      <3>4. By(req[w].id, w)
        BY <3>1, <3>3 DEF RequestInv, Admitted
      <3>. HIDE DEF By
      <3>. QED
        BY <2>0, <3>2, <3>4 DEF Existing
    <2>3. CASE \A w \in Requests : ~(Insert(w) \/ SaveUpdate(w))
      <3>1. docs' = docs
        BY <2>3, <1>1 DEF Next, BeginCreate, FindForUpdate, Load, CheckRef, CallFails, Crash
      <3>. QED
        BY <3>1
    <2>. QED
      BY <2>1, <2>2, <2>3
  <1>2. AdmittedInv /\ [Next]_vars => [Scoped]_vars
    BY <1>1
  <1>3. Spec => [][Scoped]_vars
    BY <1>2, AdmittedInvHolds, PTL DEF Spec
  <1>. QED
    BY <1>3 DEF UpdatesKeepToFilter

-----------------------------------------------------------------------------
(* Answers *)

HookRejectionIs500 == answer.hook => StatusOf(answer.error) = 500

(* errorHandler.ts says of what the hook of the config model rejects that it  *)
(* "must be a 400 too, not a 500".  The hook passes a plain Error, and so it  *)
(* always is a 500 (payPeriodConfigSchema.pre in payPeriodConfig.model.ts).   *)
THEOREM HookRejectionsAre500 == Spec => []HookRejectionIs500
  <1>1. Init => HookRejectionIs500
    BY DEF Init, HookRejectionIs500
  <1>2. HookRejectionIs500 /\ [Next]_vars => HookRejectionIs500'
    <2>. SUFFICES ASSUME HookRejectionIs500, [Next]_vars
                  PROVE  HookRejectionIs500'
      OBVIOUS
    <2>1. \/ answer' = answer
          \/ \E error : answer' = [error |-> error, hook |-> FALSE]
          \/ answer' = [error |-> "Error", hook |-> TRUE]
      <3>1. ASSUME NEW w \in Requests,
                   \/ BeginCreate(w) \/ Insert(w) \/ FindForUpdate(w) \/ Load(w)
                   \/ CheckRef(w) \/ CallFails(w)
            PROVE  answer' = answer \/ \E error : answer' = [error |-> error, hook |-> FALSE]
        BY <3>1 DEF BeginCreate, Insert, FindForUpdate, Load, CheckRef, CallFails, End
      <3>2. ASSUME NEW w \in Requests, SaveUpdate(w)
            PROVE  \/ \E error : answer' = [error |-> error, hook |-> FALSE]
                   \/ answer' = [error |-> "Error", hook |-> TRUE]
        BY <3>2 DEF SaveUpdate, End
      <3>3. CASE Crash \/ UNCHANGED vars
        BY <3>3 DEF Crash, vars
      <3>. QED
        BY <3>1, <3>2, <3>3 DEF Next
    <2>. QED
      BY <2>1 DEF HookRejectionIs500, StatusOf
  <1>. QED
    BY <1>1, <1>2, PTL DEF Spec
=============================================================================
