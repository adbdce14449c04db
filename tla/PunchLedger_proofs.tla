------------------------- MODULE PunchLedger_proofs -------------------------
(* Proofs about PunchLedger for every number of requests, punches, employees  *)
(* and clients, and every set of request bodies.                              *)
EXTENDS PunchLedger, TLAPS

-----------------------------------------------------------------------------
(* Facts about the building blocks of the model. *)

\* The pc of a request says which record it is.
LEMMA RequestKind ==
    ASSUME TypeOK, NEW w \in Requests
    PROVE  /\ req[w].pc \in {"lookup", "insert", "respond"} => req[w] \in CreateRequest
           /\ req[w].pc \in {"load", "site", "replace", "flip"} => req[w] \in CorrectRequest
    BY DEF TypeOK, Idle, CreateRequest, CorrectRequest

LEMMA CurrentType ==
    ASSUME TypeOK, NEW w \in Requests, req[w].pc \in {"lookup", "insert"}
    PROVE  /\ Current(w) \in Body
           /\ {EmployeeRef(Current(w)), SiteRef(Current(w))} \subseteq Ref
           /\ req[w].pos \in Nat
  <1>1. req[w] \in CreateRequest /\ req[w].pos \in 1..Len(req[w].batch)
    BY RequestKind DEF TypeOK
  <1>2. Current(w) \in Body
    BY <1>1 DEF CreateRequest, Current
  <1>. QED
    BY <1>1, <1>2 DEF CreateRequest, Body, EmployeeRef, SiteRef, Ref

\* A body becomes a well-formed punch that is live and corrects nothing.
LEMMA NewPunchType ==
    ASSUME NEW b \in Body
    PROVE  /\ NewPunch(b) \in PunchDoc
           /\ NewPunch(b).status # "corrected" /\ NewPunch(b).correctionOfPunchId = NoPunch
    BY DEF NewPunch, StatusFor, PunchDoc, Body

\* A replacement is live, belongs to the owner of the original and points to it.
LEMMA ReplacementType ==
    ASSUME NEW i \in PunchIds, NEW d \in PunchDoc, NEW p \in Patch
    PROVE  /\ Replacement(i, d, p) \in PunchDoc
           /\ Replacement(i, d, p).status # "corrected"
           /\ Replacement(i, d, p).correctionOfPunchId = i
           /\ Replacement(i, d, p).clientId = d.clientId
           /\ Replacement(i, d, p).employeeId = d.employeeId
  <1>1. OrElse(p.siteId, d.siteId) \in Sites
    BY PunchAssumption DEF OrElse, Patch, PunchDoc
  <1>2. OrElse(p.clockIn, d.clockIn) \in Int
    BY PunchAssumption DEF OrElse, Patch, PunchDoc
  <1>3. OrElse(p.clockOut, d.clockOut) \in Int \union {NoTime}
    BY PunchAssumption DEF OrElse, Patch, PunchDoc
  <1>. QED
    BY <1>1, <1>2, <1>3 DEF Replacement, StatusFor, PunchDoc

-----------------------------------------------------------------------------
(* What a step does to the collection: nothing, add a live punch under a new  *)
(* id, or retire a punch that has been replaced.                              *)

Adds(i, d) ==
    /\ punches[i] = NoPunch
    /\ punches' = [punches EXCEPT ![i] = d]
    /\ d \in PunchDoc /\ d.status # "corrected"
    /\ d.correctionOfPunchId # NoPunch =>
          /\ d.correctionOfPunchId \in PunchIds \ {i}
          /\ punches[d.correctionOfPunchId] # NoPunch
          /\ punches[d.correctionOfPunchId].clientId = d.clientId
          /\ punches[d.correctionOfPunchId].employeeId = d.employeeId

Retires(i) ==
    /\ punches[i] # NoPunch /\ ReplacementsOf(i) # {}
    /\ punches' = [punches EXCEPT ![i].status = "corrected"]

\* What stored punches keep for ever.
Keeps ==
    \A i \in PunchIds : punches[i] # NoPunch =>
        /\ punches'[i] # NoPunch
        /\ punches'[i].clientId = punches[i].clientId
        /\ punches'[i].employeeId = punches[i].employeeId
        /\ punches'[i].correctionOfPunchId = punches[i].correctionOfPunchId

LEMMA InsertAdds ==
    ASSUME LedgerInv, NEW w \in Requests, InsertPunch(w)
    PROVE  \E i \in PunchIds : Adds(i, NewPunch(Current(w)))
    BY CurrentType, NewPunchType DEF LedgerInv, InsertPunch, Adds

LEMMA ReplacementAdds ==
    ASSUME LedgerInv, NEW w \in Requests, CreateReplacement(w)
    PROVE  \E i \in PunchIds :
              /\ Adds(i, Replacement(req[w].id, req[w].snap, req[w].patch))
              /\ Replacement(req[w].id, req[w].snap, req[w].patch).correctionOfPunchId = req[w].id
              /\ req[w].id \in PunchIds
  <1>1. req[w].pc = "replace" /\ req[w] \in CorrectRequest
    BY RequestKind DEF LedgerInv, CreateReplacement
  <1>2. req[w].id \in PunchIds /\ req[w].patch \in Patch /\ req[w].snap \in PunchDoc
    BY <1>1 DEF LedgerInv, LoadedIsStored, CorrectRequest
  <1>3. /\ punches[req[w].id] # NoPunch
        /\ punches[req[w].id].clientId = req[w].snap.clientId
        /\ punches[req[w].id].employeeId = req[w].snap.employeeId
    BY <1>1 DEF LedgerInv, LoadedIsStored
  <1>. DEFINE d == Replacement(req[w].id, req[w].snap, req[w].patch)
  <1>4. /\ d \in PunchDoc /\ d.status # "corrected" /\ d.correctionOfPunchId = req[w].id
        /\ d.clientId = req[w].snap.clientId /\ d.employeeId = req[w].snap.employeeId
    BY <1>2, ReplacementType
  <1>5. PICK i \in PunchIds : punches[i] = NoPunch /\ punches' = [punches EXCEPT ![i] = d]
    BY DEF CreateReplacement
  <1>. HIDE DEF d
  <1>6. Adds(i, d)
    BY <1>2, <1>3, <1>4, <1>5 DEF Adds
  <1>. QED
    BY <1>2, <1>4, <1>6 DEF d

LEMMA FlipRetires ==
    ASSUME LedgerInv, NEW w \in Requests, FlipOriginal(w)
    PROVE  req[w].id \in PunchIds /\ Retires(req[w].id)
  <1>1. req[w].pc = "flip" /\ req[w] \in CorrectRequest
    BY RequestKind DEF LedgerInv, FlipOriginal
  <1>. QED
    BY <1>1 DEF LedgerInv, LoadedIsStored, CorrectRequest, FlipOriginal, Retires

LEMMA StoreSteps ==
    ASSUME LedgerInv, [Next]_vars
    PROVE  \/ punches' = punches
           \/ \E i \in PunchIds : (\E d \in PunchDoc : Adds(i, d)) \/ Retires(i)
  <1>1. ASSUME NEW w \in Requests, InsertPunch(w)
        PROVE  \E i \in PunchIds, d \in PunchDoc : Adds(i, d)
    BY <1>1, InsertAdds DEF Adds
  <1>2. ASSUME NEW w \in Requests, CreateReplacement(w)
        PROVE  \E i \in PunchIds, d \in PunchDoc : Adds(i, d)
    BY <1>2, ReplacementAdds DEF Adds
  <1>3. ASSUME NEW w \in Requests, FlipOriginal(w)
        PROVE  \E i \in PunchIds : Retires(i)
    BY <1>3, FlipRetires
  <1>4. CASE \A w \in Requests : ~(InsertPunch(w) \/ CreateReplacement(w) \/ FlipOriginal(w))
    BY <1>4 DEF Next, vars, BeginCreate, BeginBulk, Begin, Lookup, DecideLookup, Respond,
                BeginCorrect, LoadOriginal, CheckSite, CallFails, Crash, Learn, Rename
  <1>. QED
    BY <1>1, <1>2, <1>3, <1>4

LEMMA StepsKeep ==
    ASSUME LedgerInv, [Next]_vars
    PROVE  /\ Keeps
           /\ punches' \in [PunchIds -> PunchDoc \union {NoPunch}]
           /\ CorrectedIsReplaced'
  <1>0. punches \in [PunchIds -> PunchDoc \union {NoPunch}] /\ CorrectedIsReplaced
    BY DEF LedgerInv, TypeOK
  <1>1. CASE punches' = punches
    BY <1>0, <1>1 DEF Keeps, CorrectedIsReplaced, Stored, ReplacementsOf
  <1>2. ASSUME NEW i \in PunchIds, NEW d \in PunchDoc, Adds(i, d)
        PROVE  /\ Keeps
               /\ punches' \in [PunchIds -> PunchDoc \union {NoPunch}]
               /\ CorrectedIsReplaced'
    <2>1. Keeps /\ punches' \in [PunchIds -> PunchDoc \union {NoPunch}]
      BY <1>0, <1>2 DEF Adds, Keeps
    <2>2. punches'[i] = d /\ \A j \in PunchIds \ {i} : punches'[j] = punches[j]
      BY <1>0, <1>2 DEF Adds
    <2>3. CorrectedIsReplaced'
      BY <1>0, <1>2, <2>2 DEF Adds, CorrectedIsReplaced, Stored, ReplacementsOf
    <2>. QED
      BY <2>1, <2>3
  <1>3. ASSUME NEW i \in PunchIds, Retires(i)
        PROVE  /\ Keeps
               /\ punches' \in [PunchIds -> PunchDoc \union {NoPunch}]
               /\ CorrectedIsReplaced'
    <2>1. punches'[i] = [punches[i] EXCEPT !.status = "corrected"] /\ punches[i] \in PunchDoc
      BY <1>0, <1>3 DEF Retires
    <2>2. punches'[i] \in PunchDoc /\ punches'[i] # NoPunch
      BY <2>1, PunchAssumption DEF PunchDoc
    <2>3. \A j \in PunchIds \ {i} : punches'[j] = punches[j]
      BY <1>0, <1>3 DEF Retires
    <2>4. punches' \in [PunchIds -> PunchDoc \union {NoPunch}]
      BY <1>0, <1>3, <2>2, <2>3 DEF Retires
    <2>5. /\ punches'[i].clientId = punches[i].clientId
          /\ punches'[i].employeeId = punches[i].employeeId
          /\ punches'[i].correctionOfPunchId = punches[i].correctionOfPunchId
      BY <2>1 DEF PunchDoc
    <2>6. Keeps
      BY <2>2, <2>3, <2>5 DEF Keeps
    <2>7. CorrectedIsReplaced'
      BY <1>0, <1>3, <2>3, <2>6 DEF Retires, Keeps, CorrectedIsReplaced, Stored, ReplacementsOf
    <2>. QED
      BY <2>4, <2>6, <2>7
  <1>. QED
    BY <1>1, <1>2, <1>3, StoreSteps

-----------------------------------------------------------------------------
(* The requests. *)

RequestsOK ==
    /\ req \in [Requests -> {Idle} \union CreateRequest \union CorrectRequest]
    /\ \A w \in Requests : req[w].pc \in {"lookup", "insert"} => req[w].pos \in 1..Len(req[w].batch)
    /\ lost \in [Requests -> SUBSET Ref]

\* A request that does not move keeps what it relies on.
LEMMA Bystander ==
    ASSUME Keeps, TypeOK, NEW v \in Requests, LoadedIsStored(v), req'[v] = req[v]
    PROVE  LoadedIsStored(v)'
  <1>1. CASE req[v].pc \in {"load", "site", "replace", "flip"}
    <2>1. req[v].id \in PunchIds
      BY <1>1, RequestKind DEF CorrectRequest
    <2>. QED
      BY <1>1, <2>1 DEF Keeps, LoadedIsStored, Stored, ReplacementsOf
  <1>2. CASE req[v].pc \notin {"load", "site", "replace", "flip"}
    BY <1>2 DEF LoadedIsStored
  <1>. QED
    BY <1>1, <1>2

LEMMA EndStep ==
    ASSUME TypeOK, NEW w \in Requests, End(w)
    PROVE  /\ RequestsOK' /\ LoadedIsStored(w)'
           /\ \A v \in Requests \ {w} : req'[v] = req[v]
    BY DEF End, TypeOK, RequestsOK, LoadedIsStored, Idle

LEMMA NextItemStep ==
    ASSUME TypeOK, NEW w \in Requests, req[w].pc \in {"lookup", "insert"},
           NEW accepted \in SUBSET (Nat \X PunchIds), NEW rejected \in SUBSET Nat,
           NextItem(w, accepted, rejected)
    PROVE  /\ RequestsOK' /\ LoadedIsStored(w)'
           /\ \A v \in Requests \ {w} : req'[v] = req[v]
  <1>1. req[w] \in CreateRequest /\ req[w].pos \in 1..Len(req[w].batch)
    BY RequestKind DEF TypeOK
  <1>2. req[w].batch \in Seq(Body) /\ Len(req[w].batch) \in Nat
    BY <1>1 DEF CreateRequest
  <1>3. /\ req'[w] \in CreateRequest
        /\ req'[w].pc \in {"lookup", "respond"}
        /\ req'[w].pc \in {"lookup", "insert"} => req'[w].pos \in 1..Len(req'[w].batch)
    BY <1>1, <1>2 DEF NextItem, CreateRequest, TypeOK
  <1>4. \A v \in Requests \ {w} : req'[v] = req[v]
    BY DEF NextItem, TypeOK
  <1>5. RequestsOK'
    BY <1>3, <1>4 DEF NextItem, RequestsOK, TypeOK
  <1>. QED
    BY <1>3, <1>4, <1>5 DEF LoadedIsStored

LEMMA RejectStep ==
    ASSUME TypeOK, NEW w \in Requests, req[w].pc \in {"lookup", "insert"}, Reject(w)
    PROVE  /\ RequestsOK' /\ LoadedIsStored(w)'
           /\ \A v \in Requests \ {w} : req'[v] = req[v]
    BY NextItemStep, CurrentType DEF Reject

LEMMA BeginStep ==
    ASSUME TypeOK, NEW w \in Requests, NEW p, NEW batch \in Seq(Body) \ {<<>>}, Begin(w, p, batch)
    PROVE  /\ RequestsOK' /\ LoadedIsStored(w)'
           /\ \A v \in Requests \ {w} : req'[v] = req[v]
  <1>1. 1 \in 1..Len(batch)
    OBVIOUS
  <1>2. req'[w] \in CreateRequest /\ req'[w].pos \in 1..Len(req'[w].batch) /\ req'[w].pc = "lookup"
    BY <1>1 DEF Begin, CreateRequest, TypeOK
  <1>. QED
    BY <1>2 DEF Begin, RequestsOK, TypeOK, LoadedIsStored

\* A correction goes on with the document it has loaded.
LEMMA AfterSiteCheckStep ==
    ASSUME LedgerInv, NEW w \in Requests, req[w].pc \in {"load", "site"}, punches' = punches,
           NEW d \in PunchDoc, NEW p, d.clientId = punches[req[w].id].clientId,
           d.employeeId = punches[req[w].id].employeeId, AfterSiteCheck(w, d, p)
    PROVE  /\ RequestsOK' /\ LoadedIsStored(w)'
           /\ \A v \in Requests \ {w} : req'[v] = req[v]
  <1>0. TypeOK /\ LoadedIsStored(w) /\ req[w] \in CorrectRequest
    BY RequestKind DEF LedgerInv
  <1>1. CASE End(w)
    BY <1>0, <1>1, EndStep
  <1>2. CASE req' = [req EXCEPT ![w].pc = "replace", ![w].snap = d] /\ UNCHANGED lost
    <2>1. /\ req'[w] \in CorrectRequest /\ req'[w].pc = "replace" /\ req'[w].snap = d
          /\ req'[w].id = req[w].id
      BY <1>0, <1>2 DEF TypeOK, CorrectRequest
    <2>2. LoadedIsStored(w)'
      BY <1>0, <2>1, PunchAssumption DEF LoadedIsStored
    <2>3. \A v \in Requests \ {w} : req'[v] = req[v]
      BY <1>0, <1>2 DEF TypeOK
    <2>4. RequestsOK'
      BY <1>0, <1>2, <2>1, <2>3 DEF RequestsOK, TypeOK
    <2>. QED
      BY <2>2, <2>3, <2>4
  <1>. QED
    BY <1>1, <1>2 DEF AfterSiteCheck

LEMMA BeginCorrectStep ==
    ASSUME TypeOK, NEW w \in Requests, BeginCorrect(w)
    PROVE  /\ RequestsOK' /\ LoadedIsStored(w)'
           /\ \A v \in Requests \ {w} : req'[v] = req[v]
  <1>1. PICK p \in Callers, i \in PunchIds, patch \in Patches :
           /\ punches[i] # NoPunch
           /\ req' = [ req EXCEPT ![w] = [ pc |-> "load", caller |-> p, id |-> i,
                                           patch |-> patch, snap |-> NoPunch ] ]
    BY DEF BeginCorrect
  <1>2. req'[w] \in CorrectRequest /\ req'[w].pc = "load" /\ req'[w].id = i
    BY <1>1, PunchAssumption DEF TypeOK, CorrectRequest
  <1>3. \A v \in Requests \ {w} : req'[v] = req[v]
    BY <1>1 DEF TypeOK
  <1>4. RequestsOK'
    BY <1>1, <1>2, <1>3 DEF BeginCorrect, RequestsOK, TypeOK
  <1>. QED
    BY <1>1, <1>2, <1>3, <1>4 DEF BeginCorrect, LoadedIsStored

LEMMA LoadOriginalStep ==
    ASSUME LedgerInv, NEW w \in Requests, LoadOriginal(w)
    PROVE  /\ RequestsOK' /\ LoadedIsStored(w)'
           /\ \A v \in Requests \ {w} : req'[v] = req[v]
  <1>0. /\ TypeOK /\ LoadedIsStored(w) /\ req[w] \in CorrectRequest /\ req[w].pc = "load"
        /\ punches' = punches
    BY RequestKind DEF LedgerInv, LoadOriginal
  <1>1. req[w].id \in PunchIds /\ punches[req[w].id] \in PunchDoc
    BY <1>0 DEF CorrectRequest, LoadedIsStored, TypeOK
  <1>2. CASE req[w].patch.siteId = Absent
    BY <1>0, <1>1, <1>2, AfterSiteCheckStep DEF LoadOriginal
  <1>3. CASE req[w].patch.siteId # Absent
    <2>1. req' = [req EXCEPT ![w].pc = "site", ![w].snap = punches[req[w].id]] /\ lost' = lost
      BY <1>3 DEF LoadOriginal
    <2>2. /\ req'[w] \in CorrectRequest /\ req'[w].pc = "site"
          /\ req'[w].snap = punches[req[w].id] /\ req'[w].id = req[w].id
      BY <1>0, <1>1, <2>1 DEF TypeOK, CorrectRequest
    <2>3. LoadedIsStored(w)'
      BY <1>0, <1>1, <2>2, PunchAssumption DEF LoadedIsStored
    <2>4. \A v \in Requests \ {w} : req'[v] = req[v]
      BY <1>0, <2>1 DEF TypeOK
    <2>5. RequestsOK'
      BY <1>0, <2>1, <2>2, <2>4 DEF RequestsOK, TypeOK
    <2>. QED
      BY <2>3, <2>4, <2>5
  <1>. QED
    BY <1>2, <1>3

LEMMA CheckSiteStep ==
    ASSUME LedgerInv, NEW w \in Requests, CheckSite(w)
    PROVE  /\ RequestsOK' /\ LoadedIsStored(w)'
           /\ \A v \in Requests \ {w} : req'[v] = req[v]
  <1>0. /\ TypeOK /\ LoadedIsStored(w) /\ req[w] \in CorrectRequest /\ req[w].pc = "site"
        /\ punches' = punches
    BY RequestKind DEF LedgerInv, CheckSite
  <1>1. /\ req[w].snap \in PunchDoc
        /\ req[w].snap.clientId = punches[req[w].id].clientId
        /\ req[w].snap.employeeId = punches[req[w].id].employeeId
    BY <1>0 DEF LoadedIsStored, CorrectRequest
  <1>. QED
    BY <1>0, <1>1, AfterSiteCheckStep, EndStep DEF CheckSite

LEMMA CreateReplacementStep ==
    ASSUME LedgerInv, Keeps, NEW w \in Requests, CreateReplacement(w)
    PROVE  /\ RequestsOK' /\ LoadedIsStored(w)'
           /\ \A v \in Requests \ {w} : req'[v] = req[v]
  <1>0. TypeOK /\ LoadedIsStored(w) /\ req[w] \in CorrectRequest /\ req[w].pc = "replace"
    BY RequestKind DEF LedgerInv, CreateReplacement
  <1>1. CASE End(w)
    BY <1>0, <1>1, EndStep
  <1>2. CASE req' = [req EXCEPT ![w].pc = "flip"] /\ UNCHANGED lost
    <2>1. /\ req'[w] \in CorrectRequest /\ req'[w].pc = "flip"
          /\ req'[w].snap = req[w].snap /\ req'[w].id = req[w].id
      BY <1>0, <1>2 DEF TypeOK, CorrectRequest
    <2>2. PICK i \in PunchIds :
             /\ punches' = [punches EXCEPT ![i] = Replacement(req[w].id, req[w].snap, req[w].patch)]
             /\ Replacement(req[w].id, req[w].snap, req[w].patch) \in PunchDoc
             /\ Replacement(req[w].id, req[w].snap, req[w].patch).correctionOfPunchId = req[w].id
             /\ req[w].id \in PunchIds
      BY ReplacementAdds DEF Adds
    <2>3. punches'[i] # NoPunch /\ punches'[i].correctionOfPunchId = req[w].id
      BY <1>0, <2>2, PunchAssumption DEF TypeOK
    <2>4. LoadedIsStored(w)'
      BY <1>0, <2>1, <2>2, <2>3 DEF Keeps, LoadedIsStored, ReplacementsOf, Stored
    <2>5. \A v \in Requests \ {w} : req'[v] = req[v]
      BY <1>0, <1>2 DEF TypeOK
    <2>6. RequestsOK'
      BY <1>0, <1>2, <2>1, <2>5 DEF RequestsOK, TypeOK
    <2>. QED
      BY <2>4, <2>5, <2>6
  <1>. QED
    BY <1>1, <1>2 DEF CreateReplacement

LEMMA LookupStep ==
    ASSUME TypeOK, NEW w \in Requests, Lookup(w) \/ DecideLookup(w)
    PROVE  /\ RequestsOK' /\ LoadedIsStored(w)'
           /\ \A v \in Requests \ {w} : req'[v] = req[v]
  <1>0. /\ req[w].pc = "lookup" /\ req[w] \in CreateRequest /\ req[w].pos \in 1..Len(req[w].batch)
        /\ {EmployeeRef(Current(w)), SiteRef(Current(w))} \subseteq Ref
    BY RequestKind, CurrentType DEF Lookup, DecideLookup, TypeOK
  <1>1. CASE Lookup(w)
    <2>1. PICK ref \in Ref : /\ req' = [req EXCEPT ![w].answers = @ \union {<<ref, ref \in known>>}]
                             /\ lost' = lost
      BY <1>0, <1>1 DEF Lookup
    <2>2. req'[w] \in CreateRequest /\ req'[w].pos \in 1..Len(req'[w].batch) /\ req'[w].pc = "lookup"
      <3>1. <<ref, ref \in known>> \in Ref \X BOOLEAN
        <4>1. (ref \in known) \in BOOLEAN
          OBVIOUS
        <4>. QED
          BY <4>1, Zenon
      <3>2. req[w].answers \in SUBSET (Ref \X BOOLEAN)
        BY <1>0 DEF CreateRequest
      <3>3. req[w].answers \union {<<ref, ref \in known>>} \in SUBSET (Ref \X BOOLEAN)
        BY <3>1, <3>2, Zenon
      <3>. QED
        BY <1>0, <2>1, <3>3 DEF TypeOK, CreateRequest
    <2>3. \A v \in Requests \ {w} : req'[v] = req[v]
      BY <2>1 DEF TypeOK
    <2>4. RequestsOK'
      BY <2>1, <2>2, <2>3 DEF RequestsOK, TypeOK
    <2>. QED
      BY <2>2, <2>3, <2>4 DEF LoadedIsStored
  <1>2. CASE DecideLookup(w)
    <2>1. CASE Reject(w)
      BY <1>0, <2>1, RejectStep
    <2>2. CASE req' = [req EXCEPT ![w].pc = "insert"] /\ UNCHANGED lost
      <3>1. req'[w] \in CreateRequest /\ req'[w].pos \in 1..Len(req'[w].batch) /\ req'[w].pc = "insert"
        BY <1>0, <2>2 DEF TypeOK, CreateRequest
      <3>2. \A v \in Requests \ {w} : req'[v] = req[v]
        BY <2>2 DEF TypeOK
      <3>3. RequestsOK'
        BY <2>2, <3>1, <3>2 DEF RequestsOK, TypeOK
      <3>. QED
        BY <3>1, <3>2, <3>3 DEF LoadedIsStored
    <2>. QED
      BY <1>2, <2>1, <2>2 DEF DecideLookup
  <1>. QED
    BY <1>1, <1>2

LEMMA InsertPunchStep ==
    ASSUME TypeOK, NEW w \in Requests, InsertPunch(w)
    PROVE  /\ RequestsOK' /\ LoadedIsStored(w)'
           /\ \A v \in Requests \ {w} : req'[v] = req[v]
  <1>1. req[w].pc = "insert" /\ req[w].pos \in Nat
    BY CurrentType DEF InsertPunch
  <1>2. PICK i \in PunchIds : NextItem(w, {<<req[w].pos, i>>}, {}) \/ Reject(w)
    BY DEF InsertPunch
  <1>. QED
    BY <1>1, <1>2, NextItemStep, RejectStep

-----------------------------------------------------------------------------
(* The invariant. *)

LEMMA RequestSteps ==
    ASSUME LedgerInv, [Next]_vars
    PROVE  RequestsOK' /\ \A v \in Requests : LoadedIsStored(v)'
  <1>0. TypeOK /\ Keeps /\ \A v \in Requests : LoadedIsStored(v)
    BY StepsKeep DEF LedgerInv
  <1>1. ASSUME NEW w \in Requests,
               /\ RequestsOK' /\ LoadedIsStored(w)'
               /\ \A v \in Requests \ {w} : req'[v] = req[v]
        PROVE  RequestsOK' /\ \A v \in Requests : LoadedIsStored(v)'
    BY <1>0, <1>1, Bystander
  <1>2. ASSUME NEW w \in Requests, BeginCreate(w) \/ BeginBulk(w)
        PROVE  RequestsOK' /\ \A v \in Requests : LoadedIsStored(v)'
    <2>1. PICK p \in Callers, batch \in Seq(Body) \ {<<>>} : Begin(w, p, batch)
      <3>1. CASE BeginCreate(w)
        <4>1. PICK p \in Callers, b \in Bodies : Begin(w, p, <<b>>)
          BY <3>1 DEF BeginCreate
        <4>2. <<b>> \in Seq(Body) /\ <<b>> # <<>>
          BY PunchAssumption
        <4>. QED
          BY <4>1, <4>2
      <3>2. CASE BeginBulk(w)
        <4>1. PICK p \in Callers, batch \in Batches : Begin(w, p, batch)
          BY <3>2 DEF BeginBulk
        <4>. QED
          BY <4>1, PunchAssumption
      <3>. QED
        BY <1>2, <3>1, <3>2
    <2>. QED
      BY <1>0, <1>1, <2>1, BeginStep
  <1>3. ASSUME NEW w \in Requests, Lookup(w) \/ DecideLookup(w) \/ InsertPunch(w)
        PROVE  RequestsOK' /\ \A v \in Requests : LoadedIsStored(v)'
    BY <1>0, <1>1, <1>3, LookupStep, InsertPunchStep
  <1>4. ASSUME NEW w \in Requests, BeginCorrect(w) \/ LoadOriginal(w) \/ CheckSite(w) \/ CreateReplacement(w)
        PROVE  RequestsOK' /\ \A v \in Requests : LoadedIsStored(v)'
    BY <1>0, <1>1, <1>4, BeginCorrectStep, LoadOriginalStep, CheckSiteStep, CreateReplacementStep
  <1>5. ASSUME NEW w \in Requests, Respond(w) \/ FlipOriginal(w) \/ CallFails(w)
        PROVE  RequestsOK' /\ \A v \in Requests : LoadedIsStored(v)'
    BY <1>0, <1>1, <1>5, EndStep, RejectStep DEF Respond, FlipOriginal, CallFails
  <1>6. ASSUME Crash
        PROVE  RequestsOK' /\ \A v \in Requests : LoadedIsStored(v)'
    BY <1>0, <1>6 DEF Crash, RequestsOK, LoadedIsStored, Idle
  <1>7. ASSUME UNCHANGED req, lost' \in [Requests -> SUBSET Ref]
        PROVE  RequestsOK' /\ \A v \in Requests : LoadedIsStored(v)'
    BY <1>0, <1>7, Bystander DEF TypeOK, RequestsOK
  <1>8. ASSUME NEW ref \in Ref, Learn(ref) \/ Rename(ref)
        PROVE  UNCHANGED req /\ lost' \in [Requests -> SUBSET Ref]
    BY <1>0, <1>8 DEF Learn, Rename, TypeOK
  <1>9. CASE UNCHANGED vars
    BY <1>0, <1>7, <1>9 DEF vars, TypeOK
  <1>. QED
    BY <1>2, <1>3, <1>4, <1>5, <1>6, <1>7, <1>8, <1>9 DEF Next

LEMMA KnownStep ==
    ASSUME TypeOK, [Next]_vars
    PROVE  known' \in SUBSET Ref
    BY DEF TypeOK, Next, vars, BeginCreate, BeginBulk, Begin, Lookup, DecideLookup, InsertPunch,
           Respond, BeginCorrect, LoadOriginal, CheckSite, CreateReplacement, FlipOriginal,
           CallFails, Crash, Learn, Rename

(* The types, what a correction in flight relies on, and that a punch is only *)
(* retired when its replacement is stored (correctPunch), in every reachable  *)
(* state.                                                                     *)
THEOREM LedgerInvariant == Spec => []LedgerInv
  <1>1. Init => LedgerInv
    BY DEF Init, LedgerInv, TypeOK, LoadedIsStored, CorrectedIsReplaced, Stored, Idle
  <1>2. LedgerInv /\ [Next]_vars => LedgerInv'
    <2>. SUFFICES ASSUME LedgerInv, [Next]_vars
                  PROVE  LedgerInv'
      OBVIOUS
    <2>1. RequestsOK' /\ \A v \in Requests : LoadedIsStored(v)'
      BY RequestSteps
    <2>2. known' \in SUBSET Ref
      BY KnownStep DEF LedgerInv
    <2>3. punches' \in [PunchIds -> PunchDoc \union {NoPunch}] /\ CorrectedIsReplaced'
      BY StepsKeep
    <2>. QED
      BY <2>1, <2>2, <2>3 DEF LedgerInv, TypeOK, RequestsOK
  <1>. QED
    BY <1>1, <1>2, PTL DEF Spec

-----------------------------------------------------------------------------
(* The life of a request: accepted while idle, then one call after the other  *)
(* with its caller, its body and its punch unchanged, until it is idle again. *)

CorrectContinues(w) ==
    /\ req[w] \in CorrectRequest /\ req'[w] \in CorrectRequest
    /\ req'[w].caller = req[w].caller /\ req'[w].id = req[w].id /\ req'[w].patch = req[w].patch
    /\ \/ req[w].pc = "load" /\ req'[w].pc \in {"site", "replace"}
       \/ req[w].pc = "site" /\ req'[w].pc = "replace"
       \/ req[w].pc = "replace" /\ req'[w].pc = "flip"

\* The item at hand is being looked up.
ItemContinues(w) ==
    /\ req[w] \in CreateRequest /\ req'[w] \in CreateRequest
    /\ req[w].pc = "lookup" /\ req'[w].pc \in {"lookup", "insert"}
    /\ req'[w].batch = req[w].batch /\ req'[w].pos = req[w].pos
    /\ req'[w].accepted = req[w].accepted /\ req'[w].rejected = req[w].rejected

\* The item at hand is rejected, or accepted with the punch that this step stores for it.
ItemDone(w) ==
    /\ req[w] \in CreateRequest /\ req[w].pos \in 1..Len(req[w].batch)
    /\ req'[w].batch = req[w].batch /\ req'[w].pos = req[w].pos + 1
    /\ req'[w].pc = IF req[w].pos = Len(req[w].batch) THEN "respond" ELSE "lookup"
    /\ \/ /\ req'[w].accepted = req[w].accepted
          /\ req'[w].rejected = req[w].rejected \union {req[w].pos}
       \/ /\ req'[w].rejected = req[w].rejected
          /\ \E i \in PunchIds : /\ req'[w].accepted = req[w].accepted \union {<<req[w].pos, i>>}
                                /\ punches[i] = NoPunch
                                /\ punches' = [punches EXCEPT ![i] = NewPunch(Current(w))]

Accepts(w) == BeginCreate(w) \/ BeginBulk(w) \/ BeginCorrect(w)

Works(w) ==
    \/ Lookup(w) \/ DecideLookup(w) \/ InsertPunch(w) \/ Respond(w)
    \/ LoadOriginal(w) \/ CheckSite(w) \/ CreateReplacement(w) \/ FlipOriginal(w)
    \/ CallFails(w)

\* The request moves on or ends, and no other request is touched.
Moves(w) ==
    /\ req'[w] = Idle \/ CorrectContinues(w) \/ ItemContinues(w) \/ ItemDone(w)
    /\ \A v \in Requests \ {w} : req'[v] = req[v]

LEMMA EndMoves ==
    ASSUME TypeOK, NEW w \in Requests, End(w)
    PROVE  Moves(w)
    BY DEF End, Moves, TypeOK

LEMMA ItemMoves ==
    ASSUME TypeOK, NEW w \in Requests, req[w].pc \in {"lookup", "insert"},
           NEW acc, NEW rej, NextItem(w, acc, rej),
           \/ acc = {} /\ rej = {req[w].pos}
           \/ /\ rej = {}
              /\ \E i \in PunchIds : /\ acc = {<<req[w].pos, i>>}
                                    /\ punches[i] = NoPunch
                                    /\ punches' = [punches EXCEPT ![i] = NewPunch(Current(w))]
    PROVE  Moves(w)
  <1>1. req[w] \in CreateRequest /\ req[w].pos \in 1..Len(req[w].batch)
    BY RequestKind DEF TypeOK
  <1>2. /\ req'[w].batch = req[w].batch /\ req'[w].pos = req[w].pos + 1
        /\ req'[w].pc = IF req[w].pos = Len(req[w].batch) THEN "respond" ELSE "lookup"
        /\ req'[w].accepted = req[w].accepted \union acc
        /\ req'[w].rejected = req[w].rejected \union rej
        /\ \A v \in Requests \ {w} : req'[v] = req[v]
    BY <1>1 DEF NextItem, TypeOK, CreateRequest
  <1>3. CASE acc = {} /\ rej = {req[w].pos}
    <2>1. ItemDone(w)
      BY <1>1, <1>2, <1>3 DEF ItemDone
    <2>. QED
      BY <1>2, <2>1 DEF Moves
  <1>4. CASE rej = {} /\ \E i \in PunchIds : /\ acc = {<<req[w].pos, i>>}
                                            /\ punches[i] = NoPunch
                                            /\ punches' = [punches EXCEPT ![i] = NewPunch(Current(w))]
    <2>1. req'[w].rejected = req[w].rejected
      BY <1>2, <1>4
    <2>2. ItemDone(w)
      BY <1>1, <1>2, <1>4, <2>1 DEF ItemDone
    <2>. QED
      BY <1>2, <2>2 DEF Moves
  <1>. QED
    BY <1>3, <1>4

LEMMA WorksMoves ==
    ASSUME LedgerInv, LedgerInv', NEW w \in Requests, Works(w)
    PROVE  Moves(w)
  <1>0. /\ TypeOK /\ req \in [Requests -> {Idle} \union CreateRequest \union CorrectRequest]
        /\ req' \in [Requests -> {Idle} \union CreateRequest \union CorrectRequest]
    BY DEF LedgerInv, TypeOK, Idle, CreateRequest, CorrectRequest
  <1>1. ASSUME Reject(w), req[w].pc \in {"lookup", "insert"}
        PROVE  Moves(w)
    BY <1>0, <1>1, ItemMoves DEF Reject
  <1>2. ASSUME NEW l \in {"site", "replace", "flip"}, NEW d, req[w] \in CorrectRequest,
               req' = [req EXCEPT ![w].pc = l, ![w].snap = d],
               \/ req[w].pc = "load" /\ l \in {"site", "replace"}
               \/ req[w].pc = "site" /\ l = "replace"
        PROVE  Moves(w)
    <2>1. /\ req'[w].pc = l /\ req'[w].caller = req[w].caller /\ req'[w].id = req[w].id
          /\ req'[w].patch = req[w].patch
          /\ \A v \in Requests \ {w} : req'[v] = req[v]
      BY <1>0, <1>2 DEF CorrectRequest
    <2>2. req'[w] \in CorrectRequest
      BY <1>0, <2>1 DEF Idle, CreateRequest
    <2>. QED
      BY <1>2, <2>1, <2>2 DEF Moves, CorrectContinues
  <1>3. CASE Lookup(w) \/ DecideLookup(w)
    <2>1. req[w] \in CreateRequest /\ req[w].pc = "lookup"
      BY <1>0, <1>3, RequestKind DEF Lookup, DecideLookup
    <2>2. CASE Lookup(w)
      <3>1. /\ req'[w].pc = "lookup" /\ req'[w].batch = req[w].batch /\ req'[w].pos = req[w].pos
            /\ req'[w].accepted = req[w].accepted /\ req'[w].rejected = req[w].rejected
            /\ \A v \in Requests \ {w} : req'[v] = req[v]
        BY <1>0, <2>1, <2>2 DEF Lookup, CreateRequest
      <3>2. req'[w] \in CreateRequest
        BY <1>0, <3>1 DEF Idle, CorrectRequest
      <3>. QED
        BY <2>1, <3>1, <3>2 DEF Moves, ItemContinues
    <2>3. CASE req' = [req EXCEPT ![w].pc = "insert"]
      <3>1. /\ req'[w].pc = "insert" /\ req'[w].batch = req[w].batch /\ req'[w].pos = req[w].pos
            /\ req'[w].accepted = req[w].accepted /\ req'[w].rejected = req[w].rejected
            /\ \A v \in Requests \ {w} : req'[v] = req[v]
        BY <1>0, <2>1, <2>3 DEF CreateRequest
      <3>2. req'[w] \in CreateRequest
        BY <1>0, <3>1 DEF Idle, CorrectRequest
      <3>. QED
        BY <2>1, <3>1, <3>2 DEF Moves, ItemContinues
    <2>. QED
      BY <1>1, <1>3, <2>1, <2>2, <2>3 DEF DecideLookup
  <1>4. CASE InsertPunch(w)
    <2>1. PICK i \in PunchIds :
             /\ punches[i] = NoPunch
             /\ punches' = [punches EXCEPT ![i] = NewPunch(Current(w))]
             /\ NextItem(w, {<<req[w].pos, i>>}, {}) \/ Reject(w)
      BY <1>4 DEF InsertPunch
    <2>2. req[w].pc = "insert"
      BY <1>4 DEF InsertPunch
    <2>. QED
      BY <1>0, <1>1, <2>1, <2>2, ItemMoves
  <1>5. CASE LoadOriginal(w) \/ CheckSite(w)
    <2>1. req[w] \in CorrectRequest /\ req[w].pc \in {"load", "site"}
      BY <1>0, <1>5, RequestKind DEF LoadOriginal, CheckSite
    <2>2. ASSUME NEW d, AfterSiteCheck(w, d, req[w].patch)
          PROVE  Moves(w)
      BY <1>0, <1>2, <2>1, <2>2, EndMoves DEF AfterSiteCheck
    <2>. QED
      BY <1>0, <1>2, <1>5, <2>1, <2>2, EndMoves DEF LoadOriginal, CheckSite
  <1>6. CASE CreateReplacement(w)
    <2>1. req[w] \in CorrectRequest /\ req[w].pc = "replace"
      BY <1>0, <1>6, RequestKind DEF CreateReplacement
    <2>2. CASE req' = [req EXCEPT ![w].pc = "flip"]
      <3>1. /\ req'[w].pc = "flip" /\ req'[w].caller = req[w].caller /\ req'[w].id = req[w].id
            /\ req'[w].patch = req[w].patch
            /\ \A v \in Requests \ {w} : req'[v] = req[v]
        BY <1>0, <2>1, <2>2 DEF CorrectRequest
      <3>2. req'[w] \in CorrectRequest
        BY <1>0, <3>1 DEF Idle, CreateRequest
      <3>. QED
        BY <2>1, <3>1, <3>2 DEF Moves, CorrectContinues
    <2>. QED
      BY <1>0, <1>6, <2>2, EndMoves DEF CreateReplacement
  <1>7. CASE Respond(w) \/ FlipOriginal(w)
    BY <1>0, <1>7, EndMoves DEF Respond, FlipOriginal
  <1>8. CASE CallFails(w)
    BY <1>0, <1>1, <1>8, EndMoves DEF CallFails
  <1>. QED
    BY <1>3, <1>4, <1>5, <1>6, <1>7, <1>8 DEF Works

\* What any step of the system does to request v.
LEMMA RequestLife ==
    ASSUME LedgerInv, LedgerInv', [Next]_vars, NEW v \in Requests
    PROVE  \/ req'[v] = req[v]
           \/ req'[v] = Idle
           \/ req[v] = Idle /\ Accepts(v)
           \/ CorrectContinues(v) \/ ItemContinues(v) \/ ItemDone(v)
  <1>1. ASSUME NEW w \in Requests, Accepts(w)
        PROVE  req[w] = Idle /\ (v # w => req'[v] = req[v])
    BY <1>1 DEF Accepts, BeginCreate, BeginBulk, Begin, BeginCorrect, LedgerInv, TypeOK
  <1>2. ASSUME NEW w \in Requests, Works(w)
        PROVE  Moves(w)
    BY <1>2, WorksMoves
  <1>3. CASE Crash
    BY <1>3 DEF Crash
  <1>4. CASE UNCHANGED vars \/ \E ref \in Ref : Learn(ref) \/ Rename(ref)
    BY <1>4 DEF Learn, Rename, vars
  <1>. QED
    BY <1>1, <1>2, <1>3, <1>4 DEF Next, Accepts, Works, Moves

-----------------------------------------------------------------------------
(* The report of a batch. *)

Creating(w) == req[w] \in CreateRequest
Reported(w) == {a[1] : a \in req[w].accepted} \union req[w].rejected

\* An accepted item stands for a punch that was submitted for the employee of this item.
ItemStored(r, a) ==
    /\ a[1] \notin r.rejected
    /\ a[2] \in PunchIds /\ punches[a[2]] # NoPunch
    /\ punches[a[2]].clientId = r.batch[a[1]].clientId
    /\ punches[a[2]].employeeId = r.batch[a[1]].employeeId
    /\ punches[a[2]].correctionOfPunchId = NoPunch
    /\ \A b \in r.accepted : (a[1] = b[1]) <=> (a[2] = b[2])

(* The 201 or 207 answer of bulkCreatePunches accounts for every item of the  *)
(* batch exactly once, whatever fails in the middle, and every accepted item  *)
(* is a punch of its own, submitted for this item's client and employee and   *)
(* still stored when the answer is sent, corrected in the meantime or not.    *)
BulkReportAccounts ==
    \A w \in Requests : Creating(w) =>
        /\ Reported(w) = 1..(req[w].pos - 1)
        /\ req[w].pc = "respond" => Reported(w) = 1..Len(req[w].batch)
        /\ \A a \in req[w].accepted : ItemStored(req[w], a)

\* The same, with the position after the last item spelled out.
ReportOK(w) ==
    Creating(w) =>
        /\ Reported(w) = 1..(req[w].pos - 1)
        /\ req[w].pc = "respond" => req[w].pos = Len(req[w].batch) + 1
        /\ \A a \in req[w].accepted : ItemStored(req[w], a)

LEMMA KindsDiffer ==
    /\ Idle \notin CreateRequest
    /\ CreateRequest \intersect CorrectRequest = {}
    BY DEF Idle, CreateRequest, CorrectRequest

\* A request that does not finish an item keeps its report.
LEMMA ReportKept ==
    ASSUME Keeps, NEW w \in Requests, ReportOK(w), Creating(w),
           req'[w].batch = req[w].batch, req'[w].pos = req[w].pos,
           req'[w].accepted = req[w].accepted, req'[w].rejected = req[w].rejected,
           req'[w].pc = "respond" => req[w].pc = "respond"
    PROVE  ReportOK(w)'
  <1>1. Reported(w)' = Reported(w)
    BY DEF Reported
  <1>2. ASSUME NEW a \in req'[w].accepted
        PROVE  ItemStored(req[w], a)'
    <2>1. ItemStored(req[w], a)
      BY <1>2 DEF ReportOK
    <2>. QED
      BY <2>1 DEF ItemStored, Keeps
  <1>. QED
    BY <1>1, <1>2 DEF ReportOK

\* An item is finished: reported once, as rejected or with the punch this step stores for it.
LEMMA ItemReported ==
    ASSUME LedgerInv, Keeps, NEW w \in Requests, ReportOK(w), ItemDone(w)
    PROVE  ReportOK(w)'
  <1>. DEFINE r == req[w]
              Rejects == req'[w].accepted = r.accepted /\ req'[w].rejected = r.rejected \union {r.pos}
              Stores(i) == /\ req'[w].rejected = r.rejected
                           /\ req'[w].accepted = r.accepted \union {<<r.pos, i>>}
                           /\ punches[i] = NoPunch
                           /\ punches' = [punches EXCEPT ![i] = NewPunch(Current(w))]
  <1>1. /\ r \in CreateRequest /\ r.pos \in 1..Len(r.batch) /\ Creating(w)
        /\ req'[w].batch = r.batch /\ req'[w].pos = r.pos + 1
        /\ req'[w].pc = "respond" => r.pos = Len(r.batch)
        /\ Rejects \/ \E i \in PunchIds : Stores(i)
    BY DEF ItemDone, Creating
  <1>2. r.batch \in Seq(Body) /\ Len(r.batch) \in Nat /\ r.pos \in Nat \ {0}
    BY <1>1 DEF CreateRequest
  <1>3. r.pos \notin Reported(w) /\ Reported(w) = 1..(r.pos - 1)
    BY <1>1, <1>2 DEF ReportOK
  <1>4. \A a \in r.accepted : ItemStored(r, a) /\ a[1] \in Reported(w)
    BY <1>1 DEF ReportOK, Reported
  <1>5. Reported(w)' = Reported(w) \union {r.pos} => Reported(w)' = 1..(req'[w].pos - 1)
    <2>1. (1..(r.pos - 1)) \union {r.pos} = 1..r.pos
      BY <1>2
    <2>2. req'[w].pos - 1 = r.pos
      BY <1>1, <1>2
    <2>. QED
      BY <1>3, <2>1, <2>2
  <1>6. req'[w].pc = "respond" => req'[w].pos = Len(req'[w].batch) + 1
    BY <1>1
  <1>7. CASE Rejects
    <2>1. Reported(w)' = Reported(w) \union {r.pos}
      BY <1>7 DEF Reported
    <2>2. ASSUME NEW a \in r.accepted
          PROVE  ItemStored(req[w], a)'
      BY <1>1, <1>3, <1>4, <1>7 DEF ItemStored, Keeps
    <2>. QED
      BY <1>5, <1>6, <1>7, <2>1, <2>2 DEF ReportOK
  <1>8. ASSUME NEW i \in PunchIds, Stores(i)
        PROVE  ReportOK(w)'
    <2>. DEFINE d == NewPunch(r.batch[r.pos])
    <2>1. PICK n : n = <<r.pos, i>>
      OBVIOUS
    <2>2. n[1] = r.pos /\ n[2] = i
      BY <2>1
    <2>3. punches'[i] = d /\ d \in PunchDoc
      <3>1. r.batch[r.pos] \in Body
        BY <1>1, <1>2
      <3>. QED
        BY <1>8, <3>1, NewPunchType DEF LedgerInv, TypeOK, Current
    <2>4. Reported(w)' = Reported(w) \union {r.pos}
      <3>1. {a[1] : a \in r.accepted \union {n}} = {a[1] : a \in r.accepted} \union {n[1]}
        BY Zenon
      <3>2. /\ Reported(w)' = {a[1] : a \in r.accepted \union {n}} \union r.rejected
            /\ Reported(w) = {a[1] : a \in r.accepted} \union r.rejected
        BY <1>8, <2>1 DEF Reported
      <3>. QED
        BY <2>2, <3>1, <3>2, Zenon
    <2>5. \A a \in r.accepted : a[1] # n[1] /\ a[2] # n[2]
      BY <1>3, <1>4, <1>8, <2>2 DEF ItemStored
    <2>6. ASSUME NEW a \in r.accepted
          PROVE  ItemStored(req[w], a)'
      <3>1. /\ a[1] \notin req'[w].rejected
            /\ a[2] \in PunchIds /\ punches'[a[2]] # NoPunch
            /\ punches'[a[2]].clientId = r.batch[a[1]].clientId
            /\ punches'[a[2]].employeeId = r.batch[a[1]].employeeId
            /\ punches'[a[2]].correctionOfPunchId = NoPunch
        BY <1>4, <1>8 DEF ItemStored, Keeps
      <3>2. \A b \in req'[w].accepted : (a[1] = b[1]) <=> (a[2] = b[2])
        BY <1>4, <1>8, <2>1, <2>5 DEF ItemStored
      <3>. QED
        BY <1>1, <3>1, <3>2 DEF ItemStored
    <2>7. ItemStored(req[w], n)'
      <3>1. n[1] \notin req'[w].rejected
        BY <1>3, <1>8, <2>2 DEF Reported
      <3>2. punches'[i] # NoPunch
        BY <2>3, PunchAssumption
      <3>3. /\ d.clientId = r.batch[r.pos].clientId /\ d.employeeId = r.batch[r.pos].employeeId
            /\ d.correctionOfPunchId = NoPunch
        BY DEF NewPunch
      <3>4. \A b \in req'[w].accepted : (n[1] = b[1]) <=> (n[2] = b[2])
        BY <1>8, <2>1, <2>5
      <3>. HIDE DEF d
      <3>. QED
        BY <1>1, <2>3, <2>2, <3>1, <3>2, <3>3, <3>4 DEF ItemStored
    <2>8. \A a \in req'[w].accepted : ItemStored(req[w], a)'
      BY <1>8, <2>1, <2>6, <2>7
    <2>. QED
      BY <1>5, <1>6, <2>4, <2>8 DEF ReportOK
  <1>. QED
    BY <1>1, <1>7, <1>8

LEMMA ReportStep ==
    ASSUME LedgerInv, LedgerInv', [Next]_vars, NEW w \in Requests, ReportOK(w)
    PROVE  ReportOK(w)'
  <1>0. Keeps /\ TypeOK
    BY StepsKeep DEF LedgerInv
  <1>1. CASE req'[w] = req[w]
    <2>1. CASE Creating(w)
      BY <1>0, <1>1, <2>1, ReportKept
    <2>2. CASE ~Creating(w)
      BY <1>1, <2>2 DEF ReportOK, Creating
    <2>. QED
      BY <2>1, <2>2
  <1>2. CASE req'[w] = Idle \/ CorrectContinues(w)
    BY <1>2, KindsDiffer DEF CorrectContinues, ReportOK, Creating
  <1>3. CASE req[w] = Idle /\ Accepts(w)
    <2>1. CASE BeginCreate(w) \/ BeginBulk(w)
      <3>0. PICK p, batch : Begin(w, p, batch)
        BY <2>1 DEF BeginCreate, BeginBulk
      <3>1. /\ req'[w].pc = "lookup" /\ req'[w].pos = 1
            /\ req'[w].accepted = {} /\ req'[w].rejected = {}
        BY <1>0, <3>0 DEF Begin, TypeOK
      <3>2. Reported(w)' = {} /\ 1..(req'[w].pos - 1) = {}
        BY <3>1 DEF Reported
      <3>. QED
        BY <3>1, <3>2 DEF ReportOK
    <2>2. CASE BeginCorrect(w)
      <3>1. req'[w].pc = "load"
        BY <1>0, <2>2 DEF BeginCorrect, TypeOK
      <3>. QED
        BY <3>1 DEF ReportOK, Creating, CreateRequest
    <2>. QED
      BY <1>3, <2>1, <2>2 DEF Accepts
  <1>4. CASE ItemContinues(w)
    BY <1>0, <1>4, ReportKept DEF ItemContinues, Creating
  <1>5. CASE ItemDone(w)
    BY <1>0, <1>5, ItemReported
  <1>. QED
    BY <1>1, <1>2, <1>3, <1>4, <1>5, RequestLife

(* The answer to a batch of punches accounts for every item exactly once and  *)
(* accepts only what is stored (bulkCreatePunches).                           *)
THEOREM BulkPunchesAccounted == Spec => []BulkReportAccounts
  <1>. DEFINE AllOK == \A w \in Requests : ReportOK(w)
  <1>1. Init => AllOK
    BY KindsDiffer DEF Init, ReportOK, Creating
  <1>2. LedgerInv /\ LedgerInv' /\ AllOK /\ [Next]_vars => AllOK'
    BY ReportStep
  <1>3. AllOK => BulkReportAccounts
    <2>. SUFFICES ASSUME AllOK, NEW w \in Requests, Creating(w), req[w].pc = "respond"
                  PROVE  Reported(w) = 1..Len(req[w].batch)
      BY DEF BulkReportAccounts, ReportOK
    <2>1. req[w].batch \in Seq(Body)
      BY DEF Creating, CreateRequest
    <2>2. Len(req[w].batch) + 1 - 1 = Len(req[w].batch)
      BY <2>1
    <2>. QED
      BY <2>2 DEF ReportOK
  <1>. HIDE DEF AllOK
  <1>. QED
    BY <1>1, <1>2, <1>3, LedgerInvariant, PTL DEF Spec

-----------------------------------------------------------------------------
(* The chains of corrections.                                                 *)

\* A set of punches that holds every replacement of its members.
Closed(S) == \A i \in S : ReplacementsOf(i) \subseteq S

\* Following corrections from a punch never leads back to it: its replacements lie in a
\* closed set without it.
ChainInv ==
    /\ \A q \in Stored : punches[q].correctionOfPunchId \in Stored \union {NoPunch}
    /\ \A i \in Stored : \E T \in SUBSET (Stored \ {i}) : Closed(T) /\ ReplacementsOf(i) \subseteq T
    /\ ChainsEndLive

LEMMA AddKeepsChains ==
    ASSUME LedgerInv, ChainInv, NEW n \in PunchIds, NEW d \in PunchDoc, Adds(n, d)
    PROVE  ChainInv'
  <1>1. /\ punches'[n] = d /\ punches[n] = NoPunch /\ d # NoPunch
        /\ \A j \in PunchIds \ {n} : punches'[j] = punches[j]
    BY PunchAssumption DEF LedgerInv, TypeOK, Adds
  <1>2. Stored' = Stored \union {n} /\ n \notin Stored
    BY <1>1 DEF Stored
  <1>3. \A q \in Stored' : punches'[q].correctionOfPunchId \in Stored' \union {NoPunch}
    BY <1>1, <1>2 DEF ChainInv, Adds, Stored
  <1>4. \A j : ReplacementsOf(j) \subseteq ReplacementsOf(j)' /\ ReplacementsOf(j)' \subseteq ReplacementsOf(j) \union {n}
    BY <1>1, <1>2 DEF ReplacementsOf, Stored
  <1>5. ReplacementsOf(n)' = {}
    BY <1>1, <1>2, PunchAssumption DEF ReplacementsOf, Stored, ChainInv, Adds
  <1>6. ASSUME NEW i \in Stored'
        PROVE  \E T \in SUBSET (Stored' \ {i}) : Closed(T)' /\ ReplacementsOf(i)' \subseteq T
    <2>1. CASE i = n
      <3>1. {} \in SUBSET (Stored' \ {i}) /\ Closed({})' /\ ReplacementsOf(i)' \subseteq {}
        BY <1>5, <2>1 DEF Closed
      <3>. QED
        BY <3>1
    <2>2. CASE i # n
      <3>1. PICK T \in SUBSET (Stored \ {i}) : Closed(T) /\ ReplacementsOf(i) \subseteq T
        BY <1>2, <2>2 DEF ChainInv
      <3>2. T \union {n} \in SUBSET (Stored' \ {i})
        BY <1>2, <2>2
      <3>3. Closed(T \union {n})'
        BY <1>4, <1>5, <3>1 DEF Closed
      <3>4. ReplacementsOf(i)' \subseteq T \union {n}
        BY <1>4, <3>1
      <3>. QED
        BY <3>2, <3>3, <3>4
    <2>. QED
      BY <2>1, <2>2
  <1>7. ASSUME NEW S \in (SUBSET Stored') \ {{}}, \A i \in S : ReplacementsOf(i)' \subseteq S
        PROVE  \E i \in S : punches'[i].status # "corrected"
    <2>1. CASE n \in S
      BY <1>1, <2>1 DEF Adds
    <2>2. CASE n \notin S
      <3>1. S \in (SUBSET Stored) \ {{}} /\ \A i \in S : ReplacementsOf(i) \subseteq S
        BY <1>2, <1>4, <1>7, <2>2
      <3>2. PICK i \in S : punches[i].status # "corrected"
        BY <3>1 DEF ChainInv, ChainsEndLive
      <3>. QED
        BY <1>1, <2>2, <3>1, <3>2 DEF Stored
    <2>. QED
      BY <2>1, <2>2
  <1>. QED
    BY <1>3, <1>6, <1>7 DEF ChainInv, ChainsEndLive

LEMMA RetireKeeps ==
    ASSUME LedgerInv, NEW n \in PunchIds, Retires(n)
    PROVE  /\ punches'[n] # NoPunch /\ punches'[n].status = "corrected"
           /\ punches'[n].correctionOfPunchId = punches[n].correctionOfPunchId
           /\ punches'[n].clockIn = punches[n].clockIn /\ punches'[n].clockOut = punches[n].clockOut
  <1>1. punches[n] \in PunchDoc /\ punches'[n] = [punches[n] EXCEPT !.status = "corrected"]
    BY DEF LedgerInv, TypeOK, Retires
  <1>2. punches'[n] \in PunchDoc
    BY <1>1 DEF PunchDoc
  <1>. QED
    BY <1>1, <1>2, PunchAssumption DEF PunchDoc

LEMMA RetireKeepsChains ==
    ASSUME LedgerInv, ChainInv, NEW n \in PunchIds, Retires(n)
    PROVE  ChainInv'
  <1>1. /\ \A j \in PunchIds \ {n} : punches'[j] = punches[j]
        /\ punches[n] # NoPunch
    BY DEF LedgerInv, TypeOK, Retires
  <1>2. /\ punches'[n] # NoPunch
        /\ punches'[n].correctionOfPunchId = punches[n].correctionOfPunchId
    BY <1>1, RetireKeeps
  <1>3. Stored' = Stored
    BY <1>1, <1>2 DEF Stored
  <1>4. \A j : ReplacementsOf(j)' = ReplacementsOf(j)
    BY <1>1, <1>2, <1>3 DEF ReplacementsOf, Stored
  <1>5. \A q \in Stored' : punches'[q].correctionOfPunchId \in Stored' \union {NoPunch}
    BY <1>1, <1>2, <1>3 DEF ChainInv, Stored
  <1>6. \A i \in Stored' : \E T \in SUBSET (Stored' \ {i}) : Closed(T)' /\ ReplacementsOf(i)' \subseteq T
    BY <1>3, <1>4 DEF ChainInv, Closed
  <1>7. ASSUME NEW S \in (SUBSET Stored') \ {{}}, \A i \in S : ReplacementsOf(i)' \subseteq S
        PROVE  \E i \in S : punches'[i].status # "corrected"
    <2>0. S \in (SUBSET Stored) \ {{}} /\ \A i \in S : ReplacementsOf(i) \subseteq S
      BY <1>3, <1>4, <1>7
    <2>1. CASE n \in S
      <3>1. PICK T \in SUBSET (Stored \ {n}) : Closed(T) /\ ReplacementsOf(n) \subseteq T
        BY <1>1 DEF ChainInv, Stored
      <3>2. S \intersect T \in SUBSET Stored /\ \A i \in S \intersect T : ReplacementsOf(i) \subseteq S \intersect T
        BY <2>0, <3>1 DEF Closed
      <3>3. S \intersect T # {}
        BY <2>0, <2>1, <3>1 DEF Retires
      <3>4. PICK i \in S \intersect T : punches[i].status # "corrected"
        BY <3>2, <3>3 DEF ChainInv, ChainsEndLive
      <3>. QED
        BY <1>1, <2>0, <3>1, <3>4 DEF Stored
    <2>2. CASE n \notin S
      <3>1. PICK i \in S : punches[i].status # "corrected"
        BY <2>0 DEF ChainInv, ChainsEndLive
      <3>. QED
        BY <1>1, <2>0, <2>2, <3>1 DEF Stored
    <2>. QED
      BY <2>1, <2>2
  <1>. QED
    BY <1>5, <1>6, <1>7 DEF ChainInv, ChainsEndLive

LEMMA ChainInvHolds == Spec => []ChainInv
  <1>1. Init => ChainInv
    <2>. SUFFICES ASSUME Init
                  PROVE  ChainInv
      OBVIOUS
    <2>1. Stored = {}
      BY DEF Init, Stored
    <2>2. ChainsEndLive
      BY <2>1 DEF ChainsEndLive
    <2>. QED
      BY <2>1, <2>2 DEF ChainInv
  <1>2. LedgerInv /\ ChainInv /\ [Next]_vars => ChainInv'
    <2>. SUFFICES ASSUME LedgerInv, ChainInv, [Next]_vars
                  PROVE  ChainInv'
      OBVIOUS
    <2>1. CASE punches' = punches
      BY <2>1 DEF ChainInv, ChainsEndLive, Closed, Stored, ReplacementsOf
    <2>. QED
      BY <2>1, StoreSteps, AddKeepsChains, RetireKeepsChains
  <1>. QED
    BY <1>1, <1>2, LedgerInvariant, PTL DEF Spec

(* Time worked is never lost: whatever corrections race, fail half way or     *)
(* crash, following the corrections of a punch ends at one that is live       *)
(* (correctPunch stores the replacement first).                               *)
THEOREM ChainsStayLive == Spec => []ChainsEndLive
  <1>1. ChainInv => ChainsEndLive
    BY DEF ChainInv
  <1>. QED
    BY <1>1, ChainInvHolds, PTL

-----------------------------------------------------------------------------
(* The history of a punch. *)

\* The punch that i corrects.
Original(i) == punches[i].correctionOfPunchId

(* Every punch goes back to what was submitted: following                     *)
(* correctionOfPunchId from any punch one meets a punch that corrects         *)
(* nothing, because no set of corrections holds the originals of all its      *)
(* members; and on the way client and employee stay the same (correctPunch    *)
(* spreads the original).                                                     *)
HistoriesBeginSubmitted ==
    /\ \A i \in Stored : Original(i) # NoPunch =>
          /\ Original(i) \in Stored
          /\ punches[Original(i)].clientId = punches[i].clientId
          /\ punches[Original(i)].employeeId = punches[i].employeeId
    /\ \A S \in (SUBSET Stored) \ {{}} :
          (\A i \in S : Original(i) \in S \union {NoPunch}) => \E i \in S : Original(i) = NoPunch

LEMMA AddKeepsHistories ==
    ASSUME LedgerInv, HistoriesBeginSubmitted, NEW n \in PunchIds, NEW d \in PunchDoc, Adds(n, d)
    PROVE  HistoriesBeginSubmitted'
  <1>1. /\ punches'[n] = d /\ punches[n] = NoPunch /\ d # NoPunch
        /\ \A j \in PunchIds \ {n} : punches'[j] = punches[j]
    BY PunchAssumption DEF LedgerInv, TypeOK, Adds
  <1>2. Stored' = Stored \union {n} /\ n \notin Stored
    BY <1>1 DEF Stored
  <1>3. \A i \in Stored : Original(i)' = Original(i) /\ punches'[i] = punches[i]
    BY <1>1 DEF Original, Stored
  <1>4. Original(n)' # NoPunch =>
            /\ Original(n)' \in Stored
            /\ punches'[Original(n)'].clientId = punches'[n].clientId
            /\ punches'[Original(n)'].employeeId = punches'[n].employeeId
    BY <1>1 DEF Adds, Original, Stored
  <1>5. ASSUME NEW i \in Stored', Original(i)' # NoPunch
        PROVE  /\ Original(i)' \in Stored'
               /\ punches'[Original(i)'].clientId = punches'[i].clientId
               /\ punches'[Original(i)'].employeeId = punches'[i].employeeId
    <2>1. CASE i = n
      BY <1>2, <1>4, <1>5, <2>1
    <2>2. CASE i # n
      <3>1. i \in Stored /\ Original(i) # NoPunch
        BY <1>2, <1>3, <1>5, <2>2
      <3>. QED
        BY <1>2, <1>3, <3>1 DEF HistoriesBeginSubmitted
    <2>. QED
      BY <2>1, <2>2
  <1>6. ASSUME NEW S \in (SUBSET Stored') \ {{}}, \A i \in S : Original(i)' \in S \union {NoPunch},
               \A i \in S : Original(i)' # NoPunch
        PROVE  FALSE
    <2>. DEFINE T == S \ {n}
    <2>1. \A i \in T : i \in Stored /\ Original(i) \in T /\ Original(i) # NoPunch
      <3>. SUFFICES ASSUME NEW i \in T
                    PROVE  i \in Stored /\ Original(i) \in T /\ Original(i) # NoPunch
        OBVIOUS
      <3>1. i \in Stored /\ Original(i) \in S /\ Original(i) # NoPunch
        BY <1>2, <1>3, <1>6
      <3>2. Original(i) # n
        BY <1>2, <3>1 DEF HistoriesBeginSubmitted
      <3>. QED
        BY <3>1, <3>2
    <2>2. T # {}
      BY <1>2, <1>4, <1>6
    <2>. QED
      BY <2>1, <2>2 DEF HistoriesBeginSubmitted
  <1>. QED
    BY <1>5, <1>6 DEF HistoriesBeginSubmitted

LEMMA RetireKeepsHistories ==
    ASSUME LedgerInv, HistoriesBeginSubmitted, NEW n \in PunchIds, Retires(n)
    PROVE  HistoriesBeginSubmitted'
  <1>1. /\ \A j \in PunchIds \ {n} : punches'[j] = punches[j]
        /\ punches[n] # NoPunch
        /\ punches[n] \in PunchDoc /\ punches'[n] = [punches[n] EXCEPT !.status = "corrected"]
    BY DEF LedgerInv, TypeOK, Retires
  <1>2. /\ punches'[n] # NoPunch
        /\ Original(n)' = Original(n)
        /\ punches'[n].clientId = punches[n].clientId
        /\ punches'[n].employeeId = punches[n].employeeId
    BY <1>1, RetireKeeps DEF Original, PunchDoc
  <1>3. Stored' = Stored
    BY <1>1, <1>2 DEF Stored
  <1>4. \A i \in Stored : /\ Original(i)' = Original(i)
                          /\ punches'[i].clientId = punches[i].clientId
                          /\ punches'[i].employeeId = punches[i].employeeId
    BY <1>1, <1>2 DEF Original, Stored
  <1>. QED
    BY <1>3, <1>4 DEF HistoriesBeginSubmitted

(* Whatever corrections race or fail half way, the history of every punch     *)
(* leads back to one that was submitted, of the same client and employee.     *)
THEOREM HistoriesAreSound == Spec => []HistoriesBeginSubmitted
  <1>1. Init => HistoriesBeginSubmitted
    BY DEF Init, HistoriesBeginSubmitted, Stored
  <1>2. LedgerInv /\ HistoriesBeginSubmitted /\ [Next]_vars => HistoriesBeginSubmitted'
    <2>. SUFFICES ASSUME LedgerInv, HistoriesBeginSubmitted, [Next]_vars
                  PROVE  HistoriesBeginSubmitted'
      OBVIOUS
    <2>1. CASE punches' = punches
      BY <2>1 DEF HistoriesBeginSubmitted, Stored, Original
    <2>. QED
      BY <2>1, StoreSteps, AddKeepsHistories, RetireKeepsHistories
  <1>. QED
    BY <1>1, <1>2, LedgerInvariant, PTL DEF Spec

-----------------------------------------------------------------------------
(* Who writes corrections. *)

\* The punch that a correction is about belongs to a client of its caller.
CorrectionInScope(w) ==
    req[w].pc \in {"load", "site", "replace", "flip"} =>
        SameClient(req[w].caller, punches[req[w].id].clientId)

(* A correction stays with the client its caller was let in for: whoever adds *)
(* a replacement or retires a punch may act for the client of that punch,     *)
(* although correctPunch finds the punch again by its id, after the check.    *)
CorrectionsStayInScope ==
    [][ \A i \in PunchIds :
          \/ punches[i] = NoPunch /\ punches'[i] # NoPunch /\ punches'[i].correctionOfPunchId # NoPunch
          \/ punches[i] # NoPunch /\ punches'[i] # punches[i]
          => \E w \in Requests :
                /\ req[w].pc \in {"replace", "flip"} /\ req'[w] # req[w]
                /\ SameClient(req[w].caller, punches'[i].clientId) ]_vars

LEMMA CorrectionScopeKept ==
    ASSUME LedgerInv, LedgerInv', [Next]_vars, NEW v \in Requests, CorrectionInScope(v)
    PROVE  CorrectionInScope(v)'
  <1>1. Keeps
    BY StepsKeep
  <1>2. req[v].pc \in {"load", "site", "replace", "flip"} =>
            req[v].id \in PunchIds /\ punches'[req[v].id].clientId = punches[req[v].id].clientId
    BY <1>1, RequestKind DEF LedgerInv, LoadedIsStored, CorrectRequest, Keeps
  <1>3. CASE req'[v] = req[v]
    BY <1>2, <1>3 DEF CorrectionInScope, SameClient
  <1>4. CASE req'[v] = Idle \/ ItemContinues(v) \/ ItemDone(v)
    BY <1>4 DEF CorrectionInScope, Idle, ItemContinues, ItemDone
  <1>5. CASE CorrectContinues(v)
    BY <1>2, <1>5 DEF CorrectionInScope, CorrectContinues, SameClient
  <1>6. ASSUME NEW p, NEW batch, Begin(v, p, batch)
        PROVE  CorrectionInScope(v)'
    BY <1>6 DEF Begin, LedgerInv, TypeOK, CorrectionInScope
  <1>7. CASE BeginCorrect(v)
    BY <1>7 DEF BeginCorrect, LedgerInv, TypeOK, CorrectionInScope, SameClient
  <1>. QED
    BY <1>3, <1>4, <1>5, <1>6, <1>7, RequestLife DEF Accepts, BeginCreate, BeginBulk

\* What the last two calls of a correction do to its request.
LEMMA CorrectorMoves ==
    ASSUME LedgerInv, LedgerInv', NEW w \in Requests, CreateReplacement(w) \/ FlipOriginal(w)
    PROVE  req[w].pc \in {"replace", "flip"} /\ req'[w] # req[w]
  <1>1. req[w].pc \in {"replace", "flip"} /\ req[w] # Idle
    BY DEF CreateReplacement, FlipOriginal, Idle
  <1>2. req'[w] = Idle \/ CorrectContinues(w) \/ ItemContinues(w) \/ ItemDone(w)
    BY WorksMoves DEF Works, Moves
  <1>3. ~ItemContinues(w) /\ ~ItemDone(w)
    BY <1>1 DEF ItemContinues, ItemDone, CreateRequest
  <1>. QED
    BY <1>1, <1>2, <1>3 DEF CorrectContinues

\* Only three actions touch the collection.
LEMMA OnlyWrites ==
    ASSUME [Next]_vars, \A w \in Requests : ~(InsertPunch(w) \/ CreateReplacement(w) \/ FlipOriginal(w))
    PROVE  punches' = punches
    BY DEF Next, vars, BeginCreate, BeginBulk, Begin, Lookup, DecideLookup, Respond,
           BeginCorrect, LoadOriginal, CheckSite, CallFails, Crash, Learn, Rename

LEMMA WriteInScope ==
    ASSUME LedgerInv, LedgerInv', [Next]_vars, \A w \in Requests : CorrectionInScope(w), NEW i \in PunchIds,
           \/ punches[i] = NoPunch /\ punches'[i] # NoPunch /\ punches'[i].correctionOfPunchId # NoPunch
           \/ punches[i] # NoPunch /\ punches'[i] # punches[i]
    PROVE  \E w \in Requests :
              /\ req[w].pc \in {"replace", "flip"} /\ req'[w] # req[w]
              /\ SameClient(req[w].caller, punches'[i].clientId)
  <1>0. punches \in [PunchIds -> PunchDoc \union {NoPunch}]
    BY DEF LedgerInv, TypeOK
  <1>1. ASSUME NEW w \in Requests, InsertPunch(w)
        PROVE  FALSE
    <2>1. PICK n \in PunchIds : Adds(n, NewPunch(Current(w)))
      BY <1>1, InsertAdds
    <2>2. NewPunch(Current(w)).correctionOfPunchId = NoPunch
      BY DEF NewPunch
    <2>. HIDE DEF NewPunch
    <2>. QED
      BY <1>0, <2>1, <2>2 DEF Adds
  <1>2. ASSUME NEW w \in Requests, CreateReplacement(w)
        PROVE  SameClient(req[w].caller, punches'[i].clientId)
    <2>. DEFINE d == Replacement(req[w].id, req[w].snap, req[w].patch)
    <2>1. PICK n \in PunchIds : Adds(n, d) /\ d.correctionOfPunchId = req[w].id /\ req[w].id \in PunchIds
      BY <1>2, ReplacementAdds
    <2>. HIDE DEF d
    <2>2. i = n /\ punches'[i] = d
      BY <1>0, <2>1 DEF Adds
    <2>3. d.clientId = punches[req[w].id].clientId
      BY <2>1, PunchAssumption DEF Adds
    <2>. QED
      BY <1>2, <2>2, <2>3 DEF CorrectionInScope, CreateReplacement
  <1>3. ASSUME NEW w \in Requests, FlipOriginal(w)
        PROVE  SameClient(req[w].caller, punches'[i].clientId)
    <2>1. req[w].id \in PunchIds /\ Retires(req[w].id)
      BY <1>3, FlipRetires
    <2>2. i = req[w].id
      BY <1>0, <2>1 DEF Retires
    <2>3. punches'[i].clientId = punches[i].clientId
      BY <2>1, <2>2, StepsKeep DEF Keeps, Retires
    <2>. QED
      BY <1>3, <2>2, <2>3 DEF CorrectionInScope, FlipOriginal
  <1>4. PICK w \in Requests : CreateReplacement(w) \/ FlipOriginal(w)
    BY <1>1, OnlyWrites
  <1>. QED
    BY <1>2, <1>3, <1>4, CorrectorMoves

(* Every correction that is written is one its caller may write (getPunch and *)
(* assertSameClient in the controller, findOne by id in the service).         *)
THEOREM CorrectionsAreScoped == Spec => CorrectionsStayInScope
  <1>. DEFINE AllInScope == \A w \in Requests : CorrectionInScope(w)
  <1>1. Init => AllInScope
    BY DEF Init, CorrectionInScope, Idle
  <1>2. LedgerInv /\ LedgerInv' /\ AllInScope /\ [Next]_vars => AllInScope'
    BY CorrectionScopeKept
  <1>3. LedgerInv /\ LedgerInv' /\ AllInScope /\ [Next]_vars =>
          [ \A i \in PunchIds :
              \/ punches[i] = NoPunch /\ punches'[i] # NoPunch /\ punches'[i].correctionOfPunchId # NoPunch
              \/ punches[i] # NoPunch /\ punches'[i] # punches[i]
              => \E w \in Requests :
                    /\ req[w].pc \in {"replace", "flip"} /\ req'[w] # req[w]
                    /\ SameClient(req[w].caller, punches'[i].clientId) ]_vars
    BY WriteInScope
  <1>. QED
    BY <1>1, <1>2, <1>3, LedgerInvariant, PTL DEF Spec, CorrectionsStayInScope

-----------------------------------------------------------------------------
(* How a correction is left half done. *)

\* CorrectionFlipsOriginal at one punch.
Settled(i) ==
    i \in Stored /\ ReplacementsOf(i) # {} /\ (\A w \in Requests : req[w].pc = "flip" => req[w].id # i)
        => punches[i].status = "corrected"

\* A correction ends at one of its two writes without having retired its original.
CutShort(w) ==
    /\ req[w].pc \in {"replace", "flip"}
    /\ req'[w] = Idle
    /\ punches'[req[w].id].status # "corrected"

(* A punch stays live beside its replacement only when its correction was cut *)
(* short at one of the two writes: by a crash, a failed call or a lost        *)
(* acknowledgement (correctPunch creates the replacement, then saves the      *)
(* original).  Racing corrections alone never leave one.                      *)
HalfDoneIsCutShort ==
    [][ \A i \in PunchIds : Settled(i) /\ ~Settled(i)' =>
          \E w \in Requests : req[w].id = i /\ CutShort(w) ]_vars

LEMMA SettledStays ==
    ASSUME LedgerInv, LedgerInv', ChainInv, [Next]_vars, NEW i \in PunchIds, Settled(i), ~Settled(i)'
    PROVE  \E w \in Requests : req[w].id = i /\ CutShort(w)
  <1>0. punches \in [PunchIds -> PunchDoc \union {NoPunch}] /\ Keeps
    BY StepsKeep DEF LedgerInv, TypeOK
  <1>1. /\ ReplacementsOf(i)' # {} /\ punches'[i].status # "corrected"
        /\ \A w \in Requests : req'[w].pc = "flip" => req'[w].id # i
    BY DEF Settled
  <1>2. CASE ReplacementsOf(i) = {}
    <2>1. ASSUME NEW n \in PunchIds, NEW d, Adds(n, d), d.correctionOfPunchId # i
          PROVE  FALSE
      <3>1. \A q \in PunchIds : punches'[q] = punches[q] \/ punches'[q] = d
        BY <1>0, <2>1 DEF Adds
      <3>. QED
        BY <1>1, <1>2, <2>1, <3>1 DEF ReplacementsOf, Stored
    <2>2. ASSUME NEW w \in Requests, InsertPunch(w)
          PROVE  FALSE
      <3>1. PICK n \in PunchIds : Adds(n, NewPunch(Current(w)))
        BY <2>2, InsertAdds
      <3>2. NewPunch(Current(w)).correctionOfPunchId # i
        BY PunchAssumption DEF NewPunch
      <3>. QED
        BY <2>1, <3>1, <3>2
    <2>3. ASSUME NEW w \in Requests, FlipOriginal(w)
          PROVE  FALSE
      <3>1. req[w].id \in PunchIds /\ Retires(req[w].id)
        BY <2>3, FlipRetires
      <3>2. \A q \in PunchIds : q # req[w].id => punches'[q] = punches[q]
        BY <1>0, <3>1 DEF Retires
      <3>3. punches'[req[w].id].correctionOfPunchId = punches[req[w].id].correctionOfPunchId
        BY <1>0, <3>1 DEF Keeps, Retires
      <3>. QED
        BY <1>1, <1>2, <3>1, <3>2, <3>3 DEF ReplacementsOf, Stored, Retires
    <2>4. PICK w \in Requests : CreateReplacement(w)
      <3>1. punches' # punches
        BY <1>1, <1>2 DEF ReplacementsOf, Stored
      <3>. QED
        BY <2>2, <2>3, <3>1, OnlyWrites
    <2>5. req[w].id = i
      <3>. DEFINE d == Replacement(req[w].id, req[w].snap, req[w].patch)
      <3>1. PICK n \in PunchIds : Adds(n, d) /\ d.correctionOfPunchId = req[w].id
        BY <2>4, ReplacementAdds
      <3>. HIDE DEF d
      <3>. QED
        BY <2>1, <3>1
    <2>6. req[w].pc = "replace" /\ req[w] \in CorrectRequest
      BY <2>4, RequestKind DEF CreateReplacement, LedgerInv
    <2>7. req'[w] = Idle
      <3>1. CASE req' = [req EXCEPT ![w].pc = "flip"]
        <4>1. req'[w].pc = "flip" /\ req'[w].id = i
          BY <2>5, <2>6, <3>1 DEF LedgerInv, TypeOK, CorrectRequest
        <4>. QED
          BY <1>1, <4>1
      <3>2. CASE End(w)
        BY <3>2 DEF End, LedgerInv, TypeOK
      <3>. QED
        BY <2>4, <3>1, <3>2 DEF CreateReplacement
    <2>. QED
      BY <1>1, <2>5, <2>6, <2>7 DEF CutShort
  <1>3. ASSUME NEW w \in Requests, req[w].pc = "flip", req[w].id = i
        PROVE  req[w].id = i /\ CutShort(w)
    <2>1. req'[w] # req[w] /\ req[w] # Idle
      BY <1>1, <1>3 DEF Idle
    <2>2. ~CorrectContinues(w) /\ ~ItemContinues(w) /\ ~ItemDone(w)
      BY <1>3 DEF CorrectContinues, ItemContinues, ItemDone, CreateRequest
    <2>3. req'[w] = Idle
      BY <2>1, <2>2, RequestLife
    <2>. QED
      BY <1>1, <1>3, <2>3 DEF CutShort
  <1>4. CASE ReplacementsOf(i) # {} /\ \A w \in Requests : req[w].pc = "flip" => req[w].id # i
    <2>1. i \in Stored
      BY <1>4, PunchAssumption DEF ChainInv, ReplacementsOf
    <2>2. punches[i].status = "corrected" /\ punches[i] # NoPunch
      BY <1>4, <2>1 DEF Settled, Stored
    <2>3. punches'[i].status = "corrected"
      <3>1. ASSUME NEW n \in PunchIds, NEW d, Adds(n, d)
            PROVE  punches'[i].status = "corrected"
        BY <1>0, <2>2, <3>1 DEF Adds
      <3>2. ASSUME NEW n \in PunchIds, Retires(n)
            PROVE  punches'[i].status = "corrected"
        <4>1. CASE n = i
          BY <3>2, <4>1, RetireKeeps
        <4>2. CASE n # i
          BY <1>0, <2>2, <3>2, <4>2 DEF Retires
        <4>. QED
          BY <4>1, <4>2
      <3>. QED
        BY <2>2, <3>1, <3>2, StoreSteps
    <2>. QED
      BY <1>1, <2>3
  <1>. QED
    BY <1>2, <1>3, <1>4

(* However corrections race, a punch beside its replacement stays live only   *)
(* through a failure between the two writes.                                  *)
THEOREM HalfDoneOnlyCutShort == Spec => HalfDoneIsCutShort
  <1>1. LedgerInv /\ LedgerInv' /\ ChainInv /\ [Next]_vars =>
          [ \A i \in PunchIds : Settled(i) /\ ~Settled(i)' =>
              \E w \in Requests : req[w].id = i /\ CutShort(w) ]_vars
    BY SettledStays
  <1>. QED
    BY <1>1, LedgerInvariant, ChainInvHolds, PTL DEF Spec, HalfDoneIsCutShort

\* Executions in which no correction is cut short; everything else may still fail or crash.
UncutSpec == Init /\ [][Next /\ \A w \in Requests : ~CutShort(w)]_vars

(* As long as no correction is cut short at its writes, every punch with a    *)
(* replacement is retired once its correction is over, however corrections of *)
(* the same punch race ("flips the original to status "corrected"",           *)
(* correctPunch).                                                             *)
THEOREM UncutCorrectionsFlip == UncutSpec => []CorrectionFlipsOriginal
  <1>. DEFINE AllSettled == \A i \in PunchIds : Settled(i)
  <1>1. UncutSpec => Spec
    <2>1. [Next /\ \A w \in Requests : ~CutShort(w)]_vars => [Next]_vars
      OBVIOUS
    <2>. QED
      BY <2>1, PTL DEF UncutSpec, Spec
  <1>2. Init => AllSettled
    BY DEF Init, Settled, Stored
  <1>3. LedgerInv /\ LedgerInv' /\ ChainInv /\ AllSettled
            /\ [Next /\ \A w \in Requests : ~CutShort(w)]_vars => AllSettled'
    <2>. SUFFICES ASSUME LedgerInv, LedgerInv', ChainInv, AllSettled, NEW i \in PunchIds,
                         [Next /\ \A w \in Requests : ~CutShort(w)]_vars
                  PROVE  Settled(i)'
      OBVIOUS
    <2>1. CASE UNCHANGED vars
      BY <2>1 DEF vars, Settled, Stored, ReplacementsOf
    <2>2. CASE Next /\ \A w \in Requests : ~CutShort(w)
      BY <2>2, SettledStays
    <2>. QED
      BY <2>1, <2>2
  <1>4. AllSettled => CorrectionFlipsOriginal
    BY DEF Settled, CorrectionFlipsOriginal, Stored
  <1>. QED
    BY <1>1, <1>2, <1>3, <1>4, LedgerInvariant, ChainInvHolds, PTL DEF UncutSpec

-----------------------------------------------------------------------------
(* The times of a correction. *)

\* A correction that is about to store its replacement has checked the merged times.
TimesChecked(w) ==
    req[w].pc = "replace" =>
        LET n == Replacement(req[w].id, req[w].snap, req[w].patch)
        IN  OutAfterIn(n.clockIn, n.clockOut)

SpanInv == CorrectionsSpanTime /\ \A w \in Requests : TimesChecked(w)

\* Only the two steps that end in AfterSiteCheck bring a request to its insert.
LEMMA OnlyCheckedReplace ==
    ASSUME LedgerInv, [Next]_vars, NEW v \in Requests, TimesChecked(v)
    PROVE  TimesChecked(v)'
  <1>0. TypeOK /\ req \in [Requests -> {Idle} \union CreateRequest \union CorrectRequest]
    BY DEF LedgerInv, TypeOK
  <1>1. CASE req'[v] = req[v]
    BY <1>1 DEF TimesChecked
  <1>2. CASE req'[v].pc # "replace"
    BY <1>2 DEF TimesChecked
  <1>3. ASSUME NEW d, d \in PunchDoc, req[v] \in CorrectRequest, AfterSiteCheck(v, d, req[v].patch)
        PROVE  TimesChecked(v)'
    <2>. DEFINE n == Replacement(req[v].id, d, req[v].patch)
    <2>1. CASE OutAfterIn(n.clockIn, n.clockOut)
      <3>1. req' = [req EXCEPT ![v].pc = "replace", ![v].snap = d]
        BY <1>3, <2>1 DEF AfterSiteCheck
      <3>2. req'[v].id = req[v].id /\ req'[v].patch = req[v].patch /\ req'[v].snap = d
        BY <1>0, <1>3, <3>1 DEF CorrectRequest
      <3>. QED
        BY <2>1, <3>2 DEF TimesChecked
    <2>2. CASE ~OutAfterIn(n.clockIn, n.clockOut)
      <3>1. End(v)
        BY <1>3, <2>2 DEF AfterSiteCheck
      <3>. QED
        BY <1>0, <1>2, <3>1 DEF End, Idle
    <2>. QED
      BY <2>1, <2>2
  <1>4. CASE LoadOriginal(v) \/ CheckSite(v)
    <2>0. /\ req[v] \in CorrectRequest /\ LoadedIsStored(v)
          /\ req[v].pc \in {"load", "site"}
      BY <1>0, <1>4, RequestKind DEF LoadOriginal, CheckSite, LedgerInv
    <2>1. CASE LoadOriginal(v)
      <3>1. punches[req[v].id] \in PunchDoc
        BY <1>0, <2>0, <2>1 DEF LoadOriginal, LoadedIsStored, TypeOK, CorrectRequest
      <3>2. CASE req[v].patch.siteId = Absent
        BY <1>3, <2>0, <2>1, <3>1, <3>2 DEF LoadOriginal
      <3>3. CASE req[v].patch.siteId # Absent
        <4>1. req' = [req EXCEPT ![v].pc = "site", ![v].snap = punches[req[v].id]]
          BY <2>1, <3>3 DEF LoadOriginal
        <4>. QED
          BY <1>0, <1>2, <2>0, <4>1 DEF CorrectRequest
      <3>. QED
        BY <3>2, <3>3
    <2>2. CASE CheckSite(v)
      <3>1. req[v].snap \in PunchDoc
        BY <2>0, <2>2 DEF CheckSite, LoadedIsStored, CorrectRequest
      <3>2. CASE AfterSiteCheck(v, req[v].snap, req[v].patch)
        BY <1>3, <2>0, <3>1, <3>2
      <3>3. CASE End(v)
        BY <1>0, <1>2, <3>3 DEF End, Idle
      <3>. QED
        BY <2>2, <3>2, <3>3 DEF CheckSite
    <2>. QED
      BY <1>4, <2>1, <2>2
  <1>5. ASSUME NEW w \in Requests, End(w)
        PROVE  TimesChecked(v)'
    BY <1>0, <1>1, <1>2, <1>5 DEF End, Idle
  <1>6. ASSUME NEW w \in Requests, NEW a, NEW r, NextItem(w, a, r), req[w].pc \in {"lookup", "insert"}
        PROVE  TimesChecked(v)'
    <2>1. CASE w = v
      <3>1. req[v] \in CreateRequest
        BY <1>0, <1>6, <2>1, RequestKind
      <3>2. req'[v].pc \in {"respond", "lookup"}
        BY <1>0, <1>6, <2>1, <3>1 DEF NextItem, CreateRequest
      <3>. QED
        BY <1>2, <3>2
    <2>2. CASE w # v
      BY <1>0, <1>1, <1>6, <2>2 DEF NextItem
    <2>. QED
      BY <2>1, <2>2
  <1>7. ASSUME NEW w \in Requests, Reject(w), req[w].pc \in {"lookup", "insert"}
        PROVE  TimesChecked(v)'
    BY <1>6, <1>7 DEF Reject
  <1>8. ASSUME NEW w \in Requests, w # v, LoadOriginal(w) \/ CheckSite(w)
        PROVE  TimesChecked(v)'
    BY <1>0, <1>1, <1>8 DEF LoadOriginal, CheckSite, AfterSiteCheck, End
  <1>9. ASSUME NEW w \in Requests, BeginCreate(w) \/ BeginBulk(w) \/ BeginCorrect(w) \/ Lookup(w)
        PROVE  TimesChecked(v)'
    <2>1. CASE w = v
      <3>1. req'[v].pc \in {"lookup", "load"}
        <4>1. CASE BeginCreate(v) \/ BeginBulk(v)
          <5>1. PICK p, batch : Begin(v, p, batch)
            BY <4>1 DEF BeginCreate, BeginBulk
          <5>. QED
            BY <1>0, <5>1 DEF Begin
        <4>2. CASE BeginCorrect(v)
          BY <1>0, <4>2 DEF BeginCorrect
        <4>3. CASE Lookup(v)
          <5>1. req[v] \in CreateRequest
            BY <1>0, <4>3, RequestKind DEF Lookup
          <5>. QED
            BY <1>0, <4>3, <5>1 DEF Lookup, CreateRequest
        <4>. QED
          BY <1>9, <2>1, <4>1, <4>2, <4>3
      <3>. QED
        BY <1>2, <3>1
    <2>2. CASE w # v
      BY <1>0, <1>1, <1>9, <2>2 DEF BeginCreate, BeginBulk, Begin, BeginCorrect, Lookup
    <2>. QED
      BY <2>1, <2>2
  <1>10. ASSUME NEW w \in Requests, DecideLookup(w) \/ InsertPunch(w)
         PROVE  TimesChecked(v)'
    <2>1. req[w].pc \in {"lookup", "insert"} /\ req[w] \in CreateRequest
      BY <1>0, <1>10, RequestKind DEF DecideLookup, InsertPunch
    <2>2. CASE req' = [req EXCEPT ![w].pc = "insert"]
      BY <1>0, <1>1, <1>2, <2>1, <2>2 DEF CreateRequest
    <2>3. CASE Reject(w) \/ \E a : NextItem(w, a, {})
      BY <1>6, <1>7, <2>1, <2>3
    <2>. QED
      BY <1>10, <2>2, <2>3 DEF DecideLookup, InsertPunch
  <1>11. ASSUME NEW w \in Requests, CreateReplacement(w)
         PROVE  TimesChecked(v)'
    <2>1. req[w] \in CorrectRequest
      BY <1>0, <1>11, RequestKind DEF CreateReplacement
    <2>2. CASE req' = [req EXCEPT ![w].pc = "flip"]
      BY <1>0, <1>1, <1>2, <2>1, <2>2 DEF CorrectRequest
    <2>. QED
      BY <1>5, <1>11, <2>2 DEF CreateReplacement
  <1>12. ASSUME NEW w \in Requests, Respond(w) \/ FlipOriginal(w) \/ CallFails(w)
         PROVE  TimesChecked(v)'
    BY <1>5, <1>7, <1>12 DEF Respond, FlipOriginal, CallFails
  <1>13. CASE Crash
    BY <1>2, <1>13 DEF Crash, Idle
  <1>14. CASE UNCHANGED req
    BY <1>1, <1>14
  <1>. QED
    BY <1>4, <1>8, <1>9, <1>10, <1>11, <1>12, <1>13, <1>14 DEF Next, vars, Learn, Rename

LEMMA SpansKept ==
    ASSUME LedgerInv, SpanInv, [Next]_vars
    PROVE  CorrectionsSpanTime'
  <1>0. punches \in [PunchIds -> PunchDoc \union {NoPunch}]
    BY DEF LedgerInv, TypeOK
  <1>1. ASSUME NEW i \in PunchIds, NEW d, punches' = [punches EXCEPT ![i] = d],
               d.correctionOfPunchId # NoPunch => OutAfterIn(d.clockIn, d.clockOut)
        PROVE  CorrectionsSpanTime'
    BY <1>0, <1>1 DEF SpanInv, CorrectionsSpanTime, Stored
  <1>2. ASSUME NEW w \in Requests, InsertPunch(w)
        PROVE  CorrectionsSpanTime'
    BY <1>1, <1>2, CurrentType, NewPunchType DEF LedgerInv, InsertPunch
  <1>3. ASSUME NEW w \in Requests, CreateReplacement(w)
        PROVE  CorrectionsSpanTime'
    BY <1>1, <1>3 DEF SpanInv, TimesChecked, CreateReplacement
  <1>4. ASSUME NEW w \in Requests, FlipOriginal(w)
        PROVE  CorrectionsSpanTime'
    <2>1. req[w].id \in PunchIds /\ Retires(req[w].id)
      BY <1>4, FlipRetires
    <2>. DEFINE n == req[w].id
    <2>2. \A j \in PunchIds \ {n} : punches'[j] = punches[j]
      BY <1>0, <2>1 DEF Retires
    <2>3. /\ punches[n] # NoPunch /\ punches'[n].correctionOfPunchId = punches[n].correctionOfPunchId
          /\ punches'[n].clockIn = punches[n].clockIn /\ punches'[n].clockOut = punches[n].clockOut
      BY <2>1, RetireKeeps DEF Retires
    <2>. QED
      BY <2>1, <2>2, <2>3 DEF SpanInv, CorrectionsSpanTime, Stored
  <1>5. CASE punches' = punches
    BY <1>5 DEF SpanInv, CorrectionsSpanTime, Stored
  <1>6. CASE \A w \in Requests : ~(InsertPunch(w) \/ CreateReplacement(w) \/ FlipOriginal(w))
    BY <1>5, <1>6 DEF Next, vars, BeginCreate, BeginBulk, Begin, Lookup, DecideLookup, Respond,
                BeginCorrect, LoadOriginal, CheckSite, CallFails, Crash, Learn, Rename
  <1>. QED
    BY <1>2, <1>3, <1>4, <1>6

(* No correction, whichever of the two times its body gives and whatever      *)
(* races with it, stores a closed punch that spans no time (correctPunch      *)
(* checks the merged times).                                                  *)
THEOREM CorrectionsAreSpans == Spec => []CorrectionsSpanTime
  <1>1. Init => SpanInv
    BY DEF Init, SpanInv, TimesChecked, CorrectionsSpanTime, Stored, Idle
  <1>2. LedgerInv /\ SpanInv /\ [Next]_vars => SpanInv'
    BY OnlyCheckedReplace, SpansKept DEF SpanInv
  <1>3. SpanInv => CorrectionsSpanTime
    BY DEF SpanInv
  <1>. QED
    BY <1>1, <1>2, <1>3, LedgerInvariant, PTL DEF Spec

-----------------------------------------------------------------------------
(* What a submitted punch refers to. *)

\* What a request has found exists, or was renamed since; it inserts once it has found both.
RefsFound(w) ==
    req[w].pc \in {"lookup", "insert"} =>
        /\ \A ref : <<ref, TRUE>> \in req[w].answers => ref \in known \union lost[w]
        /\ req[w].pc = "insert" =>
              \A ref \in {EmployeeRef(Current(w)), SiteRef(Current(w))} : <<ref, TRUE>> \in req[w].answers

LEMMA LookupFinds ==
    ASSUME LedgerInv, NEW v \in Requests, RefsFound(v), Lookup(v)
    PROVE  RefsFound(v)'
  <1>1. req[v] \in CreateRequest /\ req[v].pc = "lookup" /\ TypeOK
    BY RequestKind DEF LedgerInv, Lookup
  <1>2. PICK ref : req' = [req EXCEPT ![v].answers = @ \union {<<ref, ref \in known>>}]
    BY DEF Lookup
  <1>3. /\ req'[v].answers = req[v].answers \union {<<ref, ref \in known>>}
        /\ req'[v].pc = "lookup" /\ known' = known /\ lost' = lost
    BY <1>1, <1>2 DEF Lookup, TypeOK, CreateRequest
  <1>4. ASSUME NEW q, <<q, TRUE>> \in req'[v].answers
        PROVE  q \in known \union lost[v]
    <2>1. CASE <<q, TRUE>> \in req[v].answers
      BY <1>1, <2>1 DEF RefsFound
    <2>2. CASE <<q, TRUE>> = <<ref, ref \in known>>
      <3>1. q = ref /\ (TRUE = (ref \in known))
        BY <2>2
      <3>. QED
        BY <3>1
    <2>. QED
      BY <1>3, <1>4, <2>1, <2>2
  <1>. QED
    BY <1>3, <1>4 DEF RefsFound

LEMMA DecidedRefsFound ==
    ASSUME LedgerInv, NEW v \in Requests, RefsFound(v), DecideLookup(v), ~Reject(v)
    PROVE  RefsFound(v)'
  <1>1. req[v] \in CreateRequest /\ req[v].pc = "lookup" /\ TypeOK
    BY RequestKind DEF LedgerInv, DecideLookup
  <1>2. /\ {a[1] : a \in req[v].answers} = {EmployeeRef(Current(v)), SiteRef(Current(v))}
        /\ \A a \in req[v].answers : a[2]
        /\ req' = [req EXCEPT ![v].pc = "insert"] /\ lost' = lost /\ known' = known
    BY DEF DecideLookup
  <1>3. /\ req'[v].answers = req[v].answers /\ req'[v].pc = "insert"
        /\ req'[v].batch = req[v].batch /\ req'[v].pos = req[v].pos
    BY <1>1, <1>2 DEF TypeOK, CreateRequest
  <1>4. ASSUME NEW ref \in {EmployeeRef(Current(v)), SiteRef(Current(v))}
        PROVE  <<ref, TRUE>> \in req[v].answers
    <2>1. PICK a \in req[v].answers : a[1] = ref
      BY <1>2
    <2>2. a \in Ref \X BOOLEAN
      BY <1>1 DEF CreateRequest
    <2>3. a = <<a[1], a[2]>> /\ a[2] \in BOOLEAN
      BY <2>2
    <2>4. a[2] = TRUE
      BY <1>2, <2>3
    <2>. QED
      BY <2>1, <2>3, <2>4
  <1>5. Current(v)' = Current(v)
    BY <1>3 DEF Current
  <1>. QED
    BY <1>1, <1>2, <1>3, <1>4, <1>5 DEF RefsFound, EmployeeRef, SiteRef

LEMMA RefsStep ==
    ASSUME LedgerInv, [Next]_vars, NEW v \in Requests, RefsFound(v)
    PROVE  RefsFound(v)'
  <1>0. TypeOK /\ req \in [Requests -> {Idle} \union CreateRequest \union CorrectRequest]
    BY DEF LedgerInv, TypeOK
  <1>1. ASSUME req'[v] = req[v], known \subseteq known', lost'[v] = lost[v]
        PROVE  RefsFound(v)'
    BY <1>1 DEF RefsFound, Current
  <1>2. ASSUME req'[v].pc \notin {"lookup", "insert"}
        PROVE  RefsFound(v)'
    BY <1>2 DEF RefsFound
  <1>3. ASSUME req'[v].pc = "lookup", req'[v].answers = {}
        PROVE  RefsFound(v)'
    BY <1>3 DEF RefsFound
  <1>4. ASSUME NEW w \in Requests, End(w), known' = known
        PROVE  RefsFound(v)'
    BY <1>0, <1>1, <1>2, <1>4 DEF End, Idle, TypeOK
  <1>5. ASSUME NEW w \in Requests, NEW acc, NEW rej, NextItem(w, acc, rej), known' = known,
               req[w].pc \in {"lookup", "insert"}
        PROVE  RefsFound(v)'
    <2>1. CASE w = v
      <3>1. req[v] \in CreateRequest
        BY <1>0, <1>5, <2>1, RequestKind
      <3>2. req'[v].pc \in {"lookup", "respond"} /\ req'[v].answers = {}
        BY <1>0, <1>5, <2>1, <3>1 DEF NextItem, CreateRequest
      <3>. QED
        BY <1>2, <1>3, <3>2
    <2>2. CASE w # v
      BY <1>0, <1>1, <1>5, <2>2 DEF NextItem, TypeOK
    <2>. QED
      BY <2>1, <2>2
  <1>6. ASSUME NEW w \in Requests, BeginCreate(w) \/ BeginBulk(w)
        PROVE  RefsFound(v)'
    <2>1. PICK p, batch : Begin(w, p, batch)
      BY <1>6 DEF BeginCreate, BeginBulk
    <2>. QED
      BY <1>0, <1>1, <1>3, <2>1 DEF Begin
  <1>7. ASSUME NEW w \in Requests, Lookup(w)
        PROVE  RefsFound(v)'
    <2>1. CASE w # v
      BY <1>0, <1>1, <1>7, <2>1 DEF Lookup
    <2>. QED
      BY <1>7, <2>1, LookupFinds
  <1>8. ASSUME NEW w \in Requests, DecideLookup(w)
        PROVE  RefsFound(v)'
    <2>1. CASE Reject(w)
      BY <1>5, <1>8, <2>1 DEF DecideLookup, Reject
    <2>2. CASE ~Reject(w) /\ w # v
      BY <1>0, <1>1, <1>8, <2>2 DEF DecideLookup
    <2>. QED
      BY <1>8, <2>1, <2>2, DecidedRefsFound
  <1>9. ASSUME NEW w \in Requests, InsertPunch(w)
        PROVE  RefsFound(v)'
    BY <1>5, <1>9 DEF InsertPunch, Reject
  <1>10. ASSUME NEW w \in Requests, BeginCorrect(w)
         PROVE  RefsFound(v)'
    <2>1. CASE w = v
      <3>1. req'[v].pc = "load"
        BY <1>0, <1>10, <2>1 DEF BeginCorrect
      <3>. QED
        BY <1>2, <3>1
    <2>2. CASE w # v
      BY <1>0, <1>1, <1>10, <2>2 DEF BeginCorrect
    <2>. QED
      BY <2>1, <2>2
  <1>11. ASSUME NEW w \in Requests, NEW pc \in {"site", "replace", "flip"},
                req[w] \in CorrectRequest, NEW snap,
                \/ req' = [req EXCEPT ![w].pc = pc, ![w].snap = snap]
                \/ req' = [req EXCEPT ![w].pc = pc],
                known' = known, lost' = lost
         PROVE  RefsFound(v)'
    <2>1. CASE w = v
      <3>1. req'[v].pc = pc
        BY <1>0, <1>11, <2>1 DEF CorrectRequest
      <3>. QED
        BY <1>2, <1>11, <3>1
    <2>2. CASE w # v
      BY <1>0, <1>1, <1>11, <2>2
    <2>. QED
      BY <2>1, <2>2
  <1>12. ASSUME NEW w \in Requests, LoadOriginal(w) \/ CheckSite(w)
         PROVE  RefsFound(v)'
    <2>1. req[w] \in CorrectRequest
      BY <1>0, <1>12, RequestKind DEF LoadOriginal, CheckSite
    <2>. QED
      BY <1>4, <1>11, <1>12, <2>1 DEF LoadOriginal, CheckSite, AfterSiteCheck
  <1>13. ASSUME NEW w \in Requests, CreateReplacement(w)
         PROVE  RefsFound(v)'
    <2>1. req[w] \in CorrectRequest
      BY <1>0, <1>13, RequestKind DEF CreateReplacement
    <2>. QED
      BY <1>4, <1>11, <1>13, <2>1 DEF CreateReplacement
  <1>14. ASSUME NEW w \in Requests, Respond(w) \/ FlipOriginal(w) \/ CallFails(w)
         PROVE  RefsFound(v)'
    BY <1>4, <1>5, <1>14 DEF Respond, FlipOriginal, CallFails, Reject
  <1>15. CASE Crash
    BY <1>2, <1>15 DEF Crash, Idle
  <1>16. ASSUME NEW ref \in Ref, Learn(ref)
         PROVE  RefsFound(v)'
    BY <1>1, <1>16 DEF Learn
  <1>17. ASSUME NEW ref \in Ref, Rename(ref)
         PROVE  RefsFound(v)'
    <2>1. req' = req /\ known' = known \ {ref} /\ Current(v)' = Current(v)
      BY <1>17 DEF Rename, Current
    <2>2. lost'[v] = IF req[v].pc \in {"lookup", "insert"} /\ <<ref, TRUE>> \in req[v].answers
                     THEN lost[v] \union {ref} ELSE lost[v]
      BY <1>17 DEF Rename
    <2>. QED
      BY <2>1, <2>2 DEF RefsFound, EmployeeRef, SiteRef
  <1>18. CASE UNCHANGED vars
    BY <1>1, <1>18 DEF vars
  <1>. QED
    BY <1>6, <1>7, <1>8, <1>9, <1>10, <1>12, <1>13, <1>14, <1>15, <1>16, <1>17, <1>18 DEF Next

LEMMA SubmittedIsInserted ==
    ASSUME LedgerInv, [Next]_vars, NEW i \in PunchIds, punches[i] = NoPunch,
           punches'[i] # NoPunch, punches'[i].correctionOfPunchId = NoPunch
    PROVE  \E w \in Requests : /\ req[w].pc = "insert" /\ req'[w] # req[w]
                               /\ EmployeeRef(punches'[i]) = EmployeeRef(Current(w))
                               /\ SiteRef(punches'[i]) = SiteRef(Current(w))
  <1>0. TypeOK
    BY DEF LedgerInv
  <1>1. ASSUME NEW w \in Requests, InsertPunch(w)
        PROVE  /\ req[w].pc = "insert" /\ req'[w] # req[w]
               /\ EmployeeRef(punches'[i]) = EmployeeRef(Current(w))
               /\ SiteRef(punches'[i]) = SiteRef(Current(w))
    <2>1. punches'[i] = NewPunch(Current(w)) /\ req[w].pc = "insert"
      BY <1>0, <1>1 DEF InsertPunch, TypeOK
    <2>2. req[w] \in CreateRequest
      BY <1>0, <2>1, RequestKind
    <2>3. req'[w].pc \in {"lookup", "respond"}
      BY <1>0, <1>1, <2>2 DEF InsertPunch, NextItem, Reject, TypeOK, CreateRequest
    <2>. QED
      BY <2>1, <2>3 DEF NewPunch, EmployeeRef, SiteRef
  <1>2. ASSUME NEW w \in Requests, CreateReplacement(w)
        PROVE  FALSE
    <2>1. PICK k \in PunchIds :
             /\ Adds(k, Replacement(req[w].id, req[w].snap, req[w].patch))
             /\ Replacement(req[w].id, req[w].snap, req[w].patch).correctionOfPunchId \in PunchIds
      BY <1>2, ReplacementAdds
    <2>. QED
      BY <1>0, <2>1, PunchAssumption DEF Adds, TypeOK
  <1>3. ASSUME NEW w \in Requests, FlipOriginal(w)
        PROVE  FALSE
    BY <1>0, <1>3, FlipRetires DEF Retires, TypeOK
  <1>4. PICK w \in Requests : InsertPunch(w) \/ CreateReplacement(w) \/ FlipOriginal(w)
    BY DEF Next, vars, BeginCreate, BeginBulk, Begin, Lookup, DecideLookup, Respond,
           BeginCorrect, LoadOriginal, CheckSite, CallFails, Crash, Learn, Rename
  <1>. QED
    BY <1>1, <1>2, <1>3, <1>4

(* Every submitted punch names an employee and a site its request has found,  *)
(* both of them, for that very item (assertEmployeeAndSiteExist), whatever    *)
(* order the two reads are answered in and whatever is renamed meanwhile.     *)
THEOREM SubmittedRefsExist == Spec => PunchNeedsKnownRefs
  <1>. DEFINE Found == \A w \in Requests : RefsFound(w)
  <1>1. Init => Found
    BY DEF Init, RefsFound, Idle
  <1>2. LedgerInv /\ Found /\ [Next]_vars => Found'
    BY RefsStep
  <1>3. LedgerInv /\ Found /\ [Next]_vars =>
          [ \A i \in PunchIds :
              punches[i] = NoPunch /\ punches'[i] # NoPunch /\ punches'[i].correctionOfPunchId = NoPunch =>
                \E w \in Requests :
                   /\ req[w].pc = "insert" /\ req'[w] # req[w]
                   /\ {EmployeeRef(punches'[i]), SiteRef(punches'[i])} \subseteq known \union lost[w] ]_vars
    BY SubmittedIsInserted DEF RefsFound
  <1>. HIDE DEF Found
  <1>. QED
    BY <1>1, <1>2, <1>3, LedgerInvariant, PTL DEF Spec, PunchNeedsKnownRefs

-----------------------------------------------------------------------------
(* Refinement. *)

LEMMA JournalStep ==
    ASSUME LedgerInv, [Next]_vars
    PROVE  [Journal!Next]_punches
  <1>0. punches \in [PunchIds -> PunchDoc \union {NoPunch}]
    BY DEF LedgerInv, TypeOK
  <1>1. ASSUME NEW i \in PunchIds, NEW d \in PunchDoc, Adds(i, d)
        PROVE  Journal!Next
    <2>1. punches'[i] = d /\ d # NoPunch /\ punches' = [punches EXCEPT ![i] = punches'[i]]
      BY <1>0, <1>1, PunchAssumption DEF Adds
    <2>. QED
      BY <1>1, <2>1 DEF Adds, Journal!Next, Journal!Add, Journal!Retired
  <1>2. ASSUME NEW i \in PunchIds, Retires(i)
        PROVE  Journal!Next
    <2>1. /\ punches'[i] = [punches[i] EXCEPT !.status = "corrected"]
          /\ punches' = [punches EXCEPT ![i] = punches'[i]]
      BY <1>0, <1>2 DEF Retires
    <2>2. \E q \in PunchIds : punches[q] # NoPunch /\ punches[q].correctionOfPunchId = i
      BY <1>2 DEF Retires, ReplacementsOf, Stored
    <2>. QED
      BY <1>2, <2>1, <2>2 DEF Retires, Journal!Next, Journal!Retire
  <1>. QED
    BY <1>1, <1>2, StoreSteps

(* The punch module implements the append-only journal of PunchJournal, for   *)
(* any number of racing corrections, failed calls and crashes ("a correction  *)
(* NEVER mutates the original punch").                                        *)
THEOREM LedgerImplementsJournal == Spec => JournalSpec
  <1>1. Init => Journal!Init
    BY DEF Init, Journal!Init
  <1>2. LedgerInv /\ [Next]_vars => [Journal!Next]_punches
    BY JournalStep
  <1>. QED
    BY <1>1, <1>2, LedgerInvariant, PTL DEF Spec, JournalSpec, Journal!Spec

=============================================================================
