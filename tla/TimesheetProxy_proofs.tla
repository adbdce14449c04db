------------------------ MODULE TimesheetProxy_proofs -------------------------
(* Proofs about TimesheetProxy for every number of requests and timesheets,   *)
(* every set of callers and inputs, and any number of retries.                *)
EXTENDS TimesheetProxy, TLAPS

-----------------------------------------------------------------------------
(* Requests *)

\* What a request asks decides whether it names a timesheet.
LEMMA AskKind ==
    ASSUME NEW a \in Ask
    PROVE  /\ ById(a) => a.id \in Sheets
           /\ a.kind = "run" => a.clientId \in Clients /\ ~ById(a)
           /\ a.kind = "list" => a.clientId \in Clients \union {NoClient}
           /\ a.kind = "groups" => /\ a.clientId \in Clients \union {NoClient}
                                   /\ a.siteId \in Sites \union {Absent}
           /\ a.kind = "grid" => a.siteId \in Sites
           /\ a.kind \in {"get", "audit", "void", "list", "groups", "grid", "run"}
    BY DEF Ask, ByIdAsk, ListAsk, GroupsAsk, GridAsk, RunAsk, ById

\* A request that is not idle is a well-formed record.
LEMMA ActiveRequest ==
    ASSUME TypeOK, NEW r \in Requests, req[r] # Idle
    PROVE  /\ req[r] \in Active
           /\ req[r].caller \in Principal /\ req[r].ask \in Ask /\ req[r].body \in SUBSET Sheets
    BY DEF TypeOK, Active

\* A request past its first step is not idle.
LEMMA Working ==
    ASSUME NEW r \in Requests, req[r].pc \in {"first", "second", "answer", "done"}
    PROVE  req[r] # Idle
    BY DEF Idle

LEMMA SetPc ==
    ASSUME NEW x \in Active, NEW pc \in {"first", "second", "answer", "done"}
    PROVE  LET y == [x EXCEPT !.pc = pc]
           IN  /\ y \in Active /\ y # Idle
               /\ y.caller = x.caller /\ y.ask = x.ask /\ y.body = x.body
    BY DEF Active, Idle

LEMMA SetAnswer ==
    ASSUME NEW x \in Active, NEW ok \in BOOLEAN, NEW body \in SUBSET Sheets
    PROVE  LET y == [x EXCEPT !.pc = "answer", !.ok = ok, !.body = body]
           IN  /\ y \in Active /\ y # Idle
               /\ y.caller = x.caller /\ y.ask = x.ask /\ y.body = body
    BY DEF Active, Idle

\* AnswerWith gives the request its body, and leaves everything else alone.
LEMMA AnswerFacts ==
    ASSUME TypeOK, NEW r \in Requests, req[r] # Idle, NEW ok \in BOOLEAN, NEW body \in SUBSET Sheets,
           AnswerWith(r, ok, body)
    PROVE  /\ req' \in [Requests -> {Idle} \union Active]
           /\ \A q \in Requests \ {r} : req'[q] = req[q]
           /\ req'[r] # Idle
           /\ req'[r].caller = req[r].caller /\ req'[r].ask = req[r].ask /\ req'[r].body = body
  <1>. DEFINE y == [req[r] EXCEPT !.pc = "answer", !.ok = ok, !.body = body]
  <1>1. req' = [req EXCEPT ![r] = y]
    BY DEF AnswerWith
  <1>2. y \in Active /\ y # Idle /\ y.caller = req[r].caller /\ y.ask = req[r].ask /\ y.body = body
    <2>1. req[r] \in Active
      BY ActiveRequest
    <2>. QED
      BY <2>1 DEF Active, Idle
  <1>. HIDE DEF y
  <1>. QED
    BY <1>1, <1>2 DEF TypeOK

\* The same for a step that only moves the request on.
LEMMA MoveFacts ==
    ASSUME TypeOK, NEW r \in Requests, req[r] # Idle, NEW pc \in {"first", "second", "answer", "done"},
           req' = [req EXCEPT ![r].pc = pc]
    PROVE  /\ req' \in [Requests -> {Idle} \union Active]
           /\ \A q \in Requests \ {r} : req'[q] = req[q]
           /\ req'[r] # Idle
           /\ req'[r].caller = req[r].caller /\ req'[r].ask = req[r].ask /\ req'[r].body = req[r].body
  <1>. DEFINE y == [req[r] EXCEPT !.pc = pc]
  <1>1. req' = [req EXCEPT ![r] = y]
    OBVIOUS
  <1>2. y \in Active /\ y # Idle /\ y.caller = req[r].caller /\ y.ask = req[r].ask /\ y.body = req[r].body
    BY ActiveRequest, SetPc
  <1>. HIDE DEF y
  <1>. QED
    BY <1>1, <1>2 DEF TypeOK

-----------------------------------------------------------------------------
(* The process and the client *)

\* Every step of the process keeps its types, and nobody waits once the databases are disconnected.
ProcessInv == Process!TypeOK /\ CleanExitServesAll

LEMMA ProcessStep ==
    ASSUME ProcessInv,
           \/ Process!Start \/ Process!StartFails \/ Process!Signal \/ Process!Drained
           \/ \E r \in Requests : \/ Process!Open(r) \/ Process!Answer(r)
                                  \/ Process!HangUp(r) \/ Process!Expire(r)
           \/ Process!Exit \/ Process!ForceExit
           \/ UNCHANGED <<phase, conn>>
    PROVE  ProcessInv'
  <1>. USE DEF ProcessInv, Process!TypeOK, Process!Phase, Process!Conn, CleanExitServesAll
  <1>1. CASE Process!Start \/ Process!StartFails \/ Process!Signal \/ Process!Drained
    BY <1>1 DEF Process!Start, Process!StartFails, Process!Signal, Process!Drained
  <1>2. ASSUME NEW r \in Requests, Process!Open(r)
        PROVE  ProcessInv'
    BY <1>2 DEF Process!Open
  <1>3. ASSUME NEW r \in Requests, Process!Answer(r) \/ Process!HangUp(r) \/ Process!Expire(r)
        PROVE  ProcessInv'
    BY <1>3 DEF Process!Answer, Process!HangUp, Process!Expire
  <1>4. CASE Process!Exit \/ Process!ForceExit
    BY <1>4 DEF Process!Exit, Process!ForceExit, Process!End
  <1>. QED
    BY <1>1, <1>2, <1>3, <1>4

PromiseTypeOK ==
    /\ state \in [Calls -> {"idle", "pending", "ok", "failed"}]
    /\ performed \in [Calls -> SUBSET Promise!Attempts]

\* Settling, carrying out and losing calls starts none.
LEMMA PromiseStep ==
    ASSUME PromiseTypeOK,
           \/ \E c \in Calls : Promise!Succeed(c) \/ Promise!Fail(c) \/ Promise!Perform(c)
           \/ Promise!Crash
    PROVE  /\ PromiseTypeOK'
           /\ \A c \in Calls : state'[c] = "idle" <=> state[c] = "idle"
  <1>1. ASSUME NEW c \in Calls, Promise!Succeed(c) \/ Promise!Fail(c)
        PROVE  PromiseTypeOK' /\ \A d \in Calls : state'[d] = "idle" <=> state[d] = "idle"
    BY <1>1 DEF PromiseTypeOK, Promise!Succeed, Promise!Fail
  <1>2. ASSUME NEW c \in Calls, Promise!Perform(c)
        PROVE  PromiseTypeOK' /\ \A d \in Calls : state'[d] = "idle" <=> state[d] = "idle"
    BY <1>2 DEF PromiseTypeOK, Promise!Perform
  <1>3. CASE Promise!Crash
    BY <1>3 DEF PromiseTypeOK, Promise!Crash
  <1>. QED
    BY <1>1, <1>2, <1>3

LEMMA SubmitFacts ==
    ASSUME PromiseTypeOK, NEW c \in Calls, Promise!Submit(c)
    PROVE  /\ PromiseTypeOK'
           /\ \A d \in Calls \ {c} : state'[d] = state[d]
    BY DEF PromiseTypeOK, Promise!Submit

-----------------------------------------------------------------------------
(* The inductive invariant *)

\* What the invariant says of a request depends on its caller, its ask and its body.
LEMMA CheckedFrame ==
    ASSUME NEW r \in Requests, Checked(r),
           req'[r] = Idle <=> req[r] = Idle,
           req[r] # Idle => /\ req'[r].caller = req[r].caller
                            /\ req'[r].ask = req[r].ask
                            /\ req'[r].body = req[r].body,
           found'[r] = found[r],
           \A n \in {1, 2} : state'[<<r, n>>] = "idle" <=> state[<<r, n>>] = "idle"
    PROVE  Checked(r)'
  <1>1. CASE req[r] = Idle
    BY <1>1 DEF Checked
  <1>2. CASE req[r] # Idle
    <2>1. Reach(r)' = Reach(r) /\ Cleared(r)' = Cleared(r)
      BY <1>2 DEF Reach, Cleared
    <2>. HIDE DEF Reach, Cleared
    <2>. QED
      BY <1>2, <2>1 DEF Checked
  <1>. QED
    BY <1>1, <1>2

\* A handler answers with what its last call found, once it is cleared, or with nothing.
LEMMA AnswerKeepsChecked ==
    ASSUME ProxyInv, NEW r \in Requests, req[r] # Idle, NEW ok \in BOOLEAN, NEW body \in SUBSET Sheets,
           AnswerWith(r, ok, body), UNCHANGED found,
           body = {} \/ (body = found[r] /\ Cleared(r))
    PROVE  /\ req' \in [Requests -> {Idle} \union Active]
           /\ \A q \in Requests : Checked(q)'
  <1>1. /\ req' \in [Requests -> {Idle} \union Active]
        /\ \A q \in Requests \ {r} : req'[q] = req[q]
        /\ req'[r] # Idle
        /\ req'[r].caller = req[r].caller /\ req'[r].ask = req[r].ask /\ req'[r].body = body
    BY AnswerFacts DEF ProxyInv
  <1>2. state' = state
    BY DEF AnswerWith
  <1>3. ASSUME NEW q \in Requests \ {r}
        PROVE  Checked(q)'
    BY <1>1, <1>2, <1>3, CheckedFrame DEF ProxyInv
  <1>4. Checked(r)'
    <2>1. Reach(r)' = Reach(r) /\ Cleared(r)' = Cleared(r)
      BY <1>1 DEF Reach, Cleared
    <2>2. Checked(r)
      BY DEF ProxyInv
    <2>. QED
      BY <1>1, <1>2, <2>1, <2>2 DEF Checked
  <1>. QED
    BY <1>1, <1>3, <1>4

LEMMA BeginStep ==
    ASSUME ProxyInv, NEW r \in Requests, Begin(r)
    PROVE  /\ PromiseTypeOK' /\ req' \in [Requests -> {Idle} \union Active]
           /\ \A q \in Requests : Checked(q)'
  <1>1. PICK i \in Inputs[r] :
          LET new == [pc |-> "first", caller |-> i[1], ask |-> i[2], ok |-> FALSE, body |-> {}]
          IN  \/ /\ Admitted(i[1], i[2])
                 /\ Promise!Submit(<<r, 1>>)
                 /\ req' = [req EXCEPT ![r] = new]
              \/ /\ ~Admitted(i[1], i[2])
                 /\ req' = [req EXCEPT ![r] = [new EXCEPT !.pc = "answer"]]
                 /\ UNCHANGED <<state, performed>>
    BY DEF Begin
  <1>2. i[1] \in Principal /\ i[2] \in Ask
    BY ProxyAssumption
  <1>. DEFINE new == [pc |-> "first", caller |-> i[1], ask |-> i[2], ok |-> FALSE, body |-> {}]
              refused == [new EXCEPT !.pc = "answer"]
  <1>3. /\ new \in Active /\ new # Idle
        /\ new.caller = i[1] /\ new.ask = i[2] /\ new.body = {}
        /\ refused \in Active /\ refused # Idle
        /\ refused.caller = i[1] /\ refused.ask = i[2] /\ refused.body = {}
    BY <1>2 DEF Active, Idle
  <1>4. \/ Admitted(i[1], i[2]) /\ Promise!Submit(<<r, 1>>) /\ req' = [req EXCEPT ![r] = new]
        \/ req' = [req EXCEPT ![r] = refused] /\ UNCHANGED <<state, performed>>
    BY <1>1
  <1>. HIDE DEF new, refused
  <1>5. /\ req' \in [Requests -> {Idle} \union Active]
        /\ \A q \in Requests \ {r} : req'[q] = req[q]
        /\ req'[r] # Idle /\ req'[r].caller = i[1] /\ req'[r].ask = i[2] /\ req'[r].body = {}
    BY <1>3, <1>4 DEF ProxyInv, TypeOK
  <1>6. PromiseTypeOK /\ <<r, 1>> \in Calls /\ \A q \in Requests, n \in {1, 2} : <<q, n>> \in Calls
    BY DEF ProxyInv, TypeOK, PromiseTypeOK, Calls
  <1>7. /\ PromiseTypeOK'
        /\ \A d \in Calls \ {<<r, 1>>} : state'[d] = state[d]
        /\ state'[<<r, 1>>] = state[<<r, 1>>] \/ Admitted(i[1], i[2])
    BY <1>4, <1>6, SubmitFacts DEF PromiseTypeOK
  <1>8. found' = found /\ req[r] = Idle
    BY DEF Begin
  <1>9. ASSUME NEW q \in Requests \ {r}
        PROVE  Checked(q)'
    <2>1. \A n \in {1, 2} : state'[<<q, n>>] = state[<<q, n>>]
      BY <1>6, <1>7
    <2>. QED
      BY <1>5, <1>8, <1>9, <2>1, CheckedFrame DEF ProxyInv
  <1>10. Checked(r)'
    <2>1. found[r] = {} /\ state[<<r, 1>>] = "idle" /\ state'[<<r, 2>>] = "idle"
      BY <1>6, <1>7, <1>8 DEF ProxyInv, Checked
    <2>2. state'[<<r, 1>>] # "idle" => Admitted(i[1], i[2])
      BY <1>7, <2>1
    <2>3. state'[<<r, 1>>] # "idle" => ById(req'[r].ask) \/ Cleared(r)'
      BY <1>5, <2>2 DEF Cleared
    <2>. QED
      BY <1>5, <1>8, <2>1, <2>3 DEF Checked
  <1>. QED
    BY <1>5, <1>7, <1>9, <1>10

LEMMA FetchedStep ==
    ASSUME ProxyInv, NEW r \in Requests, Fetched(r)
    PROVE  /\ PromiseTypeOK' /\ req' \in [Requests -> {Idle} \union Active]
           /\ \A q \in Requests : Checked(q)'
  <1>. DEFINE mine == SameClient(req[r].caller, Owner[req[r].ask.id].clientId)
  <1>1. /\ req[r] # Idle /\ ById(req[r].ask) /\ found[r] \in SUBSET Sheets
        /\ PromiseTypeOK /\ \A q \in Requests, n \in {1, 2} : <<q, n>> \in Calls
    BY Working DEF Fetched, ProxyInv, TypeOK, PromiseTypeOK, Calls
  <1>2. Cleared(r) <=> mine
    BY <1>1 DEF Cleared
  <1>3. CASE mine /\ AnswerWith(r, TRUE, found[r])
    BY <1>1, <1>2, <1>3, AnswerKeepsChecked DEF Fetched, AnswerWith, PromiseTypeOK
  <1>4. CASE AnswerWith(r, FALSE, {})
    <2>1. found' = found /\ FALSE \in BOOLEAN /\ {} \in SUBSET Sheets
      BY DEF Fetched
    <2>2. PromiseTypeOK'
      BY <1>1, <1>4 DEF AnswerWith, PromiseTypeOK
    <2>. QED
      BY <1>1, <1>4, <2>1, <2>2, AnswerKeepsChecked
  <1>5. CASE mine /\ Promise!Submit(<<r, 2>>) /\ req' = [req EXCEPT ![r].pc = "second"]
    <2>1. /\ req' \in [Requests -> {Idle} \union Active]
          /\ \A q \in Requests \ {r} : req'[q] = req[q]
          /\ req'[r] # Idle
          /\ req'[r].caller = req[r].caller /\ req'[r].ask = req[r].ask /\ req'[r].body = req[r].body
      BY <1>1, <1>5, MoveFacts DEF ProxyInv
    <2>2. PromiseTypeOK' /\ \A d \in Calls \ {<<r, 2>>} : state'[d] = state[d]
      BY <1>1, <1>5, SubmitFacts
    <2>3. found' = found
      BY DEF Fetched
    <2>4. ASSUME NEW q \in Requests \ {r}
          PROVE  Checked(q)'
      <3>1. \A n \in {1, 2} : state'[<<q, n>>] = state[<<q, n>>]
        BY <1>1, <2>2
      <3>. QED
        BY <2>1, <2>3, <2>4, <3>1, CheckedFrame DEF ProxyInv
    <2>5. Checked(r)'
      <3>1. Reach(r)' = Reach(r) /\ Cleared(r)' = Cleared(r)
        BY <2>1 DEF Reach, Cleared
      <3>2. Checked(r) /\ Cleared(r)
        BY <1>2, <1>5 DEF ProxyInv
      <3>. QED
        BY <1>1, <2>1, <2>3, <3>1, <3>2 DEF Checked
    <2>. QED
      BY <2>1, <2>2, <2>4, <2>5
  <1>. QED
    BY <1>3, <1>4, <1>5 DEF Fetched

LEMMA AnswerStep ==
    ASSUME ProxyInv, NEW r \in Requests, PassOn(r) \/ Concluded(r) \/ CallFailed(r)
    PROVE  /\ PromiseTypeOK' /\ req' \in [Requests -> {Idle} \union Active]
           /\ \A q \in Requests : Checked(q)'
  <1>1. req[r] # Idle /\ found[r] \in SUBSET Sheets /\ UNCHANGED <<state, performed, found>>
    BY Working DEF PassOn, Concluded, CallFailed, AnswerWith, ProxyInv, TypeOK
  <1>2. PromiseTypeOK'
    BY <1>1 DEF ProxyInv, TypeOK, PromiseTypeOK
  <1>3. CASE PassOn(r)
    <2>1. Cleared(r)
      BY <1>1, <1>3 DEF PassOn, ProxyInv, Checked
    <2>. QED
      BY <1>1, <1>2, <1>3, <2>1, AnswerKeepsChecked DEF PassOn
  <1>4. CASE Concluded(r)
    <2>1. Cleared(r)
      BY <1>1, <1>4 DEF Concluded, ProxyInv, Checked
    <2>. QED
      BY <1>1, <1>2, <1>4, <2>1, AnswerKeepsChecked DEF Concluded
  <1>5. CASE CallFailed(r)
    BY <1>1, <1>2, <1>5, AnswerKeepsChecked DEF CallFailed
  <1>. QED
    BY <1>3, <1>4, <1>5

LEMMA RespondStep ==
    ASSUME ProxyInv, NEW r \in Requests, Respond(r)
    PROVE  /\ PromiseTypeOK' /\ req' \in [Requests -> {Idle} \union Active]
           /\ \A q \in Requests : Checked(q)'
  <1>1. req[r] # Idle /\ UNCHANGED <<state, performed, found>> /\ req' = [req EXCEPT ![r].pc = "done"]
    BY Working DEF Respond
  <1>2. /\ req' \in [Requests -> {Idle} \union Active]
        /\ \A q \in Requests \ {r} : req'[q] = req[q]
        /\ req'[r] # Idle
        /\ req'[r].caller = req[r].caller /\ req'[r].ask = req[r].ask /\ req'[r].body = req[r].body
    BY <1>1, MoveFacts DEF ProxyInv
  <1>3. PromiseTypeOK'
    BY <1>1 DEF ProxyInv, TypeOK, PromiseTypeOK
  <1>4. \A q \in Requests : Checked(q)'
    BY <1>1, <1>2, CheckedFrame DEF ProxyInv
  <1>. QED
    BY <1>2, <1>3, <1>4

\* The calls of a request move, and its record stays.
LEMMA CallsMove ==
    ASSUME ProxyInv, UNCHANGED <<req, found>>,
           \/ \E c \in Calls : Promise!Succeed(c) \/ Promise!Fail(c)
           \/ UNCHANGED <<state, performed>>
    PROVE  /\ PromiseTypeOK' /\ req' \in [Requests -> {Idle} \union Active]
           /\ \A q \in Requests : Checked(q)'
  <1>1. PromiseTypeOK
    BY DEF ProxyInv, TypeOK, PromiseTypeOK
  <1>2. PromiseTypeOK' /\ \A c \in Calls : state'[c] = "idle" <=> state[c] = "idle"
    <2>1. CASE \E c \in Calls : Promise!Succeed(c) \/ Promise!Fail(c)
      BY <1>1, <2>1, PromiseStep
    <2>2. CASE UNCHANGED <<state, performed>>
      BY <1>1, <2>2 DEF PromiseTypeOK
    <2>. QED
      BY <2>1, <2>2
  <1>3. \A q \in Requests : Checked(q)'
    BY <1>2, CheckedFrame DEF ProxyInv, Calls
  <1>. QED
    BY <1>2, <1>3 DEF ProxyInv, TypeOK

LEMMA CutOffStep ==
    ASSUME ProxyInv, CutOff
    PROVE  /\ PromiseTypeOK' /\ req' \in [Requests -> {Idle} \union Active]
           /\ \A q \in Requests : Checked(q)'
  <1>1. PromiseTypeOK
    BY DEF ProxyInv, TypeOK, PromiseTypeOK
  <1>2. PromiseTypeOK' /\ \A c \in Calls : state'[c] = "idle" <=> state[c] = "idle"
    BY <1>1, PromiseStep DEF CutOff
  <1>3. /\ found' = found
        /\ req' = [r \in Requests |-> IF req[r] = Idle THEN Idle ELSE [req[r] EXCEPT !.pc = "done"]]
    BY DEF CutOff
  <1>4. ASSUME NEW r \in Requests
        PROVE  /\ req'[r] \in {Idle} \union Active
               /\ req'[r] = Idle <=> req[r] = Idle
               /\ req[r] # Idle => /\ req'[r].caller = req[r].caller
                                   /\ req'[r].ask = req[r].ask
                                   /\ req'[r].body = req[r].body
    <2>1. CASE req[r] = Idle
      BY <1>3, <2>1
    <2>2. CASE req[r] # Idle
      <3>1. req[r] \in Active
        BY <2>2, ActiveRequest DEF ProxyInv
      <3>. DEFINE y == [req[r] EXCEPT !.pc = "done"]
      <3>2. y \in Active /\ y # Idle /\ y.caller = req[r].caller /\ y.ask = req[r].ask /\ y.body = req[r].body
        BY <3>1 DEF Active, Idle
      <3>3. req'[r] = y
        BY <1>3, <2>2
      <3>. HIDE DEF y
      <3>. QED
        BY <2>2, <3>2, <3>3
    <2>. QED
      BY <2>1, <2>2
  <1>5. req' \in [Requests -> {Idle} \union Active]
    <2>1. req' = [r \in Requests |-> req'[r]]
      BY <1>3
    <2>. QED
      BY <1>4, <2>1
  <1>6. ASSUME NEW q \in Requests
        PROVE  Checked(q)'
    <2>1. \A n \in {1, 2} : state'[<<q, n>>] = "idle" <=> state[<<q, n>>] = "idle"
      BY <1>2 DEF Calls
    <2>. QED
      BY <1>3, <1>4, <2>1, CheckedFrame DEF ProxyInv
  <1>. QED
    BY <1>2, <1>5, <1>6

\* What the processor puts into an answer lies in the reach of the request.
LEMMA PerformStep ==
    ASSUME ProxyInv, NEW r \in Requests, NEW n \in {1, 2}, Perform(r, n)
    PROVE  /\ PromiseTypeOK' /\ req' \in [Requests -> {Idle} \union Active]
           /\ \A q \in Requests : Checked(q)'
           /\ sheets' \in [Sheets -> {"none", "completed", "voided"}]
           /\ found' \in [Requests -> SUBSET Sheets]
  <1>1. PromiseTypeOK /\ req' = req /\ \A q \in Requests, k \in {1, 2} : <<q, k>> \in Calls
    BY DEF ProxyInv, TypeOK, PromiseTypeOK, Perform, Calls
  <1>2. PromiseTypeOK' /\ state' = state /\ state[<<r, n>>] # "idle"
    <2>1. Promise!Perform(<<r, n>>)
      BY DEF Perform
    <2>2. PromiseTypeOK'
      BY <1>1, <2>1, PromiseStep
    <2>. QED
      BY <2>1, <2>2 DEF Promise!Perform
  <1>3. req[r] # Idle /\ req[r].ask \in Ask
    <2>1. req[r] # Idle
      BY <1>1, <1>2 DEF ProxyInv, Checked
    <2>. QED
      BY <2>1, ActiveRequest DEF ProxyInv
  <1>4. /\ found' \in [Requests -> SUBSET Sheets]
        /\ \A q \in Requests \ {r} : found'[q] = found[q]
        /\ found'[r] \subseteq Reach(r)
        /\ sheets' \in [Sheets -> {"none", "completed", "voided"}]
    <2>0. found[r] \subseteq Reach(r) /\ found \in [Requests -> SUBSET Sheets]
          /\ sheets \in [Sheets -> {"none", "completed", "voided"}]
      BY <1>3 DEF ProxyInv, TypeOK, Checked
    <2>1. CASE Read(r, n)
      <3>. DEFINE a == req[r].ask
                  visible == IF ById(a) THEN {a.id}
                             ELSE {s \in Sheets : Matches(Owner[s], QueryFilter(req[r].caller, a))}
      <3>1. found' = [found EXCEPT ![r] = visible \intersect Stored] /\ a.kind # "run" /\ sheets' = sheets
        BY <2>1 DEF Read
      <3>2. visible = Reach(r)
        BY <3>1 DEF Reach
      <3>. HIDE DEF visible
      <3>. QED
        BY <2>0, <3>1, <3>2 DEF Stored
    <2>2. CASE VoidSheet(r, n)
      BY <2>0, <2>2 DEF VoidSheet
    <2>3. CASE RunClient(r, n)
      <3>1. PICK made \in SUBSET {s \in Sheets \ Stored : Owner[s].clientId = req[r].ask.clientId} :
              /\ sheets' = [s \in Sheets |-> IF s \in made THEN "completed" ELSE sheets[s]]
              /\ found' = [found EXCEPT ![r] = IF Awaited(r, n) THEN made ELSE @]
        BY <2>3 DEF RunClient
      <3>2. made \subseteq Reach(r) /\ made \in SUBSET Sheets
        BY <1>3, <2>3, AskKind DEF Reach, RunClient
      <3>. QED
        BY <2>0, <3>1, <3>2
    <2>. QED
      BY <2>1, <2>2, <2>3 DEF Perform
  <1>5. ASSUME NEW q \in Requests \ {r}
        PROVE  Checked(q)'
    BY <1>1, <1>2, <1>4, <1>5, CheckedFrame DEF ProxyInv
  <1>6. Checked(r)'
    <2>1. Reach(r)' = Reach(r) /\ Cleared(r)' = Cleared(r)
      BY <1>1 DEF Reach, Cleared
    <2>2. Checked(r)
      BY DEF ProxyInv
    <2>. QED
      BY <1>1, <1>2, <1>3, <1>4, <2>1, <2>2 DEF Checked
  <1>. QED
    BY <1>1, <1>2, <1>4, <1>5, <1>6 DEF ProxyInv, TypeOK

-----------------------------------------------------------------------------
(* The theorems *)

LEMMA InvInit == Init => ProxyInv /\ ProcessInv
  <1>. SUFFICES ASSUME Init
                PROVE  ProxyInv /\ ProcessInv
    OBVIOUS
  <1>1. TypeOK
    BY ProxyAssumption
       DEF Init, TypeOK, Process!Init, Process!TypeOK, Process!Phase, Process!Conn, Promise!Init, Promise!Attempts
  <1>2. \A r \in Requests : Checked(r)
    BY DEF Init, Checked, Promise!Init, Calls
  <1>3. ProcessInv
    BY <1>1 DEF TypeOK, ProcessInv, CleanExitServesAll, Init, Process!Init
  <1>. QED
    BY <1>1, <1>2, <1>3 DEF ProxyInv

LEMMA InvNext ==
    ASSUME ProxyInv, ProcessInv, [Next]_vars
    PROVE  ProxyInv' /\ ProcessInv'
  <1>. DEFINE Kept == /\ PromiseTypeOK' /\ req' \in [Requests -> {Idle} \union Active]
                      /\ \A q \in Requests : Checked(q)'
                      /\ sheets' \in [Sheets -> {"none", "completed", "voided"}]
                      /\ found' \in [Requests -> SUBSET Sheets]
                      /\ ProcessInv'
  <1>1. Kept
    <2>1. ASSUME NEW r \in Requests, Begin(r) \/ Proceed(r)
          PROVE  Kept
      <3>1. UNCHANGED <<sheets, found>>
        BY <2>1 DEF Begin, Proceed, PassOn, Fetched, Concluded, CallFailed, Respond
      <3>2. ProcessInv'
        BY <2>1, ProcessStep DEF Begin, Proceed, PassOn, Fetched, Concluded, CallFailed, Respond
      <3>. QED
        BY <2>1, <3>1, <3>2, BeginStep, FetchedStep, AnswerStep, RespondStep DEF Proceed, ProxyInv, TypeOK
    <2>2. ASSUME NEW r \in Requests, NEW n \in {1, 2}, Settle(<<r, n>>)
          PROVE  Kept
      <3>1. <<r, n>> \in Calls /\ UNCHANGED <<phase, conn, req, sheets, found>>
        BY <2>2 DEF Settle, Calls
      <3>2. Promise!Succeed(<<r, n>>) \/ Promise!Fail(<<r, n>>)
        BY <2>2 DEF Settle
      <3>. QED
        BY <3>1, <3>2, CallsMove, ProcessStep DEF ProxyInv, TypeOK
    <2>3. ASSUME NEW r \in Requests, NEW n \in {1, 2}, Perform(r, n)
          PROVE  Kept
      BY <2>3, PerformStep, ProcessStep DEF Perform
    <2>4. CASE LifeStep
      BY <2>4, CallsMove, ProcessStep DEF LifeStep, ProxyInv, TypeOK
    <2>5. CASE ExitStep \/ ForceExitStep
      <3>1. CutOff /\ (Process!Exit \/ Process!ForceExit)
        BY <2>5 DEF ExitStep, ForceExitStep
      <3>. QED
        BY <3>1, CutOffStep, ProcessStep DEF CutOff, ProxyInv, TypeOK
    <2>6. CASE UNCHANGED vars
      BY <2>6, CallsMove, ProcessStep DEF vars, ProxyInv, TypeOK
    <2>. QED
      BY <2>1, <2>2, <2>3, <2>4, <2>5, <2>6 DEF Next
  <1>2. TypeOK'
    BY <1>1 DEF TypeOK, PromiseTypeOK, ProcessInv
  <1>. QED
    BY <1>1, <1>2 DEF ProxyInv

(* In every state the handlers are past exactly the checks they need: a       *)
(* second call is under way only for a timesheet of the caller's client, and  *)
(* an answer has a body only for a cleared request (the handlers of           *)
(* timesheetProxy.controller.ts and processingProxy.controller.ts).           *)
THEOREM ProxyInvariant == Spec => []ProxyInv /\ []ProcessInv
  <1>. QED
    BY InvInit, InvNext, PTL DEF Spec

\* A cleared request reaches nothing outside its caller's scope.
LEMMA ReachInScope ==
    ASSUME ProxyInv, NEW r \in Requests, req[r] # Idle, Cleared(r), NEW s \in Sheets, s \in Reach(r)
    PROVE  LET p == req[r].caller
           IN  /\ p.role # "PLATFORM_ADMIN" => Owner[s].clientId = p.clientId
               /\ /\ req[r].ask.kind \in {"groups", "grid"}
                  /\ p.role = "SITE_MANAGER" /\ ListHolds(p, req[r].ask)
                  => Owner[s].siteId \in p.siteIds
  <1>. DEFINE p == req[r].caller
              a == req[r].ask
  <1>1. p \in Principal /\ a \in Ask
    BY ActiveRequest DEF ProxyInv
  <1>2. CASE ById(a)
    BY <1>2 DEF Reach, Cleared, SameClient, ById
  <1>3. CASE a.kind = "run"
    BY <1>1, <1>3, AskKind DEF Reach, Cleared, Admitted, SameClient
  <1>4. CASE a.kind \in {"list", "groups", "grid"}
    <2>1. ~ById(a) /\ Admitted(p, a) /\ Matches(Owner[s], QueryFilter(p, a))
      BY <1>4 DEF Cleared, Reach, ById
    <2>2. p.role # "PLATFORM_ADMIN" => Owner[s].clientId = p.clientId
      BY <2>1 DEF Matches, QueryFilter, ClientsAsked, ReadClientFilter
    <2>3. ASSUME a.kind \in {"groups", "grid"}, p.role = "SITE_MANAGER", ListHolds(p, a)
          PROVE  Owner[s].siteId \in p.siteIds
      <3>1. Owner[s].siteId \in SitesAsked(p, a)
        BY <2>1 DEF Matches, QueryFilter
      <3>2. CASE a.kind = "grid"
        <4>1. a.siteId # Absent /\ a.siteId \in p.siteIds
          BY <1>1, <2>1, <2>3, <3>2, AskKind, ProxyAssumption DEF Admitted, SameSite
        <4>. QED
          BY <3>1, <3>2, <4>1 DEF SitesAsked
      <3>3. CASE a.kind = "groups" /\ a.siteId # Absent
        <4>1. a.siteId \in p.siteIds
          BY <2>1, <2>3, <3>3 DEF Admitted, SameSite
        <4>. QED
          BY <3>1, <3>3, <4>1 DEF SitesAsked
      <3>4. CASE a.kind = "groups" /\ a.siteId = Absent
        BY <2>3, <3>1, <3>4 DEF SitesAsked, ListHolds
      <3>. QED
        BY <2>3, <3>2, <3>3, <3>4
    <2>. QED
      BY <2>2, <2>3
  <1>. QED
    BY <1>1, <1>2, <1>3, <1>4, AskKind DEF ById

(* "the real tenant boundary is enforced HERE": whatever anybody is shown     *)
(* lies in the caller's client, and what a manager is shown by site lies in   *)
(* its sites wherever its list of sites is not needed, or is not empty and    *)
(* read back as it was meant (resolveClientIdForProxy, assertSameClient and   *)
(* assertSameSite in timesheetProxy.controller.ts).                           *)
THEOREM TenantBoundary == Spec => []RepliesInScope
  <1>1. ProxyInv => RepliesInScope
    <2>. SUFFICES ASSUME ProxyInv, NEW r \in Requests, req[r] # Idle, NEW s \in req[r].body
                  PROVE  LET p == req[r].caller
                         IN  /\ p.role # "PLATFORM_ADMIN" => Owner[s].clientId = p.clientId
                             /\ /\ req[r].ask.kind \in {"groups", "grid"}
                                /\ p.role = "SITE_MANAGER" /\ ListHolds(p, req[r].ask)
                                => Owner[s].siteId \in p.siteIds
      BY DEF RepliesInScope
    <2>1. s \in Sheets
      BY ActiveRequest DEF ProxyInv
    <2>2. Cleared(r) /\ s \in Reach(r)
      BY DEF ProxyInv, Checked
    <2>. QED
      BY <2>1, <2>2, ReachInScope
  <1>. QED
    BY <1>1, ProxyInvariant, PTL

(* Every change at the processor was asked for by a caller of that client,    *)
(* however late it comes: after retries, after the caller was told of a       *)
(* failure, after the process exited (voidTimesheetHandler,                   *)
(* createProcessingRunHandler).                                               *)
THEOREM ChangesAreAuthorised == Spec => EffectsAuthorised
  <1>1. ASSUME ProxyInv, [Next]_vars, NEW s \in Sheets, sheets'[s] # sheets[s]
        PROVE  \E r \in Requests :
                  /\ req[r] # Idle
                  /\ req[r].caller.role = "PLATFORM_ADMIN" \/ req[r].caller.clientId = Owner[s].clientId
                  /\ \/ req[r].ask.kind = "void" /\ req[r].ask.id = s /\ sheets'[s] = "voided"
                     \/ req[r].ask.kind = "run" /\ req[r].ask.clientId = Owner[s].clientId
    <2>1. PICK r \in Requests, n \in {1, 2} : Perform(r, n)
      BY <1>1 DEF Next, vars, Begin, Proceed, PassOn, Fetched, Concluded, CallFailed, Respond, Settle,
         LifeStep, ExitStep, ForceExitStep, CutOff
    <2>2. state[<<r, n>>] # "idle"
      BY <2>1 DEF Perform, Promise!Perform
    <2>3. req[r] # Idle
      BY <1>1, <2>2 DEF ProxyInv, Checked
    <2>4. req[r].ask \in Ask /\ sheets \in [Sheets -> {"none", "completed", "voided"}]
      BY <1>1, <2>3, ActiveRequest DEF ProxyInv, TypeOK
    <2>5. CASE VoidSheet(r, n)
      <3>1. ById(req[r].ask) /\ Cleared(r)
        BY <1>1, <2>2, <2>3, <2>5 DEF VoidSheet, ProxyInv, Checked
      <3>2. req[r].ask.id = s /\ sheets'[s] = "voided"
        BY <1>1, <2>4, <2>5 DEF VoidSheet
      <3>3. SameClient(req[r].caller, Owner[s].clientId)
        BY <3>1, <3>2 DEF Cleared
      <3>. QED
        BY <2>3, <2>5, <3>2, <3>3 DEF VoidSheet, SameClient
    <2>6. CASE RunClient(r, n)
      <3>1. req[r].ask.kind = "run" /\ Owner[s].clientId = req[r].ask.clientId
        BY <1>1, <2>4, <2>6 DEF RunClient
      <3>2. Cleared(r) /\ ~ById(req[r].ask)
        <4>1. ~ById(req[r].ask)
          BY <2>4, <3>1, AskKind
        <4>2. n = 1
          BY <1>1, <2>2, <2>3, <4>1 DEF ProxyInv, Checked
        <4>. QED
          BY <1>1, <2>2, <2>3, <4>1, <4>2 DEF ProxyInv, Checked
      <3>3. SameClient(req[r].caller, Owner[s].clientId)
        BY <3>1, <3>2 DEF Cleared, Admitted
      <3>. QED
        BY <2>3, <3>1, <3>3 DEF SameClient
    <2>7. CASE Read(r, n)
      BY <1>1, <2>7 DEF Read
    <2>. QED
      BY <2>1, <2>5, <2>6, <2>7 DEF Perform
  <1>2. ProxyInv /\ [Next]_vars =>
          [ \A s \in Sheets : sheets'[s] # sheets[s] =>
              \E r \in Requests :
                 /\ req[r] # Idle
                 /\ req[r].caller.role = "PLATFORM_ADMIN" \/ req[r].caller.clientId = Owner[s].clientId
                 /\ \/ req[r].ask.kind = "void" /\ req[r].ask.id = s /\ sheets'[s] = "voided"
                    \/ req[r].ask.kind = "run" /\ req[r].ask.clientId = Owner[s].clientId ]_vars
    BY <1>1
  <1>. QED
    BY <1>2, ProxyInvariant, PTL DEF Spec, EffectsAuthorised

(* An exit with code 0 cuts nobody off who waits (shutdown in server.ts).     *)
THEOREM CleanExitIsClean == Spec => []CleanExitServesAll
  <1>1. ProcessInv => CleanExitServesAll
    BY DEF ProcessInv
  <1>. QED
    BY <1>1, ProxyInvariant, PTL

-----------------------------------------------------------------------------
(* What a success is worth. *)

(* A success that a handler passes on is real, although the client repeats    *)
(* calls and loses answers: each call the handler made was carried out, the   *)
(* timesheet it names exists, and one whose void was confirmed is voided and  *)
(* stays so (the handlers of timesheetProxy.controller.ts and                 *)
(* processingProxy.controller.ts on top of callPunchProcessor).               *)
RepliesAreReal ==
    \A r \in Requests : req[r] # Idle /\ req[r].ok =>
        /\ performed[<<r, 1>>] # {}
        /\ req[r].ask.kind \in {"audit", "void"} => performed[<<r, 2>>] # {}
        /\ ById(req[r].ask) => req[r].ask.id \in Stored
        /\ req[r].ask.kind = "void" => sheets[req[r].ask.id] = "voided"

\* What stands behind it: an answer comes from calls that were carried out, and what they did lasts.
Real(r) ==
    /\ \A n \in {1, 2} : state[<<r, n>>] = "ok" => performed[<<r, n>>] # {}
    /\ req[r] = Idle => performed[<<r, 1>>] = {} /\ performed[<<r, 2>>] = {}
    /\ req[r] # Idle =>
          /\ ById(req[r].ask) /\ performed[<<r, 1>>] # {} => req[r].ask.id \in Stored
          /\ req[r].ask.kind = "void" /\ performed[<<r, 2>>] # {} => sheets[req[r].ask.id] = "voided"
          /\ req[r].pc = "second" => state[<<r, 1>>] = "ok"
          /\ req[r].ok => /\ state[<<r, 1>>] = "ok"
                          /\ req[r].ask.kind \in {"audit", "void"} => state[<<r, 2>>] = "ok"

\* Timesheets stay, and voided ones stay voided.
SheetsLast ==
    \A s \in Sheets : /\ sheets[s] # "none" => sheets'[s] # "none"
                      /\ sheets[s] = "voided" => sheets'[s] = "voided"

LEMMA PerformLasts ==
    ASSUME ProxyInv, NEW r \in Requests, NEW n \in {1, 2}, Perform(r, n)
    PROVE  SheetsLast
  <1>0. sheets \in [Sheets -> {"none", "completed", "voided"}]
    BY DEF ProxyInv, TypeOK
  <1>1. CASE Read(r, n)
    BY <1>0, <1>1 DEF Read, SheetsLast
  <1>2. CASE VoidSheet(r, n)
    BY <1>0, <1>2 DEF VoidSheet, SheetsLast
  <1>3. CASE RunClient(r, n)
    BY <1>0, <1>3 DEF RunClient, SheetsLast, Stored
  <1>. QED
    BY <1>1, <1>2, <1>3 DEF Perform

\* A step that starts no request and carries no call out.
LEMMA RealKept ==
    ASSUME ProxyInv, NEW r \in Requests, Real(r), SheetsLast,
           req'[r] = Idle <=> req[r] = Idle,
           \A n \in {1, 2} :
              /\ performed'[<<r, n>>] = performed[<<r, n>>]
              /\ state'[<<r, n>>] = "ok" => state[<<r, n>>] = "ok" \/ performed[<<r, n>>] # {}
              /\ state[<<r, n>>] = "ok" => state'[<<r, n>>] = "ok",
           req[r] # Idle =>
              /\ req'[r].ask = req[r].ask
              /\ req'[r].pc = "second" => req[r].pc = "second" \/ state[<<r, 1>>] = "ok"
              /\ req'[r].ok => \/ req[r].ok
                               \/ /\ state[<<r, 1>>] = "ok"
                                  /\ req[r].ask.kind \in {"audit", "void"} => state[<<r, 2>>] = "ok"
    PROVE  Real(r)'
  <1>1. CASE req[r] = Idle
    BY <1>1 DEF Real
  <1>2. CASE req[r] # Idle
    <2>1. ById(req[r].ask) => req[r].ask.id \in Sheets
      BY <1>2, ActiveRequest, AskKind DEF ProxyInv
    <2>2. req[r].ask.kind = "void" => ById(req[r].ask)
      BY DEF ById
    <2>3. ById(req[r].ask) /\ req[r].ask.id \in Stored => req[r].ask.id \in Stored'
      BY <2>1 DEF Stored, SheetsLast
    <2>4. req[r].ask.kind = "void" /\ sheets[req[r].ask.id] = "voided" => sheets'[req[r].ask.id] = "voided"
      BY <2>1, <2>2 DEF SheetsLast
    <2>. QED
      BY <1>2, <2>3, <2>4 DEF Real
  <1>. QED
    BY <1>1, <1>2

LEMMA AnswerIsOk ==
    ASSUME TypeOK, NEW r \in Requests, req[r] # Idle, NEW ok \in BOOLEAN, NEW body \in SUBSET Sheets,
           AnswerWith(r, ok, body)
    PROVE  req'[r].pc = "answer" /\ req'[r].ok = ok
  <1>1. req[r] \in Active
    BY ActiveRequest
  <1>. QED
    BY <1>1 DEF AnswerWith, TypeOK, Active

\* The steps of a handler.
LEMMA HandlerIsReal ==
    ASSUME ProxyInv, NEW r \in Requests, Proceed(r), \A q \in Requests : Real(q)
    PROVE  \A q \in Requests : Real(q)'
  <1>0. /\ TypeOK /\ req[r] # Idle /\ req[r] \in Active /\ found[r] \in SUBSET Sheets
        /\ \A q \in Requests, n \in {1, 2} : <<q, n>> \in Calls
    BY Working, ActiveRequest
       DEF ProxyInv, TypeOK, Proceed, PassOn, Fetched, Concluded, CallFailed, Respond, Calls
  <1>1. SheetsLast
    BY DEF Proceed, PassOn, Fetched, Concluded, CallFailed, Respond, SheetsLast
  <1>2. ASSUME UNCHANGED <<state, performed>>, req'[r] # Idle, req'[r].ask = req[r].ask,
               \A q \in Requests \ {r} : req'[q] = req[q],
               req'[r].pc # "second",
               req'[r].ok => \/ req[r].ok
                             \/ /\ state[<<r, 1>>] = "ok"
                                /\ req[r].ask.kind \in {"audit", "void"} => state[<<r, 2>>] = "ok"
        PROVE  \A q \in Requests : Real(q)'
    BY <1>0, <1>1, <1>2, RealKept
  <1>3. ASSUME NEW ok \in BOOLEAN, NEW body \in SUBSET Sheets, AnswerWith(r, ok, body),
               ok => /\ state[<<r, 1>>] = "ok"
                     /\ req[r].ask.kind \in {"audit", "void"} => state[<<r, 2>>] = "ok"
        PROVE  \A q \in Requests : Real(q)'
    <2>1. /\ \A q \in Requests \ {r} : req'[q] = req[q]
          /\ req'[r] # Idle /\ req'[r].ask = req[r].ask
          /\ req'[r].pc = "answer" /\ req'[r].ok = ok
      BY <1>0, <1>3, AnswerFacts, AnswerIsOk
    <2>2. UNCHANGED <<state, performed>>
      BY <1>3 DEF AnswerWith
    <2>. QED
      BY <1>2, <1>3, <2>1, <2>2
  <1>4. CASE PassOn(r)
    BY <1>0, <1>3, <1>4 DEF PassOn, ById
  <1>5. CASE CallFailed(r)
    BY <1>3, <1>5 DEF CallFailed
  <1>6. CASE Concluded(r)
    <2>1. state[<<r, 1>>] = "ok" /\ state[<<r, 2>>] = "ok" /\ AnswerWith(r, TRUE, found[r])
      BY <1>0, <1>6 DEF Concluded, Real
    <2>. QED
      BY <1>0, <1>3, <2>1
  <1>7. CASE Respond(r)
    <2>1. /\ req'[r] # Idle /\ req'[r].ask = req[r].ask
          /\ req'[r].pc = "done" /\ req'[r].ok = req[r].ok
          /\ \A q \in Requests \ {r} : req'[q] = req[q]
      BY <1>0, <1>7 DEF Respond, TypeOK, Active, Idle
    <2>2. UNCHANGED <<state, performed>>
      BY <1>7 DEF Respond
    <2>. QED
      BY <1>2, <2>1, <2>2
  <1>8. CASE Fetched(r)
    <2>0. state[<<r, 1>>] = "ok"
      BY <1>8 DEF Fetched
    <2>1. CASE req[r].ask.kind = "get" /\ AnswerWith(r, TRUE, found[r])
      BY <1>0, <1>3, <2>0, <2>1
    <2>2. CASE AnswerWith(r, FALSE, {})
      BY <1>3, <2>2
    <2>3. CASE Promise!Submit(<<r, 2>>) /\ req' = [req EXCEPT ![r].pc = "second"]
      <3>1. /\ req'[r] # Idle /\ req'[r].ask = req[r].ask /\ req'[r].ok = req[r].ok
            /\ \A q \in Requests \ {r} : req'[q] = req[q]
        BY <1>0, <2>3 DEF TypeOK, Active, Idle
      <3>2. /\ performed' = performed /\ state[<<r, 2>>] = "idle" /\ state'[<<r, 2>>] = "pending"
            /\ \A c \in Calls \ {<<r, 2>>} : state'[c] = state[c]
        BY <1>0, <2>3 DEF Promise!Submit, TypeOK
      <3>3. \A q \in Requests, n \in {1, 2} :
               <<q, n>> # <<r, 2>> => state'[<<q, n>>] = state[<<q, n>>]
        BY <1>0, <3>2
      <3>4. \A q \in Requests, n \in {1, 2} : (state'[<<q, n>>] = "ok") <=> (state[<<q, n>>] = "ok")
        BY <3>2, <3>3
      <3>5. ASSUME NEW q \in Requests
            PROVE  Real(q)'
        <4>1. CASE q = r
          BY <1>0, <1>1, <2>0, <3>1, <3>2, <3>4, <4>1, RealKept
        <4>2. CASE q # r
          BY <1>0, <1>1, <3>1, <3>2, <3>4, <4>2, RealKept
        <4>. QED
          BY <4>1, <4>2
      <3>. QED
        BY <3>5
    <2>. QED
      BY <1>8, <2>1, <2>2, <2>3 DEF Fetched
  <1>. QED
    BY <1>4, <1>5, <1>6, <1>7, <1>8 DEF Proceed

LEMMA BeginIsReal ==
    ASSUME ProxyInv, NEW r \in Requests, Begin(r), \A q \in Requests : Real(q)
    PROVE  \A q \in Requests : Real(q)'
  <1>0. /\ TypeOK /\ req[r] = Idle /\ sheets' = sheets
        /\ \A q \in Requests, n \in {1, 2} : <<q, n>> \in Calls
    BY DEF ProxyInv, Begin, Calls
  <1>1. /\ performed' = performed
        /\ \A c \in Calls : (state'[c] = "ok") <=> (state[c] = "ok")
    BY <1>0 DEF Begin, Promise!Submit, TypeOK
  <1>2. /\ req'[r] # Idle /\ req'[r].pc \in {"first", "answer"} /\ req'[r].ok = FALSE
        /\ \A q \in Requests \ {r} : req'[q] = req[q]
    <2>1. PICK i \in Inputs[r] :
            \/ req' = [req EXCEPT ![r] = [pc |-> "first", caller |-> i[1], ask |-> i[2], ok |-> FALSE, body |-> {}]]
            \/ req' = [req EXCEPT ![r] = [pc |-> "answer", caller |-> i[1], ask |-> i[2], ok |-> FALSE, body |-> {}]]
      BY DEF Begin
    <2>. QED
      BY <1>0, <2>1 DEF TypeOK, Idle
  <1>3. ASSUME NEW q \in Requests \ {r}
        PROVE  Real(q)'
    BY <1>0, <1>1, <1>2, <1>3, RealKept DEF SheetsLast
  <1>4. Real(r)'
    BY <1>0, <1>1, <1>2 DEF Real
  <1>. QED
    BY <1>3, <1>4

\* The processor carries a call out, on the timesheet the request names.
LEMMA PerformIsReal ==
    ASSUME ProxyInv, NEW r \in Requests, NEW n \in {1, 2}, Perform(r, n), \A q \in Requests : Real(q)
    PROVE  \A q \in Requests : Real(q)'
  <1>0. /\ TypeOK /\ req' = req /\ state' = state /\ SheetsLast
        /\ \A q \in Requests, k \in {1, 2} : <<q, k>> \in Calls
    BY PerformLasts DEF ProxyInv, Perform, Promise!Perform, Calls
  <1>1. /\ state[<<r, n>>] # "idle" /\ performed'[<<r, n>>] # {}
        /\ \A c \in Calls \ {<<r, n>>} : performed'[c] = performed[c]
    BY <1>0 DEF Perform, Promise!Perform, TypeOK
  <1>2. \A q \in Requests, k \in {1, 2} :
           <<q, k>> # <<r, n>> => performed'[<<q, k>>] = performed[<<q, k>>]
    BY <1>0, <1>1
  <1>3. ASSUME NEW q \in Requests \ {r}
        PROVE  Real(q)'
    BY <1>0, <1>2, <1>3, RealKept
  <1>4. Real(r)'
    <2>1. req[r] # Idle /\ req[r].ask \in Ask
      BY <1>1, ActiveRequest DEF ProxyInv, Checked
    <2>. DEFINE a == req[r].ask
    <2>2. /\ ById(a) => a.id \in Sheets
          /\ a.kind = "void" => ById(a)
          /\ a.kind = "run" => ~ById(a)
      BY <2>1, AskKind DEF ById
    <2>3. ById(a) /\ n = 1 => a.id \in Stored'
      BY <1>0, <2>2 DEF Perform, Read, VoidSheet, RunClient, Stored, SheetsLast
    <2>4. ById(a) /\ a.id \in Stored => a.id \in Stored'
      BY <1>0, <2>2 DEF Stored, SheetsLast
    <2>5. a.kind = "void" /\ n = 2 => sheets'[a.id] = "voided"
      BY <1>0, <2>2 DEF Perform, Read, VoidSheet, RunClient, TypeOK
    <2>6. a.kind = "void" /\ sheets[a.id] = "voided" => sheets'[a.id] = "voided"
      BY <1>0, <2>2 DEF SheetsLast
    <2>7. /\ n = 1 => performed'[<<r, 2>>] = performed[<<r, 2>>]
          /\ n = 2 => performed'[<<r, 1>>] = performed[<<r, 1>>]
      BY <1>2
    <2>. QED
      BY <1>0, <1>1, <2>1, <2>3, <2>4, <2>5, <2>6, <2>7 DEF Real
  <1>. QED
    BY <1>3, <1>4

\* Calls settle, the process lives on or ends.
LEMMA SettleIsReal ==
    ASSUME ProxyInv, \A q \in Requests : Real(q), UNCHANGED <<sheets, performed>>,
           \/ /\ UNCHANGED req
              /\ UNCHANGED state \/ \E c \in Calls : Promise!Succeed(c) \/ Promise!Fail(c)
           \/ CutOff
    PROVE  \A q \in Requests : Real(q)'
  <1>0. TypeOK /\ SheetsLast /\ \A q \in Requests, n \in {1, 2} : <<q, n>> \in Calls
    BY DEF ProxyInv, SheetsLast, Calls
  <1>1. \A c \in Calls : /\ state'[c] = "ok" => state[c] = "ok" \/ performed[c] # {}
                         /\ state[c] = "ok" => state'[c] = "ok"
    BY <1>0 DEF Promise!Succeed, Promise!Fail, CutOff, Promise!Crash, TypeOK
  <1>2. ASSUME NEW q \in Requests
        PROVE  /\ req'[q] = Idle <=> req[q] = Idle
               /\ req[q] # Idle => /\ req'[q].ask = req[q].ask /\ req'[q].ok = req[q].ok
                                   /\ req'[q].pc \in {req[q].pc, "done"}
    <2>1. req[q] # Idle => req[q] \in Active
      BY ActiveRequest DEF ProxyInv
    <2>. QED
      BY <2>1 DEF CutOff, Active, Idle
  <1>. QED
    BY <1>0, <1>1, <1>2, RealKept

LEMMA RealStep ==
    ASSUME ProxyInv, [Next]_vars, \A q \in Requests : Real(q)
    PROVE  \A q \in Requests : Real(q)'
  <1>1. ASSUME NEW r \in Requests, NEW n \in {1, 2}, Settle(<<r, n>>)
        PROVE  \A q \in Requests : Real(q)'
    <2>1. <<r, n>> \in Calls
      BY DEF Calls
    <2>2. UNCHANGED <<sheets, performed, req>>
      BY <1>1 DEF Settle, Promise!Succeed, Promise!Fail
    <2>3. Promise!Succeed(<<r, n>>) \/ Promise!Fail(<<r, n>>)
      BY <1>1 DEF Settle
    <2>. QED
      BY <2>1, <2>2, <2>3, SettleIsReal
  <1>2. CASE LifeStep \/ UNCHANGED vars
    BY <1>2, SettleIsReal DEF LifeStep, vars
  <1>3. CASE ExitStep \/ ForceExitStep
    BY <1>3, SettleIsReal DEF ExitStep, ForceExitStep, CutOff, Promise!Crash
  <1>. QED
    BY <1>1, <1>2, <1>3, HandlerIsReal, BeginIsReal, PerformIsReal DEF Next

(* Successes are real: the handlers claim nothing the processor has not done, *)
(* whatever is retried, comes late or is lost, and the processor never takes  *)
(* it back.                                                                   *)
THEOREM SuccessIsReal == Spec => []RepliesAreReal
  <1>. DEFINE AllReal == \A r \in Requests : Real(r)
  <1>1. Init => AllReal
    BY DEF Init, Promise!Init, Real, Calls
  <1>2. ProxyInv /\ AllReal /\ [Next]_vars => AllReal'
    BY RealStep
  <1>3. AllReal => RepliesAreReal
    BY DEF Real, RepliesAreReal, ById
  <1>. HIDE DEF AllReal
  <1>. QED
    BY <1>1, <1>2, <1>3, ProxyInvariant, PTL DEF Spec

-----------------------------------------------------------------------------
(* The safety half of EverythingSettles. *)

\* How far a handler is from its end.
Stage(pc) ==
    CASE pc = "idle" -> 4 [] pc = "first" -> 3 [] pc = "second" -> 2 [] pc = "answer" -> 1 [] OTHER -> 0

(* Nobody is forgotten: a client that waits has a handler at work for it, and *)
(* a handler waits only for a call that it has made (asyncHandler and         *)
(* callPunchProcessor: each await is on a promise that somebody settles).     *)
WaitersAreServed ==
    \A r \in Requests :
        /\ conn[r] = "busy" => req[r].pc \in {"first", "second", "answer"}
        /\ req[r].pc = "first" => state[<<r, 1>>] # "idle"
        /\ req[r].pc = "second" => state[<<r, 2>>] # "idle"

(* A handler only moves towards its answer, and each of its own steps does:   *)
(* no failure of a call leads back to an earlier one.                         *)
HandlersRunDown ==
    [][ \A r \in Requests :
          /\ Stage(req'[r].pc) <= Stage(req[r].pc)
          /\ Proceed(r) => Stage(req'[r].pc) < Stage(req[r].pc) ]_vars

\* The calls of the client take the steps of its promise.
LEMMA OnlyPromiseSteps ==
    ASSUME [Next]_vars
    PROVE  [Promise!Next]_(Promise!vars)
  <1>0. \A r \in Requests, n \in {1, 2} : <<r, n>> \in Calls
    BY DEF Calls
  <1>1. ASSUME NEW c \in Calls, Promise!Submit(c) \/ Promise!Succeed(c) \/ Promise!Fail(c) \/ Promise!Perform(c)
        PROVE  Promise!Next
    BY <1>1 DEF Promise!Next
  <1>2. ASSUME NEW r \in Requests, Begin(r) \/ Proceed(r)
        PROVE  \/ Promise!Submit(<<r, 1>>) \/ Promise!Submit(<<r, 2>>)
               \/ UNCHANGED <<state, performed>>
    BY <1>2 DEF Begin, Proceed, PassOn, Fetched, Concluded, CallFailed, Respond, AnswerWith
  <1>3. ASSUME NEW r \in Requests, NEW n \in {1, 2}, Settle(<<r, n>>) \/ Perform(r, n)
        PROVE  Promise!Next
    BY <1>0, <1>1, <1>3 DEF Settle, Perform
  <1>4. CASE ExitStep \/ ForceExitStep
    BY <1>4 DEF ExitStep, ForceExitStep, CutOff, Promise!Next
  <1>5. CASE LifeStep \/ UNCHANGED vars
    BY <1>5 DEF LifeStep, vars, Promise!vars
  <1>. QED
    BY <1>0, <1>1, <1>2, <1>3, <1>4, <1>5 DEF Next, Promise!vars

\* What a step does to the pc of a request.
Forward(r) ==
    \/ req'[r].pc = req[r].pc
    \/ req[r].pc = "idle" /\ req'[r].pc = "first" /\ state'[<<r, 1>>] # "idle"
    \/ req[r].pc = "idle" /\ req'[r].pc = "answer"
    \/ req[r].pc = "first" /\ req'[r].pc = "second" /\ state'[<<r, 2>>] # "idle"
    \/ req[r].pc \in {"first", "second"} /\ req'[r].pc = "answer"
    \/ req[r].pc # "idle" /\ req'[r].pc = "done"

LEMMA BeginForward ==
    ASSUME TypeOK, NEW r \in Requests, Begin(r)
    PROVE  /\ Forward(r) /\ req'[r].pc \in {"first", "answer"}
           /\ \A q \in Requests \ {r} : req'[q] = req[q]
  <1>0. req[r] = Idle /\ <<r, 1>> \in Calls
    BY DEF Begin, Calls
  <1>1. PICK i \in Inputs[r] :
          \/ /\ req' = [req EXCEPT ![r] = [pc |-> "first", caller |-> i[1], ask |-> i[2], ok |-> FALSE, body |-> {}]]
             /\ Promise!Submit(<<r, 1>>)
          \/ req' = [req EXCEPT ![r] = [pc |-> "answer", caller |-> i[1], ask |-> i[2], ok |-> FALSE, body |-> {}]]
    BY DEF Begin
  <1>2. Promise!Submit(<<r, 1>>) => state'[<<r, 1>>] = "pending"
    BY <1>0 DEF Promise!Submit, TypeOK
  <1>. QED
    BY <1>0, <1>1, <1>2 DEF TypeOK, Idle, Forward

LEMMA ProceedForward ==
    ASSUME TypeOK, NEW r \in Requests, Proceed(r)
    PROVE  /\ Forward(r) /\ req'[r].pc # req[r].pc
           /\ Respond(r) \/ req'[r].pc \in {"second", "answer"}
           /\ \A q \in Requests \ {r} : req'[q] = req[q]
  <1>0. req[r] # Idle /\ req[r] \in Active /\ <<r, 2>> \in Calls
    BY Working, ActiveRequest DEF Proceed, PassOn, Fetched, Concluded, CallFailed, Respond, Calls
  <1>1. ASSUME NEW ok, NEW body, AnswerWith(r, ok, body), req[r].pc \in {"first", "second"}
        PROVE  /\ Forward(r) /\ req'[r].pc = "answer" /\ req'[r].pc # req[r].pc
               /\ \A q \in Requests \ {r} : req'[q] = req[q]
    BY <1>0, <1>1 DEF AnswerWith, TypeOK, Active, Forward
  <1>2. CASE Respond(r)
    BY <1>0, <1>2 DEF Respond, TypeOK, Active, Forward
  <1>3. CASE PassOn(r) \/ Concluded(r) \/ CallFailed(r)
    BY <1>1, <1>3 DEF PassOn, Concluded, CallFailed
  <1>4. CASE Fetched(r)
    <2>1. CASE Promise!Submit(<<r, 2>>) /\ req' = [req EXCEPT ![r].pc = "second"]
      <3>1. state'[<<r, 2>>] = "pending"
        BY <1>0, <2>1 DEF Promise!Submit, TypeOK
      <3>. QED
        BY <1>0, <1>4, <2>1, <3>1 DEF Fetched, TypeOK, Active, Forward
    <2>. QED
      BY <1>1, <1>4, <2>1 DEF Fetched
  <1>. QED
    BY <1>2, <1>3, <1>4 DEF Proceed

\* Every step takes every request forward, or leaves it.
LEMMA AllForward ==
    ASSUME ProxyInv, [Next]_vars
    PROVE  /\ \A r \in Requests : Forward(r)
           /\ \A c \in Calls : state[c] # "idle" => state'[c] # "idle"
  <1>0. TypeOK
    BY DEF ProxyInv
  <1>1. ASSUME NEW r \in Requests, Begin(r) \/ Proceed(r)
        PROVE  \A q \in Requests : Forward(q)
    BY <1>0, <1>1, BeginForward, ProceedForward DEF Forward
  <1>2. CASE CutOff
    <2>1. ASSUME NEW q \in Requests
          PROVE  Forward(q)
      <3>1. CASE req[q] = Idle
        BY <1>2, <3>1 DEF CutOff, Forward
      <3>2. CASE req[q] # Idle
        BY <1>0, <1>2, <3>2, ActiveRequest DEF CutOff, Forward, Active
      <3>. QED
        BY <3>1, <3>2
    <2>. QED
      BY <1>0, <1>2, <2>1 DEF CutOff, Promise!Crash, TypeOK
  <1>3. ASSUME UNCHANGED req
        PROVE  \A r \in Requests : Forward(r)
    BY <1>3 DEF Forward
  <1>4. \A c \in Calls : state[c] # "idle" => state'[c] # "idle"
    <2>0. state \in [Calls -> {"idle", "pending", "ok", "failed"}]
      BY <1>0 DEF TypeOK
    <2>1. ASSUME NEW c \in Calls, Promise!Submit(c) \/ Promise!Succeed(c) \/ Promise!Fail(c) \/ Promise!Perform(c)
          PROVE  \A d \in Calls : state[d] # "idle" => state'[d] # "idle"
      BY <2>0, <2>1 DEF Promise!Submit, Promise!Succeed, Promise!Fail, Promise!Perform
    <2>2. CASE Promise!Crash
      BY <2>0, <2>2 DEF Promise!Crash
    <2>3. CASE UNCHANGED Promise!vars
      BY <2>3 DEF Promise!vars
    <2>. QED
      BY <2>1, <2>2, <2>3, OnlyPromiseSteps DEF Promise!Next
  <1>. QED
    BY <1>1, <1>2, <1>3, <1>4
       DEF Next, Settle, Perform, LifeStep, ExitStep, ForceExitStep, CutOff, vars

\* A connection turns busy only when its request begins, and a request ends only with its connection.
LEMMA ConnStep ==
    ASSUME ProxyInv, [Next]_vars, NEW q \in Requests, conn'[q] = "busy"
    PROVE  \/ conn[q] = "busy" /\ req'[q].pc \in {req[q].pc, "second", "answer"}
           \/ req'[q].pc \in {"first", "answer"}
  <1>0. TypeOK /\ conn \in [Requests -> Process!Conn]
    BY DEF ProxyInv, TypeOK, Process!TypeOK
  <1>1. ASSUME NEW r \in Requests, Begin(r)
        PROVE  \/ conn[q] = "busy" /\ req'[q] = req[q]
               \/ req'[q].pc \in {"first", "answer"}
    <2>1. q # r => conn[q] = "busy"
      BY <1>0, <1>1 DEF Begin, Process!Open, Process!Conn
    <2>. QED
      BY <1>0, <1>1, <2>1, BeginForward
  <1>2. ASSUME NEW r \in Requests, Proceed(r)
        PROVE  conn[q] = "busy" /\ req'[q].pc \in {req[q].pc, "second", "answer"}
    <2>1. conn[q] = "busy" /\ ~(q = r /\ Respond(r))
      BY <1>0, <1>2 DEF Proceed, PassOn, Fetched, Concluded, CallFailed, Respond,
                        Process!Answer, Process!Conn
    <2>. QED
      BY <1>0, <1>2, <2>1, ProceedForward
  <1>3. CASE LifeStep
    BY <1>0, <1>3 DEF LifeStep, Process!Start, Process!StartFails, Process!HangUp, Process!Expire,
                      Process!Signal, Process!Drained, Process!Conn
  <1>4. CASE ExitStep \/ ForceExitStep
    BY <1>0, <1>4 DEF ExitStep, ForceExitStep, Process!Exit, Process!ForceExit, Process!End, Process!Conn
  <1>5. CASE UNCHANGED <<conn, req>>
    BY <1>5
  <1>. QED
    BY <1>1, <1>2, <1>3, <1>4, <1>5 DEF Next, Settle, Perform, vars

(* Whoever waits is served, and every handler runs down to its answer: what   *)
(* EverythingSettles adds is that calls settle and the event loop goes on.    *)
THEOREM HandlersReachAnswers == Spec => []WaitersAreServed /\ HandlersRunDown
  <1>1. Init => WaitersAreServed
    BY DEF Init, WaitersAreServed, Process!Init, Idle
  <1>2. ProxyInv /\ WaitersAreServed /\ [Next]_vars => WaitersAreServed'
    <2>. SUFFICES ASSUME ProxyInv, WaitersAreServed, [Next]_vars, NEW r \in Requests
                  PROVE  /\ conn'[r] = "busy" => req'[r].pc \in {"first", "second", "answer"}
                         /\ req'[r].pc = "first" => state'[<<r, 1>>] # "idle"
                         /\ req'[r].pc = "second" => state'[<<r, 2>>] # "idle"
      BY DEF WaitersAreServed
    <2>1. <<r, 1>> \in Calls /\ <<r, 2>> \in Calls
      BY DEF Calls
    <2>2. conn'[r] = "busy" => req'[r].pc \in {"first", "second", "answer"}
      BY ConnStep DEF WaitersAreServed
    <2>. QED
      BY <2>1, <2>2, AllForward DEF Forward, WaitersAreServed
  <1>3. ProxyInv /\ [Next]_vars =>
          [ \A r \in Requests :
              /\ Stage(req'[r].pc) <= Stage(req[r].pc)
              /\ Proceed(r) => Stage(req'[r].pc) < Stage(req[r].pc) ]_vars
    <2>. SUFFICES ASSUME ProxyInv, [Next]_vars, NEW r \in Requests
                  PROVE  /\ Stage(req'[r].pc) <= Stage(req[r].pc)
                         /\ Proceed(r) => Stage(req'[r].pc) < Stage(req[r].pc)
      OBVIOUS
    <2>1. Forward(r) /\ (Proceed(r) => req'[r].pc # req[r].pc)
      BY AllForward, ProceedForward DEF ProxyInv
    <2>2. req[r].pc \in {"idle", "first", "second", "answer", "done"}
      BY DEF ProxyInv, TypeOK, Idle, Active
    <2>. QED
      BY <2>1, <2>2 DEF Forward, Stage
  <1>. QED
    BY <1>1, <1>2, <1>3, ProxyInvariant, PTL DEF Spec, HandlersRunDown

(* The handlers make calls only as ProcessorPromise has them made and count   *)
(* on no more than it promises.  ProcessorClient implements this promise, so  *)
(* what is proved of the handlers holds of the handlers with the client       *)
(* behind them (the imports of punchProcessorClient in the two proxies).      *)
THEOREM ClientUsedAsPromised == Spec => Promise!Spec
  <1>1. Init => Promise!Init
    BY DEF Init
  <1>2. [Next]_vars => [Promise!Next]_(Promise!vars)
    BY OnlyPromiseSteps
  <1>. QED
    BY <1>1, <1>2, PTL DEF Spec, Promise!Spec

=============================================================================
