------------------------------ MODULE Adherence ------------------------------
(* The adherence report of the schedule module (getAdherenceReport): which    *)
(* employees turned up for their shifts.  It reads the shifts, then the       *)
(* punches of their employees, and pairs them; nothing is stored.  Neither    *)
(* read is a snapshot: a query of MongoDB looks at each document once, in     *)
(* some order, while requests of the schedule and the punch module write.     *)
(* Of these the report relies on ShiftFeed and PunchJournal, and no more.     *)
EXTENDS Integers, TenantScope

CONSTANTS
    Reports,        \* concurrent requests for a report (slots)
    ShiftIds,       \* Mongo ids of scheduledShifts documents
    PunchIds,       \* Mongo ids of punches documents
    Employees,      \* external employee ids
    NoShift,        \* an id no shift has
    NoPunch,        \* an id no punch has; the null correctionOfPunchId and matchedPunchId
    NoTime,         \* the null clockOut of an open punch, and a null variance
    Absent,         \* a query parameter that is not given
    Minute,         \* instants in a minute
    Window,         \* PUNCH_MATCH_WINDOW_MS
    LateThreshold,  \* LATE_THRESHOLD_MINUTES
    EarlyThreshold, \* EARLY_THRESHOLD_MINUTES
    Callers,        \* principals past authentication and the permission gate
    Queries,        \* bound: the query parameters
    ShiftDocs,      \* bound: the shifts that are written
    PunchDocs       \* bound: the punches that are written

Shift == [ clientId: Clients, employeeId: Employees, siteId: Sites, shiftStart: Int, shiftEnd: Int,
           status: {"scheduled", "cancelled"}, seriesId: {NoShift} ]

Punch == [ clientId: Clients, employeeId: Employees, siteId: Sites,
           clockIn: Int, clockOut: Int \union {NoTime},
           status: {"open", "closed", "corrected"},
           correctionOfPunchId: PunchIds \union {NoPunch} ]

Query == [ from: Int, to: Int, employeeId: Employees \union {Absent}, siteId: Sites \union {Absent} ]

ASSUME AdherenceAssumption ==
    /\ NoShift \notin Shift /\ NoPunch \notin Punch \union PunchIds \union ShiftIds
    /\ NoTime \notin Int /\ Absent \notin Employees \union Sites
    /\ ShiftIds \intersect PunchIds = {}
    /\ Minute \in Nat \ {0} /\ Minute % 2 = 0
    /\ Window \in Nat /\ LateThreshold \in Nat /\ EarlyThreshold \in Nat
    /\ Callers \subseteq Principal /\ Queries \subseteq Query
    /\ ShiftDocs \subseteq Shift /\ PunchDocs \subseteq Punch

VARIABLES
    shifts,     \* the scheduledShifts collection
    punches,    \* the punches collection
    report      \* the state of each request

vars == <<shifts, punches, report>>

Shifts == INSTANCE ShiftFeed WITH feed <- shifts
Journal == INSTANCE PunchJournal WITH journal <- punches

Idle == [pc |-> "idle"]

(* unread: the documents the current query has not looked at yet.  untouched  *)
(* is history: the documents nobody has written since the report began.       *)
Active == [ pc: {"shifts", "punches", "done"}, filter: Filter, query: Queries,
            unread: SUBSET (ShiftIds \union PunchIds),
            shifts: SUBSET (ShiftIds \X ShiftDocs), punches: SUBSET (PunchIds \X PunchDocs),
            entries: SUBSET [ shift: ShiftIds \X ShiftDocs, matched: PunchIds \union {NoPunch},
                              status: {"no_show", "on_time", "late", "early"},
                              inVariance: Int \union {NoTime}, outVariance: Int \union {NoTime} ],
            untouched: SUBSET (ShiftIds \union PunchIds) ]

TypeOK ==
    /\ shifts \in [ShiftIds -> ShiftDocs \union {NoShift}]
    /\ punches \in [PunchIds -> PunchDocs \union {NoPunch}]
    /\ report \in [Reports -> {Idle} \union Active]

-----------------------------------------------------------------------------
(* The pairing *)

Live(p) == p.status \in {"open", "closed"}

Near(p, s) == s.shiftStart - Window <= p.clockIn /\ p.clockIn <= s.shiftEnd + Window

\* buildAdherenceEntry: the punches of this shift among those that were read.
Candidate(p, s) ==
    /\ p.clientId = s.clientId /\ p.employeeId = s.employeeId /\ p.siteId = s.siteId
    /\ Near(p, s)

\* Mutant: halves go away from zero.
InMinutes_Away(duration) ==
    IF duration < 0 THEN -((Minute \div 2 - duration) \div Minute) ELSE (duration + Minute \div 2) \div Minute

\* Math.round(x / 60_000): halves go up, also below zero.
InMinutes(duration) == (duration + Minute \div 2) \div Minute

StatusOf(inVariance, outVariance) ==
    IF inVariance > LateThreshold THEN "late"
    ELSE IF outVariance # NoTime /\ outVariance < -EarlyThreshold THEN "early"
    ELSE "on_time"

EmptyEntry(f) ==
    [shift |-> f, matched |-> NoPunch, status |-> "no_show", inVariance |-> NoTime, outVariance |-> NoTime]

MatchedEntry(f, m) ==
    LET inVariance == InMinutes(m[2].clockIn - f[2].shiftStart)
        outVariance == IF m[2].clockOut = NoTime THEN NoTime ELSE InMinutes(m[2].clockOut - f[2].shiftEnd)
    IN  [ shift |-> f, matched |-> m[1], status |-> StatusOf(inVariance, outVariance),
          inVariance |-> inVariance, outVariance |-> outVariance ]

\* Candidates sorted by clockIn: with several of the same time, any of them comes first.
FirstOf(C) == {m \in C : \A n \in C : m[2].clockIn <= n[2].clockIn}

\* What buildAdherenceEntry may return for the shift f, given the punches F.
EntriesOf(f, F) ==
    LET C == {m \in F : Candidate(m[2], f[2])}
    IN  IF C = {} THEN {EmptyEntry(f)} ELSE {MatchedEntry(f, m) : m \in FirstOf(C)}

-----------------------------------------------------------------------------
(* GET /schedules/adherence *)

\* The siteId parameter takes the place of the site clause of the tenant filter.
FilterFor(p, requested, q) ==
    [ ReadSiteFilter(p, requested) EXCEPT !.siteId = IF q.siteId # Absent THEN {q.siteId} ELSE @ ]

\* Mutant: cancelled shifts are reported, too.
WantedShift_AnyStatus(d, filter, q) ==
    /\ d # NoShift
    /\ Matches(d, filter)
    /\ q.employeeId # Absent => d.employeeId = q.employeeId
    /\ q.from <= d.shiftStart /\ d.shiftStart <= q.to

\* shiftQuery
WantedShift(d, filter, q) ==
    /\ d # NoShift
    /\ Matches(d, filter)
    /\ d.status = "scheduled"
    /\ q.employeeId # Absent => d.employeeId = q.employeeId
    /\ q.from <= d.shiftStart /\ d.shiftStart <= q.to

\* Mutant: the window of the punches is that of the starts of the shifts.
WantedPunch_StartsOnly(d, F) ==
    /\ d # NoPunch /\ Live(d)
    /\ \E f \in F : d.clientId = f[2].clientId
    /\ \E f \in F : d.employeeId = f[2].employeeId
    /\ \E f \in F : f[2].shiftStart - Window <= d.clockIn
    /\ \E f \in F : d.clockIn <= f[2].shiftStart + Window

\* The second query, from the clients, the employees and the extreme times of the shifts F.
WantedPunch(d, F) ==
    /\ d # NoPunch /\ Live(d)
    /\ \E f \in F : d.clientId = f[2].clientId
    /\ \E f \in F : d.employeeId = f[2].employeeId
    /\ \E f \in F : f[2].shiftStart - Window <= d.clockIn
    /\ \E f \in F : d.clockIn <= f[2].shiftEnd + Window

Begin(r) ==
    /\ report[r] = Idle
    /\ \E p \in Callers, q \in Queries, requested \in Clients \union {NoClient} :
          /\ MayScope(p)
          /\ report' = [ report EXCEPT ![r] =
                 [ pc |-> "shifts", filter |-> FilterFor(p, requested, q), query |-> q, unread |-> ShiftIds,
                   shifts |-> {}, punches |-> {}, entries |-> {}, untouched |-> ShiftIds \union PunchIds ] ]
    /\ UNCHANGED <<shifts, punches>>

\* The first query looks at the shift i; without any shift the report is empty at once.
ReadShift(r, i) ==
    /\ report[r].pc = "shifts" /\ i \in report[r].unread
    /\ LET rest == report[r].unread \ {i}
           found == report[r].shifts \union
                      {f \in {<<i, shifts[i]>>} : WantedShift(f[2], report[r].filter, report[r].query)}
           pc == IF rest # {} THEN "shifts" ELSE IF found = {} THEN "done" ELSE "punches"
       IN  report' = [ report EXCEPT ![r].pc = pc, ![r].shifts = found,
                                     ![r].unread = IF pc = "punches" THEN PunchIds ELSE rest ]
    /\ UNCHANGED <<shifts, punches>>

\* The second query looks at the punch i; the last one completes the report.
ReadPunch(r, i) ==
    /\ report[r].pc = "punches" /\ i \in report[r].unread
    /\ LET rest == report[r].unread \ {i}
           F == report[r].shifts
           found == report[r].punches \union {m \in {<<i, punches[i]>>} : WantedPunch(m[2], F)}
       IN  IF rest # {}
           THEN report' = [report EXCEPT ![r].unread = rest, ![r].punches = found]
           ELSE \E entry \in [F -> UNION {EntriesOf(f, found) : f \in F}] :
                  /\ \A f \in F : entry[f] \in EntriesOf(f, found)
                  /\ report' = [ report EXCEPT ![r].pc = "done", ![r].unread = {}, ![r].punches = found,
                                               ![r].entries = {entry[f] : f \in F} ]
    /\ UNCHANGED <<shifts, punches>>

Respond(r) ==
    /\ report[r].pc = "done"
    /\ report' = [report EXCEPT ![r] = Idle]
    /\ UNCHANGED <<shifts, punches>>

\* A query fails.
QueryFails(r) ==
    /\ report[r].pc \in {"shifts", "punches"}
    /\ report' = [report EXCEPT ![r] = Idle]
    /\ UNCHANGED <<shifts, punches>>

-----------------------------------------------------------------------------
(* The requests that write *)

Touch(i) ==
    report' = [ r \in Reports |-> IF report[r] = Idle THEN Idle
                                  ELSE [report[r] EXCEPT !.untouched = @ \ {i}] ]

WriteShift(i) ==
    /\ \E d \in ShiftDocs :
          /\ shifts' = [shifts EXCEPT ![i] = d]
          /\ Shifts!Appear(i) \/ Shifts!Change(i)
    /\ Touch(i)
    /\ UNCHANGED punches

WritePunch(i) ==
    /\ \E d \in PunchDocs :
          /\ punches' = [punches EXCEPT ![i] = d]
          /\ Journal!Add(i) \/ Journal!Retire(i)
    /\ Touch(i)
    /\ UNCHANGED shifts

-----------------------------------------------------------------------------

Init ==
    /\ shifts = [i \in ShiftIds |-> NoShift]
    /\ punches = [i \in PunchIds |-> NoPunch]
    /\ report = [r \in Reports |-> Idle]

Next ==
    \/ \E r \in Reports :
          \/ Begin(r)
          \/ \E i \in ShiftIds : ReadShift(r, i)
          \/ \E i \in PunchIds : ReadPunch(r, i)
          \/ Respond(r)
          \/ QueryFails(r)
    \/ \E i \in ShiftIds : WriteShift(i)
    \/ \E i \in PunchIds : WritePunch(i)

Spec == Init /\ [][Next]_vars

-----------------------------------------------------------------------------
(* Properties.  Each is about the step that completes a report; the reads do  *)
(* not change the collections, so what is untouched then was so throughout.   *)

Completed(r) == report[r].pc # "done" /\ report'[r].pc = "done"

\* The scheduled shifts a report is asked for.
Due(r) ==
    LET q == report[r].query
    IN  { <<i, shifts[i]>> : i \in
            {j \in ShiftIds : /\ shifts[j] # NoShift /\ shifts[j].status = "scheduled"
                              /\ Matches(shifts[j], report[r].filter)
                              /\ q.employeeId \in {shifts[j].employeeId, Absent}
                              /\ shifts[j].shiftStart \in q.from .. q.to} }

Place(d) == <<d.clientId, d.employeeId, d.siteId>>

\* The punches that count as work on the shift s.
Worked(s) ==
    { <<i, punches[i]>> : i \in
        {j \in PunchIds : /\ punches[j] # NoPunch /\ punches[j].status # "corrected"
                          /\ Place(punches[j]) = Place(s)
                          /\ punches[j].clockIn \in s.shiftStart - Window .. s.shiftEnd + Window} }

(* The report leaves out no work: next to a live punch in reach of a reported *)
(* shift that nobody writes while the report runs, the shift is not a no-show *)
(* and the punch it is paired with is not a later one                         *)
(* (buildAdherenceEntry pairs the earliest), whatever else is written.        *)
NoWorkIsMissed ==
    [][ \A r \in Reports : Completed(r) =>
          \A e \in report'[r].entries : \A m \in Worked(e.shift[2]) :
             m[1] \in report[r].untouched =>
               /\ e.status # "no_show"
               /\ \E n \in report'[r].punches : n[1] = e.matched /\ n[2].clockIn <= m[2].clockIn ]_vars

(* What was over before the report began does not show in it: no entry for a  *)
(* shift cancelled by then and no pairing with a punch corrected by then; and *)
(* a shift nobody touches meanwhile is in it as it is ("computed on-demand",  *)
(* comment on getAdherenceReport), exactly once.                              *)
ReportIsFresh ==
    [][ \A r \in Reports : Completed(r) =>
          LET R == report'[r].entries
          IN  /\ \A e \in R :
                    /\ e.shift[1] \in report[r].untouched => e.shift \in Due(r)
                    /\ e.matched \in report[r].untouched => punches[e.matched].status # "corrected"
              /\ \A f \in Due(r) : f[1] \in report[r].untouched => \E e \in R : e.shift = f
              /\ \A d, e \in R : d.shift[1] = e.shift[1] => d = e ]_vars

\* Half a minute beyond the threshold is late; it takes more than that to be early.
ComesLate(s, p) == 2 * (p.clockIn - s.shiftStart) >= (2 * LateThreshold + 1) * Minute
LeavesEarly(s, p) ==
    p.clockOut # NoTime /\ 2 * (s.shiftEnd - p.clockOut) > (2 * EarlyThreshold + 1) * Minute

(* A report nobody writes under agrees with the collections: every scheduled  *)
(* shift is paired with an earliest live punch of its client, employee and    *)
(* site in its window, although punches of all shifts are fetched together;   *)
(* and its status follows from the exact times, although the code compares    *)
(* rounded minutes.                                                           *)
ReportIsExact ==
    [][ \A r \in Reports : Completed(r) /\ report[r].untouched = ShiftIds \union PunchIds =>
          /\ {e.shift : e \in report'[r].entries} = Due(r)
          /\ \A e \in report'[r].entries :
                \/ Worked(e.shift[2]) = {} /\ e.status = "no_show"
                \/ \E m \in Worked(e.shift[2]) :
                      /\ m[1] = e.matched
                      /\ \A n \in Worked(e.shift[2]) : m[2].clockIn <= n[2].clockIn
                      /\ e.status = "late" <=> ComesLate(e.shift[2], m[2])
                      /\ e.status = "early" <=> ~ComesLate(e.shift[2], m[2]) /\ LeavesEarly(e.shift[2], m[2])
                      /\ e.status # "no_show" ]_vars
=============================================================================
