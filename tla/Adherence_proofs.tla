--------------------------- MODULE Adherence_proofs ---------------------------
(* Proofs about Adherence for every number of reports, shifts and punches,    *)
(* every window and thresholds, and whatever is written meanwhile.            *)
EXTENDS Adherence, TLAPS

-----------------------------------------------------------------------------
(* Minutes *)

LEMMA DivFacts ==
    ASSUME NEW a \in Int, NEW m \in Nat \ {0}
    PROVE  LET q == a \div m IN q \in Int /\ q * m <= a /\ a < q * m + m
    BY SMT

LEMMA TimesMonotone ==
    ASSUME NEW a \in Int, NEW b \in Int, NEW m \in Nat, a <= b
    PROVE  a * m <= b * m
    BY SMT

LEMMA HalfMinute == Minute \div 2 \in Int /\ 2 * (Minute \div 2) = Minute
    BY SMT, AdherenceAssumption

\* Math.round, put without division.
LEMMA Rounded ==
    ASSUME NEW d \in Int, NEW n \in Int
    PROVE  /\ InMinutes(d) \in Int
           /\ InMinutes(d) > n <=> 2 * d >= (2 * n + 1) * Minute
  <1>. DEFINE a == d + Minute \div 2
              q == a \div Minute
  <1>1. Minute \in Nat \ {0} /\ a \in Int /\ 2 * a = 2 * d + Minute
    BY HalfMinute, AdherenceAssumption
  <1>2. InMinutes(d) = q
    BY DEF InMinutes
  <1>3. q \in Int /\ q * Minute <= a /\ a < q * Minute + Minute
    BY <1>1, DivFacts
  <1>. HIDE DEF a, q
  <1>4. q * Minute \in Int /\ n * Minute \in Int
        /\ (n + 1) * Minute = n * Minute + Minute /\ (2 * n + 1) * Minute = 2 * (n * Minute) + Minute
    BY <1>1, <1>3, SMT
  <1>5. CASE q > n
    <2>1. (n + 1) * Minute <= q * Minute
      BY <1>1, <1>3, <1>5, TimesMonotone
    <2>. QED
      BY <1>1, <1>2, <1>3, <1>4, <1>5, <2>1
  <1>6. CASE ~(q > n)
    <2>1. q * Minute <= n * Minute
      BY <1>1, <1>3, <1>6, TimesMonotone
    <2>. QED
      BY <1>1, <1>2, <1>3, <1>4, <1>6, <2>1
  <1>. QED
    BY <1>3, <1>5, <1>6

-----------------------------------------------------------------------------
(* Types *)

Entry == [ shift: ShiftIds \X ShiftDocs, matched: PunchIds \union {NoPunch},
           status: {"no_show", "on_time", "late", "early"},
           inVariance: Int \union {NoTime}, outVariance: Int \union {NoTime} ]

LEMMA ShiftFields ==
    ASSUME NEW d \in ShiftDocs
    PROVE  /\ d.clientId \in Clients /\ d.siteId \in Sites /\ d.employeeId \in Employees
           /\ d.shiftStart \in Int /\ d.shiftEnd \in Int /\ d # NoShift
    BY AdherenceAssumption DEF Shift

LEMMA PunchFields ==
    ASSUME NEW d \in PunchDocs
    PROVE  /\ d.clientId \in Clients /\ d.siteId \in Sites /\ d.employeeId \in Employees
           /\ d.clockIn \in Int /\ d.clockOut \in Int \union {NoTime} /\ d # NoPunch
           /\ d.status \in {"open", "closed", "corrected"}
    BY AdherenceAssumption DEF Punch

\* A paired punch is a candidate, and none of the candidates is earlier.
LEMMA EntryFacts ==
    ASSUME NEW f \in ShiftIds \X ShiftDocs, NEW F \in SUBSET (PunchIds \X PunchDocs), NEW e \in EntriesOf(f, F)
    PROVE  /\ e \in Entry /\ e.shift = f
           /\ \/ e.status = "no_show" /\ e.matched = NoPunch /\ \A m \in F : ~Candidate(m[2], f[2])
              \/ \E m \in F :
                    /\ Candidate(m[2], f[2]) /\ \A n \in F : Candidate(n[2], f[2]) => m[2].clockIn <= n[2].clockIn
                    /\ e = MatchedEntry(f, m)
  <1>. DEFINE C == {m \in F : Candidate(m[2], f[2])}
  <1>1. CASE C = {}
    <2>1. e = EmptyEntry(f)
      BY <1>1 DEF EntriesOf
    <2>. QED
      BY <1>1, <2>1 DEF EmptyEntry, Entry
  <1>2. CASE C # {}
    <2>1. PICK m \in FirstOf(C) : e = MatchedEntry(f, m)
      BY <1>2 DEF EntriesOf
    <2>2. /\ m \in F /\ Candidate(m[2], f[2])
          /\ \A n \in F : Candidate(n[2], f[2]) => m[2].clockIn <= n[2].clockIn
      BY DEF FirstOf
    <2>3. /\ m[1] \in PunchIds /\ m[2].clockIn \in Int /\ m[2].clockOut \in Int \union {NoTime}
          /\ f[2].shiftStart \in Int /\ f[2].shiftEnd \in Int
      BY <2>2, PunchFields, ShiftFields
    <2>. DEFINE in == InMinutes(m[2].clockIn - f[2].shiftStart)
                out == IF m[2].clockOut = NoTime THEN NoTime ELSE InMinutes(m[2].clockOut - f[2].shiftEnd)
    <2>4. in \in Int
      <3>1. m[2].clockIn - f[2].shiftStart \in Int
        BY <2>3
      <3>. QED
        BY <3>1, Rounded
    <2>5. out \in Int \union {NoTime}
      <3>1. CASE m[2].clockOut = NoTime
        BY <3>1
      <3>2. CASE m[2].clockOut # NoTime
        <4>1. m[2].clockOut - f[2].shiftEnd \in Int
          BY <2>3, <3>2
        <4>2. InMinutes(m[2].clockOut - f[2].shiftEnd) \in Int
          BY <4>1, Rounded
        <4>. QED
          BY <3>2, <4>2
      <3>. QED
        BY <3>1, <3>2
    <2>6. e = [ shift |-> f, matched |-> m[1], status |-> StatusOf(in, out), inVariance |-> in, outVariance |-> out ]
      BY <2>1 DEF MatchedEntry
    <2>. HIDE DEF in, out
    <2>7. StatusOf(in, out) \in {"no_show", "on_time", "late", "early"}
      BY DEF StatusOf
    <2>8. e \in Entry /\ e.shift = f
      <3>. DEFINE status == StatusOf(in, out)
      <3>1. m[1] \in PunchIds \union {NoPunch} /\ in \in Int \union {NoTime}
        BY <2>3, <2>4
      <3>. HIDE DEF status
      <3>. QED
        BY <2>5, <2>6, <2>7, <3>1 DEF Entry, status
    <2>. QED
      BY <2>1, <2>2, <2>8
  <1>. QED
    BY <1>1, <1>2

LEMMA FilterType ==
    ASSUME NEW p \in Callers, NEW requested \in Clients \union {NoClient}, MayScope(p), NEW q \in Queries
    PROVE  FilterFor(p, requested, q) \in Filter
  <1>1. p \in Principal /\ q.siteId \in Sites \union {Absent}
    BY AdherenceAssumption DEF Query
  <1>2. ReadClientFilter(p, requested) \in Filter
    BY <1>1 DEF ReadClientFilter, MayScope, Filter, Principal, Role
  <1>3. ReadSiteFilter(p, requested) \in Filter
    BY <1>1, <1>2 DEF ReadSiteFilter, Filter, Principal
  <1>. QED
    BY <1>1, <1>3 DEF FilterFor, Filter

LEMMA ActiveReport ==
    ASSUME TypeOK, NEW r \in Reports, report[r].pc \in {"shifts", "punches", "done"}
    PROVE  report[r] \in Active /\ report[r] # Idle
    BY DEF TypeOK, Idle

LEMMA ReadShiftFacts ==
    ASSUME TypeOK, NEW r \in Reports, NEW i \in ShiftIds, ReadShift(r, i)
    PROVE  LET x == report[r]
               y == report'[r]
           IN  /\ x \in Active /\ x.pc = "shifts" /\ i \in x.unread
               /\ y \in Active /\ y # Idle
               /\ y.filter = x.filter /\ y.query = x.query /\ y.untouched = x.untouched
               /\ y.entries = x.entries /\ y.punches = x.punches
               /\ y.shifts = x.shifts \union
                      {f \in {<<i, shifts[i]>>} : WantedShift(f[2], x.filter, x.query)}
               /\ \/ y.pc = "shifts" /\ y.unread = x.unread \ {i}
                  \/ x.unread = {i} /\ y.pc = "done" /\ y.shifts = {}
                  \/ x.unread = {i} /\ y.pc = "punches" /\ y.shifts # {} /\ y.unread = PunchIds
               /\ \A q \in Reports \ {r} : report'[q] = report[q]
               /\ report' \in [Reports -> {Idle} \union Active]
  <1>. DEFINE x == report[r]
              rest == x.unread \ {i}
              found == x.shifts \union {f \in {<<i, shifts[i]>>} : WantedShift(f[2], x.filter, x.query)}
              pc == IF rest # {} THEN "shifts" ELSE IF found = {} THEN "done" ELSE "punches"
              y == [x EXCEPT !.pc = pc, !.shifts = found, !.unread = IF pc = "punches" THEN PunchIds ELSE rest]
  <1>1. x \in Active /\ x.pc = "shifts" /\ i \in x.unread
    BY ActiveReport DEF ReadShift
  <1>2. report' = [report EXCEPT ![r] = y]
    BY DEF ReadShift
  <1>3. \A f \in found : f \in ShiftIds \X ShiftDocs
    <2>1. shifts[i] \in ShiftDocs \union {NoShift} /\ x.shifts \in SUBSET (ShiftIds \X ShiftDocs)
      BY <1>1 DEF TypeOK, Active
    <2>. QED
      BY <2>1 DEF WantedShift
  <1>. HIDE DEF found
  <1>4. y \in Active /\ y # Idle
    <2>1. pc \in {"shifts", "punches", "done"} /\ rest \in SUBSET (ShiftIds \union PunchIds)
      BY <1>1 DEF Active
    <2>. HIDE DEF pc, rest
    <2>. QED
      BY <1>1, <1>3, <2>1 DEF Active, Idle
  <1>5. /\ y.filter = x.filter /\ y.query = x.query /\ y.untouched = x.untouched
        /\ y.entries = x.entries /\ y.punches = x.punches
        /\ y.pc = pc /\ y.shifts = found /\ y.unread = IF pc = "punches" THEN PunchIds ELSE rest
    <2>. HIDE DEF pc, rest
    <2>. QED
      BY <1>1 DEF Active
  <1>6. report'[r] = y /\ \A q \in Reports \ {r} : report'[q] = report[q]
    BY <1>2 DEF TypeOK
  <1>7. report' \in [Reports -> {Idle} \union Active]
    BY <1>2, <1>4 DEF TypeOK
  <1>. HIDE DEF y
  <1>. QED
    BY <1>1, <1>4, <1>5, <1>6, <1>7 DEF found

LEMMA ReadPunchFacts ==
    ASSUME TypeOK, NEW r \in Reports, NEW i \in PunchIds, ReadPunch(r, i)
    PROVE  LET x == report[r]
               y == report'[r]
           IN  /\ x \in Active /\ x.pc = "punches" /\ i \in x.unread
               /\ y \in Active /\ y # Idle
               /\ y.filter = x.filter /\ y.query = x.query /\ y.untouched = x.untouched
               /\ y.shifts = x.shifts
               /\ y.punches = x.punches \union {m \in {<<i, punches[i]>>} : WantedPunch(m[2], x.shifts)}
               /\ \/ y.pc = "punches" /\ y.unread = x.unread \ {i} /\ y.entries = x.entries
                  \/ /\ x.unread = {i} /\ y.pc = "done"
                     /\ \E entry : /\ \A f \in x.shifts : entry[f] \in EntriesOf(f, y.punches)
                                   /\ y.entries = {entry[f] : f \in x.shifts}
               /\ \A q \in Reports \ {r} : report'[q] = report[q]
               /\ report' \in [Reports -> {Idle} \union Active]
  <1>. DEFINE x == report[r]
              rest == x.unread \ {i}
              F == x.shifts
              found == x.punches \union {m \in {<<i, punches[i]>>} : WantedPunch(m[2], F)}
  <1>1. x \in Active /\ x.pc = "punches" /\ i \in x.unread /\ F \in SUBSET (ShiftIds \X ShiftDocs)
    BY ActiveReport DEF ReadPunch, Active
  <1>2. found \in SUBSET (PunchIds \X PunchDocs)
    <2>1. punches[i] \in PunchDocs \union {NoPunch} /\ x.punches \in SUBSET (PunchIds \X PunchDocs)
      BY <1>1 DEF TypeOK, Active
    <2>. QED
      BY <2>1 DEF WantedPunch
  <1>3. CASE rest # {}
    <2>. DEFINE y == [x EXCEPT !.unread = rest, !.punches = found]
    <2>1. report' = [report EXCEPT ![r] = y]
      BY <1>3 DEF ReadPunch
    <2>. HIDE DEF found
    <2>2. y \in Active /\ y # Idle
      BY <1>1, <1>2 DEF Active, Idle
    <2>3. /\ y.filter = x.filter /\ y.query = x.query /\ y.untouched = x.untouched
          /\ y.shifts = x.shifts /\ y.punches = found
          /\ y.pc = "punches" /\ y.unread = rest /\ y.entries = x.entries
      BY <1>1 DEF Active
    <2>4. /\ report'[r] = y /\ \A q \in Reports \ {r} : report'[q] = report[q]
          /\ report' \in [Reports -> {Idle} \union Active]
      BY <2>1, <2>2 DEF TypeOK
    <2>. HIDE DEF y
    <2>. QED
      BY <1>1, <2>2, <2>3, <2>4 DEF found
  <1>4. CASE rest = {}
    <2>1. PICK entry \in [F -> UNION {EntriesOf(f, found) : f \in F}] :
                /\ \A f \in F : entry[f] \in EntriesOf(f, found)
                /\ report' = [ report EXCEPT ![r].pc = "done", ![r].unread = {}, ![r].punches = found,
                                             ![r].entries = {entry[f] : f \in F} ]
      BY <1>4 DEF ReadPunch
    <2>. DEFINE entries == {entry[f] : f \in F}
                y == [x EXCEPT !.pc = "done", !.unread = {}, !.punches = found, !.entries = entries]
    <2>2. report' = [report EXCEPT ![r] = y]
      BY <2>1
    <2>. HIDE DEF found
    <2>3. entries \in SUBSET Entry
      BY <1>1, <1>2, <2>1, EntryFacts
    <2>. HIDE DEF entries
    <2>4. y \in Active /\ y # Idle
      BY <1>1, <1>2, <2>3 DEF Active, Idle, Entry
    <2>5. /\ y.filter = x.filter /\ y.query = x.query /\ y.untouched = x.untouched
          /\ y.shifts = x.shifts /\ y.punches = found
          /\ y.pc = "done" /\ y.unread = {} /\ y.entries = entries
      BY <1>1 DEF Active
    <2>6. /\ report'[r] = y /\ \A q \in Reports \ {r} : report'[q] = report[q]
          /\ report' \in [Reports -> {Idle} \union Active]
      BY <2>2, <2>4 DEF TypeOK
    <2>. HIDE DEF y
    <2>7. x.unread = {i}
      BY <1>1, <1>4
    <2>8. \A f \in F : entry[f] \in EntriesOf(f, found)
      BY <2>1
    <2>. QED
      BY <1>1, <2>4, <2>5, <2>6, <2>7, <2>8 DEF found, entries
  <1>. QED
    BY <1>3, <1>4

LEMMA BeginFacts ==
    ASSUME TypeOK, NEW r \in Reports, Begin(r)
    PROVE  LET y == report'[r]
           IN  /\ y \in Active /\ y # Idle /\ y.pc = "shifts"
               /\ y.unread = ShiftIds /\ y.shifts = {} /\ y.punches = {} /\ y.entries = {}
               /\ \A q \in Reports \ {r} : report'[q] = report[q]
               /\ report' \in [Reports -> {Idle} \union Active]
  <1>1. PICK p \in Callers, q \in Queries, requested \in Clients \union {NoClient} :
              /\ MayScope(p)
              /\ report' = [ report EXCEPT ![r] =
                     [ pc |-> "shifts", filter |-> FilterFor(p, requested, q), query |-> q, unread |-> ShiftIds,
                       shifts |-> {}, punches |-> {}, entries |-> {}, untouched |-> ShiftIds \union PunchIds ] ]
    BY DEF Begin
  <1>2. FilterFor(p, requested, q) \in Filter
    BY <1>1, FilterType
  <1>. QED
    BY <1>1, <1>2 DEF TypeOK, Active, Idle

\* A write takes its document out of what reports have untouched, and moves no report.
LEMMA TouchFacts ==
    ASSUME TypeOK, NEW i, Touch(i), NEW r \in Reports
    PROVE  /\ report[r] = Idle <=> report'[r] = Idle
           /\ report' \in [Reports -> {Idle} \union Active]
           /\ report[r] # Idle =>
                 /\ report'[r] = [report[r] EXCEPT !.untouched = @ \ {i}]
                 /\ report[r] \in Active
  <1>1. \A q \in Reports : report[q] # Idle =>
              /\ report[q] \in Active
              /\ [report[q] EXCEPT !.untouched = @ \ {i}] \in Active
              /\ [report[q] EXCEPT !.untouched = @ \ {i}] # Idle
    BY DEF TypeOK, Active, Idle
  <1>. QED
    BY <1>1 DEF Touch

LEMMA TypeStep ==
    ASSUME TypeOK, [Next]_vars
    PROVE  TypeOK'
  <1>1. ASSUME NEW r \in Reports, Begin(r)
        PROVE  TypeOK'
    BY <1>1, BeginFacts DEF Begin, TypeOK
  <1>2. ASSUME NEW r \in Reports, NEW i \in ShiftIds, ReadShift(r, i)
        PROVE  TypeOK'
    BY <1>2, ReadShiftFacts DEF ReadShift, TypeOK
  <1>3. ASSUME NEW r \in Reports, NEW i \in PunchIds, ReadPunch(r, i)
        PROVE  TypeOK'
    BY <1>3, ReadPunchFacts DEF ReadPunch, TypeOK
  <1>4. ASSUME NEW r \in Reports, Respond(r) \/ QueryFails(r)
        PROVE  TypeOK'
    BY <1>4 DEF Respond, QueryFails, TypeOK
  <1>5. ASSUME NEW i \in ShiftIds, WriteShift(i)
        PROVE  TypeOK'
    <2>1. report' \in [Reports -> {Idle} \union Active]
      BY <1>5, TouchFacts DEF WriteShift, TypeOK, Touch
    <2>. QED
      BY <1>5, <2>1 DEF WriteShift, TypeOK
  <1>6. ASSUME NEW i \in PunchIds, WritePunch(i)
        PROVE  TypeOK'
    <2>1. report' \in [Reports -> {Idle} \union Active]
      BY <1>6, TouchFacts DEF WritePunch, TypeOK, Touch
    <2>. QED
      BY <1>6, <2>1 DEF WritePunch, TypeOK
  <1>7. CASE UNCHANGED vars
    BY <1>7 DEF vars, TypeOK
  <1>. QED
    BY <1>1, <1>2, <1>3, <1>4, <1>5, <1>6, <1>7 DEF Next

-----------------------------------------------------------------------------
(* What a report has read.  Of the documents nobody has written meanwhile it  *)
(* holds, as they are, those of the part of the collection it has looked at   *)
(* that its query asks for.                                                   *)

ShiftsRead(x) ==
    /\ \A f \in x.shifts : /\ WantedShift(f[2], x.filter, x.query)
                           /\ f[1] \in x.untouched => shifts[f[1]] = f[2]
    /\ \A f, g \in x.shifts : f[1] = g[1] => f = g
    /\ x.pc = "shifts" => \A f \in x.shifts : f[1] \notin x.unread
    /\ \A i \in ShiftIds :
          /\ i \in x.untouched /\ (x.pc = "shifts" => i \notin x.unread)
          /\ WantedShift(shifts[i], x.filter, x.query)
          => <<i, shifts[i]>> \in x.shifts

PunchesRead(x) ==
    /\ \A m \in x.punches : /\ WantedPunch(m[2], x.shifts)
                            /\ m[1] \in x.untouched => punches[m[1]] = m[2]
    /\ \A i \in PunchIds :
          i \in x.untouched /\ i \notin x.unread /\ WantedPunch(punches[i], x.shifts)
          => <<i, punches[i]>> \in x.punches

ReadOK(x) ==
    /\ x.pc \in {"shifts", "punches"} => x.entries = {} /\ ShiftsRead(x)
    /\ x.pc = "shifts" => x.punches = {}
    /\ x.pc = "punches" => PunchesRead(x)

ReadInv == TypeOK /\ \A r \in Reports : report[r] # Idle => ReadOK(report[r])

LEMMA FirstRead ==
    ASSUME ReadInv, NEW r \in Reports, NEW i \in ShiftIds, ReadShift(r, i)
    PROVE  /\ report'[r].pc \in {"shifts", "punches"} => ShiftsRead(report'[r])
           /\ report'[r].pc = "done" =>
                 \A j \in ShiftIds \intersect report[r].untouched :
                    ~WantedShift(shifts[j], report[r].filter, report[r].query)
           /\ report'[r].entries = {} /\ report'[r].punches = {}
  <1>. DEFINE x == report[r]
              y == report'[r]
  <1>1. /\ x \in Active /\ x # Idle /\ x.pc = "shifts" /\ i \in x.unread
        /\ y.filter = x.filter /\ y.query = x.query /\ y.untouched = x.untouched
        /\ y.entries = x.entries /\ y.punches = x.punches
        /\ y.shifts = x.shifts \union {f \in {<<i, shifts[i]>>} : WantedShift(f[2], x.filter, x.query)}
        /\ \/ y.pc = "shifts" /\ y.unread = x.unread \ {i}
           \/ x.unread = {i} /\ y.pc = "done" /\ y.shifts = {}
           \/ x.unread = {i} /\ y.pc = "punches" /\ y.shifts # {} /\ y.unread = PunchIds
    BY ReadShiftFacts, ActiveReport DEF ReadInv
  <1>2. x.entries = {} /\ x.punches = {} /\ ShiftsRead(x)
    BY <1>1 DEF ReadInv, ReadOK
  <1>. HIDE DEF x, y
  <1>3. \A f \in y.shifts : \/ f \in x.shifts
                            \/ f = <<i, shifts[i]>> /\ WantedShift(shifts[i], x.filter, x.query)
    BY <1>1
  <1>4. \A f \in y.shifts : /\ WantedShift(f[2], y.filter, y.query)
                            /\ f[1] \in y.untouched => shifts[f[1]] = f[2]
    BY <1>1, <1>2, <1>3 DEF ShiftsRead
  <1>5. \A f, g \in y.shifts : f[1] = g[1] => f = g
    BY <1>1, <1>2, <1>3 DEF ShiftsRead
  <1>6. y.pc = "shifts" => \A f \in y.shifts : f[1] \notin y.unread
    BY <1>1, <1>2, <1>3 DEF ShiftsRead
  <1>7. \A j \in ShiftIds :
          /\ j \in y.untouched /\ (y.pc = "shifts" => j \notin y.unread)
          /\ WantedShift(shifts[j], y.filter, y.query)
          => <<j, shifts[j]>> \in y.shifts
    <2>. SUFFICES ASSUME NEW j \in ShiftIds, j \in y.untouched, y.pc = "shifts" => j \notin y.unread,
                         WantedShift(shifts[j], y.filter, y.query)
                  PROVE  <<j, shifts[j]>> \in y.shifts
      OBVIOUS
    <2>1. CASE j = i
      BY <1>1, <2>1
    <2>2. CASE j # i
      <3>1. j \notin x.unread
        BY <1>1, <2>2
      <3>2. <<j, shifts[j]>> \in x.shifts
        BY <1>1, <1>2, <3>1 DEF ShiftsRead
      <3>. QED
        BY <1>1, <3>2
    <2>. QED
      BY <2>1, <2>2
  <1>8. y.pc = "done" => \A j \in ShiftIds \intersect x.untouched : ~WantedShift(shifts[j], x.filter, x.query)
    BY <1>1, <1>7
  <1>9. y.pc \in {"shifts", "punches"} => ShiftsRead(y)
    BY <1>4, <1>5, <1>6, <1>7 DEF ShiftsRead
  <1>. QED
    BY <1>1, <1>2, <1>8, <1>9 DEF x, y

LEMMA SecondRead ==
    ASSUME ReadInv, NEW r \in Reports, NEW i \in PunchIds, ReadPunch(r, i)
    PROVE  /\ ShiftsRead(report[r])
           /\ PunchesRead(report'[r]) \/ report'[r].pc = "done"
           /\ \A m \in report'[r].punches :
                 /\ WantedPunch(m[2], report[r].shifts)
                 /\ m[1] \in report[r].untouched => punches[m[1]] = m[2]
           /\ report'[r].pc = "done" =>
                 \A j \in PunchIds :
                    j \in report[r].untouched /\ WantedPunch(punches[j], report[r].shifts)
                    => <<j, punches[j]>> \in report'[r].punches
  <1>. DEFINE x == report[r]
              y == report'[r]
  <1>1. /\ x \in Active /\ x # Idle /\ x.pc = "punches" /\ i \in x.unread
        /\ y.untouched = x.untouched /\ y.shifts = x.shifts
        /\ y.punches = x.punches \union {m \in {<<i, punches[i]>>} : WantedPunch(m[2], x.shifts)}
        /\ \/ y.pc = "punches" /\ y.unread = x.unread \ {i}
           \/ x.unread = {i} /\ y.pc = "done"
    BY ReadPunchFacts, ActiveReport DEF ReadInv
  <1>2. ShiftsRead(x) /\ PunchesRead(x)
    BY <1>1 DEF ReadInv, ReadOK
  <1>. HIDE DEF x, y
  <1>3. \A m \in y.punches : /\ WantedPunch(m[2], x.shifts)
                             /\ m[1] \in x.untouched => punches[m[1]] = m[2]
    BY <1>1, <1>2 DEF PunchesRead
  <1>4. \A j \in PunchIds :
          j \in x.untouched /\ (j \notin x.unread \/ j = i) /\ WantedPunch(punches[j], x.shifts)
          => <<j, punches[j]>> \in y.punches
    BY <1>1, <1>2 DEF PunchesRead
  <1>5. y.pc = "punches" => PunchesRead(y)
    BY <1>1, <1>3, <1>4 DEF PunchesRead
  <1>6. y.pc = "done" => \A j \in PunchIds :
          j \in x.untouched /\ WantedPunch(punches[j], x.shifts) => <<j, punches[j]>> \in y.punches
    BY <1>1, <1>4
  <1>. QED
    BY <1>1, <1>2, <1>3, <1>5, <1>6 DEF x, y

LEMMA ReadSame ==
    ASSUME NEW x, ReadOK(x), shifts' = shifts, punches' = punches
    PROVE  ReadOK(x)'
    BY DEF ReadOK, ShiftsRead, PunchesRead

LEMMA ReadStep ==
    ASSUME ReadInv, [Next]_vars
    PROVE  ReadInv'
  <1>0. TypeOK /\ TypeOK'
    BY TypeStep DEF ReadInv
  <1>. SUFFICES ASSUME NEW q \in Reports, report'[q] # Idle
                PROVE  ReadOK(report[q])'
    BY <1>0 DEF ReadInv
  <1>1. ASSUME report'[q] = report[q], shifts' = shifts, punches' = punches
        PROVE  ReadOK(report[q])'
    BY <1>1, ReadSame DEF ReadInv, ReadOK, ShiftsRead, PunchesRead
  <1>2. ASSUME NEW r \in Reports, Begin(r)
        PROVE  ReadOK(report[q])'
    <2>1. CASE r # q
      BY <1>0, <1>1, <1>2, <2>1, BeginFacts DEF Begin
    <2>2. CASE r = q
      <3>1. LET y == report'[q]
            IN  /\ y \in Active /\ y.pc = "shifts"
                /\ y.unread = ShiftIds /\ y.shifts = {} /\ y.punches = {} /\ y.entries = {}
        BY <1>0, <1>2, <2>2, BeginFacts
      <3>. QED
        BY <3>1 DEF ReadOK, ShiftsRead
    <2>. QED
      BY <2>1, <2>2
  <1>3. ASSUME NEW r \in Reports, NEW i \in ShiftIds, ReadShift(r, i)
        PROVE  ReadOK(report[q])'
    <2>0. shifts' = shifts /\ punches' = punches
      BY <1>3 DEF ReadShift
    <2>1. CASE r # q
      BY <1>0, <1>1, <1>3, <2>0, <2>1, ReadShiftFacts
    <2>2. CASE r = q
      <3>. DEFINE y == report'[q]
      <3>1. /\ y.pc \in {"shifts", "punches"} => ShiftsRead(y)
            /\ y.entries = {} /\ y.punches = {}
        BY <1>3, <2>2, FirstRead
      <3>2. y.pc \in {"shifts", "done"} \/ (y.pc = "punches" /\ y.unread = PunchIds)
        BY <1>0, <1>3, <2>2, ReadShiftFacts
      <3>. HIDE DEF y
      <3>3. ReadOK(y)
        BY <3>1, <3>2 DEF ReadOK, PunchesRead
      <3>. QED
        BY <2>0, <3>3 DEF y, ReadOK, ShiftsRead, PunchesRead
    <2>. QED
      BY <2>1, <2>2
  <1>4. ASSUME NEW r \in Reports, NEW i \in PunchIds, ReadPunch(r, i)
        PROVE  ReadOK(report[q])'
    <2>0. shifts' = shifts /\ punches' = punches
      BY <1>4 DEF ReadPunch
    <2>1. CASE r # q
      BY <1>0, <1>1, <1>4, <2>0, <2>1, ReadPunchFacts
    <2>2. CASE r = q
      <3>. DEFINE x == report[q]
                  y == report'[q]
      <3>1. /\ ShiftsRead(x) /\ (PunchesRead(y) \/ y.pc = "done")
        BY <1>4, <2>2, SecondRead
      <3>2. /\ x.pc = "punches" /\ x # Idle
            /\ y.filter = x.filter /\ y.query = x.query /\ y.untouched = x.untouched /\ y.shifts = x.shifts
            /\ y.pc = "done" \/ (y.pc = "punches" /\ y.entries = x.entries)
        BY <1>0, <1>4, <2>2, ReadPunchFacts, ActiveReport
      <3>3. x.entries = {}
        BY <3>2 DEF ReadInv, ReadOK
      <3>. HIDE DEF x, y
      <3>4. ReadOK(y)
        BY <3>1, <3>2, <3>3 DEF ReadOK, ShiftsRead
      <3>. QED
        BY <2>0, <3>4 DEF y, ReadOK, ShiftsRead, PunchesRead
    <2>. QED
      BY <2>1, <2>2
  <1>5. ASSUME NEW r \in Reports, Respond(r) \/ QueryFails(r)
        PROVE  ReadOK(report[q])'
    <2>1. /\ report' = [report EXCEPT ![r] = Idle]
          /\ shifts' = shifts /\ punches' = punches
      BY <1>5 DEF Respond, QueryFails
    <2>2. report'[q] = report[q]
      BY <1>0, <2>1 DEF TypeOK
    <2>. QED
      BY <1>1, <2>1, <2>2
  <1>6. ASSUME NEW i, Touch(i),
               \A j \in ShiftIds \ {i} : shifts'[j] = shifts[j],
               \A j \in PunchIds \ {i} : punches'[j] = punches[j]
        PROVE  ReadOK(report[q])'
    <2>1. /\ report[q] # Idle /\ report[q] \in Active
          /\ report'[q] = [report[q] EXCEPT !.untouched = @ \ {i}]
      BY <1>0, <1>6, TouchFacts
    <2>2. ReadOK(report[q])
      BY <2>1 DEF ReadInv
    <2>. DEFINE y == [report[q] EXCEPT !.untouched = @ \ {i}]
    <2>3. /\ y.pc = report[q].pc /\ y.filter = report[q].filter /\ y.query = report[q].query
          /\ y.unread = report[q].unread /\ y.shifts = report[q].shifts
          /\ y.punches = report[q].punches /\ y.entries = report[q].entries
          /\ y.untouched = report[q].untouched \ {i}
          /\ report[q].shifts \in SUBSET (ShiftIds \X ShiftDocs)
          /\ report[q].punches \in SUBSET (PunchIds \X PunchDocs)
      BY <2>1 DEF Active
    <2>4. report'[q] = y
      BY <2>1
    <2>. HIDE DEF y
    <2>. QED
      BY <1>6, <2>2, <2>3, <2>4 DEF ReadOK, ShiftsRead, PunchesRead
  <1>7. ASSUME NEW i \in ShiftIds, WriteShift(i)
        PROVE  ReadOK(report[q])'
    <2>1. /\ Touch(i) /\ punches' = punches
          /\ \A j \in ShiftIds \ {i} : shifts'[j] = shifts[j]
      BY <1>0, <1>7 DEF WriteShift, TypeOK
    <2>. QED
      BY <1>6, <2>1
  <1>8. ASSUME NEW i \in PunchIds, WritePunch(i)
        PROVE  ReadOK(report[q])'
    <2>1. /\ Touch(i) /\ shifts' = shifts
          /\ \A j \in PunchIds \ {i} : punches'[j] = punches[j]
      BY <1>0, <1>8 DEF WritePunch, TypeOK
    <2>. QED
      BY <1>6, <2>1
  <1>9. CASE UNCHANGED vars
    BY <1>1, <1>9 DEF vars
  <1>. QED
    BY <1>2, <1>3, <1>4, <1>5, <1>7, <1>8, <1>9 DEF Next

(* Whatever a report holds of the collections is what it has looked at, and   *)
(* right for the documents nobody has written since it began.                 *)
THEOREM ReportReadsWhatIsThere == Spec => []ReadInv
  <1>1. Init => ReadInv
    BY DEF Init, ReadInv, TypeOK, Idle
  <1>. QED
    BY <1>1, ReadStep, PTL DEF Spec

-----------------------------------------------------------------------------
(* Completed reports *)

\* Only the last read of a query completes a report.
LEMMA Completion ==
    ASSUME ReadInv, [Next]_vars, NEW r \in Reports, Completed(r)
    PROVE  \/ \E i \in ShiftIds : ReadShift(r, i)
           \/ \E i \in PunchIds : ReadPunch(r, i)
  <1>0. TypeOK /\ report[r].pc # "done" /\ report'[r].pc = "done"
    BY DEF ReadInv, Completed
  <1>1. CASE report'[r] = report[r]
    BY <1>0, <1>1
  <1>2. ASSUME NEW q \in Reports, Begin(q)
        PROVE  report'[r] = report[r]
    <2>1. q # r
      BY <1>0, <1>2, BeginFacts
    <2>. QED
      BY <1>0, <1>2, <2>1, BeginFacts
  <1>3. ASSUME NEW q \in Reports, NEW i \in ShiftIds, ReadShift(q, i), q # r
        PROVE  report'[r] = report[r]
    BY <1>0, <1>3, ReadShiftFacts
  <1>4. ASSUME NEW q \in Reports, NEW i \in PunchIds, ReadPunch(q, i), q # r
        PROVE  report'[r] = report[r]
    BY <1>0, <1>4, ReadPunchFacts
  <1>5. ASSUME NEW q \in Reports, Respond(q) \/ QueryFails(q)
        PROVE  report'[r] = report[r]
    <2>1. report' = [report EXCEPT ![q] = Idle]
      BY <1>5 DEF Respond, QueryFails
    <2>2. q # r
      BY <1>0, <2>1 DEF TypeOK, Idle
    <2>. QED
      BY <1>0, <2>1, <2>2 DEF TypeOK
  <1>6. ASSUME NEW i, Touch(i)
        PROVE  FALSE
    <2>1. CASE report[r] = Idle
      <3>1. report'[r] = Idle
        BY <1>0, <1>6, <2>1, TouchFacts
      <3>. QED
        BY <1>0, <3>1 DEF Idle
    <2>2. CASE report[r] # Idle
      <3>1. report[r] \in Active /\ report'[r] = [report[r] EXCEPT !.untouched = @ \ {i}]
        BY <1>0, <1>6, <2>2, TouchFacts
      <3>2. report'[r].pc = report[r].pc
        BY <3>1 DEF Active
      <3>. QED
        BY <1>0, <3>2
    <2>. QED
      BY <2>1, <2>2
  <1>7. ~\E i \in ShiftIds : WriteShift(i)
    BY <1>6 DEF WriteShift
  <1>8. ~\E i \in PunchIds : WritePunch(i)
    BY <1>6 DEF WritePunch
  <1>9. CASE UNCHANGED vars
    BY <1>0, <1>9 DEF vars
  <1>. QED
    BY <1>1, <1>2, <1>3, <1>4, <1>5, <1>7, <1>8, <1>9 DEF Next

\* The query is the declarative description of what is due.
LEMMA DueIsWanted ==
    ASSUME TypeOK, NEW r \in Reports, report[r] \in Active, NEW i \in ShiftIds
    PROVE  <<i, shifts[i]>> \in Due(r) <=> WantedShift(shifts[i], report[r].filter, report[r].query)
  <1>1. /\ shifts[i] \in ShiftDocs \union {NoShift}
        /\ report[r].query.from \in Int /\ report[r].query.to \in Int
    BY AdherenceAssumption DEF TypeOK, Active, Query
  <1>2. CASE shifts[i] = NoShift
    BY <1>2 DEF Due, WantedShift
  <1>3. CASE shifts[i] # NoShift
    <2>1. shifts[i] \in ShiftDocs /\ shifts[i].shiftStart \in Int /\ shifts[i].employeeId \in Employees
      BY <1>1, <1>3, ShiftFields
    <2>. QED
      BY <1>1, <1>3, <2>1 DEF Due, WantedShift
  <1>. QED
    BY <1>2, <1>3

\* What the second query fetched for a shift are the punches that count as work on it.
LEMMA WorkIsFetched ==
    ASSUME TypeOK, NEW F \in SUBSET (ShiftIds \X ShiftDocs), NEW f \in F, NEW m \in Worked(f[2])
    PROVE  /\ m[1] \in PunchIds /\ m = <<m[1], punches[m[1]]>>
           /\ WantedPunch(m[2], F) /\ Candidate(m[2], f[2]) /\ m[2].clockIn \in Int
  <1>1. PICK j \in PunchIds :
              /\ m = <<j, punches[j]>> /\ punches[j] # NoPunch /\ punches[j].status # "corrected"
              /\ Place(punches[j]) = Place(f[2])
              /\ punches[j].clockIn \in f[2].shiftStart - Window .. f[2].shiftEnd + Window
    BY DEF Worked
  <1>2. punches[j] \in PunchDocs /\ f[2] \in ShiftDocs
    BY <1>1 DEF TypeOK
  <1>3. /\ punches[j].clockIn \in Int /\ punches[j].status \in {"open", "closed"}
        /\ f[2].shiftStart \in Int /\ f[2].shiftEnd \in Int /\ Window \in Int
    BY <1>1, <1>2, PunchFields, ShiftFields, AdherenceAssumption
  <1>4. /\ f[2].shiftStart - Window <= punches[j].clockIn
        /\ punches[j].clockIn <= f[2].shiftEnd + Window
    BY <1>1, <1>3
  <1>5. /\ punches[j].clientId = f[2].clientId /\ punches[j].employeeId = f[2].employeeId
        /\ punches[j].siteId = f[2].siteId
    BY <1>1 DEF Place
  <1>6. WantedPunch(punches[j], F)
    BY <1>1, <1>3, <1>4, <1>5 DEF WantedPunch, Live
  <1>7. Candidate(punches[j], f[2])
    BY <1>4, <1>5 DEF Candidate, Near
  <1>. QED
    BY <1>1, <1>3, <1>6, <1>7

\* And the other way round, for a punch nobody wrote.
LEMMA CandidateIsWork ==
    ASSUME TypeOK, NEW F \in SUBSET (ShiftIds \X ShiftDocs), NEW f \in F,
           NEW m \in PunchIds \X PunchDocs, m[2] = punches[m[1]],
           WantedPunch(m[2], F), Candidate(m[2], f[2])
    PROVE  m \in Worked(f[2])
  <1>1. /\ m[1] \in PunchIds /\ m = <<m[1], punches[m[1]]>> /\ punches[m[1]] \in PunchDocs
        /\ f[2] \in ShiftDocs
    OBVIOUS
  <1>2. /\ punches[m[1]].clockIn \in Int /\ punches[m[1]] # NoPunch
        /\ f[2].shiftStart \in Int /\ f[2].shiftEnd \in Int /\ Window \in Int
    BY <1>1, PunchFields, ShiftFields, AdherenceAssumption
  <1>3. punches[m[1]].clockIn \in f[2].shiftStart - Window .. f[2].shiftEnd + Window
    BY <1>2 DEF Candidate, Near
  <1>4. Place(punches[m[1]]) = Place(f[2]) /\ punches[m[1]].status # "corrected"
    BY DEF Candidate, Place, WantedPunch, Live
  <1>. QED
    BY <1>1, <1>2, <1>3, <1>4 DEF Worked

\* An entry pairs its shift with an earliest of the candidates in G.
Paired(e, G) ==
    \/ e.status = "no_show" /\ e.matched = NoPunch /\ \A m \in G : ~Candidate(m[2], e.shift[2])
    \/ \E m \in G :
          /\ Candidate(m[2], e.shift[2])
          /\ \A n \in G : Candidate(n[2], e.shift[2]) => m[2].clockIn <= n[2].clockIn
          /\ e = MatchedEntry(e.shift, m)

\* The entry of a shift is about that shift.
LEMMA EntryPaired ==
    ASSUME NEW F \in SUBSET (ShiftIds \X ShiftDocs), NEW G \in SUBSET (PunchIds \X PunchDocs),
           NEW f \in F, NEW e \in EntriesOf(f, G)
    PROVE  e.shift = f /\ Paired(e, G)
  <1>1. f \in ShiftIds \X ShiftDocs
    OBVIOUS
  <1>. QED
    BY <1>1, EntryFacts DEF Paired

\* What a completed report says, if there were any shifts to report.
LEMMA CompleteFacts ==
    ASSUME ReadInv, NEW r \in Reports, NEW i \in PunchIds, ReadPunch(r, i), report'[r].pc = "done"
    PROVE  LET x == report[r]
               y == report'[r]
           IN  /\ x \in Active /\ x # Idle /\ ShiftsRead(x) /\ x.pc = "punches"
               /\ x.shifts \in SUBSET (ShiftIds \X ShiftDocs)
               /\ y.punches \in SUBSET (PunchIds \X PunchDocs)
               /\ \A m \in y.punches : /\ WantedPunch(m[2], x.shifts)
                                       /\ m[1] \in x.untouched => punches[m[1]] = m[2]
               /\ \A j \in PunchIds :
                     j \in x.untouched /\ WantedPunch(punches[j], x.shifts) => <<j, punches[j]>> \in y.punches
               /\ \A e \in y.entries : e.shift \in x.shifts /\ Paired(e, y.punches)
               /\ \A f \in x.shifts : \E e \in y.entries : e.shift = f
               /\ \A d, e \in y.entries : d.shift = e.shift => d = e
  <1>. DEFINE F == report[r].shifts
              G == report'[r].punches
              R == report'[r].entries
  <1>1. TypeOK
    BY DEF ReadInv
  <1>2. /\ report[r] \in Active /\ report[r] # Idle /\ report[r].pc = "punches"
        /\ report'[r] \in Active
        /\ \E entry : /\ \A f \in F : entry[f] \in EntriesOf(f, G)
                      /\ R = {entry[f] : f \in F}
    BY <1>1, ReadPunchFacts, ActiveReport
  <1>3. F \in SUBSET (ShiftIds \X ShiftDocs) /\ G \in SUBSET (PunchIds \X PunchDocs)
    BY <1>2 DEF Active
  <1>4. /\ \A e \in R : e.shift \in F /\ Paired(e, G)
        /\ \A f \in F : \E e \in R : e.shift = f
        /\ \A d, e \in R : d.shift = e.shift => d = e
    <2>. HIDE DEF F, G, R
    <2>1. PICK entry : (\A f \in F : entry[f] \in EntriesOf(f, G)) /\ R = {entry[f] : f \in F}
      BY <1>2
    <2>2. ASSUME NEW f \in F
          PROVE  entry[f].shift = f /\ Paired(entry[f], G)
      <3>1. entry[f] \in EntriesOf(f, G)
        BY <2>1
      <3>. QED
        BY <1>3, <3>1, EntryPaired
    <2>. QED
      BY <2>1, <2>2
  <1>. QED
    BY <1>2, <1>3, <1>4, SecondRead

\* An entry with a punch is not a no-show.
LEMMA MatchedFacts ==
    ASSUME NEW f, NEW m
    PROVE  LET e == MatchedEntry(f, m)
           IN  e.matched = m[1] /\ e.shift = f /\ e.status # "no_show"
    BY DEF MatchedEntry, StatusOf

(* Work that nobody touches while the report runs is not left out: the shift  *)
(* is no no-show and is paired with that punch or an earlier one.             *)
THEOREM WorkIsNotMissed == Spec => NoWorkIsMissed
  <1>. DEFINE Found(r) ==
         \A e \in report'[r].entries : \A m \in Worked(e.shift[2]) :
            m[1] \in report[r].untouched =>
              /\ e.status # "no_show"
              /\ \E n \in report'[r].punches : n[1] = e.matched /\ n[2].clockIn <= m[2].clockIn
  <1>1. ASSUME ReadInv, [Next]_vars, NEW r \in Reports, Completed(r)
        PROVE  Found(r)
    <2>0. TypeOK
      BY <1>1 DEF ReadInv
    <2>1. ASSUME NEW i \in ShiftIds, ReadShift(r, i)
          PROVE  Found(r)
      <3>1. report'[r].entries = {}
        BY <1>1, <2>1, FirstRead
      <3>. QED
        BY <3>1
    <2>2. ASSUME NEW i \in PunchIds, ReadPunch(r, i)
          PROVE  Found(r)
      <3>. DEFINE F == report[r].shifts
                  G == report'[r].punches
      <3>1. /\ F \in SUBSET (ShiftIds \X ShiftDocs) /\ G \in SUBSET (PunchIds \X PunchDocs)
            /\ \A j \in PunchIds :
                  j \in report[r].untouched /\ WantedPunch(punches[j], F) => <<j, punches[j]>> \in G
            /\ \A e \in report'[r].entries : e.shift \in F /\ Paired(e, G)
        BY <1>1, <2>2, CompleteFacts DEF Completed
      <3>. HIDE DEF F, G
      <3>2. SUFFICES ASSUME NEW e \in report'[r].entries, NEW m \in Worked(e.shift[2]),
                            m[1] \in report[r].untouched
                     PROVE  /\ e.status # "no_show"
                            /\ \E n \in G : n[1] = e.matched /\ n[2].clockIn <= m[2].clockIn
        BY DEF G
      <3>3. e.shift \in F /\ Paired(e, G)
        BY <3>1, <3>2
      <3>4. m[1] \in PunchIds /\ m = <<m[1], punches[m[1]]>> /\ WantedPunch(m[2], F) /\ Candidate(m[2], e.shift[2])
        BY <2>0, <3>1, <3>2, <3>3, WorkIsFetched
      <3>5. m \in G
        BY <3>1, <3>2, <3>4
      <3>6. PICK n \in G :
                  /\ \A k \in G : Candidate(k[2], e.shift[2]) => n[2].clockIn <= k[2].clockIn
                  /\ e = MatchedEntry(e.shift, n)
        BY <3>3, <3>4, <3>5 DEF Paired
      <3>. QED
        BY <3>4, <3>5, <3>6, MatchedFacts
    <2>. QED
      BY <1>1, <2>1, <2>2, Completion
  <1>2. ReadInv /\ [Next]_vars => [\A r \in Reports : Completed(r) => Found(r)]_vars
    BY <1>1
  <1>. HIDE DEF Found
  <1>3. Spec => [][\A r \in Reports : Completed(r) => Found(r)]_vars
    BY <1>2, ReportReadsWhatIsThere, PTL DEF Spec
  <1>. QED
    BY <1>3 DEF NoWorkIsMissed, Found

-----------------------------------------------------------------------------
(* Freshness and exactness *)

Fresh(r) ==
    LET R == report'[r].entries
    IN  /\ \A e \in R :
              /\ e.shift[1] \in report[r].untouched => e.shift \in Due(r)
              /\ e.matched \in report[r].untouched => punches[e.matched].status # "corrected"
        /\ \A f \in Due(r) : f[1] \in report[r].untouched => \E e \in R : e.shift = f
        /\ \A d, e \in R : d.shift[1] = e.shift[1] => d = e

LEMMA FreshFacts ==
    ASSUME ReadInv, [Next]_vars, NEW r \in Reports, Completed(r)
    PROVE  Fresh(r)
  <1>0. TypeOK
    BY DEF ReadInv
  <1>1. ASSUME NEW i \in ShiftIds, ReadShift(r, i)
        PROVE  Fresh(r)
    <2>1. report'[r].entries = {} /\ report[r] \in Active
      BY <1>0, <1>1, FirstRead, ReadShiftFacts, ActiveReport
    <2>2. ASSUME NEW f \in Due(r), f[1] \in report[r].untouched
          PROVE  FALSE
      <3>1. PICK j \in ShiftIds : f = <<j, shifts[j]>>
        BY <2>2 DEF Due
      <3>2. WantedShift(shifts[j], report[r].filter, report[r].query)
        BY <1>0, <2>1, <2>2, <3>1, DueIsWanted
      <3>. QED
        BY <1>1, <2>2, <3>1, <3>2, FirstRead DEF Completed
    <2>. QED
      BY <2>1, <2>2 DEF Fresh
  <1>2. ASSUME NEW i \in PunchIds, ReadPunch(r, i)
        PROVE  Fresh(r)
    <2>. DEFINE x == report[r]
                G == report'[r].punches
                R == report'[r].entries
    <2>1. /\ x \in Active /\ ShiftsRead(x) /\ x.pc = "punches"
          /\ x.shifts \in SUBSET (ShiftIds \X ShiftDocs)
          /\ G \in SUBSET (PunchIds \X PunchDocs)
          /\ \A m \in G : /\ WantedPunch(m[2], x.shifts)
                          /\ m[1] \in x.untouched => punches[m[1]] = m[2]
          /\ \A e \in R : e.shift \in x.shifts /\ Paired(e, G)
          /\ \A f \in x.shifts : \E e \in R : e.shift = f
          /\ \A d, e \in R : d.shift = e.shift => d = e
      BY <1>2, CompleteFacts DEF Completed
    <2>2. x.untouched \subseteq ShiftIds \union PunchIds /\ NoPunch \notin x.untouched
      BY <2>1, AdherenceAssumption DEF Active
    <2>3. \A j \in ShiftIds : <<j, shifts[j]>> \in Due(r) <=> WantedShift(shifts[j], x.filter, x.query)
      BY <1>0, <2>1, DueIsWanted
    <2>4. \A f \in Due(r) : \E j \in ShiftIds : f = <<j, shifts[j]>>
      BY DEF Due
    <2>. HIDE DEF x, G, R
    <2>5. ASSUME NEW e \in R, e.shift[1] \in x.untouched
          PROVE  e.shift \in Due(r)
      <3>1. /\ WantedShift(e.shift[2], x.filter, x.query) /\ shifts[e.shift[1]] = e.shift[2]
            /\ e.shift[1] \in ShiftIds /\ e.shift = <<e.shift[1], e.shift[2]>>
        BY <2>1, <2>5 DEF ShiftsRead
      <3>. QED
        BY <2>3, <3>1
    <2>6. ASSUME NEW e \in R, e.matched \in x.untouched
          PROVE  punches[e.matched].status # "corrected"
      <3>1. PICK n \in G : e = MatchedEntry(e.shift, n)
        BY <2>1, <2>2, <2>6 DEF Paired
      <3>2. e.matched = n[1]
        BY <3>1, MatchedFacts
      <3>3. n[2].status \in {"open", "closed"} /\ punches[n[1]] = n[2]
        BY <2>1, <2>6, <3>2 DEF WantedPunch, Live
      <3>. QED
        BY <3>2, <3>3
    <2>7. ASSUME NEW f \in Due(r), f[1] \in x.untouched
          PROVE  \E e \in R : e.shift = f
      <3>1. PICK j \in ShiftIds : f = <<j, shifts[j]>>
        BY <2>4
      <3>2. f \in x.shifts
        BY <2>1, <2>3, <2>7, <3>1 DEF ShiftsRead
      <3>. QED
        BY <2>1, <3>2
    <2>8. ASSUME NEW d \in R, NEW e \in R, d.shift[1] = e.shift[1]
          PROVE  d = e
      <3>1. d.shift = e.shift
        BY <2>1, <2>8 DEF ShiftsRead
      <3>. QED
        BY <2>1, <3>1
    <2>. QED
      BY <2>5, <2>6, <2>7, <2>8 DEF Fresh, x, R
  <1>. QED
    BY <1>1, <1>2, Completion

(* What was over before a report began does not show in it, and a shift       *)
(* nobody touches meanwhile is in it as it is, exactly once.                  *)
THEOREM ReportStaysFresh == Spec => ReportIsFresh
  <1>1. ReadInv /\ [Next]_vars => [\A r \in Reports : Completed(r) => Fresh(r)]_vars
    BY FreshFacts
  <1>2. Spec => [][\A r \in Reports : Completed(r) => Fresh(r)]_vars
    BY <1>1, ReportReadsWhatIsThere, PTL DEF Spec
  <1>. QED
    BY <1>2 DEF ReportIsFresh, Fresh

\* The status, from rounded minutes, follows from the exact times.
LEMMA StatusFacts ==
    ASSUME NEW f \in ShiftIds \X ShiftDocs, NEW m \in PunchIds \X PunchDocs
    PROVE  LET e == MatchedEntry(f, m)
           IN  /\ e.status = "late" <=> ComesLate(f[2], m[2])
               /\ e.status = "early" <=> ~ComesLate(f[2], m[2]) /\ LeavesEarly(f[2], m[2])
  <1>. DEFINE i == m[2].clockIn - f[2].shiftStart
              o == m[2].clockOut - f[2].shiftEnd
              in == InMinutes(i)
              out == IF m[2].clockOut = NoTime THEN NoTime ELSE InMinutes(o)
  <1>1. /\ m[2].clockIn \in Int /\ m[2].clockOut \in Int \union {NoTime}
        /\ f[2].shiftStart \in Int /\ f[2].shiftEnd \in Int
        /\ LateThreshold \in Int /\ EarlyThreshold \in Int /\ Minute \in Int
        /\ NoTime \notin Int
    BY PunchFields, ShiftFields, AdherenceAssumption
  <1>2. MatchedEntry(f, m).status = StatusOf(in, out)
    BY DEF MatchedEntry
  <1>3. in > LateThreshold <=> ComesLate(f[2], m[2])
    <2>1. i \in Int
      BY <1>1
    <2>2. in > LateThreshold <=> 2 * i >= (2 * LateThreshold + 1) * Minute
      BY <1>1, <2>1, Rounded
    <2>. QED
      BY <2>2 DEF ComesLate
  <1>4. out # NoTime /\ out < -EarlyThreshold <=> LeavesEarly(f[2], m[2])
    <2>1. CASE m[2].clockOut = NoTime
      BY <2>1 DEF LeavesEarly
    <2>2. CASE m[2].clockOut # NoTime
      <3>1. o \in Int /\ -EarlyThreshold - 1 \in Int /\ f[2].shiftEnd - m[2].clockOut = -o
        BY <1>1, <2>2
      <3>2. out = InMinutes(o)
        BY <2>2
      <3>. HIDE DEF o, out
      <3>3. /\ InMinutes(o) \in Int
            /\ InMinutes(o) > -EarlyThreshold - 1 <=> 2 * o >= (2 * (-EarlyThreshold - 1) + 1) * Minute
        BY <3>1, Rounded
      <3>4. (2 * (-EarlyThreshold - 1) + 1) * Minute = -((2 * EarlyThreshold + 1) * Minute)
        BY <1>1, SMT
      <3>5. (2 * EarlyThreshold + 1) * Minute \in Int
        BY <1>1, SMT
      <3>6. out < -EarlyThreshold <=> 2 * (-o) > (2 * EarlyThreshold + 1) * Minute
        <4>. DEFINE k == (2 * EarlyThreshold + 1) * Minute
        <4>1. k \in Int /\ (InMinutes(o) > -EarlyThreshold - 1 <=> 2 * o >= -k)
          BY <3>3, <3>4, <3>5
        <4>. HIDE DEF k
        <4>2. InMinutes(o) < -EarlyThreshold <=> 2 * (-o) > k
          BY <1>1, <3>1, <3>3, <4>1
        <4>. QED
          BY <3>2, <4>2 DEF k
      <3>7. out # NoTime
        BY <1>1, <3>2, <3>3
      <3>. QED
        BY <2>2, <3>1, <3>6, <3>7 DEF LeavesEarly
    <2>. QED
      BY <2>1, <2>2
  <1>. HIDE DEF in, out
  <1>. QED
    BY <1>2, <1>3, <1>4 DEF StatusOf

(* A report nobody writes under agrees with the collections: its shifts, the  *)
(* punches they are paired with, and the status of each from exact times.     *)
THEOREM ReportAgrees == Spec => ReportIsExact
  <1>. DEFINE Exact(r) ==
         LET R == report'[r].entries
         IN  /\ {e.shift : e \in R} = Due(r)
             /\ \A e \in R :
                   \/ Worked(e.shift[2]) = {} /\ e.status = "no_show"
                   \/ \E m \in Worked(e.shift[2]) :
                         /\ m[1] = e.matched
                         /\ \A n \in Worked(e.shift[2]) : m[2].clockIn <= n[2].clockIn
                         /\ e.status = "late" <=> ComesLate(e.shift[2], m[2])
                         /\ e.status = "early" <=> ~ComesLate(e.shift[2], m[2]) /\ LeavesEarly(e.shift[2], m[2])
                         /\ e.status # "no_show"
  <1>1. ASSUME ReadInv, [Next]_vars, NEW r \in Reports, Completed(r),
               report[r].untouched = ShiftIds \union PunchIds
        PROVE  Exact(r)
    <2>0. TypeOK /\ Fresh(r)
      BY <1>1, FreshFacts DEF ReadInv
    <2>. DEFINE F == report[r].shifts
                G == report'[r].punches
                R == report'[r].entries
    <2>1. /\ F \in SUBSET (ShiftIds \X ShiftDocs) \/ R = {}
          /\ \A e \in R : e.shift \in F
      <3>1. ASSUME NEW i \in ShiftIds, ReadShift(r, i)
            PROVE  R = {}
        BY <1>1, <3>1, FirstRead
      <3>2. ASSUME NEW i \in PunchIds, ReadPunch(r, i)
            PROVE  F \in SUBSET (ShiftIds \X ShiftDocs) /\ \A e \in R : e.shift \in F
        BY <1>1, <3>2, CompleteFacts DEF Completed
      <3>. HIDE DEF F, R
      <3>. QED
        BY <1>1, <3>1, <3>2, Completion
    <2>2. {e.shift : e \in R} = Due(r)
      <3>. HIDE DEF F
      <3>1. ASSUME NEW e \in R
            PROVE  e.shift \in Due(r)
        BY <1>1, <2>0, <2>1, <3>1 DEF Fresh
      <3>2. ASSUME NEW f \in Due(r)
            PROVE  \E e \in R : e.shift = f
        <4>1. f[1] \in ShiftIds
          BY <3>2 DEF Due
        <4>. QED
          BY <1>1, <2>0, <3>2, <4>1 DEF Fresh
      <3>. HIDE DEF R
      <3>. QED
        BY <3>1, <3>2
    <2>3. ASSUME NEW e \in R
          PROVE  \/ Worked(e.shift[2]) = {} /\ e.status = "no_show"
                 \/ \E m \in Worked(e.shift[2]) :
                       /\ m[1] = e.matched
                       /\ \A n \in Worked(e.shift[2]) : m[2].clockIn <= n[2].clockIn
                       /\ e.status = "late" <=> ComesLate(e.shift[2], m[2])
                       /\ e.status = "early" <=> ~ComesLate(e.shift[2], m[2]) /\ LeavesEarly(e.shift[2], m[2])
                       /\ e.status # "no_show"
      <3>1. \E i \in PunchIds : ReadPunch(r, i)
        BY <1>1, <2>3, FirstRead, Completion
      <3>2. /\ F \in SUBSET (ShiftIds \X ShiftDocs) /\ G \in SUBSET (PunchIds \X PunchDocs)
            /\ \A m \in G : /\ WantedPunch(m[2], F)
                            /\ m[1] \in report[r].untouched => punches[m[1]] = m[2]
            /\ \A j \in PunchIds :
                  j \in report[r].untouched /\ WantedPunch(punches[j], F) => <<j, punches[j]>> \in G
            /\ e.shift \in F /\ Paired(e, G)
        BY <1>1, <2>3, <3>1, CompleteFacts DEF Completed
      <3>. HIDE DEF F, G, R
      <3>3. ASSUME NEW n \in Worked(e.shift[2])
            PROVE  n \in G /\ Candidate(n[2], e.shift[2])
        <4>1. n[1] \in PunchIds /\ n = <<n[1], punches[n[1]]>> /\ WantedPunch(n[2], F) /\ Candidate(n[2], e.shift[2])
          BY <2>0, <3>2, <3>3, WorkIsFetched
        <4>. QED
          BY <1>1, <3>2, <4>1
      <3>4. CASE e.status = "no_show" /\ \A m \in G : ~Candidate(m[2], e.shift[2])
        BY <3>3, <3>4
      <3>5. ASSUME NEW m \in G, Candidate(m[2], e.shift[2]),
                   \A n \in G : Candidate(n[2], e.shift[2]) => m[2].clockIn <= n[2].clockIn,
                   e = MatchedEntry(e.shift, m)
            PROVE  \E k \in Worked(e.shift[2]) :
                       /\ k[1] = e.matched
                       /\ \A n \in Worked(e.shift[2]) : k[2].clockIn <= n[2].clockIn
                       /\ e.status = "late" <=> ComesLate(e.shift[2], k[2])
                       /\ e.status = "early" <=> ~ComesLate(e.shift[2], k[2]) /\ LeavesEarly(e.shift[2], k[2])
                       /\ e.status # "no_show"
        <4>1. /\ m \in PunchIds \X PunchDocs /\ m[2] = punches[m[1]] /\ WantedPunch(m[2], F)
              /\ e.shift \in ShiftIds \X ShiftDocs
          BY <1>1, <3>2, <3>5
        <4>2. m \in Worked(e.shift[2])
          BY <2>0, <3>2, <3>5, <4>1, CandidateIsWork
        <4>3. m[1] = e.matched /\ e.status # "no_show"
          BY <3>5, MatchedFacts
        <4>4. /\ e.status = "late" <=> ComesLate(e.shift[2], m[2])
              /\ e.status = "early" <=> ~ComesLate(e.shift[2], m[2]) /\ LeavesEarly(e.shift[2], m[2])
          BY <3>5, <4>1, StatusFacts
        <4>5. \A n \in Worked(e.shift[2]) : m[2].clockIn <= n[2].clockIn
          BY <3>3, <3>5
        <4>. QED
          BY <4>2, <4>3, <4>4, <4>5
      <3>. QED
        BY <3>2, <3>4, <3>5 DEF Paired
    <2>. QED
      BY <2>2, <2>3
  <1>2. ReadInv /\ [Next]_vars
        => [\A r \in Reports : Completed(r) /\ report[r].untouched = ShiftIds \union PunchIds => Exact(r)]_vars
    BY <1>1
  <1>. HIDE DEF Exact
  <1>3. Spec => [][\A r \in Reports : Completed(r) /\ report[r].untouched = ShiftIds \union PunchIds
                                      => Exact(r)]_vars
    BY <1>2, ReportReadsWhatIsThere, PTL DEF Spec
  <1>. QED
    BY <1>3 DEF ReportIsExact, Exact
=============================================================================
