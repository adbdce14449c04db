SPECIFICATION Spec
CONSTANTS
    c1 = c1
    c2 = c2
    e1 = e1
    s1 = s1
    s2 = s2
    Clients = {c1, c2}
    Sites = {s1, s2}
    NoClient = NoClient
    Employees = {e1}
    Reports = {r1}
    ShiftIds = {i1, i2}
    PunchIds = {p1, p2}
    NoShift = NoShift
    NoPunch = NoPunch
    NoTime = NoTime
    Absent = Absent
    Minute = 2
    Window = 6
    LateThreshold = 1
    EarlyThreshold = 1
    Callers <- Staff
    Queries <- Params
    ShiftDocs <- ShiftValues
    PunchDocs <- PunchValues
SYMMETRY Ids
PROPERTIES NoWorkIsMissed ReportIsFresh ReportIsExact
