CONSTANTS
    Requests = {r1}
    ShiftIds = {i1, i2}
    Clients = {c1, c2}
    Employees = {e1}
    Sites = {s1}
    Zones = {utc, east}
    Offset <- MCOffset
    DayLength = 2
    Series = {k1}
    NoSeries = NoSeries
    NoShift = NoShift
    NoClient = NoClient
    Absent = Absent
    Callers <- ScopeCallers
    Bodies <- SerialBodies
    Batches <- SerialBatches
    Patches <- SerialPatches
    c1 = c1
    c2 = c2
    e1 = e1
    s1 = s1
    s2 = s2
    utc = utc
    east = east
    r1 = r1
    i1 = i1
    i2 = i2
    k1 = k1
SPECIFICATION FairSpec
INVARIANTS NoDoubleBooking
PROPERTIES WritesStayInScope RequestsAnswered BookSpec
