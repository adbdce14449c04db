CONSTANTS
    Requests = {r1, r2}
    ShiftIds = {i1}
    Clients = {c1}
    Employees = {e1}
    Sites = {s1}
    Zones = {utc, east}
    Offset <- MCOffset
    DayLength = 2
    Series = {k1}
    NoSeries = NoSeries
    NoShift = NoShift
    NoClient = NoClient
    Absent = Absent
    Callers <- OneCaller
    Bodies <- RaceBodies
    Batches <- None
    Patches <- RacePatches
    c1 = c1
    c2 = c2
    e1 = e1
    s1 = s1
    s2 = s2
    utc = utc
    east = east
    r1 = r1
    r2 = r2
    i1 = i1
    k1 = k1
SPECIFICATION Spec
SYMMETRY RosterSymmetry
PROPERTIES CancelledIsFrozen
