CONSTANTS
    Requests = {r1, r2}
    PunchIds = {i1, i2, i3}
    Clients = {c1}
    Employees = {e1}
    Sites = {s1}
    NoPunch = NoPunch
    NoTime = NoTime
    NoClient = NoClient
    Absent = Absent
    Callers <- RaceCallers
    Bodies <- RaceBodies
    Batches <- RaceBatches
    Patches <- RacePatches
    c1 = c1
    e1 = e1
    s1 = s1
    r1 = r1
    r2 = r2
    i1 = i1
    i2 = i2
    i3 = i3
SPECIFICATION Spec
SYMMETRY PunchSymmetry
INVARIANTS LedgerInv ChainsEndLive CorrectionsSpanTime
PROPERTIES PunchNeedsKnownRefs JournalSpec
