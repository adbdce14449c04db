SPECIFICATION Spec
CONSTANTS
    c1 = c1
    s1 = s1
    s2 = s2
    t1 = t1
    Clients = {c1}
    Sites = {s1, s2}
    NoClient = NoClient
    Requests = {w1, w2}
    EmployeeIds = {e1, e2}
    ClientOf <- OneClient
    Codes = {k1, k2}
    Tasks = {t1}
    Catalog <- RaceCatalog
    Seed <- RaceSeed
    AssignmentIds = {a1, a2}
    NoEmployee = NoEmployee
    NoAssignment = NoAssignment
    Removed = Removed
    Absent = Absent
    Callers <- RaceCallers
    Creations <- RaceCreations
    Patches <- RacePatches
SYMMETRY AssignmentSymmetry
INVARIANTS AssignmentsInv DanglingNeedsRename InheritedNeedsRename
PROPERTIES RemovedStaysRemoved AssignmentWritesInScope FeedSpec
