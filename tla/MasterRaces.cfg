SPECIFICATION Spec
CONSTANTS
    c1 = c1
    c2 = c2
    cal1 = cal1
    cfg1 = cfg1
    cfg2 = cfg2
    grp1 = grp1
    emp1 = emp1
    new1 = new1
    n1 = n1
    n2 = n2
    d1 = d1
    Clients = {c1, c2}
    Sites = {}
    NoClient = NoClient
    Requests = {w1, w2}
    DocIds = {cal1, cfg1, cfg2, grp1, emp1, new1}
    Names = {n1, n2}
    NoDoc = NoDoc
    Null = Null
    Absent = Absent
    Malformed = Malformed
    AnchorDates = {d1}
    Seed <- ChainSeed
    Callers <- Admins
    Creations <- RaceCreations
    Patches <- RacePatches
SYMMETRY MasterSymmetry
INVARIANTS MasterInv PayChainUsable
PROPERTIES NoCollateralChange
