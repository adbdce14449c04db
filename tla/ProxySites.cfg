CONSTANTS
    Requests = {r1, r2}
    Sheets = {t1, t2, t3}
    Owner <- MCOwner
    MaxRetries = 1
    Clients = {c1, c2}
    Sites = {s1, s2, s12}
    Parts <- MCParts
    NoClient = NoClient
    Absent = Absent
    Present = {t1, t3}
    Inputs <- MCInputs
    c1 = c1
    c2 = c2
    s1 = s1
    s2 = s2
    s12 = s12
    t1 = t1
    t2 = t2
    t3 = t3
    r1 = r1
    r2 = r2
SPECIFICATION Spec
CHECK_DEADLOCK FALSE
INVARIANTS ManagersSeeOwnSites
