-------------------------- MODULE MCSiteAssignments --------------------------
(* Small instances of SiteAssignments for TLC: employees, codes, bodies and   *)
(* who sends them.                                                            *)
EXTENDS SiteAssignments, TLC

CONSTANTS c1, s1, s2, t1

OneClient == [e \in EmployeeIds |-> c1]

Manager(c, sites) == [role |-> "SITE_MANAGER", clientId |-> c, siteIds |-> sites]

CreationAt(s, primary) == [siteId |-> s, task |-> t1, isPrimary |-> primary, status |-> "active"]
PatchTo(task, primary, status) == [task |-> task, isPrimary |-> primary, status |-> status]

\* Two employees and two codes, two sites that may take each other's code, a manager of each,
\* and an update that looks a task up, changes the status and asks for the primary assignment.
RaceCallers == {Manager(c1, {s}) : s \in Sites}
RaceCatalog == {SiteRef(c1, s1), SiteRef(c1, s2), TaskRef(c1, t1)}
RaceSeed == {SiteRef(c1, s1), TaskRef(c1, t1)}
RaceCreations == {CreationAt(s1, TRUE), CreationAt(s2, FALSE)}
RacePatches == {PatchTo(t1, TRUE, "inactive")}

AssignmentSymmetry ==
    Permutations(Requests) \union Permutations(AssignmentIds) \union Permutations(EmployeeIds) \union Permutations(Codes)
=============================================================================
