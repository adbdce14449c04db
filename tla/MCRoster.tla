------------------------------ MODULE MCRoster ------------------------------
(* Small instances of Roster for TLC: which bodies, batches and patches the   *)
(* requests carry, and who sends them.                                        *)
EXTENDS Roster, TLC

CONSTANTS c1, c2, e1, s1, s2, utc, east

MCOffset == (utc :> 0) @@ (east :> 1)

BodyOf(c, s, start, end, zone) ==
    [ clientId |-> c, employeeId |-> e1, siteId |-> s,
      shiftStart |-> start, shiftEnd |-> end, timezone |-> zone ]

PatchOf(start, end, zone) == [shiftStart |-> start, shiftEnd |-> end, timezone |-> zone]

Admin(c) == [role |-> "CLIENT_ADMIN", clientId |-> c, siteIds |-> {}]
Manager(c, sites) == [role |-> "SITE_MANAGER", clientId |-> c, siteIds |-> sites]
Platform == [role |-> "PLATFORM_ADMIN", clientId |-> NoClient, siteIds |-> {}]

None == {}

\* One client, one employee: creates, batches and patches whose ranges meet.
OneCaller == {Admin(c1)}
RaceBodies == {BodyOf(c1, s1, 1, 3, utc)}
RaceBatches == {<<BodyOf(c1, s1, 0, 2, utc), BodyOf(c1, s1, 2, 4, utc)>>}
RacePatches == {PatchOf(2, Absent, Absent), PatchOf(Absent, Absent, east)}

\* Two clients with the same employee id and the same site code, and callers of every scope, one of them a manager
\* of no site.  A batch may mix clients, and in one the second range is inverted, which only the bulk endpoint lets
\* through.
ScopeCallers == {Platform, Manager(c1, {s1}), Manager(c2, {})}
SerialBodies == {BodyOf(c1, s1, 0, 2, utc), BodyOf(c2, s1, 1, 3, east)}
SerialBatches == {<<BodyOf(c1, s1, 1, 3, utc), BodyOf(c1, s1, 3, 1, utc)>>,
                  <<BodyOf(c1, s1, 1, 3, utc), BodyOf(c2, s1, 3, 4, utc)>>}
SerialPatches == {PatchOf(a, b, z) : a, b \in {2, Absent}, z \in {east, Absent}}

RosterSymmetry == Permutations(Requests) \union Permutations(ShiftIds)
=============================================================================
