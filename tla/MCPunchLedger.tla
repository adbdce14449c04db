--------------------------- MODULE MCPunchLedger ----------------------------
(* Small instances of PunchLedger for TLC. *)
EXTENDS PunchLedger, TLC

CONSTANTS c1, e1, s1

BodyOf(s, in, out) ==
    [clientId |-> c1, employeeId |-> e1, siteId |-> s, clockIn |-> in, clockOut |-> out]

PatchOf(s, in, out) == [siteId |-> s, clockIn |-> in, clockOut |-> out]

Admin == [role |-> "CLIENT_ADMIN", clientId |-> c1, siteIds |-> {}]
Ingest == [role |-> "PUNCH_INGEST", clientId |-> NoClient, siteIds |-> {}]

None == {}

\* Punches and batches, the second item of one with its times in the wrong order, and corrections of punches and of
\* their replacements, some of which would leave the merged times in the wrong order.
RaceCallers == {Admin, Ingest}
RaceBodies == {BodyOf(s1, 1, NoTime)}
RaceBatches == {<<BodyOf(s1, 1, 3), BodyOf(s1, 3, 2)>>}
RacePatches == {PatchOf(Absent, 3, Absent), PatchOf(s1, Absent, 4)}

PunchSymmetry == Permutations(Requests) \union Permutations(PunchIds)
=============================================================================
