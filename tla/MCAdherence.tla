----------------------------- MODULE MCAdherence -----------------------------
(* A small instance of Adherence for TLC.  A minute has two instants, the     *)
(* window is six of them and both thresholds are one minute.                  *)
EXTENDS Adherence, TLC

CONSTANTS c1, c2, e1, s1, s2

At(client, site, start, end) ==
    [ clientId |-> client, employeeId |-> e1, siteId |-> site, shiftStart |-> start, shiftEnd |-> end,
      status |-> "scheduled", seriesId |-> NoShift ]

\* A shift, the same moved, one of a namesake at another client, and one at another site.
Booked == {At(c1, s1, 10, 20), At(c1, s1, 12, 24), At(c2, s1, 10, 20), At(c1, s2, 10, 20)}

ShiftValues == Booked \union {[d EXCEPT !.status = "cancelled"] : d \in Booked}

By(client, in, out, corrects) ==
    [ clientId |-> client, employeeId |-> e1, siteId |-> s1, clockIn |-> in, clockOut |-> out,
      status |-> IF out = NoTime THEN "open" ELSE "closed", correctionOfPunchId |-> corrects ]

\* On the edges of the window and of the thresholds.
Submitted == {By(c1, 4, 17, NoPunch), By(c1, 13, 16, NoPunch), By(c2, 12, NoTime, NoPunch)}

Corrections == {By(c1, 26, 27, p) : p \in PunchIds}

PunchValues ==
    Submitted \union Corrections \union {[d EXCEPT !.status = "corrected"] : d \in Submitted \union Corrections}

Admin == [role |-> "PLATFORM_ADMIN", clientId |-> NoClient, siteIds |-> {}]
Manager == [role |-> "SITE_MANAGER", clientId |-> c1, siteIds |-> {s1}]
Staff == {Admin, Manager}

Params == {[from |-> 0, to |-> 11, employeeId |-> Absent, siteId |-> Absent],
           [from |-> 0, to |-> 40, employeeId |-> e1, siteId |-> s2]}

Ids == Permutations(ShiftIds) \union Permutations(PunchIds)
=============================================================================
