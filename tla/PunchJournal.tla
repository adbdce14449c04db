---------------------------- MODULE PunchJournal ----------------------------
(* What the punch module promises an auditor: a journal to which punches are  *)
(* only ever added.  An entry is never changed or removed; it can be retired  *)
(* ("corrected") once another entry that corrects it has been added.          *)

CONSTANTS PunchIds, NoPunch

VARIABLE journal    \* journal[p]: the punch with id p, or NoPunch

Retired(p) == journal[p].status = "corrected"

Init == journal = [p \in PunchIds |-> NoPunch]

\* A new entry is live, and may correct an older one of the same employee.
Add(p) ==
    /\ journal[p] = NoPunch
    /\ journal'[p] # NoPunch /\ ~Retired(p)'
    /\ LET o == journal'[p].correctionOfPunchId
       IN  o # NoPunch => /\ o \in PunchIds \ {p} /\ journal[o] # NoPunch
                          /\ journal[o].clientId = journal'[p].clientId
                          /\ journal[o].employeeId = journal'[p].employeeId

Retire(p) ==
    /\ journal[p] # NoPunch
    /\ \E q \in PunchIds : journal[q] # NoPunch /\ journal[q].correctionOfPunchId = p
    /\ journal'[p] = [journal[p] EXCEPT !.status = "corrected"]

Next ==
    \E p \in PunchIds :
        /\ journal' = [journal EXCEPT ![p] = journal'[p]]
        /\ Add(p) \/ Retire(p)

Spec == Init /\ [][Next]_journal
=============================================================================
