----------------------------- MODULE RosterBook -----------------------------
(* What the schedule module promises: a book of shifts in which an entry is   *)
(* booked, moved or cancelled in one atomic step, never double-books an       *)
(* employee, and carries the date of its start in its own zone.               *)
EXTENDS Integers

CONSTANTS ShiftIds, NoShift, Zones, Offset, DayLength

VARIABLE book   \* book[i]: the shift with id i, or NoShift

IsScheduled(i) == book[i] # NoShift /\ book[i].status = "scheduled"

Owner(d) == <<d.clientId, d.employeeId, d.siteId, d.seriesId>>

SharesInstant(d, e) == d.shiftStart < e.shiftEnd /\ e.shiftStart < d.shiftEnd

\* No other scheduled shift of the same employee shares an instant with entry i.
Clear(i) ==
    \A j \in ShiftIds \ {i} :
        IsScheduled(j) /\ book[j].clientId = book[i].clientId
                       /\ book[j].employeeId = book[i].employeeId
          => ~SharesInstant(book[i], book[j])

Dated(i) == book[i].businessDate = (book[i].shiftStart + Offset[book[i].timezone]) \div DayLength

NoClash == \A i \in ShiftIds : IsScheduled(i) => Clear(i)

Init == book = [i \in ShiftIds |-> NoShift]

Enter(i) ==
    /\ book[i] = NoShift
    /\ IsScheduled(i)' /\ Clear(i)' /\ Dated(i)'

Move(i) ==
    /\ IsScheduled(i)
    /\ IsScheduled(i)' /\ Clear(i)' /\ Dated(i)'
    /\ Owner(book'[i]) = Owner(book[i])

Cancel(i) ==
    /\ IsScheduled(i)
    /\ book'[i] = [book[i] EXCEPT !.status = "cancelled"]

Next ==
    \E i \in ShiftIds :
        /\ book' = [book EXCEPT ![i] = book'[i]]
        /\ Enter(i) \/ Move(i) \/ Cancel(i)

Spec == Init /\ [][Next]_book
=============================================================================
