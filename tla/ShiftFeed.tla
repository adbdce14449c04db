------------------------------ MODULE ShiftFeed ------------------------------
(* What a reader of the schedule may rely on, however the requests that write *)
(* it race (RosterBook is what holds when they do not): a shift appears as    *)
(* scheduled, stays with its employee and site, is never removed, and once    *)
(* cancelled is never scheduled again.  Its times may change at any moment.   *)

CONSTANTS ShiftIds, NoShift

VARIABLE feed   \* feed[i]: the shift with id i, or NoShift

Owner(d) == <<d.clientId, d.employeeId, d.siteId, d.seriesId>>

Init == feed = [i \in ShiftIds |-> NoShift]

Appear(i) ==
    /\ feed[i] = NoShift
    /\ feed'[i] # NoShift
    /\ feed'[i].status = "scheduled"

Change(i) ==
    /\ feed[i] # NoShift
    /\ feed'[i] # NoShift
    /\ Owner(feed'[i]) = Owner(feed[i])
    /\ feed[i].status = "cancelled" => feed'[i].status = "cancelled"

Next ==
    \E i \in ShiftIds :
        /\ feed' = [feed EXCEPT ![i] = feed'[i]]
        /\ Appear(i) \/ Change(i)

Spec == Init /\ [][Next]_feed
=============================================================================
