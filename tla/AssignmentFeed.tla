--------------------------- MODULE AssignmentFeed ----------------------------
(* What the schedule module may assume of the employee/site assignments it    *)
(* reads: the pairs that are active change one at a time.                     *)

CONSTANT Assignment     \* triples of client, employee code and site code

VARIABLE active         \* the triples with an active assignment

Init == active \in SUBSET Assignment

Next == \E t \in Assignment : active' = active \union {t} \/ active' = active \ {t}

Spec == Init /\ [][Next]_active
=============================================================================
