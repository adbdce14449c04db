-------------------------- MODULE MCAuthentication ---------------------------
(* Small instances of Authentication for TLC: profiles and routes.            *)
EXTENDS Authentication, TLC

CONSTANTS read, write, t1

User(permissions, status) == [role |-> "CLIENT_ADMIN", permissions |-> permissions, status |-> status]

Writer == User({read, write}, "active")
Locked == User({read, write}, "inactive")

On(router, takesIngest, needs) == [router |-> router, takesIngest |-> takesIngest, needs |-> needs]

\* One user whose rights are taken away and given back.
TwoProfiles == {Writer, Locked}

\* A user with a token, and a kiosk with the ingest key.
Headers == {[key |-> "none", token |-> t1], [key |-> "right", token |-> NoToken]}

\* An ingestion route, a correction, and a route behind another router.
Kinds == {On("punch", TRUE, {write}), On("punch", FALSE, {write}), On("employee", FALSE, {write})}

Slots == Permutations(Requests)
=============================================================================
