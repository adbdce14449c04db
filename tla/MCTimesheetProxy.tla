--------------------------- MODULE MCTimesheetProxy ---------------------------
(* A small instance of TimesheetProxy for TLC: two clients that use the same  *)
(* site code, a timesheet at each of two sites, callers of every scope, and a *)
(* site s12 whose code is those of s1 and s2 with a comma between.            *)
EXTENDS TimesheetProxy, TLC

CONSTANTS c1, c2, s1, s2, s12, t1, t2, t3, r1, r2

MCOwner == (t1 :> [clientId |-> c1, siteId |-> s1]) @@ (t2 :> [clientId |-> c1, siteId |-> s2])
             @@ (t3 :> [clientId |-> c2, siteId |-> s1])

MCParts == (s1 :> {s1}) @@ (s2 :> {s2}) @@ (s12 :> {s1, s2})

Admin(c) == [role |-> "CLIENT_ADMIN", clientId |-> c, siteIds |-> {}]
Manager(sites) == [role |-> "SITE_MANAGER", clientId |-> c1, siteIds |-> sites]
Platform == [role |-> "PLATFORM_ADMIN", clientId |-> NoClient, siteIds |-> {}]

\* Anything for t1 or its site, asked for by those who may and by those who may not.
Inputs1 ==
    {Admin(c2), Manager({s2})} \X [kind: {"get", "audit", "void"}, id: {t1}]
      \union {Platform, Manager({s2})} \X [kind: {"list"}, clientId: {c2}]
      \union {Manager({s2}), Manager({s12}), Manager({})} \X [kind: {"groups"}, clientId: {NoClient}, siteId: {Absent}]
      \union {Platform, Manager({s2})} \X [kind: {"grid"}, siteId: {s1}]
      \union {Admin(c2)} \X [kind: {"run"}, clientId: {c1}]

\* One request of any kind, and one that makes timesheets meanwhile.
MCInputs == (r1 :> Inputs1) @@ (r2 :> {<<Platform, [kind |-> "run", clientId |-> c1]>>})
=============================================================================
