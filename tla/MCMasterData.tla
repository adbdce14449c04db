---------------------------- MODULE MCMasterData -----------------------------
(* Small instances of MasterData for TLC: the documents at the start, the     *)
(* bodies of the requests, and who sends them.                                *)
EXTENDS MasterData, TLC

CONSTANTS c1, c2, cal1, cfg1, cfg2, grp1, emp1, new1, n1, n2, d1

NoRefs == [f \in Field |-> NoDoc]
LeftOut == [f \in Field |-> Absent]
Ref(f, i) == (f :> i)

DocOf(kind, c, refs, cadence, day, anchor) ==
    [ kind |-> kind, clientId |-> c, name |-> n1, refs |-> refs @@ NoRefs,
      cadence |-> cadence, weekStartDay |-> day, anchorDate |-> anchor ]

Plain(kind, c, refs) == DocOf(kind, c, refs, "monthly", Null, Null)

NameOnly(n) == [name |-> n, refs |-> LeftOut, weekStartDay |-> Absent, anchorDate |-> Absent]
RefOnly(f, i) == [NameOnly(Absent) EXCEPT !.refs[f] = i]

Admin(c) == [role |-> "CLIENT_ADMIN", clientId |-> c, siteIds |-> {}]
Platform == [role |-> "PLATFORM_ADMIN", clientId |-> NoClient, siteIds |-> {}]

Nothing == [i \in DocIds |-> NoDoc]

\* Client c1 has a calendar, a biweekly config, a group that uses it and an employee of the group; c2 has a config.
ChainSeed ==
    ( cal1 :> Plain("calendar", c1, NoRefs)
      @@ cfg1 :> DocOf("config", c1, Ref("payCalendarId", cal1), "biweekly", 1, d1)
      @@ cfg2 :> DocOf("config", c2, NoRefs, "weekly", 0, Null)
      @@ grp1 :> Plain("group", c1, Ref("payPeriodConfigId", cfg1))
      @@ emp1 :> Plain("employee", c1, Ref("employeeGroupId", grp1)) ) @@ Nothing

\* An administrator of each client; new documents that refer to those of either client, one by a malformed id and one
\* of a plain kind; updates that refer to either client's config, take a reference away or what a cadence needs.
Admins == {Admin(c1), Admin(c2)}
Second(d) == [d EXCEPT !.name = n2]
RaceCreations ==
    { Second(DocOf("config", c1, Ref("payCalendarId", cal1), "weekly", 0, Null)),
      Second(Plain("group", c2, Ref("payPeriodConfigId", cfg1))),
      Second(Plain("employee", c1, Ref("employeeGroupId", grp1) @@ Ref("payPeriodConfigId", cfg1))),
      Plain("definition", c1, NoRefs),
      Plain("employee", c2, Ref("payPeriodConfigId", Malformed)) }
RacePatches ==
    { RefOnly("payPeriodConfigId", cfg1), RefOnly("payPeriodConfigId", cfg2), RefOnly("employeeGroupId", NoDoc), [NameOnly(Absent) EXCEPT !.weekStartDay = Null] }

MasterSymmetry == Permutations(Requests)
=============================================================================
