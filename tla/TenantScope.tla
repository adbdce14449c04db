---------------------------- MODULE TenantScope -----------------------------
(* Pure data-visibility scoping of src/src/middleware/tenantScope.ts: which   *)
(* documents a caller may read or write.  A Mongo filter clause is the set of *)
(* values it admits for clientId and for siteId; a clause the code leaves out *)
(* admits every value.  "Can the caller do this kind of thing at all" (the    *)
(* permission gate) is a separate concern and is assumed passed.              *)

CONSTANTS
    Clients,    \* tenants (Mongo ids of TLM clients)
    Sites,      \* site codes
    NoClient    \* the null clientId of PLATFORM_ADMIN and PUNCH_INGEST callers

ASSUME NoClientAssumption == NoClient \notin Clients

Role == {"PLATFORM_ADMIN", "CLIENT_ADMIN", "VIEWER", "SITE_MANAGER", "PUNCH_INGEST"}

\* req.auth, as the authenticate middleware leaves it.
Principal == [role: Role, clientId: Clients \union {NoClient}, siteIds: SUBSET Sites]

Filter == [clientId: SUBSET Clients, siteId: SUBSET Sites]

\* getReadClientFilter throws for a non-admin principal without a client.
MayScope(p) == p.role = "PLATFORM_ADMIN" \/ p.clientId # NoClient

(* requested is the optional clientId query parameter (NoClient when absent); *)
(* only PLATFORM_ADMIN's is looked at.                                        *)
ReadClientFilter(p, requested) ==
    [ clientId |-> CASE p.role = "PLATFORM_ADMIN" /\ requested = NoClient -> Clients
                     [] p.role = "PLATFORM_ADMIN" /\ requested # NoClient -> {requested}
                     [] OTHER -> {p.clientId},
      siteId   |-> Sites ]

ReadSiteFilter(p, requested) ==
    [ ReadClientFilter(p, requested) EXCEPT
        !.siteId = IF p.role = "SITE_MANAGER" THEN p.siteIds ELSE @ ]

SameClient(p, clientId) == p.role = "PLATFORM_ADMIN" \/ p.clientId = clientId

SameSite(p, clientId, siteId) ==
    /\ SameClient(p, clientId)
    /\ p.role = "SITE_MANAGER" => siteId \in p.siteIds

\* A stored document is found by a query carrying the filter.
Matches(doc, filter) == doc.clientId \in filter.clientId /\ doc.siteId \in filter.siteId
=============================================================================
