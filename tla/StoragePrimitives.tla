-------------------------- MODULE StoragePrimitives --------------------------
(***************************************************************************)
(* The five storage primitives of pb-storage and the gatekeeper in front   *)
(* of them, as operators on the committed tables.  A row is keyed by       *)
(* <<table, partition key, name>>; its value carries, for the properties,  *)
(* the (site, profile, context) triple of the request that wrote it.       *)
(***************************************************************************)
EXTENDS HashMap, PartitionKeys, Naturals, Sequences, FiniteSets

CONSTANTS
  Profile,                  \* the third input of a partition key
  Name,                     \* cookie names, item keys, URLs and scopes
  EmptyName                 \* the empty one among them

ASSUME EmptyNameAssumption == EmptyName \in Name

Triple == Site \X Profile \X Context

PartitionKey == {Derive(t[1], t[2], t[3]) : t \in Triple}
Request == [site : Site, profile : Profile, context : Context, declared : PartitionKey]
TripleOf(req) == <<req.site, req.profile, req.context>>

\* Gatekeeper::authorize, and the key it returns.
Expected(req) == Derive(req.site, req.profile, req.context)
Authorize(req) == Expected(req) = req.declared

Row(pk, n) == <<pk, n>>

-----------------------------------------------------------------------------
(* A write takes the table and the request, and gives the table after it:  *)
(* unchanged where the gatekeeper or the validation refuses.               *)

Upsert(table, req, n) == Put(table, Row(Expected(req), n), TripleOf(req))
DeleteRow(table, req, n) ==
  IF Authorize(req) THEN Without(table, Row(Expected(req), n)) ELSE table

CookiesPut(table, req, n) ==
  IF Authorize(req) /\ n # EmptyName THEN Upsert(table, req, n) ELSE table
CookiesDelete(table, req, n) == DeleteRow(table, req, n)

LocalStoragePutUngated(table, req, n) ==
  IF n # EmptyName THEN Put(table, Row(req.declared, n), TripleOf(req)) ELSE table

LocalStoragePut(table, req, n) ==
  IF Authorize(req) /\ n # EmptyName THEN Upsert(table, req, n) ELSE table
LocalStorageDelete(table, req, n) == DeleteRow(table, req, n)

SessionStoragePut(table, req, n) ==
  IF Authorize(req) /\ n # EmptyName THEN Upsert(table, req, n) ELSE table
SessionStorageDelete(table, req, n) == DeleteRow(table, req, n)

CachePut(table, req, n) ==
  IF Authorize(req) /\ n # EmptyName THEN Upsert(table, req, n) ELSE table
CacheDelete(table, req, n) == DeleteRow(table, req, n)

\* register also refuses an empty script URL or state.
ServiceWorkerRegister(table, req, n, script, state) ==
  IF Authorize(req) /\ EmptyName \notin {n, script, state}
    THEN Upsert(table, req, n) ELSE table
ServiceWorkerUnregister(table, req, n) == DeleteRow(table, req, n)

-----------------------------------------------------------------------------
(* Reads: the rows of the table that answer the request.                   *)

RowsWhere(table, pk) == {r \in DOMAIN table : r[1] = pk}

GetRow(table, req, n) ==
  IF Authorize(req) THEN {r \in RowsWhere(table, Expected(req)) : r[2] = n} ELSE {}
ListRows(table, req) == IF Authorize(req) THEN RowsWhere(table, Expected(req)) ELSE {}

CookiesGet(table, req, n) == GetRow(table, req, n)
CookiesList(table, req) == ListRows(table, req)
LocalStorageGet(table, req, n) == GetRow(table, req, n)
LocalStorageListKeys(table, req) == ListRows(table, req)
SessionStorageGet(table, req, n) == GetRow(table, req, n)
SessionStorageListKeys(table, req) == ListRows(table, req)
CacheGet(table, req, n) == GetRow(table, req, n)
\* total_bytes sums over the rows of the partition.
CacheTotalBytes(table, req) == ListRows(table, req)
ServiceWorkerGet(table, req, n) == GetRow(table, req, n)
ServiceWorkerList(table, req) == ListRows(table, req)
=============================================================================
