--------------------------- MODULE StorageProcess ---------------------------
(***************************************************************************)
(* The storage process: bootstrap, the primitives behind the gatekeeper    *)
(* and the strict wipe, on one database that survives crashes.  The wipe   *)
(* is one SQLite transaction of many statements; another process writes to *)
(* the same file at the same time or finds it locked.                      *)
(***************************************************************************)
EXTENDS StorageBootstrap, StoragePrimitives

CONSTANTS
  Asked,      \* the requests that arrive
  WipeList,   \* the lists of keys a wipe is asked for
  MaxRows,    \* bound: rows in all tables
  NoWipe

ASSUME AskedAssumption == Asked \subseteq Request
ASSUME WipeListAssumption == WipeList \subseteq Seq(PartitionKey)

VARIABLES
  tables,     \* table name -> its committed rows
  wipe,       \* NoWipe, or the open transaction
  report,     \* what the last call returned, if it was a wipe: its report or its error
  answer      \* what the last call returned, if it was a read

vars == <<dir, db, pc, tables, wipe, report, answer>>

\* default_stores, in its order.
DefaultStores == <<"cookies", "local_storage", "session_storage", "cache", "service_workers">>
Table == {DefaultStores[i] : i \in DOMAIN DefaultStores}

NoReport == [outcome |-> "none", keys |-> 0, rows |-> 0]
NoAnswer == [triple |-> << >>, from |-> {}]

Init ==
  /\ BootInit
  /\ tables = [t \in Table |-> EmptyMap]
  /\ wipe = NoWipe
  /\ report = NoReport
  /\ answer = NoAnswer

\* The rows of all tables, each with its table.
Rows(ts) == {x \in Table \X (PartitionKey \X Name) : x[2] \in DOMAIN ts[x[1]]}
RowCount(ts) == Cardinality(Rows(ts))

Ready(p) == pc[p] = "ready"

\* SQLite has one writer: a write that meets the transaction of another process is refused
\* (SQLITE_BUSY) and changes nothing; the process that holds it has no second call in
\* flight, its connection being behind one mutex.
MayWrite(p) == Ready(p) /\ wipe = NoWipe

-----------------------------------------------------------------------------
(* Primitives.                                                             *)

Written(t, req, n) ==
  CASE t = "cookies" -> CookiesPut(tables[t], req, n)
    [] t = "local_storage" -> LocalStoragePut(tables[t], req, n)
    [] t = "session_storage" -> SessionStoragePut(tables[t], req, n)
    [] t = "cache" -> CachePut(tables[t], req, n)
    [] t = "service_workers" -> ServiceWorkerRegister(tables[t], req, n, n, n)

Removed(t, req, n) ==
  CASE t = "cookies" -> CookiesDelete(tables[t], req, n)
    [] t = "local_storage" -> LocalStorageDelete(tables[t], req, n)
    [] t = "session_storage" -> SessionStorageDelete(tables[t], req, n)
    [] t = "cache" -> CacheDelete(tables[t], req, n)
    [] t = "service_workers" -> ServiceWorkerUnregister(tables[t], req, n)

Found(t, req, n) ==
  CASE t = "cookies" -> CookiesGet(tables[t], req, n)
    [] t = "local_storage" -> LocalStorageGet(tables[t], req, n)
    [] t = "session_storage" -> SessionStorageGet(tables[t], req, n)
    [] t = "cache" -> CacheGet(tables[t], req, n)
    [] t = "service_workers" -> ServiceWorkerGet(tables[t], req, n)

AllFound(t, req) ==
  CASE t = "cookies" -> CookiesList(tables[t], req)
    [] t = "local_storage" -> LocalStorageListKeys(tables[t], req)
    [] t = "session_storage" -> SessionStorageListKeys(tables[t], req)
    [] t = "cache" -> CacheTotalBytes(tables[t], req)
    [] t = "service_workers" -> ServiceWorkerList(tables[t], req)

Write(p, t, req, n) ==
  /\ MayWrite(p)
  /\ tables' = [tables EXCEPT ![t] = Written(t, req, n)]
  /\ RowCount(tables') <= MaxRows
  /\ answer' = NoAnswer
  /\ report' = NoReport
  /\ UNCHANGED <<dir, db, pc, wipe>>

Delete(p, t, req, n) ==
  /\ MayWrite(p)
  /\ tables' = [tables EXCEPT ![t] = Removed(t, req, n)]
  /\ answer' = NoAnswer
  /\ report' = NoReport
  /\ UNCHANGED <<dir, db, pc, wipe>>

\* Readers see the committed rows, also while another process has a transaction open (WAL).
Read(p, t, req) ==
  /\ Ready(p)
  /\ wipe # NoWipe => wipe.by # p
  /\ \E rows \in {Found(t, req, n) : n \in Name} \cup {AllFound(t, req)} :
       answer' = [triple |-> TripleOf(req), from |-> {tables[t][r] : r \in rows}]
  /\ report' = NoReport
  /\ UNCHANGED <<dir, db, pc, tables, wipe>>

-----------------------------------------------------------------------------
(* wipe_partitions: one transaction, one DELETE per key and table.         *)

Statements(keys) ==
  [i \in 1 .. Len(keys) * Len(DefaultStores) |->
     [key |-> keys[((i - 1) \div Len(DefaultStores)) + 1],
      table |-> DefaultStores[((i - 1) % Len(DefaultStores)) + 1]]]

\* Without keys there is no transaction and an empty report.
BeginWipe(p, keys) ==
  /\ MayWrite(p)
  /\ IF keys = << >>
       THEN /\ report' = [outcome |-> "ok", keys |-> 0, rows |-> 0]
            /\ UNCHANGED wipe
       ELSE /\ wipe' = [by |-> p, keys |-> keys, todo |-> Statements(keys),
                        working |-> tables, rows |-> 0]
            /\ report' = NoReport
  /\ answer' = NoAnswer
  /\ UNCHANGED <<dir, db, pc, tables>>

WipePartition(ts, t, pk) ==
  [ts EXCEPT ![t] = Restrict(@, DOMAIN @ \ RowsWhere(@, pk))]

DeleteAndCommit ==
  /\ wipe # NoWipe
  /\ wipe.todo # << >>
  /\ LET s == Head(wipe.todo)
         after == WipePartition(wipe.working, s.table, s.key)
     IN  /\ wipe' = [wipe EXCEPT !.working = after, !.todo = Tail(@),
                       !.rows = @ + Cardinality(RowsWhere(wipe.working[s.table], s.key))]
         /\ tables' = after
  /\ UNCHANGED <<dir, db, pc, report, answer>>

\* One DELETE, inside the transaction, and its count.
WipeStatement ==
  /\ wipe # NoWipe
  /\ wipe.todo # << >>
  /\ LET s == Head(wipe.todo)
     IN  wipe' = [wipe EXCEPT !.working = WipePartition(@, s.table, s.key),
                    !.todo = Tail(@),
                    !.rows = @ + Cardinality(RowsWhere(wipe.working[s.table], s.key))]
  /\ UNCHANGED <<dir, db, pc, tables, report, answer>>

CommitWipe ==
  /\ wipe # NoWipe
  /\ wipe.todo = << >>
  /\ tables' = wipe.working
  /\ report' = [outcome |-> "ok", keys |-> Len(wipe.keys), rows |-> wipe.rows]
  /\ wipe' = NoWipe
  /\ UNCHANGED <<dir, db, pc, answer>>

\* A statement or the commit fails: the transaction is dropped, which rolls it back.
WipeFails ==
  /\ wipe # NoWipe
  /\ report' = [outcome |-> "error", keys |-> Len(wipe.keys), rows |-> 0]
  /\ wipe' = NoWipe
  /\ UNCHANGED <<dir, db, pc, tables, answer>>

\* A crash takes the open transaction with it.
Crash(p) ==
  /\ Stop(p)
  /\ wipe' = IF wipe # NoWipe /\ wipe.by = p THEN NoWipe ELSE wipe
  /\ report' = NoReport
  /\ answer' = NoAnswer
  /\ UNCHANGED tables

Next ==
  \/ \E p \in Process :
       \/ BootStep(p) /\ report' = NoReport /\ answer' = NoAnswer /\ UNCHANGED <<tables, wipe>>
       \/ Crash(p)
       \/ \E t \in Table, req \in Asked :
            \/ Read(p, t, req)
            \/ \E n \in Name : Write(p, t, req, n) \/ Delete(p, t, req, n)
       \/ \E keys \in WipeList : BeginWipe(p, keys)
  \/ WipeStatement \/ CommitWipe \/ WipeFails

Spec == Init /\ [][Next]_vars

-----------------------------------------------------------------------------
(* What must hold.                                                         *)

\* A handle is handed out only for a database that is complete and closed to others:
\* whatever was on disk before, wherever earlier starts broke off, and whoever else starts
\* at the same time.
ReadyMeansSound ==
  \A p \in Process : Ready(p) =>
    /\ dir = "owner"
    /\ db = [mode |-> "owner", wal |-> TRUE, tables |-> TableCount,
             version |-> STORAGE_SCHEMA_VERSION]

\* The database file is never there to be opened by others: from the moment a start has it
\* open, the directory is locked, although the file itself is locked two steps later.
OpenOnlyBehindLockedDir ==
  \A p \in Process : pc[p] \notin {"down", "dir", "lockDir", "open"} => dir = "owner"

\* A version stamp, once written by any version of the program, is never overwritten: a file
\* of another version is refused and not silently taken over.
StampNeverChanges == [][db.version # NoVersion => db'.version = db.version]_db

\* What a read returns was written under the same site, profile and context (section 5.2 of the
\* architecture), over every mix of primitives, keys and forged keys.
AnswersStayInPartition == \A from \in answer.from : from = answer.triple

\* A wipe is all or nothing for everyone who looks, and for every crash and failure in it: the
\* committed rows of its keys are untouched until they are all gone, and a wipe that
\* answered ok has left none, in no table.  Its audit tally is exact: the rows it reports are
\* the rows that went, keys named twice included.
Target(w) == {k \in PartitionKey : \E i \in DOMAIN w.keys : w.keys[i] = k}
InTarget(ts, w) == {x \in Rows(ts) : x[2][1] \in Target(w)}
WipeIsWhole ==
  [][wipe # NoWipe =>
       /\ wipe' # NoWipe => InTarget(tables', wipe) = InTarget(tables, wipe)
       /\ wipe' = NoWipe =>
            IF report'.outcome = "ok"
            THEN /\ InTarget(tables', wipe) = {}
                 /\ report'.rows = RowCount(tables) - RowCount(tables')
            ELSE InTarget(tables', wipe) = InTarget(tables, wipe)]_vars

-----------------------------------------------------------------------------
(* For the runs: every partition asks with its own key, and every other    *)
(* one claims the victim's; the wipes name the victim once, twice and      *)
(* after another.                                                          *)
Victim == CHOOSE k \in PartitionKey : TRUE
ForgersAsk == {r \in Request : r.declared \in {Expected(r), Victim}}
VictimWipes ==
  {<< >>, <<Victim>>, <<Victim, Victim>>} \cup {<<k, Victim>> : k \in PartitionKey \ {Victim}}
=============================================================================
