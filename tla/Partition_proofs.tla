--------------------------- MODULE Partition_proofs ---------------------------
(***************************************************************************)
(* What partitions keep apart, for any sites, profiles and contexts: the   *)
(* rows of the storage process, over crashes, concurrent starts and wipes, *)
(* and what pages read of the machine.                                     *)
(***************************************************************************)
EXTENDS StorageProcess, FingerprintSession, FiniteSetTheorems, TLAPS

\* How far a start has come, and what it has left on disk by then.
Opened == {"wal", "lockDb", "tables", "version", "stamp", "sandbox", "ready"}
Complete == {"version", "stamp", "sandbox", "ready"}

Db == [mode : FileMode, wal : BOOLEAN, tables : 0 .. TableCount, version : StampedVersion]

TypeOK ==
  /\ dir \in Dir
  /\ db \in Db
  /\ pc \in [Process -> Step]

\* What a start finds done stays done, whoever else starts, stops or crashes meanwhile.
Behind(p) ==
  /\ pc[p] = "lockDir" => dir \in {"loose", "owner"}
  /\ pc[p] \in Opened \cup {"open"} => dir = "owner"
  /\ pc[p] \in Opened => db.mode # "absent"
  /\ pc[p] \in Opened \ {"wal"} => db.wal
  /\ pc[p] \in Complete \cup {"tables"} => db.mode = "owner"
  /\ pc[p] \in Complete => db.tables = TableCount
  /\ pc[p] \in {"sandbox", "ready"} => db.version = STORAGE_SCHEMA_VERSION
BootInv == \A p \in Process : Behind(p)

\* What no step of bootstrap (process.rs) undoes.
Forward ==
  /\ dir = "owner" => dir' = "owner"
  /\ dir \in {"loose", "owner"} => dir' \in {"loose", "owner"}
  /\ db.mode # "absent" => db'.mode # "absent"
  /\ db.mode = "owner" => db'.mode = "owner"
  /\ db.wal => db'.wal
  /\ db.tables = TableCount => db'.tables = TableCount
  /\ db.version # NoVersion => db'.version = db.version

\* Nothing is there before the first start that a start would not find or finish.
LEMMA BootStarts == BootInit => TypeOK /\ BootInv
<1> SUFFICES ASSUME BootInit PROVE TypeOK /\ BootInv
  OBVIOUS
<1>1. db \in Db
  <2>1. CASE db = NoDb
    BY <2>1 DEF NoDb, Db, FileMode, TableCount, StampedVersion
  <2>2. ASSUME NEW m \in {"loose", "owner"}, NEW w \in BOOLEAN, NEW t \in {0, 1, 5},
               db = [mode |-> m, wal |-> w, tables |-> t, version |-> NoVersion]
        PROVE  db \in Db
    BY <2>2 DEF Db, FileMode, TableCount, StampedVersion
  <2>3. ASSUME NEW t \in {5, 6}, NEW v \in {2, 3, 4, BadVersion},
               db = [mode |-> "owner", wal |-> TRUE, tables |-> t, version |-> v]
        PROVE  db \in Db
    BY <2>3 DEF Db, FileMode, TableCount, StampedVersion
  <2>4. db \in LeftBehind
    BY DEF BootInit
  <2> QED BY <2>1, <2>2, <2>3, <2>4 DEF LeftBehind
<1> QED BY <1>1 DEF BootInit, TypeOK, BootInv, Behind, Step, Opened, Complete

\* One step of one process: the disk only moves forward, and the step finds what it needs.
LEMMA BootGoesForward ==
  ASSUME TypeOK, BootInv, NEW p \in Process, BootStep(p) \/ Stop(p)
  PROVE  TypeOK' /\ BootInv' /\ Forward
<1>1. \E step \in Step : pc' = [pc EXCEPT ![p] = step]
      \/ pc' = pc
  BY DEF BootStep, Start, EnsureDir, LockDir, Open, EnableWal, LockDb, CreateTable,
         TablesCreated, ReadVersion, StampVersion, ApplySandbox, Stop, Go, Step
<1>2. Forward /\ dir' \in Dir /\ db' \in Db
  <2> USE VersionAssumption DEF TypeOK, Db, Forward, Dir, FileMode, StampedVersion, TableCount,
          STORAGE_SCHEMA_VERSION
  <2>1. CASE UNCHANGED <<dir, db>>
    BY <2>1
  <2>2. CASE EnsureDir(p)
    BY <2>2 DEF EnsureDir
  <2>3. CASE LockDir(p)
    BY <2>3 DEF LockDir
  <2>4. CASE Open(p)
    BY <2>4 DEF Open
  <2>5. CASE EnableWal(p)
    BY <2>5 DEF EnableWal
  <2>6. CASE LockDb(p)
    BY <2>6 DEF LockDb
  <2>7. CASE CreateTable(p)
    BY <2>7 DEF CreateTable
  <2>8. CASE StampVersion(p)
    BY <2>8 DEF StampVersion
  <2>9. UNCHANGED <<dir, db>> \/ EnsureDir(p) \/ LockDir(p) \/ Open(p) \/ EnableWal(p)
        \/ LockDb(p) \/ CreateTable(p) \/ StampVersion(p)
    BY DEF BootStep, Start, TablesCreated, ReadVersion, ApplySandbox, Stop
  <2> QED BY <2>1, <2>2, <2>3, <2>4, <2>5, <2>6, <2>7, <2>8, <2>9
<1>3. TypeOK'
  BY <1>1, <1>2 DEF TypeOK
\* What the process itself relies on next.
<1>4. Behind(p)'
  <2> USE VersionAssumption DEF Opened, Complete
  <2>1. pc' \in [Process -> Step] /\ pc \in [Process -> Step]
    BY <1>3 DEF TypeOK
  <2>2. Behind(p)
    BY DEF BootInv
  <2>3. CASE Start(p) \/ Stop(p)
    BY <2>1, <2>3 DEF Start, Stop, Go, Behind
  <2>4. CASE EnsureDir(p)
    BY <2>1, <2>4 DEF EnsureDir, Go, Behind
  <2>5. CASE LockDir(p)
    BY <2>1, <2>5 DEF LockDir, Go, Behind
  <2>6. CASE Open(p)
    BY <1>2, <2>1, <2>2, <2>6 DEF Open, Go, Behind, TypeOK, Db, FileMode
  <2>7. CASE EnableWal(p)
    BY <1>2, <2>1, <2>2, <2>7 DEF EnableWal, Go, Behind, TypeOK, Db
  <2>8. CASE LockDb(p)
    BY <1>2, <2>1, <2>2, <2>8 DEF LockDb, Go, Behind, TypeOK, Db
  <2>9. CASE CreateTable(p)
    BY <1>2, <2>1, <2>2, <2>9 DEF CreateTable, Go, Behind, TypeOK, Db
  <2>10. CASE TablesCreated(p)
    BY <2>1, <2>2, <2>10 DEF TablesCreated, Go, Behind
  <2>11. CASE ReadVersion(p)
    BY <2>1, <2>2, <2>11 DEF ReadVersion, Go, Behind
  <2>12. CASE StampVersion(p)
    BY <1>2, <2>1, <2>2, <2>12 DEF StampVersion, Go, Behind, TypeOK, Db
  <2>13. CASE ApplySandbox(p)
    BY <2>1, <2>2, <2>13 DEF ApplySandbox, Go, Behind
  <2> QED BY <2>3, <2>4, <2>5, <2>6, <2>7, <2>8, <2>9, <2>10, <2>11, <2>12, <2>13 DEF BootStep
\* What it did takes nothing from the others.
<1>5. ASSUME NEW q \in Process, q # p PROVE Behind(q)'
  <2>1. pc'[q] = pc[q]
    BY <1>1, <1>5 DEF TypeOK
  <2>2. Behind(q)
    BY DEF BootInv
  <2> QED BY <1>2, <2>1, <2>2, VersionAssumption DEF Forward, Behind, STORAGE_SCHEMA_VERSION
<1> QED BY <1>2, <1>3, <1>4, <1>5 DEF BootInv

-----------------------------------------------------------------------------
(* The rows: each under the key of the triple it was written for.          *)

Belongs(table) ==
  \A r \in DOMAIN table :
    /\ r \in PartitionKey \X Name
    /\ table[r] \in Triple
    /\ r[1] = Derive(table[r][1], table[r][2], table[r][3])

Tables(ts) ==
  /\ ts = [t \in Table |-> ts[t]]
  /\ \A t \in Table : Belongs(ts[t])
  /\ IsFiniteSet(Rows(ts))

Statement == [key : PartitionKey, table : Table]

\* A transaction that is open: what it has deleted is gone from its working rows and
\* counted, and what it has not deleted yet is still to do.
Transaction(w) ==
  /\ w = [by |-> w.by, keys |-> w.keys, todo |-> w.todo, working |-> w.working,
          rows |-> w.rows]
  /\ w.keys \in Seq(PartitionKey)
  /\ w.todo \in Seq(Statement)
  /\ Tables(w.working)
  /\ w.rows = RowCount(tables) - RowCount(w.working)
  /\ \A k \in Target(w), t \in Table :
       \/ RowsWhere(w.working[t], k) = {}
       \/ \E i \in 1 .. Len(w.todo) : w.todo[i] = [key |-> k, table |-> t]

StorageInv ==
  /\ TypeOK /\ BootInv
  /\ Tables(tables)
  /\ AnswersStayInPartition
  /\ wipe # NoWipe => Transaction(wipe) /\ report.outcome # "ok"

\* default_stores (strict_wipe.rs) lists every store.
LEMMA TableIs ==
  /\ Table = {"cookies", "local_storage", "session_storage", "cache", "service_workers"}
  /\ \A t \in Table : \E d \in 1 .. 5 : DefaultStores[d] = t
  /\ \A d \in 1 .. 5 : DefaultStores[d] \in Table
  /\ Len(DefaultStores) = 5
<1>1. DOMAIN DefaultStores = 1 .. 5 /\ Len(DefaultStores) = 5
  BY DEF DefaultStores
<1>2. Table = {DefaultStores[1], DefaultStores[2], DefaultStores[3], DefaultStores[4],
               DefaultStores[5]}
  BY <1>1 DEF Table
<1>3. /\ DefaultStores[1] = "cookies" /\ DefaultStores[2] = "local_storage"
      /\ DefaultStores[3] = "session_storage" /\ DefaultStores[4] = "cache"
      /\ DefaultStores[5] = "service_workers"
  BY DEF DefaultStores
<1> HIDE DEF DefaultStores
<1> QED BY <1>1, <1>2, <1>3 DEF Table

\* Whichever primitive is asked, what it writes, if anything, is the row of the triple that
\* asks, what it takes away is one row of its table, and what it finds lies under the key of
\* that triple (gatekeeper.rs).
LEMMA PrimitivesKeepToTheirKey ==
  ASSUME NEW t \in Table, NEW req \in Request, NEW n \in Name
  PROVE  /\ \/ Written(t, req, n) = tables[t]
            \/ Written(t, req, n) = Put(tables[t], Row(Expected(req), n), TripleOf(req))
         /\ \/ Removed(t, req, n) = tables[t]
            \/ Removed(t, req, n) = Without(tables[t], Row(Expected(req), n))
         /\ Found(t, req, n) \subseteq RowsWhere(tables[t], Expected(req))
         /\ AllFound(t, req) \subseteq RowsWhere(tables[t], Expected(req))
<1>1. /\ \/ Written(t, req, n) = tables[t]
         \/ Written(t, req, n) = Put(tables[t], Row(Expected(req), n), TripleOf(req))
  BY TableIs DEF Written, CookiesPut, LocalStoragePut, SessionStoragePut, CachePut,
                 ServiceWorkerRegister, Upsert
<1>2. /\ \/ Removed(t, req, n) = tables[t]
         \/ Removed(t, req, n) = Without(tables[t], Row(Expected(req), n))
  BY TableIs DEF Removed, CookiesDelete, LocalStorageDelete, SessionStorageDelete,
                 CacheDelete, ServiceWorkerUnregister, DeleteRow
<1>3. GetRow(tables[t], req, n) \subseteq RowsWhere(tables[t], Expected(req))
      /\ ListRows(tables[t], req) \subseteq RowsWhere(tables[t], Expected(req))
  BY DEF GetRow, ListRows
<1>4. Found(t, req, n) = GetRow(tables[t], req, n)
  BY TableIs DEF Found, CookiesGet, LocalStorageGet, SessionStorageGet, CacheGet,
                 ServiceWorkerGet
<1>5. AllFound(t, req) = ListRows(tables[t], req)
  BY TableIs DEF AllFound, CookiesList, LocalStorageListKeys, SessionStorageListKeys,
                 CacheTotalBytes, ServiceWorkerList
<1> QED BY <1>1, <1>2, <1>3, <1>4, <1>5

\* The key says which triple it is for (partition_key.rs).
LEMMA KeyIsTriple ==
  ASSUME NEW req \in Request
  PROVE  /\ TripleOf(req) \in Triple /\ Expected(req) \in PartitionKey
         /\ Expected(req) = Derive(TripleOf(req)[1], TripleOf(req)[2], TripleOf(req)[3])
         /\ \A u \in Triple : Derive(u[1], u[2], u[3]) = Expected(req) => u = TripleOf(req)
<1>1. req.site \in Site /\ req.profile \in Profile /\ req.context \in Context
  BY DEF Request
<1>2. TripleOf(req) \in Triple
      /\ Expected(req) = Derive(TripleOf(req)[1], TripleOf(req)[2], TripleOf(req)[3])
  BY <1>1 DEF TripleOf, Triple, Expected
<1>3. Expected(req) \in PartitionKey
  BY <1>2 DEF PartitionKey
<1>4. ASSUME NEW u \in Triple, Derive(u[1], u[2], u[3]) = Expected(req)
      PROVE  u = TripleOf(req)
  <2>1. u = <<u[1], u[2], u[3]>>
    BY DEF Triple
  <2>2. u[1] = req.site /\ u[2] = req.profile /\ u[3] = req.context
    BY <1>4 DEF Derive, Expected
  <2> QED BY <2>1, <2>2 DEF TripleOf
<1> QED BY <1>2, <1>3, <1>4

\* A table may be replaced by one whose rows belong where they are, with at most one more.
LEMMA OneTableReplaced ==
  ASSUME NEW ts, Tables(ts), NEW t \in Table, NEW table, Belongs(table),
         NEW row, DOMAIN table \subseteq DOMAIN ts[t] \cup {row}
  PROVE  Tables([ts EXCEPT ![t] = table])
<1> DEFINE after == [ts EXCEPT ![t] = table]
<1>1. /\ after = [u \in Table |-> after[u]]
      /\ after[t] = table /\ \A u \in Table : u # t => after[u] = ts[u]
  BY DEF Tables
<1> HIDE DEF after
<1>2. \A u \in Table : Belongs(after[u])
  BY <1>1 DEF Tables
<1>3. Rows(after) \subseteq Rows(ts) \cup {<<t, row>>}
  <2> SUFFICES ASSUME NEW x \in Rows(after), x \notin Rows(ts) PROVE x = <<t, row>>
    OBVIOUS
  <2>1. x \in Table \X (PartitionKey \X Name) /\ x[2] \in DOMAIN after[x[1]]
        /\ x[2] \notin DOMAIN ts[x[1]]
    BY DEF Rows
  <2>2. x[1] = t /\ x[2] = row
    BY <1>1, <2>1
  <2> QED BY <2>1, <2>2
<1>4. IsFiniteSet(Rows(after))
  BY <1>3, FS_AddElement, FS_Subset DEF Tables
<1> QED BY <1>1, <1>2, <1>4 DEF Tables, after

\* The row a primitive writes belongs where it is, and a row taken away takes nothing else.
LEMMA PrimitiveKeepsTables ==
  ASSUME Tables(tables), NEW t \in Table, NEW req \in Request, NEW n \in Name
  PROVE  /\ Tables([tables EXCEPT ![t] = Written(t, req, n)])
         /\ Tables([tables EXCEPT ![t] = Removed(t, req, n)])
<1> DEFINE row == Row(Expected(req), n)
           old == tables[t]
<1>1. row \in PartitionKey \X Name /\ row[1] = Expected(req)
  BY KeyIsTriple DEF Row
<1>2. Belongs(old)
  BY DEF Tables
<1> HIDE DEF row, old
<1>3. ASSUME NEW new, new = Put(old, row, TripleOf(req))
      PROVE  Belongs(new) /\ DOMAIN new \subseteq DOMAIN old \cup {row}
  <2>1. /\ DOMAIN new = DOMAIN old \cup {row}
        /\ \A r \in DOMAIN new : new[r] = IF r = row THEN TripleOf(req) ELSE old[r]
    BY <1>3 DEF Put
  <2> QED BY <1>1, <1>2, <2>1, KeyIsTriple DEF Belongs
<1>4. ASSUME NEW new, new = Without(old, row)
      PROVE  Belongs(new) /\ DOMAIN new \subseteq DOMAIN old \cup {row}
  <2>1. DOMAIN new = DOMAIN old \ {row} /\ \A r \in DOMAIN new : new[r] = old[r]
    BY <1>4 DEF Without, Restrict
  <2> QED BY <1>2, <2>1 DEF Belongs
<1>5. ASSUME NEW new, new \in {old, Put(old, row, TripleOf(req)), Without(old, row)}
      PROVE  Tables([tables EXCEPT ![t] = new])
  <2>1. Belongs(new) /\ DOMAIN new \subseteq DOMAIN old \cup {row}
    BY <1>2, <1>3, <1>4, <1>5
  <2> QED BY <2>1, OneTableReplaced DEF old
<1> QED BY <1>5, PrimitivesKeepToTheirKey, Zenon DEF old, row

\* What one DELETE of the wipe leaves of the tables.
Deleted(ts, t, k, after) ==
  /\ Tables(after)
  /\ RowsWhere(after[t], k) = {}
  /\ \A u \in Table : \A j : RowsWhere(after[u], j) \subseteq RowsWhere(ts[u], j)
  /\ RowCount(ts) \in Nat /\ RowCount(after) \in Nat
  /\ Cardinality(RowsWhere(ts[t], k)) = RowCount(ts) - RowCount(after)

\* One DELETE of the wipe (strict_wipe.rs) takes the rows of its key from its table, all of
\* them and no other, and its count is their number.
LEMMA StatementFacts ==
  ASSUME NEW ts, Tables(ts), NEW t \in Table, NEW k
  PROVE  Deleted(ts, t, k, WipePartition(ts, t, k))
<1> DEFINE gone == RowsWhere(ts[t], k)
           kept == Restrict(ts[t], DOMAIN ts[t] \ gone)
           after == WipePartition(ts, t, k)
<1>1. DOMAIN kept = DOMAIN ts[t] \ gone /\ \A r \in DOMAIN kept : kept[r] = ts[t][r]
  BY DEF Restrict
<1>2. gone = {r \in DOMAIN ts[t] : r[1] = k}
  BY DEF RowsWhere
<1>3. after = [ts EXCEPT ![t] = kept]
  BY DEF WipePartition
<1> HIDE DEF gone, kept, after
<1>4. Belongs(ts[t]) /\ Belongs(kept)
  BY <1>1 DEF Tables, Belongs
<1>5. Tables(after)
  <2>1. DOMAIN kept \subseteq DOMAIN ts[t] \cup {k}
    BY <1>1
  <2>2. Tables([ts EXCEPT ![t] = kept])
    BY <1>4, <2>1, OneTableReplaced
  <2> QED BY <1>3, <2>2, Zenon
<1>6. after[t] = kept /\ \A u \in Table : u # t => after[u] = ts[u]
  BY <1>3 DEF Tables
<1>7. RowsWhere(after[t], k) = {}
  BY <1>1, <1>2, <1>6 DEF RowsWhere
<1>8. \A u \in Table : \A j : RowsWhere(after[u], j) \subseteq RowsWhere(ts[u], j)
  BY <1>1, <1>6 DEF RowsWhere
<1> DEFINE Lost == {x \in Rows(ts) : x[1] = t /\ x[2] \in gone}
<1>9. Rows(after) = Rows(ts) \ Lost /\ Lost \subseteq Rows(ts)
  <2>1. ASSUME NEW x \in Table \X (PartitionKey \X Name)
        PROVE  x[2] \in DOMAIN after[x[1]] <=>
                 x[2] \in DOMAIN ts[x[1]] /\ ~(x[1] = t /\ x[2] \in gone)
    BY <1>1, <1>6
  <2> QED BY <2>1 DEF Rows
<1>10. IsFiniteSet(Rows(ts)) /\ IsFiniteSet(Rows(after)) /\ IsFiniteSet(Lost)
  BY <1>5, <1>9, FS_Subset DEF Tables
<1>11. Cardinality(gone) = Cardinality(Lost)
  <2> DEFINE f == [x \in Lost |-> x[2]]
  <2>1. \A x \in Lost : x = <<t, x[2]>> /\ x[2] \in gone
    BY DEF Rows
  <2>2. \A r \in gone : <<t, r>> \in Lost
    BY <1>2, <1>4 DEF Rows, Belongs
  <2> HIDE DEF Lost
  <2>3. f \in Bijection(Lost, gone)
    <3>1. f \in [Lost -> gone]
      BY <2>1
    <3>2. \A x, y \in Lost : f[x] = f[y] => x = y
      BY <2>1
    <3>3. ASSUME NEW r \in gone PROVE \E x \in Lost : f[x] = r
      <4>1. <<t, r>> \in Lost /\ f[<<t, r>>] = r
        BY <2>2
      <4> QED BY <4>1
    <3>4. DOMAIN f = Lost
      OBVIOUS
    <3> HIDE DEF f
    <3>5. IsInjective(f)
      BY <3>2, <3>4 DEF IsInjective
    <3> QED BY <3>1, <3>3, <3>5, Zenon DEF Bijection, Injection, Surjection
  <2> QED BY <1>10, <2>3, FS_Bijection DEF ExistsBijection
<1>12. Cardinality(Rows(after)) = Cardinality(Rows(ts)) - Cardinality(Lost)
       /\ Cardinality(Lost) \in Nat
  <2>1. Rows(ts) \cap Lost = Lost
    BY <1>9
  <2> HIDE DEF Lost
  <2> QED BY <1>9, <1>10, <2>1, FS_Difference, FS_CardinalityType
<1>13. RowCount(ts) \in Nat /\ RowCount(after) \in Nat
  BY <1>10, FS_CardinalityType DEF RowCount
<1> HIDE DEF Lost
<1>14. Cardinality(gone) = RowCount(ts) - RowCount(after)
  <2> DEFINE a == Cardinality(Rows(ts))
             b == Cardinality(Rows(after))
             c == Cardinality(Lost)
  <2>1. a \in Nat /\ b \in Nat /\ c \in Nat /\ b = a - c
    BY <1>12, <1>13 DEF RowCount
  <2> HIDE DEF a, b, c
  <2>2. c = a - b
    BY <2>1
  <2> QED BY <1>11, <2>2 DEF a, b, c, RowCount
<1>15. Deleted(ts, t, k, after)
  BY <1>5, <1>7, <1>8, <1>13, <1>14 DEF gone, Deleted
<1> QED BY <1>15 DEF after

\* wipe_partitions has a DELETE for every key it is given and every store there is.
LEMMA StatementsCover ==
  ASSUME NEW keys \in Seq(PartitionKey)
  PROVE  /\ Statements(keys) \in Seq(Statement)
         /\ \A i \in DOMAIN keys, t \in Table :
              \E j \in 1 .. Len(Statements(keys)) :
                Statements(keys)[j] = [key |-> keys[i], table |-> t]
<1> DEFINE n == Len(keys)
           todo == Statements(keys)
<1>1. n \in Nat /\ DOMAIN keys = 1 .. n /\ \A i \in 1 .. n : keys[i] \in PartitionKey
  OBVIOUS
<1>2. todo = [j \in 1 .. n * 5 |-> todo[j]]
      /\ \A j \in 1 .. n * 5 :
           todo[j] = [key |-> keys[((j - 1) \div 5) + 1],
                      table |-> DefaultStores[((j - 1) % 5) + 1]]
  BY TableIs DEF Statements
<1> HIDE DEF n, todo
<1>3. ASSUME NEW j \in 1 .. n * 5 PROVE todo[j] \in Statement
  <2>1. ((j - 1) \div 5) + 1 \in 1 .. n /\ ((j - 1) % 5) + 1 \in 1 .. 5
    BY <1>1
  <2> QED BY <1>1, <1>2, <2>1, TableIs DEF Statement
<1>4. n * 5 \in Nat
  BY <1>1
<1>5. todo \in Seq(Statement) /\ Len(todo) = n * 5
  <2> DEFINE m == n * 5
  <2>1. m \in Nat /\ todo = [j \in 1 .. m |-> todo[j]] /\ \A j \in 1 .. m : todo[j] \in Statement
    BY <1>2, <1>3, <1>4
  <2> HIDE DEF m
  <2>2. todo \in Seq(Statement) /\ Len(todo) = m
    BY <2>1
  <2> QED BY <2>2 DEF m
<1>6. ASSUME NEW i \in 1 .. n, NEW t \in Table
      PROVE  \E j \in 1 .. n * 5 : todo[j] = [key |-> keys[i], table |-> t]
  <2>1. PICK d \in 1 .. 5 : DefaultStores[d] = t
    BY TableIs
  <2> DEFINE j == (i - 1) * 5 + d
  <2>2. j \in 1 .. n * 5 /\ ((j - 1) \div 5) + 1 = i /\ ((j - 1) % 5) + 1 = d
    BY <1>1
  <2> HIDE DEF j
  <2> QED BY <1>2, <2>1, <2>2
<1> QED BY <1>1, <1>5, <1>6 DEF todo

-----------------------------------------------------------------------------
(* The invariant.                                                          *)

\* The process starts without rows, calls or transactions.
LEMMA StorageStarts == Init => StorageInv
<1> SUFFICES ASSUME Init PROVE StorageInv
  OBVIOUS
<1>1. TypeOK /\ BootInv
  BY BootStarts DEF Init
<1>2. \A t \in Table : tables[t] = EmptyMap /\ DOMAIN tables[t] = {}
  BY DEF Init, EmptyMap
<1>3. Rows(tables) = {}
  BY <1>2 DEF Rows
<1>4. Tables(tables)
  BY <1>2, <1>3, FS_EmptySet DEF Tables, Belongs, Init
<1>5. AnswersStayInPartition /\ wipe = NoWipe
  BY DEF Init, NoAnswer, AnswersStayInPartition
<1> QED BY <1>1, <1>4, <1>5 DEF StorageInv

\* What a read (primitives/*.rs) answers, it found under the key it asked with, so it was
\* written with the triple that asked.
LEMMA ReadStaysInPartition ==
  ASSUME Tables(tables), NEW p, NEW t \in Table, NEW req \in Request, Read(p, t, req)
  PROVE  AnswersStayInPartition'
<1>1. PICK rows \in {Found(t, req, n) : n \in Name} \cup {AllFound(t, req)} :
        answer' = [triple |-> TripleOf(req), from |-> {tables[t][r] : r \in rows}]
  BY DEF Read
<1>2. rows \subseteq RowsWhere(tables[t], Expected(req))
  BY PrimitivesKeepToTheirKey, EmptyNameAssumption
<1>3. ASSUME NEW r \in rows PROVE tables[t][r] = TripleOf(req)
  <2>1. r \in DOMAIN tables[t] /\ r[1] = Expected(req)
    BY <1>2 DEF RowsWhere
  <2>2. tables[t][r] \in Triple
        /\ Derive(tables[t][r][1], tables[t][r][2], tables[t][r][3]) = Expected(req)
    BY <2>1 DEF Tables, Belongs
  <2> QED BY <2>2, KeyIsTriple
<1> QED BY <1>1, <1>3 DEF AnswersStayInPartition

\* wipe_partitions opens a transaction that has deleted nothing and has everything to do.
LEMMA BeginWipeOpens ==
  ASSUME StorageInv, NEW p, NEW keys \in WipeList, BeginWipe(p, keys)
  PROVE  wipe' # NoWipe => Transaction(wipe)' /\ report'.outcome # "ok"
<1> SUFFICES ASSUME wipe' # NoWipe PROVE Transaction(wipe)' /\ report'.outcome # "ok"
  OBVIOUS
<1> DEFINE w == wipe'
<1>1. keys \in Seq(PartitionKey)
  BY WipeListAssumption
<1>2. /\ w = [by |-> p, keys |-> keys, todo |-> Statements(keys), working |-> tables, rows |-> 0]
      /\ report' = NoReport /\ tables' = tables
  BY DEF BeginWipe, MayWrite
<1> HIDE DEF w
<1>3. /\ w.by = p /\ w.keys = keys /\ w.todo = Statements(keys) /\ w.working = tables
      /\ w.rows = 0
  BY <1>2
<1>4. RowCount(tables) \in Nat
  BY FS_CardinalityType DEF RowCount, StorageInv, Tables
<1>5. \A k \in Target(w), t \in Table :
        \E i \in 1 .. Len(w.todo) : w.todo[i] = [key |-> k, table |-> t]
  <2>1. \A k \in Target(w) : \E i \in DOMAIN keys : keys[i] = k
    BY <1>3 DEF Target
  <2> QED BY <1>1, <1>3, <2>1, StatementsCover
<1>6. w.rows = RowCount(tables') - RowCount(w.working)
  BY <1>2, <1>3, <1>4
<1>7. w = [by |-> w.by, keys |-> w.keys, todo |-> w.todo, working |-> w.working, rows |-> w.rows]
  BY <1>2, <1>3
<1>8. w.todo \in Seq(Statement) /\ Tables(w.working)
  BY <1>1, <1>3, StatementsCover DEF StorageInv
<1> QED BY <1>1, <1>2, <1>3, <1>5, <1>6, <1>7, <1>8 DEF Transaction, w, NoReport

\* One DELETE takes its statement from what is left to do, with the rows it was for.
LEMMA WipeStatementKeeps ==
  ASSUME Tables(tables), Transaction(wipe), WipeStatement
  PROVE  Transaction(wipe)'
<1> DEFINE w == wipe
           v == wipe'
           s == Head(wipe.todo)
           lost == RowsWhere(wipe.working[s.table], s.key)
           after == WipePartition(wipe.working, s.table, s.key)
<1>1. wipe.todo \in Seq(Statement) /\ wipe.todo # << >>
  BY DEF WipeStatement, Transaction
<1>2. /\ v = [by |-> w.by, keys |-> w.keys, todo |-> Tail(w.todo), working |-> after,
               rows |-> w.rows + Cardinality(lost)]
      /\ tables' = tables
  BY DEF WipeStatement, Transaction
<1>3. /\ w.keys \in Seq(PartitionKey) /\ w.todo \in Seq(Statement) /\ Tables(w.working)
      /\ w.rows = RowCount(tables) - RowCount(w.working) /\ w.todo # << >>
      /\ \A k \in Target(w), t \in Table :
           \/ RowsWhere(w.working[t], k) = {}
           \/ \E i \in 1 .. Len(w.todo) : w.todo[i] = [key |-> k, table |-> t]
  BY DEF Transaction, WipeStatement
<1> HIDE DEF w, v
<1>4. s = w.todo[1] /\ s = [key |-> s.key, table |-> s.table] /\ s.table \in Table
  <2>1. s = w.todo[1] /\ s \in Statement
    BY <1>1 DEF w
  <2> HIDE DEF s
  <2> QED BY <2>1 DEF Statement
<1> HIDE DEF s
<1>5. /\ Tables(after) /\ RowsWhere(after[s.table], s.key) = {}
      /\ \A u \in Table : \A j : RowsWhere(after[u], j) \subseteq RowsWhere(w.working[u], j)
      /\ RowCount(w.working) \in Nat /\ RowCount(after) \in Nat
      /\ Cardinality(lost) = RowCount(w.working) - RowCount(after)
  <2>1. Tables(w.working) /\ s.table \in Table
    BY <1>3, <1>4
  <2>2. Deleted(w.working, s.table, s.key, WipePartition(w.working, s.table, s.key))
    BY <2>1, StatementFacts
  <2> QED BY <2>2 DEF Deleted, w
<1> HIDE DEF lost, after
<1>6. /\ v.by = w.by /\ v.keys = w.keys /\ v.todo = Tail(w.todo) /\ v.working = after
      /\ v.rows = w.rows + Cardinality(lost) /\ Target(v) = Target(w)
  BY <1>2 DEF Target
<1>7. v.rows = RowCount(tables') - RowCount(v.working)
  <2>1. RowCount(tables) \in Nat
    BY FS_CardinalityType DEF RowCount, Tables
  <2> QED BY <1>2, <1>3, <1>5, <1>6, <2>1
<1>8. ASSUME NEW k \in Target(v), NEW t \in Table, RowsWhere(v.working[t], k) # {}
      PROVE  \E i \in 1 .. Len(v.todo) : v.todo[i] = [key |-> k, table |-> t]
  <2>1. RowsWhere(w.working[t], k) # {} /\ k \in Target(w)
    BY <1>5, <1>6, <1>8
  <2>2. PICK i \in 1 .. Len(w.todo) : w.todo[i] = [key |-> k, table |-> t]
    BY <1>3, <2>1
  <2>3. i # 1
    <3> SUFFICES ASSUME i = 1 PROVE FALSE
      OBVIOUS
    <3>1. s.key = k /\ s.table = t
      BY <1>4, <2>2
    <3> QED BY <1>5, <1>6, <1>8, <3>1
  <2>4. i - 1 \in 1 .. Len(v.todo) /\ v.todo[i - 1] = w.todo[i]
    BY <1>3, <1>6, <2>3
  <2> QED BY <2>2, <2>4
<1>9. v = [by |-> v.by, keys |-> v.keys, todo |-> v.todo, working |-> v.working, rows |-> v.rows]
  BY <1>2, <1>6
<1>10. v.todo \in Seq(Statement) /\ v.keys \in Seq(PartitionKey) /\ Tables(v.working)
  BY <1>3, <1>5, <1>6
<1> QED BY <1>7, <1>8, <1>9, <1>10 DEF Transaction, v

\* Every step of every process keeps the invariant and undoes nothing on disk.
LEMMA StorageStepKeepsInv ==
  ASSUME StorageInv, [Next]_vars
  PROVE  StorageInv' /\ Forward
<1> USE DEF StorageInv
<1>1. ASSUME UNCHANGED <<dir, db, pc>> PROVE TypeOK' /\ BootInv' /\ Forward
  BY <1>1 DEF TypeOK, BootInv, Behind, Forward
<1>2. UNCHANGED tables => Tables(tables)'
  BY DEF Tables
<1>3. answer' \in {answer, NoAnswer} => AnswersStayInPartition'
  BY DEF AnswersStayInPartition, NoAnswer
<1>4. ASSUME UNCHANGED tables, wipe' \in {wipe, NoWipe}, wipe' # NoWipe
      PROVE  Transaction(wipe)'
  BY <1>4 DEF Transaction, RowCount, Target
<1>5. NoReport.outcome # "ok"
  BY DEF NoReport
<1>6. CASE UNCHANGED vars
  BY <1>1, <1>2, <1>3, <1>4, <1>6 DEF vars
<1>7. ASSUME NEW p \in Process, BootStep(p), report' = NoReport, answer' = NoAnswer,
             UNCHANGED <<tables, wipe>>
      PROVE  StorageInv' /\ Forward
  <2>1. TypeOK' /\ BootInv' /\ Forward
    BY <1>7, BootGoesForward
  <2> QED BY <1>2, <1>3, <1>4, <1>5, <1>7, <2>1
<1>8. ASSUME NEW p \in Process, Crash(p) PROVE StorageInv' /\ Forward
  <2>1. TypeOK' /\ BootInv' /\ Forward
    BY <1>8, BootGoesForward DEF Crash
  <2> QED BY <1>2, <1>3, <1>4, <1>5, <1>8, <2>1 DEF Crash
<1>9. ASSUME NEW p \in Process, NEW t \in Table, NEW req \in Asked, Read(p, t, req)
      PROVE  StorageInv' /\ Forward
  <2>1. UNCHANGED <<dir, db, pc, tables, wipe>> /\ report' = NoReport
    BY <1>9 DEF Read
  <2>2. AnswersStayInPartition'
    BY <1>9, AskedAssumption, ReadStaysInPartition
  <2> QED BY <1>1, <1>2, <1>4, <1>5, <2>1, <2>2
<1>10. ASSUME NEW p \in Process, NEW t \in Table, NEW req \in Asked, NEW n \in Name,
              Write(p, t, req, n) \/ Delete(p, t, req, n)
       PROVE  StorageInv' /\ Forward
  <2>1. UNCHANGED <<dir, db, pc, wipe>> /\ wipe = NoWipe /\ answer' = NoAnswer
    BY <1>10 DEF Write, Delete, MayWrite
  <2>2. Tables(tables')
    BY <1>10, AskedAssumption, PrimitiveKeepsTables DEF Write, Delete
  <2> QED BY <1>1, <1>3, <2>1, <2>2
<1>11. ASSUME NEW p \in Process, NEW keys \in WipeList, BeginWipe(p, keys)
       PROVE  StorageInv' /\ Forward
  <2>1. UNCHANGED <<dir, db, pc, tables>> /\ answer' = NoAnswer
    BY <1>11 DEF BeginWipe
  <2>2. wipe' # NoWipe => Transaction(wipe)' /\ report'.outcome # "ok"
    BY <1>11, BeginWipeOpens
  <2> QED BY <1>1, <1>2, <1>3, <2>1, <2>2
<1>12. CASE WipeStatement
  <2>1. UNCHANGED <<dir, db, pc, tables, report, answer>> /\ wipe # NoWipe
    BY <1>12 DEF WipeStatement
  <2>2. Transaction(wipe)'
    BY <1>12, <2>1, WipeStatementKeeps
  <2> QED BY <1>1, <1>2, <1>3, <2>1, <2>2
<1>13. CASE CommitWipe
  <2>1. UNCHANGED <<dir, db, pc, answer>> /\ wipe' = NoWipe /\ Tables(tables')
    BY <1>13 DEF CommitWipe, Transaction
  <2> QED BY <1>1, <1>3, <2>1
<1>14. CASE WipeFails
  <2>1. UNCHANGED <<dir, db, pc, tables, answer>> /\ wipe' = NoWipe
    BY <1>14 DEF WipeFails
  <2> QED BY <1>1, <1>2, <1>3, <2>1
<1> QED BY <1>6, <1>7, <1>8, <1>9, <1>10, <1>11, <1>12, <1>13, <1>14 DEF Next

\* The invariant of the storage process (process.rs, gatekeeper.rs, strict_wipe.rs): how far
\* each start has come and what the disk shows of it, every row under the key of the triple
\* that wrote it, and an open wipe's tally exact for what it has deleted so far.
THEOREM StorageInvariant == Spec => []StorageInv
<1> QED BY StorageStarts, StorageStepKeepsInv, PTL DEF Spec

\* Bootstrap (process.rs) hands out a handle only for a database that is complete, stamped
\* with this version and closed to others, whatever it found and whoever else was starting.
THEOREM ReadyMeansSoundHolds == Spec => []ReadyMeansSound
<1>1. StorageInv => ReadyMeansSound
  BY DEF StorageInv, TypeOK, Db, BootInv, Behind, Opened, Complete, ReadyMeansSound, Ready
<1> QED BY <1>1, StorageInvariant, PTL

\* The database file is open to no one: bootstrap (process.rs) locks the directory before it
\* creates the file, and nothing unlocks it.
THEOREM OpenOnlyBehindLockedDirHolds == Spec => []OpenOnlyBehindLockedDir
<1>1. StorageInv => OpenOnlyBehindLockedDir
  BY DEF StorageInv, TypeOK, BootInv, Behind, Opened, Complete, Step, OpenOnlyBehindLockedDir
<1> QED BY <1>1, StorageInvariant, PTL

\* A schema version once written (process.rs) is never overwritten, by any step of any process.
THEOREM StampNeverChangesHolds == Spec => StampNeverChanges
<1>1. StorageInv /\ [Next]_vars => [db.version # NoVersion => db'.version = db.version]_db
  BY StorageStepKeepsInv DEF Forward
<1> QED BY <1>1, StorageInvariant, PTL DEF Spec, StampNeverChanges

\* A read never sees a row of another site, profile or context, whatever keys callers declare
\* (gatekeeper.rs).
THEOREM AnswersStayInPartitionHolds == Spec => []AnswersStayInPartition
<1>1. StorageInv => AnswersStayInPartition
  BY DEF StorageInv
<1> QED BY <1>1, StorageInvariant, PTL

\* The strict wipe (strict_wipe.rs) is all or nothing for everyone who looks, with an exact
\* tally, for any list of keys, duplicates included.
THEOREM WipeIsWholeHolds == Spec => WipeIsWhole
<1> DEFINE Whole ==
      wipe # NoWipe =>
        /\ wipe' # NoWipe => InTarget(tables', wipe) = InTarget(tables, wipe)
        /\ wipe' = NoWipe =>
             IF report'.outcome = "ok"
             THEN /\ InTarget(tables', wipe) = {}
                  /\ report'.rows = RowCount(tables) - RowCount(tables')
             ELSE InTarget(tables', wipe) = InTarget(tables, wipe)
<1>1. ASSUME StorageInv, Next, wipe # NoWipe PROVE Whole
  <2>1. ASSUME UNCHANGED tables, wipe' = NoWipe => report'.outcome # "ok" PROVE Whole
    BY <2>1
  <2>2. CASE CommitWipe
    <3>1. /\ Transaction(wipe) /\ wipe.todo = << >> /\ tables' = wipe.working /\ wipe' = NoWipe
          /\ report' = [outcome |-> "ok", keys |-> Len(wipe.keys), rows |-> wipe.rows]
      BY <1>1, <2>2 DEF CommitWipe, StorageInv
    <3>2. \A k \in Target(wipe), t \in Table : RowsWhere(wipe.working[t], k) = {}
      <4>1. 1 .. Len(wipe.todo) = {}
        BY <3>1
      <4> QED BY <3>1, <4>1, Zenon DEF Transaction
    <3>3. InTarget(tables', wipe) = {}
      <4> SUFFICES ASSUME NEW x \in InTarget(tables', wipe) PROVE FALSE
        OBVIOUS
      <4>1. x[1] \in Table /\ x[2] \in DOMAIN wipe.working[x[1]] /\ x[2][1] \in Target(wipe)
        BY <3>1 DEF InTarget, Rows
      <4> QED BY <3>2, <4>1 DEF RowsWhere
    <3>4. report'.outcome = "ok" /\ report'.rows = RowCount(tables) - RowCount(tables')
      BY <3>1 DEF Transaction
    <3> QED BY <3>1, <3>3, <3>4
  <2>3. CASE WipeFails
    BY <2>1, <2>3 DEF WipeFails
  <2>4. CASE WipeStatement
    BY <1>1, <2>1, <2>4 DEF WipeStatement, StorageInv
  <2>5. ASSUME NEW p \in Process,
               \/ Crash(p)
               \/ BootStep(p) /\ report' = NoReport /\ UNCHANGED <<tables, wipe>>
               \/ \E t \in Table, req \in Asked : Read(p, t, req)
        PROVE  Whole
    BY <2>1, <2>5 DEF Crash, Read, NoReport
  <2>6. ASSUME NEW p \in Process PROVE ~MayWrite(p)
    BY <1>1 DEF MayWrite
  <2> QED BY <1>1, <2>2, <2>3, <2>4, <2>5, <2>6 DEF Next, Write, Delete, BeginWipe
<1>2. StorageInv /\ [Next]_vars => [Whole]_vars
  BY <1>1
<1> QED BY <1>2, StorageInvariant, PTL DEF Spec, WipeIsWhole

-----------------------------------------------------------------------------
(* What pages read of the machine: what an answer depends on.              *)

\* The view of a page at the time of its reading.
ViewOf(r) ==
  [mode |-> UserInfo[r.user].mode, device |-> UserInfo[r.user].device,
   seed |-> FarblingSeed(Derive(r.site, r.user, r.context)),
   epoch |-> IF UserInfo[r.user].rotates THEN <<"epoch", r.launch>> ELSE NoEpoch,
   index |-> r.index, timezone |-> UserInfo[r.user].timezone,
   grants |-> r.site \in UserInfo[r.user].grants,
   permissions |-> UserInfo[r.user].permissions, now |-> r.now,
   jitter |-> JitterOf(r), window |-> r.window]

IsReading(r) ==
  /\ r.user \in User /\ r.site \in Site /\ r.context \in Context /\ r.index \in Index
  /\ r.now \in 0 .. MaxTime /\ r.launch \in 0 .. MaxLaunch
  /\ r.value = Answer(r.entry, ViewOf(r))

ReadingInv ==
  /\ now \in 0 .. MaxTime /\ launch \in 0 .. MaxLaunch
  /\ first # None => IsReading(first) /\ first.now <= now
  /\ second # None =>
       /\ first # None /\ IsReading(second) /\ first.now <= second.now
       /\ second.entry = first.entry \/ (first.entry \in Clock /\ second.entry \in Clock)

\* Two Strict views of one cohort: no touch, windows of one letterbox.
OneCohort(v, w) ==
  /\ v.mode = "Strict" /\ w.mode = "Strict"
  /\ ~v.device.touch /\ ~w.device.touch
  /\ w.index = v.index
  /\ QuantizeWidth(v.window) = QuantizeWidth(w.window)

\* Every override but the boxes and the clocks answers two Strict pages of one cohort alike
\* (strict/*.rs, gecko/*.rs).
LEMMA StrictAnswersAlike ==
  ASSUME NEW entry, entry \notin Clock \cup {"DomRect", "TextMetrics"}, NEW v, NEW w,
         OneCohort(v, w)
  PROVE  Answer(entry, v) = Answer(entry, w)
<1> USE DEF OneCohort
<1>1. /\ Canvas(v) = Canvas(w) /\ WebGlReadPixels(v) = WebGlReadPixels(w)
      /\ WebGlParameters(v) = WebGlParameters(w) /\ Audio(v) = Audio(w)
  BY DEF Canvas, WebGlReadPixels, WebGlParameters, Audio, Normalized
<1>3. /\ WebGlBlockedExtensions(v) = WebGlBlockedExtensions(w) /\ WebGpu(v) = WebGpu(w)
      /\ Fonts(v) = Fonts(w) /\ Battery(v) = Battery(w) /\ Navigator(v) = Navigator(w)
      /\ MediaCapabilities(v) = MediaCapabilities(w) /\ Intl(v) = Intl(w)
  BY DEF WebGlBlockedExtensions, WebGpu, Fonts, Battery, Navigator, MediaCapabilities, Intl
<1>4. /\ KeyboardLayoutMap(v) = KeyboardLayoutMap(w) /\ StorageEstimate(v) = StorageEstimate(w)
      /\ NetworkInformation(v) = NetworkInformation(w)
      /\ SpeechSynthesis(v) = SpeechSynthesis(w) /\ Display(v) = Display(w)
      /\ LockedSetting(v) = LockedSetting(w) /\ WindowWidth(v) = WindowWidth(w)
  BY DEF KeyboardLayoutMap, StorageEstimate, NetworkInformation, SpeechSynthesis, Display,
         LockedSetting, SettingForMode, WindowWidth
<1>5. Timezone(entry, v) = Timezone(entry, w)
  <2>1. TimezonePolicy(v.mode, v.timezone) = "UTC" /\ TimezonePolicy(w.mode, w.timezone) = "UTC"
    BY DEF TimezonePolicy
  <2> QED BY <2>1 DEF Timezone, NativePassThrough
<1>6. TouchSurface(entry, v) = TouchSurface(entry, w)
      /\ PermissionQuery(v, entry) = PermissionQuery(w, entry)
      /\ ApiAnswer(entry, v) = ApiAnswer(entry, w)
  BY DEF TouchSurface, PermissionQuery, ApiAnswer
<1>7. entry \notin TimerSurface \cup AsyncEventClass /\ entry # "GpuTime"
  BY DEF Clock
<1> HIDE DEF OneCohort
<1> QED BY <1>1, <1>3, <1>4, <1>5, <1>6, <1>7 DEF Answer

\* Two views of one partition that differ in the time only.
OnePage(v, w) ==
  /\ v.mode = w.mode /\ v.device = w.device /\ v.seed = w.seed /\ v.epoch = w.epoch
  /\ v.index = w.index /\ v.timezone = w.timezone /\ v.grants = w.grants
  /\ v.permissions = w.permissions /\ v.window = w.window

\* No override but the clocks looks at the time (gecko/*.rs).
LEMMA PageAnswersAlike ==
  ASSUME NEW entry, entry \notin Clock, NEW v, NEW w, OnePage(v, w)
  PROVE  Answer(entry, v) = Answer(entry, w)
<1> USE DEF OnePage
<1>1. /\ Canvas(v) = Canvas(w) /\ WebGlReadPixels(v) = WebGlReadPixels(w)
      /\ WebGlParameters(v) = WebGlParameters(w) /\ Audio(v) = Audio(w)
      /\ DomRect(v) = DomRect(w) /\ TextMetrics(v) = TextMetrics(w)
  BY DEF Canvas, WebGlReadPixels, WebGlParameters, Audio, Normalized, Noise, DomRect,
         TextMetrics, SnapDomRect
<1>2. /\ WebGlBlockedExtensions(v) = WebGlBlockedExtensions(w) /\ WebGpu(v) = WebGpu(w)
      /\ Fonts(v) = Fonts(w) /\ Battery(v) = Battery(w) /\ Navigator(v) = Navigator(w)
      /\ MediaCapabilities(v) = MediaCapabilities(w) /\ Intl(v) = Intl(w)
  BY DEF WebGlBlockedExtensions, WebGpu, Fonts, AllowsFullEnumeration, Battery, Navigator,
         MediaCapabilities, Intl
<1>3. /\ KeyboardLayoutMap(v) = KeyboardLayoutMap(w) /\ StorageEstimate(v) = StorageEstimate(w)
      /\ NetworkInformation(v) = NetworkInformation(w)
      /\ SpeechSynthesis(v) = SpeechSynthesis(w) /\ Display(v) = Display(w)
      /\ LockedSetting(v) = LockedSetting(w) /\ WindowWidth(v) = WindowWidth(w)
  BY DEF KeyboardLayoutMap, StorageEstimate, NetworkInformation, SpeechSynthesis, Display,
         LockedSetting, SettingForMode, WindowWidth
<1>4. Timezone(entry, v) = Timezone(entry, w)
  BY DEF Timezone
<1>5. TouchSurface(entry, v) = TouchSurface(entry, w)
      /\ PermissionQuery(v, entry) = PermissionQuery(w, entry)
      /\ ApiAnswer(entry, v) = ApiAnswer(entry, w)
  BY DEF TouchSurface, PermissionQuery, StoredPermission, ApiAnswer
<1>6. entry \notin TimerSurface \cup AsyncEventClass /\ entry # "GpuTime"
  BY DEF Clock
<1> HIDE DEF OnePage
<1> QED BY <1>1, <1>2, <1>3, <1>4, <1>5, <1>6 DEF Answer

\* No name of an entry point is in two of the lists (interface.rs and the surfaces it names).
LEMMA EntriesApart ==
  ASSUME NEW entry \in Farbled \cup Clock
  PROVE  /\ entry \notin FontsSurface \cup TimezoneSurface \cup TouchPathway
         /\ entry \notin JsSurface
         /\ entry \notin PermissionName
         /\ entry \in Farbled => entry \notin Clock
<1> USE DEF Farbled, Clock, TimerSurface, AsyncEventClass
<1>1. entry \notin FontsSurface \cup TimezoneSurface \cup TouchPathway
  BY DEF FontsSurface, TimezoneSurface, TouchPathway
<1>2. entry \notin JsSurface
  <2>1. ASSUME NEW api \in NavigatorPropertyDeleted PROVE entry \notin JsSurfaces[api]
    BY <2>1 DEF NavigatorPropertyDeleted, JsSurfaces
  <2>2. ASSUME NEW api \in ConstructorThrows PROVE entry \notin JsSurfaces[api]
    BY <2>2 DEF ConstructorThrows, JsSurfaces
  <2>3. ASSUME NEW api \in SpecialCase PROVE entry \notin JsSurfaces[api]
    BY <2>3 DEF SpecialCase, JsSurfaces
  <2> QED BY <2>1, <2>2, <2>3 DEF JsSurface, DisabledApi
<1>3. entry \notin PermissionName
  <2>1. ASSUME NEW api \in DOMAIN L44Disabled PROVE entry \notin L44Disabled[api]
    BY <2>1 DEF L44Disabled
  <2> QED BY <2>1 DEF PermissionName
<1>4. entry \in Farbled => entry \notin Clock
  OBVIOUS
<1> QED BY <1>1, <1>2, <1>3, <1>4

\* What a Standard page reads with noise, and whose stream the noise is (farbling.rs).
LEMMA NoiseIsTheSeeds ==
  ASSUME NEW entry \in Farbled, NEW v, NEW w, v.mode = "Standard", w.mode = "Standard",
         Answer(entry, v) = Answer(entry, w)
  PROVE  /\ v.seed = w.seed
         /\ entry \notin {"DomRect", "TextMetrics"} => v.epoch = w.epoch
<1> USE EntriesApart DEF Farbled
<1>1. ASSUME NEW surface, Noise(v, surface) = Noise(w, surface)
      PROVE  v.seed = w.seed /\ v.epoch = w.epoch
  BY <1>1 DEF Noise, Stream, StreamV2
<1>2. ASSUME NEW profile, NEW surface,
             Normalized(v, profile, surface) = Normalized(w, profile, surface)
      PROVE  v.seed = w.seed /\ v.epoch = w.epoch
  BY <1>1, <1>2 DEF Normalized
<1>3. ASSUME NEW surface, SnapDomRect(v, surface) = SnapDomRect(w, surface) PROVE v.seed = w.seed
  BY <1>3 DEF SnapDomRect, Stream
<1>4. CASE entry \in {"Canvas", "WebGlReadPixels"}
  <2>1. Canvas(v) = Canvas(w)
    BY <1>4 DEF Answer, Clock, WebGlReadPixels
  <2> QED BY <1>2, <2>1 DEF Canvas
<1>5. CASE entry = "WebGl"
  <2>1. WebGlParameters(v) = WebGlParameters(w)
    BY <1>5 DEF Answer, Clock
  <2> QED BY <1>2, <2>1 DEF WebGlParameters
<1>6. CASE entry = "Audio"
  <2>1. Audio(v) = Audio(w)
    BY <1>6 DEF Answer, Clock
  <2> QED BY <1>2, <2>1 DEF Audio
<1>7. CASE entry = "DomRect"
  <2>1. DomRect(v) = DomRect(w)
    BY <1>7 DEF Answer, Clock
  <2> QED BY <1>3, <1>7, <2>1 DEF DomRect
<1>8. CASE entry = "TextMetrics"
  <2>1. TextMetrics(v) = TextMetrics(w)
    BY <1>8 DEF Answer, Clock
  <2> QED BY <1>3, <1>8, <2>1 DEF TextMetrics
<1> QED BY <1>4, <1>5, <1>6, <1>7, <1>8

\* Another partition, another seed (partition_key.rs, farbling_seed).
LEMMA SeedIsThePartitions ==
  ASSUME NEW a, NEW b, NEW c, NEW x, NEW y, NEW z,
         FarblingSeed(Derive(a, b, c)) = FarblingSeed(Derive(x, y, z))
  PROVE  a = x /\ b = y /\ c = z
  BY DEF FarblingSeed, Derive

-----------------------------------------------------------------------------
(* The clocks.                                                             *)

\* A multiple is at least a whole quantum below any larger one.
LEMMA Multiples ==
  ASSUME NEW q \in Nat \ {0}, NEW i \in Nat, NEW j \in Nat, i < j
  PROVE  i * q \in Nat /\ j * q \in Nat /\ i * q + q <= j * q
<1>1. PICK d \in Nat : j = i + 1 + d
  <2>1. j - i - 1 \in Nat /\ j = i + 1 + (j - i - 1)
    OBVIOUS
  <2> QED BY <2>1
<1>2. (i + 1 + d) * q = i * q + q + d * q /\ d * q \in Nat /\ i * q \in Nat
  OBVIOUS
<1> QED BY <1>1, <1>2

\* Rounding down to a multiple keeps the order.
LEMMA QuantaKeepOrder ==
  ASSUME NEW q \in Nat \ {0}, NEW a \in Nat, NEW b \in Nat, a <= b
  PROVE  /\ a \div q \in 0 .. a /\ b \div q \in 0 .. b
         /\ \/ a \div q = b \div q
            \/ a \div q < b \div q
  OBVIOUS

\* What is below a quantum does not leave the bucket.
LEMMA WithinTheBucket ==
  ASSUME NEW q \in Nat \ {0}, NEW i \in Nat, NEW c \in 0 .. q - 1
  PROVE  (i * q + c) \div q = i
<1> DEFINE x == i * q + c
           k == x \div q
<1>1. x \in Nat /\ i * q \in Nat
  OBVIOUS
<1> HIDE DEF x
<1>2. k \in Nat /\ k * q \in Nat /\ k * q <= x /\ x < k * q + q
  BY <1>1
<1> HIDE DEF k
<1>3. ~ (k < i)
  <2> SUFFICES ASSUME k < i PROVE FALSE
    OBVIOUS
  <2>1. k * q + q <= i * q
    BY <1>2, Multiples
  <2> QED BY <1>1, <1>2, <2>1 DEF x
<1>4. ~ (i < k)
  <2> SUFFICES ASSUME i < k PROVE FALSE
    OBVIOUS
  <2>1. i * q + q <= k * q
    BY <1>2, Multiples
  <2> DEFINE y == i * q
             z == k * q
  <2>2. x = y + c /\ y \in Nat /\ z \in Nat /\ y + q <= z /\ z <= x
    BY <1>1, <1>2, <2>1 DEF x
  <2> HIDE DEF y, z
  <2> QED BY <2>2
<1> QED BY <1>2, <1>3, <1>4 DEF k, x

\* Every clock is read through one override, and gives a multiple of the quantum with what the
\* jitter adds for it.
LEMMA ClockAnswers ==
  ASSUME NEW entry \in Clock, NEW v
  PROVE  Answer(entry, v) =
           IF entry = "GpuTime" THEN QuantizeGpu(v.now)
           ELSE ReadClock(entry, v.mode, v.now, v.jitter)
<1>1. entry \notin Farbled
  BY DEF Farbled, Clock, TimerSurface, AsyncEventClass
<1>2. entry \in TimerSurface \cup AsyncEventClass <=> entry # "GpuTime"
  BY DEF Clock, TimerSurface, AsyncEventClass
<1>3. entry \notin {"WebGlBlocked", "WebGpu", "Battery", "Navigator", "MediaCapabilities", "Intl",
                    "KeyboardLayoutMap", "StorageEstimate", "NetworkInformation",
                    "SpeechSynthesis", "Display", "LockedSetting", "WindowWidth"}
  BY DEF Clock, TimerSurface, AsyncEventClass
<1> QED BY <1>1, <1>2, <1>3, EntriesApart DEF Answer, Farbled

\* quantize_js_ns_with_jitter (timers.rs) stays in the bucket of the moment, and depends on no
\* more of the moment than that bucket.
LEMMA ReadingInBucket ==
  ASSUME NEW m \in Mode, NEW seed \in JitterSeed \cup {NoJitter}, NEW surface,
         NEW a \in 0 .. MaxTime
  PROVE  /\ JsQuantum[m] \in Nat \ {0} /\ Bucket(m, a) \in Nat
         /\ \E c \in 0 .. JsQuantum[m] - 1 :
              ReadClock(surface, m, a, seed) = Bucket(m, a) * JsQuantum[m] + c
<1> DEFINE q == JsQuantum[m]
           i == Bucket(m, a)
           Added(k) == IF seed = NoJitter THEN 0 ELSE seed[m][k]
           c == IF surface \in TimerSurface THEN Added(i) ELSE 0
<1>1. q \in Nat \ {0} /\ MaxTime \in Nat /\ a \in Nat
  BY QuantumAssumption, TimeAssumption
<1>2. i \in 0 .. a
  <2>1. i = a \div q
    BY DEF Bucket
  <2> HIDE DEF q, i
  <2>2. a \div q \in 0 .. a
    BY <1>1, QuantaKeepOrder
  <2> QED BY <2>1, <2>2
<1>3. i \in 0 .. MaxTime
  BY <1>1, <1>2
<1>4. Added(i) \in 0 .. q - 1
  BY <1>1, <1>3, JitterAssumption
<1>5. c \in 0 .. q - 1
  BY <1>1, <1>4
<1>6. ReadClock(surface, m, a, seed) = i * q + c
  <2>1. i * q \in Int
    BY <1>1, <1>2
  <2> QED BY <2>1 DEF ReadClock, QuantizeJsWithJitter, QuantizeJs
<1> QED BY <1>1, <1>2, <1>5, <1>6

\* Two clocks of one kind give one value for one bucket.
LEMMA OneBucketOneReading ==
  ASSUME NEW m, NEW seed, NEW s, NEW t, s \in TimerSurface <=> t \in TimerSurface,
         NEW a, NEW b, Bucket(m, a) = Bucket(m, b)
  PROVE  ReadClock(s, m, a, seed) = ReadClock(t, m, b, seed)
  BY DEF ReadClock, QuantizeJsWithJitter, QuantizeJs

\* Readings of one bucket are less than a quantum apart and stay in it; of two buckets, the
\* later reading is ahead.
LEMMA BucketsApart ==
  ASSUME NEW q \in Nat \ {0}, NEW i \in Nat, NEW j \in Nat,
         NEW c \in 0 .. q - 1, NEW d \in 0 .. q - 1
  PROVE  /\ i = j => Distance(i * q + c, j * q + d) < q
         /\ i < j => i * q + c < j * q + d
<1>1. i * q \in Nat /\ j * q \in Nat
  OBVIOUS
<1>2. i < j => i * q + q <= j * q
  BY Multiples
<1> DEFINE x == i * q
           y == j * q
<1>3. x \in Nat /\ y \in Nat /\ (i < j => x + q <= y) /\ (i = j => x = y)
  BY <1>1, <1>2
<1> HIDE DEF x, y
<1>4. (i = j => Distance(x + c, y + d) < q) /\ (i < j => x + c < y + d)
  BY <1>3 DEF Distance
<1> QED BY <1>4 DEF x, y

-----------------------------------------------------------------------------
(* The boxes.                                                              *)

\* In Strict a box is its rounded coordinate (dom_rect.rs, snap_dom_rect_coord).
LEMMA BoxAnswers ==
  ASSUME NEW entry \in {"DomRect", "TextMetrics"}, NEW v, v.mode = "Strict"
  PROVE  Answer(entry, v) = <<RoundTenths(10 * v.index + v.device.subpixel)>>
<1> entry \in Farbled
  BY DEF Farbled
<1>1. Answer(entry, v) = SnapDomRect(v, entry)
  BY EntriesApart DEF Answer, DomRect, TextMetrics, Clock
<1> QED BY <1>1 DEF SnapDomRect

\* Coordinates less than a pixel apart round to the same pixel or to two neighbours.
LEMMA RoundingIsClose ==
  ASSUME NEW x \in Int, NEW y \in Int, Distance(x, y) < 10
  PROVE  Distance(RoundTenths(x), RoundTenths(y)) <= 1
  BY DEF Distance, RoundTenths

-----------------------------------------------------------------------------
(* The two readings.                                                       *)

\* A page's reading (interface.rs) is one of the answers to its view.
LEMMA ReadingIsOne ==
  ASSUME ReadingInv, NEW entry, NEW r \in Reading(entry)
  PROVE  IsReading(r) /\ r.entry = entry /\ r.now = now /\ r.launch = launch
<1>1. PICK u \in User, site \in Site, ctx \in Context, index \in Index, width \in WidthsFor(entry) :
        r = [entry |-> entry, user |-> u, site |-> site, context |-> ctx, index |-> index,
             now |-> now, launch |-> launch, window |-> width,
             value |-> Answer(entry, View(u, site, ctx, index, width))]
  BY DEF Reading
<1>2. /\ r.entry = entry /\ r.user = u /\ r.site = site /\ r.context = ctx /\ r.index = index
      /\ r.now = now /\ r.launch = launch /\ r.window = width
      /\ r.value = Answer(entry, View(u, site, ctx, index, width))
  BY <1>1
<1>3. ViewOf(r) = View(u, site, ctx, index, width)
  BY <1>2 DEF ViewOf, View, JitterOf
<1> QED BY <1>2, <1>3 DEF IsReading, ReadingInv

\* Before the first reading the invariant asks nothing but a clock.
LEMMA ReadingStarts == ReadInit => ReadingInv
  BY TimeAssumption, LaunchAssumption DEF ReadInit, ReadingInv

\* Time passes and the browser restarts; a reading keeps the moment it was taken at.
LEMMA ReadingStepKeepsInv == ReadingInv /\ [ReadNext]_readVars => ReadingInv'
<1> SUFFICES ASSUME ReadingInv, [ReadNext]_readVars PROVE ReadingInv'
  OBVIOUS
<1>1. CASE ReadFirst
  <2>1. PICK entry \in WebIdlSurface : first' \in Reading(entry)
    BY <1>1 DEF ReadFirst
  <2>2. IsReading(first') /\ first'.now = now
    BY <2>1, ReadingIsOne
  <2>3. second = None /\ UNCHANGED <<now, launch, second>>
    BY <1>1 DEF ReadFirst, ReadingInv
  <2> QED BY <2>2, <2>3, TimeAssumption DEF ReadingInv
<1>2. CASE ReadSecond
  <2>1. IsReading(second') /\ second'.entry = first.entry /\ second'.now = now
    BY <1>2, ReadingIsOne DEF ReadSecond
  <2>2. first # None /\ UNCHANGED <<now, launch, first>>
    BY <1>2 DEF ReadSecond
  <2>3. first' # None /\ IsReading(first') /\ first'.now <= now
    BY <2>2 DEF ReadingInv
  <2>4. second'.entry = first'.entry
    BY <2>1, <2>2
  <2> QED BY <2>1, <2>2, <2>3, <2>4 DEF ReadingInv
<1>6. CASE ReadAnotherClock
  <2>1. PICK entry \in Clock : second' \in Reading(entry)
    BY <1>6 DEF ReadAnotherClock
  <2>2. IsReading(second') /\ second'.entry \in Clock /\ second'.now = now
    BY <2>1, ReadingIsOne
  <2>3. first # None /\ first.entry \in Clock /\ UNCHANGED <<now, launch, first>>
    BY <1>6 DEF ReadAnotherClock
  <2> QED BY <2>2, <2>3 DEF ReadingInv
<1>3. CASE Tick
  <2>1. first # None => first.now \in 0 .. MaxTime
    BY DEF ReadingInv, IsReading
  <2> QED BY <1>3, <2>1, TimeAssumption DEF Tick, ReadingInv, IsReading
<1>4. CASE Restart
  BY <1>4, LaunchAssumption DEF Restart, ReadingInv, IsReading
<1>5. CASE UNCHANGED readVars
  BY <1>5 DEF readVars, ReadingInv, IsReading
<1> QED BY <1>1, <1>2, <1>3, <1>4, <1>5, <1>6 DEF ReadNext

\* The two readings, whenever they were taken, are the answers to the views of two pages.
THEOREM ReadingInvariant == ReadSpec => []ReadingInv
<1> QED BY ReadingStarts, ReadingStepKeepsInv, PTL DEF ReadSpec

\* Strict is one cohort, for any devices, users, sites, jitter seeds and settings
\* (pb-fingerprint/strict): of the machine a page can tell no more than touch, the size class of
\* its window, and on which side of a pixel step its rasteriser puts a box.
THEOREM StrictCohortHolds == ReadSpec => []StrictCohort
<1>1. ASSUME ReadingInv PROVE StrictCohort
  <2> SUFFICES ASSUME SameEntry, StrictDesktop(first), StrictDesktop(second),
                      QuantizeWidth(first.window) = QuantizeWidth(second.window),
                      first.entry \in Clock => SameMoment
               PROVE  IF first.entry \in {"DomRect", "TextMetrics"}
                         /\ SubpixelOf(first) # SubpixelOf(second)
                      THEN Distance(SubpixelOf(first), SubpixelOf(second)) < 10
                             => Distance(first.value[1], second.value[1]) <= 1
                      ELSE IF first.entry \in TimerSurface /\ JitterOf(first) # JitterOf(second)
                      THEN Distance(first.value, second.value) < JsQuantum["Strict"]
                      ELSE first.value = second.value
    BY DEF StrictCohort
  <2> DEFINE entry == first.entry
             v == ViewOf(first)
             w == ViewOf(second)
  <2>1. IsReading(first) /\ IsReading(second) /\ second.entry = entry
        /\ second.index = first.index
    BY <1>1 DEF ReadingInv, SameEntry, BothRead
  <2>2. first.value = Answer(entry, v) /\ second.value = Answer(entry, w)
    BY <2>1 DEF IsReading
  <2>3. OneCohort(v, w)
    BY <2>1 DEF OneCohort, ViewOf, ModeOf, StrictDesktop
  <2>4. CASE entry \notin Clock \cup {"DomRect", "TextMetrics"}
    <3>1. Answer(entry, v) = Answer(entry, w)
      BY <2>3, <2>4, StrictAnswersAlike
    <3> QED BY <2>2, <2>4, <3>1 DEF Clock
  <2>5. CASE entry \in {"DomRect", "TextMetrics"}
    <3> DEFINE x == 10 * first.index + SubpixelOf(first)
               y == 10 * first.index + SubpixelOf(second)
    <3>1. first.index \in Nat /\ SubpixelOf(first) \in Int /\ SubpixelOf(second) \in Int
      BY <2>1, RasterAssumption DEF IsReading, SubpixelOf
    <3>2. first.value = <<RoundTenths(x)>> /\ second.value = <<RoundTenths(y)>>
      <4>1. Answer(entry, v) = <<RoundTenths(10 * v.index + v.device.subpixel)>>
            /\ Answer(entry, w) = <<RoundTenths(10 * w.index + w.device.subpixel)>>
        BY <2>3, <2>5, BoxAnswers DEF OneCohort
      <4> QED BY <2>1, <2>2, <4>1 DEF ViewOf, SubpixelOf
    <3>3. ASSUME Distance(SubpixelOf(first), SubpixelOf(second)) < 10
          PROVE  Distance(first.value[1], second.value[1]) <= 1
      <4>1. x \in Int /\ y \in Int /\ Distance(x, y) < 10
        BY <3>1, <3>3 DEF Distance
      <4> HIDE DEF x, y
      <4> QED BY <3>2, <4>1, RoundingIsClose
    <3>4. SubpixelOf(first) = SubpixelOf(second) => first.value = second.value
      BY <3>2
    <3>5. entry \notin TimerSurface
      BY <2>5 DEF TimerSurface
    <3> QED BY <2>5, <3>3, <3>4, <3>5
  <2>6. CASE entry = "GpuTime"
    <3>1. first.value = QuantizeGpu(first.now) /\ second.value = QuantizeGpu(second.now)
      BY <2>2, <2>6, ClockAnswers DEF Clock, ViewOf
    <3>2. first.now \div GpuQuantum = second.now \div GpuQuantum
      BY <2>6 DEF SameMoment, Clock
    <3> QED BY <2>6, <3>1, <3>2 DEF QuantizeGpu, TimerSurface
  <2>7. CASE entry \in TimerSurface \cup AsyncEventClass
    <3> DEFINE s == JitterOf(first)
               t == JitterOf(second)
               a == first.now
               b == second.now
    <3>1. entry \in Clock /\ entry # "GpuTime" /\ entry \notin {"DomRect", "TextMetrics"}
      BY <2>7 DEF Clock, TimerSurface, AsyncEventClass
    <3>2. ModeOf(first) = "Strict" /\ ModeOf(second) = "Strict"
      BY DEF StrictDesktop
    <3>3. /\ first.value = ReadClock(entry, "Strict", a, s)
          /\ second.value = ReadClock(entry, "Strict", b, t)
      <4>1. v.mode = "Strict" /\ w.mode = "Strict" /\ v.now = a /\ w.now = b
            /\ v.jitter = s /\ w.jitter = t
        BY <3>2 DEF ViewOf, ModeOf
      <4> HIDE DEF v, w, entry
      <4> QED BY <2>2, <3>1, <4>1, ClockAnswers
    <3>4. Bucket("Strict", a) = Bucket("Strict", b)
      BY <3>1, <3>2 DEF SameMoment
    <3>5. /\ s \in JitterSeed \cup {NoJitter} /\ t \in JitterSeed \cup {NoJitter}
          /\ a \in 0 .. MaxTime /\ b \in 0 .. MaxTime /\ "Strict" \in Mode
      BY <2>1, SeedAssumption DEF IsReading, JitterOf, Mode
    <3> HIDE DEF a, b, s, t
    <3>6. Distance(first.value, second.value) < JsQuantum["Strict"]
      <4> DEFINE q == JsQuantum["Strict"]
                 i == Bucket("Strict", a)
      <4>1. q \in Nat \ {0} /\ i \in Nat
        BY <3>5, ReadingInBucket
      <4>2. PICK c \in 0 .. q - 1 : ReadClock(entry, "Strict", a, s) = i * q + c
        BY <3>5, ReadingInBucket
      <4>3. PICK d \in 0 .. q - 1 :
              ReadClock(entry, "Strict", b, t) = Bucket("Strict", b) * q + d
        BY <3>5, ReadingInBucket
      <4> HIDE DEF q, i
      <4>4. Distance(i * q + c, i * q + d) < q
        BY <4>1, BucketsApart
      <4> QED BY <3>3, <3>4, <4>2, <4>3, <4>4 DEF q, i
    <3>7. s = t \/ entry \notin TimerSurface => first.value = second.value
      BY <3>3, <3>4 DEF ReadClock, QuantizeJsWithJitter, QuantizeJs
    <3> QED BY <3>1, <3>6, <3>7 DEF s, t
  <2> HIDE DEF entry
  <2> QED BY <2>4, <2>5, <2>6, <2>7 DEF Clock, entry
<1> QED BY <1>1, ReadingInvariant, PTL

\* A site is shown one machine, across time, restarts and everything the user decides
\* (farbling.rs, gecko/*.rs).
THEOREM SiteSeesOneMachineHolds == ReadSpec => []SiteSeesOneMachine
<1>1. ASSUME ReadingInv PROVE SiteSeesOneMachine
  <2> SUFFICES ASSUME SameEntry, SamePage(first, second), first.entry \notin Clock,
                      first.window = second.window,
                      UserInfo[first.user].rotates => first.launch = second.launch
               PROVE  first.value = second.value
    BY DEF SiteSeesOneMachine
  <2>1. IsReading(first) /\ IsReading(second) /\ second.entry = first.entry
        /\ second.index = first.index
    BY <1>1 DEF ReadingInv, SameEntry, BothRead
  <2>2. OnePage(ViewOf(first), ViewOf(second))
    BY <2>1 DEF OnePage, ViewOf, SamePage
  <2> QED BY <2>1, <2>2, PageAnswersAlike DEF IsReading
<1> QED BY <1>1, ReadingInvariant, PTL

\* The noise of two partitions, or of two starts of a rotating user, is never the same
\* (partition_key.rs, farbling_seed; farbling.rs, stream_byte_v2).
THEOREM NoiseDoesNotJoinHolds == ReadSpec => []NoiseDoesNotJoin
<1>1. ASSUME ReadingInv PROVE NoiseDoesNotJoin
  <2> SUFFICES ASSUME SameEntry, ModeOf(first) = "Standard", ModeOf(second) = "Standard",
                      first.entry \in Farbled, first.value = second.value
               PROVE  /\ first.user = second.user /\ first.site = second.site
                      /\ first.context = second.context
                      /\ UserInfo[first.user].rotates =>
                           \/ first.launch = second.launch
                           \/ first.entry \in {"DomRect", "TextMetrics"}
    BY DEF NoiseDoesNotJoin, SamePage
  <2> DEFINE v == ViewOf(first)
             w == ViewOf(second)
  <2>1. IsReading(first) /\ IsReading(second) /\ second.entry = first.entry
    BY <1>1 DEF ReadingInv, SameEntry, BothRead
  <2>2. /\ v.mode = "Standard" /\ w.mode = "Standard"
        /\ v.seed = FarblingSeed(Derive(first.site, first.user, first.context))
        /\ w.seed = FarblingSeed(Derive(second.site, second.user, second.context))
        /\ v.epoch = IF UserInfo[first.user].rotates THEN <<"epoch", first.launch>> ELSE NoEpoch
        /\ w.epoch = IF UserInfo[second.user].rotates THEN <<"epoch", second.launch>> ELSE NoEpoch
    BY DEF ViewOf, ModeOf
  <2>3. Answer(first.entry, v) = Answer(first.entry, w)
    BY <2>1 DEF IsReading
  <2> HIDE DEF v, w
  <2>4. v.seed = w.seed
        /\ (first.entry \notin {"DomRect", "TextMetrics"} => v.epoch = w.epoch)
    BY <2>2, <2>3, NoiseIsTheSeeds
  <2>5. first.user = second.user /\ first.site = second.site /\ first.context = second.context
    <3>1. FarblingSeed(Derive(first.site, first.user, first.context)) =
            FarblingSeed(Derive(second.site, second.user, second.context))
      BY <2>2, <2>4
    <3> QED BY <3>1, SeedIsThePartitions
  <2> QED BY <2>2, <2>4, <2>5
<1> QED BY <1>1, ReadingInvariant, PTL

\* No clock of a page runs backwards, and any two of its clocks read in one bucket stay in that
\* bucket, for any quanta and any jitter (timers.rs; pb-gpu/timing.rs).
THEOREM ClockNeverGoesBackHolds == ReadSpec => []ClockNeverGoesBack
<1>1. ASSUME ReadingInv PROVE ClockNeverGoesBack
  <2> DEFINE a == first.now
             b == second.now
             m == ModeOf(first)
             q == JsQuantum[m]
             seed == JitterOf(first)
             e == first.entry
             f == second.entry
  <2> SUFFICES ASSUME BothRead, SamePage(first, second), e \in Clock
               PROVE  IF e = "GpuTime" \/ f = "GpuTime"
                      THEN e = f => first.value <= second.value
                      ELSE IF Bucket(m, a) = Bucket(m, b)
                           THEN /\ Bucket(m, first.value) = Bucket(m, second.value)
                                /\ (e \in TimerSurface <=> f \in TimerSurface)
                                     => first.value = second.value
                           ELSE first.value < second.value
    BY DEF ClockNeverGoesBack
  <2>1. IsReading(first) /\ IsReading(second) /\ f \in Clock /\ a <= b
    BY <1>1 DEF ReadingInv, BothRead
  <2>2. /\ a \in 0 .. MaxTime /\ b \in 0 .. MaxTime /\ m \in Mode /\ q \in Nat \ {0}
        /\ seed \in JitterSeed \cup {NoJitter}
    BY <2>1, UserAssumption, SeedAssumption, QuantumAssumption DEF IsReading, ModeOf, JitterOf
  <2>3. ModeOf(second) = m /\ JitterOf(second) = seed
    BY DEF SamePage, ModeOf, JitterOf
  <2>4. /\ first.value = IF e = "GpuTime" THEN QuantizeGpu(a) ELSE ReadClock(e, m, a, seed)
        /\ second.value = IF f = "GpuTime" THEN QuantizeGpu(b) ELSE ReadClock(f, m, b, seed)
    BY <2>1, <2>3, ClockAnswers DEF IsReading, ViewOf, ModeOf
  <2> HIDE DEF a, b, m, seed, e, f
  <2>5. QuantizeGpu(a) <= QuantizeGpu(b)
    <3>1. GpuQuantum \in Nat \ {0} /\ a \in Nat /\ b \in Nat
      BY <2>2, QuantumAssumption, TimeAssumption
    <3> DEFINE i == a \div GpuQuantum
               j == b \div GpuQuantum
    <3>2. i \in 0 .. a /\ j \in 0 .. b /\ (i = j \/ i < j)
      BY <2>1, <3>1, QuantaKeepOrder, Zenon
    <3> HIDE DEF i, j
    <3>3. i < j => i * GpuQuantum + GpuQuantum <= j * GpuQuantum
      BY <3>1, <3>2, Multiples
    <3>4. i * GpuQuantum \in Int /\ j * GpuQuantum \in Int
      BY <3>1, <3>2
    <3>5. i * GpuQuantum <= j * GpuQuantum
      BY <3>1, <3>2, <3>3, <3>4
    <3> QED BY <3>5 DEF i, j, QuantizeGpu
  <2>6. ASSUME e # "GpuTime", f # "GpuTime"
        PROVE  IF Bucket(m, a) = Bucket(m, b)
               THEN /\ Bucket(m, first.value) = Bucket(m, second.value)
                    /\ (e \in TimerSurface <=> f \in TimerSurface) => first.value = second.value
               ELSE first.value < second.value
    <3> DEFINE i == Bucket(m, a)
               j == Bucket(m, b)
    <3>1. PICK c \in 0 .. q - 1 : first.value = i * q + c
      <4>1. first.value = ReadClock(e, m, a, seed)
        BY <2>4, <2>6
      <4> QED BY <2>2, <4>1, ReadingInBucket
    <3>2. PICK d \in 0 .. q - 1 : second.value = j * q + d
      <4>1. second.value = ReadClock(f, m, b, seed)
        BY <2>4, <2>6
      <4> QED BY <2>2, <4>1, ReadingInBucket
    <3>3. i \in Nat /\ j \in Nat
      BY <2>2, ReadingInBucket
    <3>4. i = j \/ i < j
      <4>1. a \in Nat /\ b \in Nat
        BY <2>2, TimeAssumption
      <4>2. a \div q = b \div q \/ a \div q < b \div q
        BY <2>1, <2>2, <4>1, QuantaKeepOrder, Zenon
      <4> QED BY <4>2 DEF Bucket
    <3>5. (i * q + c) \div q = i /\ (j * q + d) \div q = j
      BY <2>2, <3>3, WithinTheBucket
    <3>6. Bucket(m, first.value) = i /\ Bucket(m, second.value) = j
      BY <3>1, <3>2, <3>5 DEF Bucket
    <3>7. CASE i = j
      BY <2>4, <2>6, <3>6, <3>7, OneBucketOneReading
    <3>8. CASE i < j
      <4>1. first.value < second.value
        BY <2>2, <3>1, <3>2, <3>3, <3>8, BucketsApart
      <4> QED BY <3>3, <3>8, <4>1
    <3> QED BY <3>4, <3>7, <3>8
  <2> QED BY <2>4, <2>5, <2>6
<1> QED BY <1>1, ReadingInvariant, PTL
=============================================================================
