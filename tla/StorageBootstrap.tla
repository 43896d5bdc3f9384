-------------------------- MODULE StorageBootstrap --------------------------
(***************************************************************************)
(* bootstrap of pb-storage/process.rs: the directory, the database file    *)
(* and its schema, brought up step by step by processes that may crash     *)
(* between any two steps and of which two may run at once.                 *)
(***************************************************************************)
EXTENDS Naturals

CONSTANTS
  Process,          \* storage processes; one handle each
  NoVersion,        \* no schema_version row in meta
  BadVersion        \* a schema_version that is not a number

ASSUME VersionAssumption == NoVersion \notin Nat /\ BadVersion \notin Nat \cup {NoVersion}

VARIABLES
  dir,              \* the data directory on disk
  db,               \* the database file: its mode, journal, tables and version stamp
  pc                \* per process: the next step of bootstrap, or "ready" or "down"

bootVars == <<dir, db, pc>>

STORAGE_SCHEMA_VERSION == 3

\* initialize_schema creates its tables in a fixed order, and every older version created a
\* prefix of it: 1 (meta), 5 (v2), 6 (v3).
TableCount == 6

Dir == {"absent", "file", "loose", "owner"}
FileMode == {"absent", "loose", "owner"}
StampedVersion == (1 .. 4) \cup {NoVersion, BadVersion}
Step == {"down", "dir", "lockDir", "open", "wal", "lockDb", "tables", "version",
         "stamp", "sandbox", "ready"}

NoDb == [mode |-> "absent", wal |-> FALSE, tables |-> 0, version |-> NoVersion]

\* What an earlier start, of this or another version, finished or not, can have left.
LeftBehind ==
  {NoDb}
  \cup {[mode |-> m, wal |-> w, tables |-> t, version |-> NoVersion] :
          m \in {"loose", "owner"}, w \in BOOLEAN, t \in {0, 1, 5}}
  \cup {[mode |-> "owner", wal |-> TRUE, tables |-> t, version |-> v] :
          t \in {5, 6}, v \in {2, 3, 4, BadVersion}}

BootInit ==
  /\ dir \in Dir
  /\ db \in LeftBehind
  /\ dir \in {"absent", "file"} => db = NoDb
  /\ pc = [p \in Process |-> "down"]

Go(p, step) == pc' = [pc EXCEPT ![p] = step]

-----------------------------------------------------------------------------
(* The steps, in the order of bootstrap.                                   *)

StartAtOpen(p) ==
  /\ pc[p] = "down"
  /\ dir \in {"loose", "owner"}
  /\ Go(p, "open")
  /\ UNCHANGED <<dir, db>>

\* resolve_data_dir: the configured directory or the default of the platform.  That HOME is
\* not set ends the call before it has touched anything.
Start(p) ==
  /\ pc[p] = "down"
  /\ Go(p, "dir")
  /\ UNCHANGED <<dir, db>>

\* ensure_dir_owner_only: create_dir_all with the umask's mode, then 0700.
EnsureDir(p) ==
  /\ pc[p] = "dir"
  /\ \/ /\ dir = "absent" /\ dir' = "loose"
        /\ Go(p, "lockDir")
     \/ /\ dir = "file" /\ UNCHANGED dir
        /\ Go(p, "down")
     \/ /\ dir \in {"loose", "owner"} /\ UNCHANGED dir
        /\ Go(p, "lockDir")
  /\ UNCHANGED db

LockDir(p) ==
  /\ pc[p] = "lockDir"
  /\ dir' = "owner"
  /\ Go(p, "open")
  /\ UNCHANGED db

\* Connection::open creates the file, with the umask's mode.
Open(p) ==
  /\ pc[p] = "open"
  /\ db' = IF db.mode = "absent" THEN [db EXCEPT !.mode = "loose"] ELSE db
  /\ Go(p, "wal")
  /\ UNCHANGED dir

EnableWal(p) ==
  /\ pc[p] = "wal"
  /\ db' = [db EXCEPT !.wal = TRUE]
  /\ Go(p, "lockDb")
  /\ UNCHANGED dir

LockDb(p) ==
  /\ pc[p] = "lockDb"
  /\ db' = [db EXCEPT !.mode = "owner"]
  /\ Go(p, "tables")
  /\ UNCHANGED dir

\* execute_batch commits every CREATE TABLE IF NOT EXISTS by itself.
CreateTable(p) ==
  /\ pc[p] = "tables"
  /\ db.tables < TableCount
  /\ db' = [db EXCEPT !.tables = @ + 1]
  /\ UNCHANGED <<dir, pc>>

TablesCreated(p) ==
  /\ pc[p] = "tables"
  /\ db.tables = TableCount
  /\ Go(p, "version")
  /\ UNCHANGED <<dir, db>>

AcceptOlderVersion(p) ==
  /\ pc[p] = "version"
  /\ \/ db.version = NoVersion /\ Go(p, "stamp")
     \/ db.version \in 1 .. STORAGE_SCHEMA_VERSION /\ Go(p, "sandbox")
     \/ db.version \notin (1 .. STORAGE_SCHEMA_VERSION) \cup {NoVersion} /\ Go(p, "down")
  /\ UNCHANGED <<dir, db>>

RestampOlder(p) ==
  /\ pc[p] = "version"
  /\ \/ db.version = NoVersion /\ UNCHANGED db /\ Go(p, "stamp")
     \/ /\ db.version \in 1 .. STORAGE_SCHEMA_VERSION
        /\ db' = [db EXCEPT !.version = STORAGE_SCHEMA_VERSION]
        /\ Go(p, "sandbox")
     \/ db.version \in {4, BadVersion} /\ UNCHANGED db /\ Go(p, "down")
  /\ UNCHANGED dir

\* The version row: absent, this version's, or refused: not a number (Validation) or another
\* (migrate has no arm and answers SchemaVersion).
ReadVersion(p) ==
  /\ pc[p] = "version"
  /\ \/ db.version = NoVersion /\ Go(p, "stamp")
     \/ db.version = STORAGE_SCHEMA_VERSION /\ Go(p, "sandbox")
     \/ db.version \notin {NoVersion, STORAGE_SCHEMA_VERSION} /\ Go(p, "down")
  /\ UNCHANGED <<dir, db>>

\* INSERT INTO meta: key is the primary key, so the second of two processes that both found
\* no row is refused.
StampVersion(p) ==
  /\ pc[p] = "stamp"
  /\ \/ /\ db.version = NoVersion
        /\ db' = [db EXCEPT !.version = STORAGE_SCHEMA_VERSION]
        /\ Go(p, "sandbox")
     \/ /\ db.version # NoVersion
        /\ UNCHANGED db
        /\ Go(p, "down")
  /\ UNCHANGED dir

\* SandboxProfile::apply: types only in this version, it cannot fail.
ApplySandbox(p) ==
  /\ pc[p] = "sandbox"
  /\ Go(p, "ready")
  /\ UNCHANGED <<dir, db>>

\* An I/O, permission or SQLite error ends the call, a crash the process: both leave the
\* disk as it is.
Stop(p) ==
  /\ pc[p] # "down"
  /\ Go(p, "down")
  /\ UNCHANGED <<dir, db>>

BootStep(p) ==
  \/ Start(p) \/ EnsureDir(p) \/ LockDir(p) \/ Open(p) \/ EnableWal(p) \/ LockDb(p)
  \/ CreateTable(p) \/ TablesCreated(p) \/ ReadVersion(p) \/ StampVersion(p)
  \/ ApplySandbox(p)
=============================================================================
