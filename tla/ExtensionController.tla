------------------------- MODULE ExtensionController -------------------------
(***************************************************************************)
(* The extension controller (pb-extensions/controller.rs): the live        *)
(* allowlist manifest and the registry of installed extensions behind one  *)
(* RwLock.  install takes the manifest under the read lock, verifies       *)
(* without a lock and inserts under the write lock, so anything may happen *)
(* between the two; the other operations hold the lock throughout.         *)
(***************************************************************************)
EXTENDS HashMap, Integers, Sequences

(* What Strict takes away whatever the allowlist says                      *)
(* (pb-extensions/blocker.rs); the engine applies it to every renderer.    *)

\* JsSurfaces: the names as <<namespace or manifest, name in it>>.
JsSurfaces ==
  [WebExtensionGlobals |-> {<<"browser", "">>, <<"chrome", "">>},
   ContentScripts |->
     {<<"manifest", "content_scripts">>,
      <<"browser", "scripting.executeScript">>, <<"browser", "tabs.executeScript">>,
      <<"chrome", "scripting.executeScript">>, <<"chrome", "tabs.executeScript">>},
   BackgroundContexts |->
     {<<"manifest", "background.page">>, <<"manifest", "background.scripts">>,
      <<"manifest", "background.service_worker">>, <<"manifest", "background.persistent">>},
   DeclarativeNetRequest |->
     {<<"manifest", "declarative_net_request">>,
      <<"browser", "declarativeNetRequest.updateDynamicRules">>,
      <<"browser", "declarativeNetRequest.updateSessionRules">>,
      <<"chrome", "declarativeNetRequest.updateDynamicRules">>,
      <<"chrome", "declarativeNetRequest.updateSessionRules">>},
   BootstrappedManifest |->
     {<<"manifest", "bootstrap">>, <<"manifest", "legacy">>, <<"manifest", "type=bootstrap">>}]

ExtensionApiSurface == DOMAIN JsSurfaces

BlockMechanism == {"ApiGlobalAbsent", "RuntimeContextNotSpawned", "ManifestEntryRefused"}

MechanismOf(surface) ==
  CASE surface = "WebExtensionGlobals" -> "ApiGlobalAbsent"
    [] surface \in {"ContentScripts", "BackgroundContexts"} -> "RuntimeContextNotSpawned"
    [] surface \in {"DeclarativeNetRequest", "BootstrappedManifest"} -> "ManifestEntryRefused"

BlockForMode(mode) == IF mode = "Strict" THEN "AllBlocked" ELSE "StandardSubjectToAllowlist"
SurfacesBlockedForMode(mode) == IF mode = "Strict" THEN ExtensionApiSurface ELSE {}

(* The signed allowlist (pb-extensions/allowlist.rs): how a manifest file  *)
(* is parsed and its signature checked, and the gate every install         *)
(* candidate passes.  A version triple is its rank in the total order of   *)
(* triples; bytes, digests and keys are values compared by equality.       *)

CONSTANTS
  Extension,      \* ExtensionId
  Version,        \* versions: triples of numbers
  Xpi,            \* .xpi files, and their digests (sha256 has no collisions here)
  Key,            \* Ed25519 keys
  Garbled,        \* a digest that is not 64 hex digits, a key that is not 32 bytes of base64
  FormatVersion   \* ALLOWLIST_FORMAT_VERSION

ASSUME VersionAssumption == Version \subseteq [1 .. 3 -> Nat]
ASSUME GarbledAssumption == Garbled \notin Xpi \cup Key

\* Version::parse: one to three numbers with dots between them, the missing ones 0; what is
\* not a number is a -1.  The order is the derived one, field by field.
VersionReadable(parts) == Len(parts) \in 1 .. 3 /\ \A i \in DOMAIN parts : parts[i] >= 0
VersionOf(parts) == [i \in 1 .. 3 |-> IF i \in DOMAIN parts THEN parts[i] ELSE 0]
Below(v, w) == \E i \in 1 .. 3 : v[i] < w[i] /\ \A j \in 1 .. i - 1 : v[j] = w[j]

\* VersionConstraint::parse.
ConstraintReadable(c) == c.prefix \in {"=", ">="} /\ VersionReadable(c.parts)
ConstraintOf(c) ==
  [kind |-> IF c.prefix = "=" THEN "Exact" ELSE "AtLeast", version |-> VersionOf(c.parts)]

Constraint == [kind : {"Exact", "AtLeast"}, version : Version]
Entry == [id : Extension, constraint : Constraint, sha256 : Xpi, key : Key]
Manifest == [version : Nat, entries : Seq(Entry)]
Candidate == [id : Extension, version : Version, xpi : Xpi, signedBy : SUBSET Key]

\* b64_encode and b64_decode, three bytes to four letters at a time: a letter is its place in
\* the alphabet, what is not a letter a -1.
Padded(s, i) == IF i \in DOMAIN s THEN s[i] ELSE 0
B64Encode(bytes) ==
  [k \in 1 .. (4 * Len(bytes) + 2) \div 3 |->
     LET c == 3 * ((k - 1) \div 4)
         word == 65536 * Padded(bytes, c + 1) + 256 * Padded(bytes, c + 2) + Padded(bytes, c + 3)
     IN  (word \div 64 ^ (3 - ((k - 1) % 4))) % 64]
B64Readable(letters) == \A i \in DOMAIN letters : letters[i] >= 0
B64Decode(letters) ==
  [k \in 1 .. (3 * Len(letters)) \div 4 |->
     LET c == 4 * ((k - 1) \div 3)
         word == 262144 * Padded(letters, c + 1) + 4096 * Padded(letters, c + 2)
                   + 64 * Padded(letters, c + 3) + Padded(letters, c + 4)
     IN  (word \div 256 ^ (2 - ((k - 1) % 3))) % 256]

Satisfies(c, v) ==
  \/ c.kind = "Exact" /\ v = c.version
  \/ c.kind = "AtLeast" /\ ~Below(v, c.version)

Listed(m, id) == \E i \in DOMAIN m.entries : m.entries[i].id = id

\* entry_for: the first entry with the id.
EntryFor(m, id) ==
  m.entries[CHOOSE i \in DOMAIN m.entries :
              /\ m.entries[i].id = id
              /\ \A j \in DOMAIN m.entries : m.entries[j].id = id => i <= j]

\* parse_allowlist_manifest.  A file is the fields of its JSON, and whether it is JSON of
\* that shape at all.
DuplicateIds(f) ==
  \E i, j \in DOMAIN f.entries : i # j /\ f.entries[i].id = f.entries[j].id

EntryReadable(e) ==
  ConstraintReadable(e.constraint) /\ e.sha256 # Garbled /\ e.key # Garbled
EntryOf(e) == [e EXCEPT !.constraint = ConstraintOf(@)]

ParseError(f) ==
  \/ ~f.json
  \/ \E i \in DOMAIN f.entries : ~EntryReadable(f.entries[i])
  \/ f.format # FormatVersion
  \/ DuplicateIds(f)

ManifestOf(f) ==
  [version |-> f.version, entries |-> [i \in DOMAIN f.entries |-> EntryOf(f.entries[i])]]

\* verify_ed25519: signedBy is the set of keys whose signature over these very bytes came
\* along.  RejectAllVerifier accepts nothing, which is the case signedBy = {}.
Verifies(key, signedBy) == key \in signedBy

\* verify_install: the first gate that fails.
InstallError(c, m) ==
  IF ~Listed(m, c.id) THEN "NotOnAllowlist"
  ELSE LET e == EntryFor(m, c.id) IN
    IF ~Satisfies(e.constraint, c.version) THEN "VersionConstraintUnsatisfied"
    ELSE IF c.xpi # e.sha256 THEN "XpiHashMismatch"
    ELSE IF ~Verifies(e.key, c.signedBy) THEN "SignatureMismatch"
    ELSE "None"

\* What a new manifest asks of an extension that is installed.
Compatible(m, id, v) == Listed(m, id) /\ Satisfies(EntryFor(m, id).constraint, v)

-----------------------------------------------------------------------------
CONSTANTS
  Installer,        \* callers of install that may run at once
  CandidateFile,    \* the candidates they bring
  ManifestFile,     \* the manifest files that arrive
  RootKey,          \* root_pubkey
  SeedManifest,     \* the manifest the controller is constructed with
  Idle

ASSUME IdleAssumption == Idle \notin [candidate : CandidateFile, snapshot : Manifest]
ASSUME CandidateAssumption == CandidateFile \subseteq Candidate
ASSUME FileAssumption ==
  SeedManifest.version \in Nat /\ \A f \in ManifestFile : f.version \in Nat

VARIABLES
  manifest,         \* State.manifest
  installed,        \* State.installed: id -> record
  installing,       \* per installer: Idle, or the install it is in
  grant,            \* history: id -> manifest version that admitted it, and the live one then
  intents           \* the warning intents the last call returned

vars == <<manifest, installed, installing, grant, intents>>

InstalledExtension == [version : Version, state : {"Enabled", "Disabled"}]
Installing == [candidate : CandidateFile, snapshot : Manifest]
Grant == [by : Nat, live : Nat]
Intent ==
  [kind : {"NotOnAllowlist", "VersionConstraintUnsatisfied", "XpiHashMismatch",
           "SignatureMismatch", "Recall", "UpdateConstraint"}, id : Extension]
  \cup {[kind |-> "UpdateRejected"]}

Init ==
  /\ manifest = SeedManifest
  /\ installed = EmptyMap
  /\ installing = [i \in Installer |-> Idle]
  /\ grant = EmptyMap
  /\ intents = {}

-----------------------------------------------------------------------------
(* install.                                                                *)

\* The snapshot of the manifest, under the read lock.
BeginInstall(i, c) ==
  /\ installing[i] = Idle
  /\ installing' = [installing EXCEPT ![i] = [candidate |-> c, snapshot |-> manifest]]
  /\ UNCHANGED <<manifest, installed, grant, intents>>

\* verify_install refuses: the registry is as it was.
RejectInstall(i) ==
  /\ installing[i] # Idle
  /\ LET c == installing[i].candidate
         e == InstallError(c, installing[i].snapshot)
     IN  /\ e # "None"
         /\ intents' = {[kind |-> e, id |-> c.id]}
  /\ installing' = [installing EXCEPT ![i] = Idle]
  /\ UNCHANGED <<manifest, installed, grant>>

\* verify_install accepts against the snapshot, and the record is inserted under the write
\* lock, over whatever is there, without a look at the live manifest.
AdmitInstall(i) ==
  /\ installing[i] # Idle
  /\ LET c == installing[i].candidate
     IN  /\ InstallError(c, installing[i].snapshot) = "None"
         /\ installed' = Put(installed, c.id, [version |-> c.version, state |-> "Enabled"])
         /\ grant' = Put(grant, c.id, [by |-> installing[i].snapshot.version,
                                       live |-> manifest.version])
  /\ intents' = {}
  /\ installing' = [installing EXCEPT ![i] = Idle]
  /\ UNCHANGED manifest

-----------------------------------------------------------------------------
(* try_swap_allowlist_manifest and remove.                                 *)

\* Parsing and signature first, then, under the write lock, the version.
SwapRefused(f) ==
  /\ \/ ParseError(f)
     \/ ~Verifies(RootKey, f.signedBy)
     \/ f.version <= manifest.version
  /\ intents' = {[kind |-> "UpdateRejected"]}
  /\ UNCHANGED <<manifest, installed, installing, grant>>

DisabledBy(m) == {id \in DOMAIN installed : ~Compatible(m, id, installed[id].version)}

ReconciledKeepingUnlisted(m) ==
  [id \in DOMAIN installed |->
     IF Listed(m, id) /\ id \in DisabledBy(m)
       THEN [installed[id] EXCEPT !.state = "Disabled"]
       ELSE installed[id]]

\* The walk over the installed registry: what no longer satisfies the new manifest is
\* disabled; nothing is ever enabled again.
Reconciled(m) ==
  [id \in DOMAIN installed |->
     IF id \in DisabledBy(m) THEN [installed[id] EXCEPT !.state = "Disabled"]
                             ELSE installed[id]]

IntentsForRecalls(m) ==
  {[kind |-> "Recall", id |-> id] : id \in {x \in DisabledBy(m) : ~Listed(m, x)}}

IntentsFor(m) ==
  {[kind |-> IF Listed(m, id) THEN "UpdateConstraint" ELSE "Recall", id |-> id] :
     id \in DisabledBy(m)}

SwapAnyVersion(f) ==
  /\ ~ParseError(f)
  /\ Verifies(RootKey, f.signedBy)
  /\ LET m == ManifestOf(f)
     IN  /\ manifest' = m
         /\ installed' = Reconciled(m)
         /\ intents' = IntentsFor(m)
  /\ UNCHANGED <<installing, grant>>

\* Version check, swap and reconciliation are one critical section.
SwapAccepted(f) ==
  /\ ~ParseError(f)
  /\ Verifies(RootKey, f.signedBy)
  /\ f.version > manifest.version
  /\ LET m == ManifestOf(f)
     IN  /\ manifest' = m
         /\ installed' = Reconciled(m)
         /\ intents' = IntentsFor(m)
  /\ UNCHANGED <<installing, grant>>

RemoveExtension(id) ==
  /\ installed' = Without(installed, id)
  /\ intents' = {}
  /\ UNCHANGED <<manifest, installing, grant>>

Next ==
  \/ \E i \in Installer, c \in CandidateFile : BeginInstall(i, c)
  \/ \E i \in Installer : RejectInstall(i) \/ AdmitInstall(i)
  \/ \E f \in ManifestFile : SwapRefused(f) \/ SwapAccepted(f)
  \/ \E id \in DOMAIN installed : RemoveExtension(id)

Spec == Init /\ [][Next]_vars

-----------------------------------------------------------------------------
(* What must hold.                                                         *)

\* An extension the live manifest recalls, or whose version it no longer admits, can be
\* running only if its install had taken its snapshot before that very manifest was
\* swapped in: the race of one install with one swap, and over with the next swap.
RecallMissedOnlyByRace ==
  \A id \in DOMAIN installed :
    installed[id].state = "Enabled" /\ ~Compatible(manifest, id, installed[id].version)
      => grant[id].by < grant[id].live /\ grant[id].live = manifest.version

\* A manifest that was replaced never comes back, whatever order its files arrive in
\* ("prevents accidental rollback to a recalled version").
ManifestNeverRollsBack == [][manifest'.version > manifest.version]_manifest

\* No extension stops running without the user being told: the call that disables it
\* returns an intent that names it.
NoSilentDisable ==
  [][\A id \in DOMAIN installed \cap DOMAIN installed' :
       installed[id].state = "Enabled" /\ installed'[id].state = "Disabled"
         => \E w \in intents' : w.kind \in {"Recall", "UpdateConstraint"} /\ w.id = id]_vars

\* "no observer can see the new manifest while the registry still references the old
\* constraints" (controller.rs).
RegistryFollowsManifest ==
  \A id \in DOMAIN installed :
    installed[id].state = "Enabled" => Compatible(manifest, id, installed[id].version)
=============================================================================
