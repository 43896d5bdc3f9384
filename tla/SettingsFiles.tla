--------------------------- MODULE SettingsFiles ---------------------------
(***************************************************************************)
(* The two settings files of the browser: the configuration (pb-config,    *)
(* loader.rs) and the profile registry (pb-identity, registry.rs).  Both   *)
(* are written to <path>.tmp, locked to mode 0600 and renamed over the     *)
(* path; both are refused at load if others may read or write them.        *)
(*                                                                         *)
(* A file is Missing or a record of its content and its mode.  The process *)
(* may die between any two steps and any step of a save may fail; the      *)
(* files may be edited by hand while it is not saving.  (The machine does  *)
(* not lose power: nothing is synced to disk.)                             *)
(***************************************************************************)
EXTENDS Integers, FiniteSets, SequencesExt

CONSTANTS
  ConfigValue,    \* configurations that a settings page, or a hand edit, may come up with
  Profile,        \* profiles a user may create: [id, name, mode]
  ConfigEdit,     \* configuration files a hand edit may come up with: sections of some fields
  RegistryEdit,   \* registry files a hand edit may come up with
  MaxSaves,       \* bound: saves and hand edits of one file
  None

File == {"config", "registry"}
OwnerOnly == "0600"
UmaskMode == "0644"

\* No file at a path; what is left of a content of which only a part was written.
Missing == [mode |-> "none"]
Torn == [version |-> 0]

VARIABLES
  disk,      \* file -> what is at its path
  tmp,       \* file -> what is at its path with .tmp
  saving,    \* file -> None or the save in progress
  config,    \* the configuration load gave at start; None if the process is not running
  profiles,  \* the registry in memory; None likewise
  saves,     \* file -> saves and edits so far
  saved      \* history: file -> content of the last completed save; None after an edit

settingsVars == <<disk, tmp, saving, config, profiles, saves, saved>>

SettingsInit ==
  /\ disk = [f \in File |-> Missing]
  /\ tmp = [f \in File |-> Missing]
  /\ saving = [f \in File |-> None]
  /\ config = None
  /\ profiles = None
  /\ saves = [f \in File |-> 0]
  /\ saved = [f \in File |-> None]

-----------------------------------------------------------------------------
(* Configuration.                                                          *)

CurrentSchemaVersion == 1

\* A field of a section: what it may be, what it is by default, and whether a file that has
\* the section may leave it out (serde's default, or an Option).
Field(values, default) == [values |-> values, default |-> default, optional |-> FALSE]
Optional(values, default) == [values |-> values, default |-> default, optional |-> TRUE]
Toggle(default) == Field(BOOLEAN, default)
OnByDefault == Optional(BOOLEAN, TRUE)

PrivacyMode == {"standard", "strict"}

PrivacyConfig ==
  [default_mode |-> Field(PrivacyMode, "standard"),
   fingerprint_level |-> Field(PrivacyMode, "standard"),
   translation_enabled |-> Toggle(FALSE), spellcheck_enabled |-> Toggle(FALSE)]

\* A custom provider is told apart by the scheme of its address.
DohProvider ==
  {"quad9", "nextdns", "cloudflare", "system", "custom https", "custom http", "custom localhost"}

NetworkConfig == [provider |-> Field(DohProvider, "quad9")]

StorageConfig ==
  [data_dir |-> Optional({None, "a directory"}, None), strict_wipe_on_close |-> OnByDefault]

SearchEngine ==
  {"duckduckgo", "startpage", "brave", "mojeek", "custom https", "custom http",
   "custom without query"}

SearchConfig ==
  [default_engine |-> Field(SearchEngine, "duckduckgo"), suggestions_enabled |-> Toggle(TRUE)]

Theme == {"system", "light", "dark"}
TabLayout == {"sidebar_hover", "top_horizontal", "full_vertical"}

UiConfig ==
  [theme |-> Field(Theme, "system"), show_identity_in_tab_bar |-> Toggle(TRUE),
   tab_layout |-> Field(TabLayout, "sidebar_hover"),
   reduce_transparency |-> Toggle(FALSE), command_bar_enabled |-> OnByDefault]

WizardConfig ==
  [completed |-> Toggle(FALSE), completed_at_version |-> Optional({None, 1}, None)]

SyncBackend ==
  {"lan_cluster", "hub_peer", "webdav https", "webdav localhost", "webdav http", "local_file"}

SyncConfig ==
  [enabled |-> Toggle(FALSE), backend |-> Optional({None} \cup SyncBackend, None)]

TelemetryConfig == [enabled |-> Toggle(FALSE)]

Retention == {"forever", "session", "week", "month"}
HistoryConfig == [retention |-> Field(Retention, "forever")]

LoggingConfig == [disk_logging_enabled |-> Toggle(FALSE)]

\* HTTPS-Only and the stripping of tracking parameters.
ProtectionConfig == [enabled |-> OnByDefault]

EchMode == {"preferred", "required"}
EchConfig == [mode |-> Field(EchMode, "preferred")]

WebRtcConfig == [enabled_in_standard |-> OnByDefault]

BounceTrackerConfig == [purge_days |-> Optional(Nat, 45)]

CookieBannerConfig == [auto_decline_enabled |-> Toggle(FALSE)]

GpuConfig == [memory_cap_mib |-> Optional(Nat, 512)]

\* Config: every section may be left out of a file, the version may not.
Section ==
  [privacy |-> PrivacyConfig, network |-> NetworkConfig, storage |-> StorageConfig,
   search |-> SearchConfig, ui |-> UiConfig, history |-> HistoryConfig,
   logging |-> LoggingConfig, wizard |-> WizardConfig, sync |-> SyncConfig,
   telemetry |-> TelemetryConfig, https_only |-> ProtectionConfig,
   url_param_strip |-> ProtectionConfig, ech |-> EchConfig, webrtc |-> WebRtcConfig,
   bounce_tracker |-> BounceTrackerConfig, cookie_banner |-> CookieBannerConfig,
   gpu |-> GpuConfig]

\* A value of the type Config.
IsConfig(c) ==
  /\ DOMAIN c = {"version"} \cup DOMAIN Section
  /\ c = [s \in DOMAIN c |-> c[s]]
  /\ \A s \in DOMAIN Section :
       /\ DOMAIN c[s] = DOMAIN Section[s]
       /\ c[s] = [f \in DOMAIN c[s] |-> c[s][f]]
       /\ \A f \in DOMAIN Section[s] : c[s][f] \in Section[s][f].values

ASSUME NoneAssumption ==
  /\ None \notin BOOLEAN /\ None \notin Nat
  /\ None \notin PrivacyMode \cup DohProvider \cup SearchEngine \cup Theme \cup TabLayout
                   \cup Retention \cup EchMode
  /\ None \notin ConfigValue

ASSUME ConfigAssumption == \A c \in ConfigValue : IsConfig(c)

\* A configuration from what is given of it.
Completed(version, sections) ==
  [s \in {"version"} \cup DOMAIN Section |->
     IF s = "version" THEN version
     ELSE [f \in DOMAIN Section[s] |->
             IF s \in DOMAIN sections /\ f \in DOMAIN sections[s] THEN sections[s][f]
             ELSE Section[s][f].default]]

NoSections == [s \in {} |-> None]

\* Config::default.
DefaultConfig == Completed(CurrentSchemaVersion, NoSections)

\* toml::from_str: unknown sections and fields, missing fields and other values are errors.
ParsesSection(s, fields) ==
  /\ s \in DOMAIN Section
  /\ DOMAIN fields \subseteq DOMAIN Section[s]
  /\ \A f \in DOMAIN Section[s] :
       IF f \in DOMAIN fields THEN fields[f] \in Section[s][f].values ELSE Section[s][f].optional

Parses(file) == \A s \in DOMAIN file.sections : ParsesSection(s, file.sections[s])

\* toml::to_string: an Option that is None is left out.
AsConfigFile(c) ==
  [version |-> c.version,
   sections |-> [s \in DOMAIN Section |->
     [f \in {g \in DOMAIN Section[s] : c[s][g] # None} |-> c[s][f]]]]

\* validate: the checks, in any order, as one of them failing is enough.
Validate(c) ==
  /\ c.version = CurrentSchemaVersion
  /\ ~(c.privacy.default_mode = "strict" /\ c.network.provider = "system")
  /\ c.network.provider \notin {"custom http", "custom localhost"}
  /\ c.search.default_engine \notin {"custom http", "custom without query"}
  /\ c.sync.enabled => c.sync.backend # None
  /\ c.sync.backend # "webdav http"
  /\ c.bounce_tracker.purge_days \in 7..365
  /\ c.gpu.memory_cap_mib \in 64..4096

Readable(file) == file # Missing /\ file.mode = OwnerOnly /\ file.content # Torn

\* load: None stands for its errors.
LoadConfig(file) ==
  IF Readable(file) /\ Parses(file.content)
  THEN LET c == Completed(file.content.version, file.content.sections)
       IN  IF Validate(c) THEN c ELSE None
  ELSE None

-----------------------------------------------------------------------------
(* Profile registry.                                                       *)

RegistrySchemaVersion == 1

\* An id is a random number; of its name a profile only keeps what validation asks for.
ProfileType == [id : Nat, name : STRING, mode : PrivacyMode]
ASSUME ProfileAssumption ==
  /\ Profile \subseteq ProfileType
  /\ \A r \in RegistryEdit : r.profiles \in Seq(ProfileType)

\* sort_by_key: every profile behind those with a smaller id.
ById(ps) ==
  [i \in 1..Cardinality(ps) |-> CHOOSE p \in ps : Cardinality({q \in ps : q.id <= p.id}) = i]
AsFile(ps) == [version |-> RegistrySchemaVersion, profiles |-> ById(ps)]

\* Names are neither empty nor longer than MAX_NAME_LEN, ids are unique.
ValidRegistry(r) ==
  /\ r.version = RegistrySchemaVersion
  /\ \A p \in ToSet(r.profiles) : p.name \notin {"", "too long"}
  /\ \A i, j \in DOMAIN r.profiles : r.profiles[i].id = r.profiles[j].id => i = j

\* ProfileRegistry::load: a missing file is an empty registry.
LoadRegistry(file) ==
  IF file = Missing THEN {}
  ELSE IF Readable(file) /\ ValidRegistry(file.content) THEN ToSet(file.content.profiles)
  ELSE None

-----------------------------------------------------------------------------
Running == config # None /\ profiles # None

\* The process starts if both files load; without a configuration, on the first launch,
\* it runs with the default one.
Start ==
  /\ ~Running
  /\ LET c == IF disk["config"] = Missing THEN DefaultConfig ELSE LoadConfig(disk["config"])
         ps == LoadRegistry(disk["registry"])
     IN  /\ c # None /\ ps # None
         /\ config' = c /\ profiles' = ps
  /\ UNCHANGED <<disk, tmp, saving, saves, saved>>

\* IdentityProfileBuilder::build and ProfileRegistry::insert, remove.
ChangeRegistry ==
  /\ Running /\ saving["registry"] = None
  /\ \/ \E p \in Profile :
          /\ p.name \notin {"", "too long"}
          /\ \A q \in profiles : q.id # p.id
          /\ profiles' = profiles \cup {p}
     \/ \E p \in profiles : profiles' = profiles \ {p}
  /\ UNCHANGED <<disk, tmp, saving, config, saves, saved>>

Begin(f, content) ==
  /\ Running /\ saving[f] = None
  /\ saves[f] < MaxSaves
  /\ saving' = [saving EXCEPT ![f] = [stage |-> "write", content |-> content]]
  /\ saves' = [saves EXCEPT ![f] = @ + 1]
  /\ UNCHANGED <<disk, tmp, config, profiles, saved>>

\* save of loader.rs validates before it touches the disk; the registry's does not.
SaveConfig(c) == Validate(c) /\ Begin("config", AsConfigFile(c))
SaveRegistry == Begin("registry", AsFile(profiles))

\* fs::write creates the file with the umask's mode, or empties it and leaves its mode.
Truncated(file) ==
  [content |-> Torn, mode |-> IF file = Missing THEN UmaskMode ELSE file.mode]

At(f, stage) == saving[f] # None /\ saving[f].stage = stage
Goto(f, stage) == saving' = [saving EXCEPT ![f].stage = stage]
SaveUnchanged == UNCHANGED <<config, profiles, saves>>

OpenTmp(f) ==
  /\ At(f, "write") /\ Goto(f, "fill")
  /\ tmp' = [tmp EXCEPT ![f] = Truncated(@)]
  /\ UNCHANGED <<disk, saved>> /\ SaveUnchanged

FillTmp(f) ==
  /\ At(f, "fill") /\ Goto(f, "lock")
  /\ tmp' = [tmp EXCEPT ![f].content = saving[f].content]
  /\ UNCHANGED <<disk, saved>> /\ SaveUnchanged

LockNothing(f) ==
  /\ At(f, "lock") /\ Goto(f, "rename")
  /\ UNCHANGED <<disk, tmp, saved>> /\ SaveUnchanged

\* lock_owner_only, on the temporary file.
LockTmp(f) ==
  /\ At(f, "lock") /\ Goto(f, "rename")
  /\ tmp' = [tmp EXCEPT ![f].mode = OwnerOnly]
  /\ UNCHANGED <<disk, saved>> /\ SaveUnchanged

Rename(f) ==
  /\ At(f, "rename")
  /\ disk' = [disk EXCEPT ![f] = tmp[f]]
  /\ tmp' = [tmp EXCEPT ![f] = Missing]
  /\ saved' = [saved EXCEPT ![f] = saving[f].content]
  /\ saving' = [saving EXCEPT ![f] = None]
  /\ SaveUnchanged

\* A step of the save fails: the error is returned, nothing is cleaned up.
SaveFails(f) ==
  /\ saving[f] # None
  /\ saving' = [saving EXCEPT ![f] = None]
  /\ UNCHANGED <<disk, tmp, saved>> /\ SaveUnchanged

\* Exit or crash at any moment.
Exit ==
  /\ Running
  /\ config' = None /\ profiles' = None
  /\ saving' = [f \in File |-> None]
  /\ UNCHANGED <<disk, tmp, saves, saved>>

Edits(f) == IF f = "config" THEN {AsConfigFile(c) : c \in ConfigValue} \cup ConfigEdit
            ELSE RegistryEdit

HandEdit(f) ==
  /\ saving[f] = None
  /\ saves[f] < MaxSaves
  /\ \/ disk' = [disk EXCEPT ![f] = Missing]
     \/ \E content \in Edits(f) \cup {Torn}, mode \in {OwnerOnly, UmaskMode} :
          disk' = [disk EXCEPT ![f] = [content |-> content, mode |-> mode]]
  /\ saved' = [saved EXCEPT ![f] = None]
  /\ saves' = [saves EXCEPT ![f] = @ + 1]
  /\ UNCHANGED <<tmp, saving, config, profiles>>

SettingsNext ==
  \/ Start \/ ChangeRegistry \/ SaveRegistry \/ Exit
  \/ \E c \in ConfigValue : SaveConfig(c)
  \/ \E f \in File :
       OpenTmp(f) \/ FillTmp(f) \/ LockTmp(f) \/ Rename(f) \/ SaveFails(f) \/ HandEdit(f)

-----------------------------------------------------------------------------
\* "A crash mid-write leaves the previous config intact" (loader.rs): from the end of a
\* save on, and until the next one ends or somebody edits the file, a start finds
\* exactly what was saved, whatever later saves failed or died half way.
SavedFileLoads ==
  /\ saved["config"] # None =>
       LET c == LoadConfig(disk["config"]) IN c # None /\ AsConfigFile(c) = saved["config"]
  /\ saved["registry"] # None =>
       LoadRegistry(disk["registry"]) = ToSet(saved["registry"].profiles)
=============================================================================
