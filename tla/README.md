# A verification model of DevBrowse

DevBrowse is a privacy browser in Rust: a workspace of crates, one per process or concern.
This directory holds TLA+ modules for the parts of it that have state or decisions worth
worrying about, TLC configurations that check them on small instances, and proofs (TLAPS) for
instances of any size. Paths below are relative to the repository's `crates/`; line numbers
are in `PROJECT.json`, which maps every definition to the code it models.

## 1. The system

| Part | State | Operations | What is hard |
| --- | --- | --- | --- |
| Renderer scheduler, `pb-identity/src/scheduler.rs` | renderer id -> identity, mode, set of tabs | schedule, register, attach, detach, retire | the sharing rule: one renderer per Standard profile, one per Strict tab |
| Tab lifecycle, `pb-identity/src/{lifecycle,registry,profile}.rs` | tab records, id counters, the profiles, and the scheduler | spawn, abort_spawn, close, suspend, resume; insert and remove a profile | two tables kept in step; an OS process started after the tables changed, and rolled back when it fails |
| Warnings, IPC frames, `pb-identity/src/warnings.rs`, `pb-ipc/src/transport.rs` | counters; a byte stream | record, reset; write and read a frame | a stream cut anywhere; codes of a newer peer |
| DNS cache, `pb-network/src/dns/cache.rs` | partition -> entries and insertion order | get, put, evict, drop_partition | two containers that must list the same names; deadlines |
| Single flight, `pb-network/src/dns/single_flight.rs` | key -> waiting senders | resolve | futures cancelled at any await; late sends |
| Network coordinator, `pb-network/src/coordinator.rs` | the above, the egress LRU, the blocklist handle, policies | bootstrap, resolve, route, drop_partition, set_resolver, set_fallback_policy | state read before an await and used after it, cancellation at every step |
| Blocklist, `pb-network/src/blocklist/` | live manifest, tree of rules, background task, its handle | match, strip, tick, swap, stop, drop | precedence of rules; a signal that is not stored; two snapshots in one request |
| DoH, rebinding filter, fallback, `pb-network/src/dns/` | none but the policy | query, select, filter, decide | answers that mix good and bad records; what a failure may fall back to |
| TLS policy, `pb-network/src/tls/`, `client_hello.rs` | none | verdict and policy to a decision | retries that must not weaken the policy |
| Headers, WebRTC, `pb-network/src/{headers,webrtc}.rs` | mDNS names per partition | scrub; gather, filter, resolve | what a page may set, and learn |
| GPU coordinator, budget, queues, `pb-gpu/src/` | epoch and availability; bytes and LRU per identity; FIFO per identity and rotation | issue, lose, recover; allocate, touch, release; submit, dequeue | an epoch that three mutexes follow; three records of one allocation; fairness |
| Storage, `pb-storage/src/` | a directory, a SQLite file, its rows | bootstrap, put, get, list, delete, strict wipe | crashes between steps, two processes, one partition filter per statement |
| Extensions, `pb-extensions/src/` | live manifest, registry | install, swap, remove | an install that races with a recall |
| Configuration, `pb-config/src/` | one file | load, validate, save | crashes, permissions, edits by hand |
| Browser shell, `pb-ui/src/{shell,address_bar,card_view,sidebar}.rs`, `tab_bar/` | the window's mode, the tabs, the one address bar, the sidebar's drag and tooltip, timers on their way | one `update` per message | one mode kept in five places, one address bar for all tabs, timers of what is over, a pointer nobody reports |
| Panels, `pb-ui/src/{history,find_in_page,new_tab_screen}.rs` | phases, queries, focus, a session | events | rows that vanish under the focus; loads that arrive late |
| Fingerprint protection, `pb-fingerprint/src/`, `pb-gpu/src/timing.rs` | tables, seeds, clocks | what each entry point answers | who may tell whom apart, and who may not |
| UI drawing, sandbox, platform, sync, update, binary, test kit | stubs, fixtures | - | - |

How they interact: in the design a UI event asks the tab lifecycle for a tab; the lifecycle
decides on a renderer through the scheduler and returns an action that an orchestrator (not in
this repository) carries out at the OS level. A renderer sends requests, under its partition
key, to the network coordinator and to the storage process, and commands, under a scope token,
to the GPU process. A partition that goes away is torn down in the network coordinator and, in
Strict, wiped from storage; the partition key is also what the fingerprint noise is seeded
with. The configuration decides the resolver that the coordinator is bootstrapped with. The
blocklist is shared between the coordinator, which reads it, and a background task, which swaps
it. Parts talk by calls; shared state is behind mutexes; what survives a restart are the two
settings files and the database. In this commit the browser shell is not wired to the other
processes yet: its tabs are its own.

What makes each part correct: the renderers partition the tabs by profile and mode; caches are
bounded, consistent and forget what was torn down; a question is answered with its own answer,
once; what goes out is permitted and says nothing of the user; a protection that Strict promises
has no path around it, by failure, retry or race; files and databases are whole after any crash;
accounting is exact and nobody starves; the window shows one truth about the tab in front.

## 2. Modules

`HashMap` has the operations of Rust's `HashMap` on functions; most modules use it.

**Identity.**
- `RendererScheduler` is `scheduler.rs`: `schedule` as the set `Reusable(p)` (with several
  candidates the map's iteration order decides, so any member may be taken), every other
  method as a guard for its `Ok` and the table it leaves.
- `TabLifecycle` is `lifecycle.rs` with the registry in memory: `SpawnInExisting` and
  `SpawnInNew` are the two answers of `spawn_tab`, `CloseTab` is `close_tab` and `abort_spawn`.
- `TabOrchestration` adds the spawn protocol of the module comment of `lifecycle.rs`: `todo`
  is the set of actions the manager has returned and nobody has carried out yet, `loaded` the
  spawns and attaches carried out in the renderers that run; OS spawns succeed or fail. The
  manager's mutex is held during a call and not until the returned action is done: nothing in
  the source says that it is, so calls and actions interleave freely.
- `IdentityIsolation` is the abstract specification: live tabs partitioned into cohorts, no
  ids, no tables. `TabOrchestration` maps the renderer table to cohorts (`Cohorts`) and states
  that it implements it (`ImplementsIsolation`).
- `IpcMessages` has the warning messages, the warning counter and the frames as functions;
  the assumptions of `MCTabOrchestration` evaluate them.

**Network.**
- `DnsCache` is the cache: each method runs under one mutex and is one step. The clock is
  `now`; a name stands for a (qname, qtype) pair.
- `SingleFlight`: `TakeRole` under the map lock, `LeaderAnswers` when the inner resolver is
  done (the slot is taken out under the lock), `LeaderSends` after the lock is released,
  `Cancel` when a caller's future is dropped at its await.
- `Blocklist` is the live manifest, its rules as a tree built by insertion, the match, and the
  stripping of parameters. `LongestMatch` in `NetworkCoordinator` is the reference the match is
  held against: it looks at the rule list, not at a tree.
- `NetworkCoordinator` has the scrubbing of headers, and composes the cache, the flights and the
  blocklist with the egress LRU: `resolve` takes `&self` and is split at its await points; `route`
  takes `&mut self`, excludes all other calls, and is split where another thread can change what
  it sees (the cancellation flag, the blocklist behind its own lock); `DropPartition` excludes
  both.
- `BlocklistScheduler` is the background task: `Wait` (the `select!` is entered),
  `ObserveStop`, `TimerFires`, `LoadSucceeds` and `LoadFails`, and the handle's `stop` and
  `drop`. `Notify` models `notify_waiters`, which stores no permit.
- `Rebinding` classifies addresses; `DohClient` is a query from the message that comes back to
  the answer or the error; `ConnectionPolicy` has the whitelist, the fallback decision, the ECH
  and transparency decisions, the validator's bundles and the error type; `WebRtc` the
  gathering decision, the candidate filter and the mDNS names.
- `SettingsFiles` is the configuration and the registry on disk: a save is four steps, each of
  which may fail or be the last one before a crash.
- `Connections` composes: a process loads the configuration, bootstraps a broker with it, and
  opens connections that look up, fall back, shake hands and try again.

**Storage.** `PartitionKeys` is the derivation of keys and seeds (a hash as an injective
function), `StorageBootstrap` the steps of `bootstrap` by processes that crash, of which two
run at once, `StoragePrimitives` the five primitives and the gatekeeper as operators on tables,
`StorageProcess` all of it with the strict wipe as a transaction of one statement at a time.

**Extensions.** `ExtensionController` has `allowlist.rs` (parsing, version order, base64, the
install gates), `controller.rs` (`install` in its two steps: the snapshot, then the insertion)
and `blocker.rs` (what is dark in which mode). `grant` remembers under which manifest an
extension was admitted, and which was live then.

**Fingerprint protection.** `FingerprintSurfaces` has the clocks with quantum and jitter, the
GPU's, and what every entry point answers; `FingerprintSession` has pages that read twice, as any
user on any device, on any site, in any window, at any moment and launch.

**GPU.** `GpuCoordinator`, `GpuMemoryBudget` and `GpuQueue` are the three files of those names
(the bytes of a bucket are summed id by id, against the counter the code keeps);
`GpuProcess` composes them with renderers that hold tokens of every epoch issued so far, an
executor, an adapter that is lost at any time, and the recovery handshake as three steps, for
the three mutexes are taken one after another.

**Browser shell.**
- `TabBar`, `AddressBar` and `Sidebar` are the components of those files, as operators from the
  component before a message to the component after it. Of a tab there is what the shell's
  decisions depend on: id, mode, unsaved input, whether it has an address. What a component
  shows is an operator too (`...Offers`): a message can only come from something on the screen.
- `BrowserShell` is `shell.rs` with the card view: one action per message that changes
  something, for iced delivers one message at a time and `update` runs to its end.
  `SyncActiveTab` is `sync_active_tab_mode`, and every action calls it where the code does and
  only there. In `BrowserShell` alone the pointer may do anything at any time.
- `ShellWindow` adds where the pointer is, whether the button is down, the sidebar and the
  hover timers. A widget that disappears under the pointer is not told that the pointer left,
  and of two widgets the pointer leaves and enters in one movement either may be told first.
  It implements `BrowserShell`, which is proved.
- `Panels` is the find bar, the history panel, the new tab page and what Escape closes. Some of
  the messages they take have no sender in this commit: what history storage answers after the
  first load, the session to resume, and the focus keys of history (`FocusMessages`; the shell's
  subscription listens to other keys). They are modelled as `update` takes them, at any moment.
  What a filter or a deletion keeps of a list is given by the places it keeps (`Kept`).

`MC...` modules hold the values of the larger instances; `GpuProcess`, `BlocklistScheduler`,
`SingleFlight`, `StorageProcess`, `ShellWindow` and `Panels` are run as they are.

History variables (`teardown`, `drops`, `recency`, `start`, `submitted`, `passedOver`, `grant`,
`saved`, `told`, `optedIn`, `retracted`, `slipped`, `ghost`, the stage at which a request was
cancelled, the versions a request was held against) record what properties
speak of; no guard of a modelled operation depends on them, except where the bounds of section 4
do.

## 3. Runs

| Run | What it asks | Result |
| --- | --- | --- |
| `identity` | do the tables agree and share renderers as they may, do actions carried out late mix identities or kill a renderer in use, and is the sharing specification implemented | yes |
| `coordinator` | are cache and egress map bounded, consistent and free of answers from before a teardown; is what goes out permitted, blocked by the rule with the longest hostname, with the browser's headers; is a cancel seen, but for two windows | yes |
| `single_flight` | answers to those who asked, no follower forgotten, followers of a leader that is not cancelled answered | yes |
| `abandoned_flight` | and of a leader that is cancelled | they wait for ever |
| `refresh` | do failures not end the loop, does no swap take the live list back | yes |
| `connections` | does a start find what was saved; does Strict stay on DoH, and Standard too once the name is settled; do ECH and transparency hold through every failure and retry; is an address from DoH public; does WebRTC hide the local network | yes |
| `storage` | is a handle only given for a sound database, does a read stay in its partition, is a wipe whole | yes |
| `extensions` | is a recall missed only by an install that raced with it, is nothing disabled in silence | yes |
| `fingerprint` | is Strict one cohort up to the jitter of clocks and the rasteriser of boxes, does a site see one machine, does noise not join what partitions keep apart, do the clocks of a page agree and not go back | yes |
| `gpu` | exact byte counts, fair rotation, no buffer across a recovery of the queue | yes |
| `shell` | does the bar belong to the active tab, does the chrome show one mode, but for the capsule of a fresh tab, is a lookup for the text in the field, does no Strict tab become Standard, does a drag end with a release the window hears of, do overlays follow the pointer | yes |
| `panels` | is the focus of history on an entry, and on the one that was chosen, does Strict never resume a session | yes |

`abandoned_flight` checks what a comment of the code says: followers' receivers "resolve to
`Err(_)`" when their leader is cancelled. The senders live in the resolver's map, not in the
leader's future, so nothing drops them.

The assumptions of the `MC...` modules are evaluated at the start of their runs. They hold pure
functions against what they are for, over small inputs: frames and warnings (`CutsAreSeen`,
`TooLargeIsRefused`, `WarningsRoundTrip`, `CountsAreExact`), the configuration, the resolver's
errors and the TLS client (`DefaultsProtect`, `RoundTrip`, `ErrorsAreKnown`, `OneClient`), base64,
version order and dark surfaces (`KeysSurviveBase64`, `VersionsAreOrdered`,
`StrictDarksBothNamespaces`), the strip of tabs (`RowFits`, `NextXUnderPointer`, in
`ShellWindow`), noise, absent APIs and the GPU's limits (`NoiseIsBounded`,
`NoiseIsUniform`, `AbsentIsDenied`, `AdvertisedIsEnforced`).

## 4. Bounds, and why they are enough

- `identity`: three profiles, one of them Strict, and four tabs: two tabs of one Standard
  profile, one of another and a Strict one exist together, and ids are used up. A tab is opened
  while at most one action is held (`MaxPending`), so a spawn, an attach and kills wait beside
  each other and are carried out, or fail, in every order. Frames have up to three bytes (four are
  too many), in two letters; histories of the counter up to four steps.
- `coordinator`: resolutions and routes are explored apart (`OneSideAtATime`), with teardowns
  and swaps beside both. For resolutions three names, a cap of two entries and two callers, so
  that eviction, overwrite and a full cache met by two insertions at once all happen; TTLs of 0
  and 2 against a cap of 1, and two ticks, so that entries expire before and after they are
  replaced. For routes three partitions over an LRU of two; two blocklist versions after the
  empty one, so that both can be swapped in during one call; a request for every refusal, every
  kind of rule and every rewriting. One teardown.
- `single_flight`: three callers (a leader and two followers, or an old leader that is still
  sending beside a new one and its follower), two keys.
- `refresh`: six versions; when they are used up the loader can only answer `NoNewContent`,
  which is `LoadFails`.
- `connections`: two saves of each file, so that one can fail over the other's result; every
  file that a check of the loader tells apart; one retry of a handshake (`MaxRetries`, a bound of
  the model); what the verifier reports of ECH is free at each try; names around the limits on labels
  (`MaxLabelLen`) and names (`MaxNameLen`); answers at both ends of every block of addresses the
  filter knows. The files, the connections and WebRTC are explored apart (`MCNext`, `OneFile`);
  what one leaves behind, a configuration, is what the next starts from.
- `storage`: two processes that start, wipe and crash; two contexts of one site, of which one
  is wiped; two rows; every primitive; forged keys; a key named twice.
- `extensions`: two installers, two extensions and versions; every content as either manifest
  version, and one file of each kind that is refused.
- `fingerprint`: three Strict users (laptop, desktop, phone) and two Standard ones that differ
  in everything a page could ask for; two sites; three window widths around two steps of the
  letterbox; one restart; five moments, quanta of 2 and 4 for the page and 3 for the GPU, so
  that buckets overlap in every way and jitter reaches both ends. Jitter seeds belong to
  partitions, and rasterisers put boxes up to more than a pixel apart. A page reads one entry
  point twice or, of the clocks, two.
- `gpu`: three identities, because fairness between two cannot tell a rotation from an
  alternation; four buffers, three allocations in a cap of two bytes, and one recovery. Two
  bytes let one allocation evict two, and let one be too large for what is left.
- `shell`: the first and the last of the five tabs the code starts with (a Standard one, and
  the Strict one with unsaved input). `MaxTabs` is 2, and the new tab's id is one of an old tab
  or a fresh one (`NewIds`): ids are used again and the strip becomes empty. One text and the
  empty one tell typing, replacing and clearing apart. Stale timers of X closes
  (`MaxGeneration`) and of hovering (`MaxTimers`), one dismissal on record; at most two things
  (drag, popover, question, lookup, ...) go on at once (`MaxBusy`).
- `panels`: three entries of which the one search word leaves two, loads of none, two and three
  rows; one session.
- Ids (`MaxTabs`, `MaxAlloc`, `MaxBuffers`), epochs (`MaxEpoch`), teardowns (`MaxDrops`),
  versions (`MaxVersion`), rows, saves, retries and the clock (`MaxTime`) are `u64`s or unbounded
  in the code. The guards that stop the model there are in the actions that mint or count.
- Symmetry is used where the members of a set are interchangeable and no liveness is checked:
  callers and names (`coordinator`), profiles (`gpu`), Standard profiles (`identity`), mDNS names and partitions
  (`connections`).
- Deadlock is not checked in `refresh`, `gpu` and `fingerprint`: a stopped scheduler, a process
  whose ids are used up and a page that has read twice really stop.

## 5. Fairness

- `SingleFlight`: weak fairness of the leader's steps and of a follower whose answer is there:
  the runtime polls tasks that can go on. That the inner resolver answers is an assumption;
  the DoH client bounds the wait for the response head but not for the body. Calls,
  cancellations and returns are free.
- `BlocklistScheduler`: weak fairness of entering the `select!`, of its branches together (the
  timer is finite, but which of two ready branches is taken is not promised), of the loader
  answering at all, and of the stopper when the task has ended. Nobody is obliged to stop.
- The other specifications state no fairness and have safety properties only.

## 6. What is proved

Every safety invariant and every action property of a passing run is a theorem too, and so is
the refinement: the run shows it on a small instance, the proof for every value of the
constants. Each theorem is about the specification its module names, under the assumptions the
modules state on their constants (below).

- `TabLifecycle_proofs`. Of `LifecycleSpec`, the manager alone behind its mutex:
  `LifecycleInvariant`, `SharingRuleHolds`, `TablesAgreeHolds`. `SharingRule` is not inductive.
  That two tabs of one Standard profile are in one renderer needs that the profile has one
  renderer, which needs that `schedule` finds a renderer whenever there is one (slots have the
  mode of their profile), and that a new renderer's id is not in use (the counters are above
  every id). That a Strict tab is alone needs that renderers list exactly the tabs whose records
  point to them. `IInv` is the conjunction of these. `TablesAgree` is what makes the `expect` in
  `close_tab` unreachable.
  Of `Spec`, the orchestrated lifecycle: `LateActionsAreHarmlessHolds` and `IdsAreFreshHolds`,
  with every interleaving of calls and carried out actions. `HeldInv` adds to `IInv` that kills
  name renderers that were minted and are gone, and that what processes were given or will be
  given (`Grants`) names minted ids of one identity per renderer; a new grant is for a minted
  tab in a new renderer, or in one the scheduler still has under the same Standard profile, whose
  earlier grants are therefore of that profile. `IsolationImplemented`: every step opens,
  joins or leaves a cohort as `IdentityIsolation` allows, or leaves the partition alone.
- `Network_proofs`. Of `FlightSpec`: `FlightInvariant`, `AnswersAreForOwnKey`,
  `NobodyIsForgotten`, `OneLeaderPerKey`. The strengthening says where a waiting caller is: in
  the slot of its key or in the hands of one leader that sends, never in both (`WaitersWait`,
  `OneSender`), that a leader at work has its slot (`LeaderHasSlot`), and that answers come with
  phases (`AnswersFollowPhase`).
  Of `SchedulerSpec`: `ListOnlyMovesForward`, from `RefreshInv`: what a tick has seen is still
  live when it swaps, for there is one task.
  Of `Spec` of `NetworkCoordinator`: `NoEntryOutlivesDropHolds`, from `ResolveInvariant`: no
  teardown overtakes a lookup under way, for it waits for `&mut self` (`CallsInv`), and the two
  containers of the cache list the same names, each once, so that an eviction takes from both
  (`CacheInv`). `StoresConsistentHolds`, from `RouteInvariant`:
  the order of the LRU is the end of the order in which partitions were used (`EndsIn`), without
  repetition. `SentIsPermittedHolds` and `HeadersAreTheBrowsersHolds`: each stage of `route` is
  what the guards before it allow (`OnItsWay`), and a scrub leaves each header the browser sets
  once, with its own value. `MatchIsLongest` and `LongestMatchDecidesHolds`: the tree answers
  what the rule list answers, for every list: after every rule inserted the tree holds the rules
  up to it. `CancelIsSeenHolds`, from `LookInv`: at each stage of `route`, the only stages in
  which the flag can have risen unseen.
- `Partition_proofs`. Of `Spec` of `StorageProcess`, from `StorageInvariant`:
  `ReadyMeansSoundHolds`, `OpenOnlyBehindLockedDirHolds`, `StampNeverChangesHolds`: what a
  process has done at its step is on the disk (`Behind`), and no step of another process undoes
  it (`Forward`), whichever of them crash. `AnswersStayInPartitionHolds`, `WipeIsWholeHolds`:
  every primitive reads and writes rows of its own key, and the transaction knows which
  statements are behind it (`Transaction`).
  Of `ReadSpec` of `FingerprintSession`, from `ReadingInvariant`: `StrictCohortHolds`,
  `SiteSeesOneMachineHolds`, `NoiseDoesNotJoinHolds`, `ClockNeverGoesBackHolds`. They rest on
  what each surface depends on (`StrictAnswersAlike`, `NoiseIsTheSeeds`) and on seeds that
  differ where partitions do. Two boxes that lie less than a pixel apart are reported at most one
  apart (`RoundingIsClose`); a reading lies within its bucket, whatever the seed
  (`ReadingInBucket`), so that two clocks of a page are the same within a bucket and in order
  across buckets (`OneBucketOneReading`, `BucketsApart`), which needs a jitter below the quantum.
- `Connections_proofs`, of `Spec` of `Connections`: `StrictAlwaysStaysOnDoh`,
  `StrictHandshakeAlwaysHolds`. The invariants add what a connection remembers of how it got
  where it is (`ConnTypeOK`, `HandshakeInv`); the fallback and the handshake decisions are
  expanded, so that the theorems are about the tables of the code. `DohAnswers` says which error
  each answer of a DoH server ends in, `AskDohEffect` and `HandshakeEffect` what a step makes of
  it. `PublicIsOutsideBlocks`: what the filter calls public is outside every block it lists, for
  every address;
  `DohAddressIsAlwaysPublic` adds that only filtered answers become a connection's address.
  `CandidatesAlwaysHideTheLan`, from `RtcInv`: a name is in the table of one partition only.
  `WhatIsSavedLoads`: every configuration the types allow is read back as it was written;
  `SavedFileAlwaysLoads`, from `SettingsInv`: what a save moves into place is whole, of one that
  loads, and locked by then; the registry that is written lists its ids once, in order.
- `ExtensionController_proofs`: `ControllerInvariant`, `RecallsAreMissedOnlyByRace`,
  `ManifestOnlyMovesForward`, `NothingDisabledInSilence`. An install under way holds a manifest
  that is or was live (`SnapshotsAreOld`), and what it admits is no newer (`GrantsAreOld`).
- `GpuProcess_proofs`: `BuffersStayInTheirEpoch`, from the shape of the queue, that ids are
  minted once and that only what was submitted waits (`QueueTypeOK`, `IdsMintedOnce`,
  `OnlySubmitted`). `RotationListsWaiting`: the rotation lists exactly those with work, each
  once. `BypassIsBounded`: how often an identity was passed over, and its place in the
  rotation, add up to no more than the number of identities (`TurnsBounded`).
  `BudgetAlwaysExact`: the counter of a bucket, its LRU and the sizes agree (`BucketOk`) through
  evictions of any length; the sum of what is evicted and the sum of what is left are the sum
  there was (`BytesSplit`).
- `BrowserShell_proofs`. Of `BrowserShell`: `ChromeAlwaysAgrees` and `LookupAlwaysForText`, by
  one inductive invariant: a message that changes the mode goes through `SyncActiveTab`, `Home`
  or `ConvertToStrict`, which write it into all its places; every other message, and the paths
  that open a tab without the sync, must pass the address bar the mode the window has.
  That the capsule shows the window's mode, or the tab is a fresh one in a Strict window, is the
  part of `TabsInv` named `CapsuleFits`.
  `StripAlwaysKeepsTabs`, `BarAlwaysFollows` and `NoWayBackHolds`, from `TabsInv`: the strip has
  every id once (a new tab's is the largest and one more), the active tab is one of it, and the
  bar and the capsule are that tab's (`Follows`).
  Of `WindowSpec`: `WindowImplementsShell`, so that all of these hold in the window;
  `DragAlwaysNeedsButton` (with the button up only after a release nobody was told of);
  `OverlaysAlwaysFollow`: each reason for a tooltip or the card to be
  there has something that will end it, the pointer on it or a timer on its way (`TipInv`,
  `CardInv`).
- `Panels`: `StrictNeverResumes`, because a Strict page never holds a session
  (`StrictPageForgets`), and `FocusAlwaysKeepsItsEntry`: the focus is below the number of filtered
  entries, through every load, search and deletion (`PanelOk`), and what is not a focus message
  leaves it on the same place of the same list or takes it away (`LetsGo`).

Loops. An argument about every round of a loop (an insertion, an eviction, a position in a list,
a sum) is an induction over numbers, made without an induction theorem: the set of rounds at
which the claim fails is a set of naturals without a least element, hence empty (`LeastNat`,
`NoFirstWrong`). That a fold or a recursive function is what its equations say comes first
(`LoopFoldExists`, `SumExists`).

Assumptions on constants. They are named in the module that declares the constant, and TLC
evaluates them in the runs. They are of four kinds: bounds are natural numbers (caps positive);
values that stand for absence (`None`, `NoRow`, `NoText`, `NoVersion`, `Idle`) are no data; the
inputs enumerated have the types of the code (requests, answers, candidates, files, loads,
configurations, published manifests, installed users); and what the code fixes, namely that a
registry has finitely many identities (`ProfilesAssumption`), the strip of the start has every
id once and an active tab (`InitialTabsAssumption`), a quantum is positive and jitter below it
(`QuantumAssumption`, `JitterAssumption`), a partition has one jitter seed or none
(`SeedAssumption`). Nothing is assumed of where rasterisers put a box: `RasterAssumption` only
says that boxes are numbered. The hash behind keys and seeds is injective by the way `PartitionKeys`
writes it.

Only model-checked: the liveness properties `FollowerEndsUnlessAbandoned` and `RefreshGoesOn`
(fairness needs `ENABLED`, which the provers do not have); that `abandoned_flight` violates
`FollowerEnds`; and the assumptions of the `MC...` modules on pure functions, which are stated
over the inputs listed there.

## 7. What the models show besides

Statements of docs and comments that the models refute, or that the code does not keep; those
that name a definition can be checked by adding it to the configuration of its module.

- A second tab that attaches before the OS spawn of its renderer fails: `abort_spawn` closes the
  first tab only and the renderer stays registered without a process
  (`TabOrchestration.RegisteredRendererHasProcess` is violated); `lifecycle.rs:25-26` speaks of a
  roll back "to pre-spawn". And a tab closed before its OS spawn is carried out leaves a process
  that nobody kills if the kill is carried out first.
- `stop().await` does not always return (`BlocklistScheduler.StopEnds`): `notify_waiters` does
  not reach a task that is inside `tick_once`. A handle dropped at that moment leaves a task that
  refreshes for ever.
- Between `recover_after_loss` and the queue's `on_recovery` buffers of before the loss are
  handed out (`GpuProcess.NoPreCrashExecution`); `queue.rs:27-31` excludes it.
- An install that took its snapshot before a swap enables an extension the live manifest no
  longer admits (`ExtensionController.RegistryFollowsManifest`); the comment at
  `controller.rs:262-266` says that no install can race.
- The sidebar's new tab handler does not call `sync_active_tab_mode`: after a Strict tab the
  window goes on showing Strict over a Standard tab (`shell.rs:297-298` says otherwise), and only
  the identity capsule shows Standard (`FreshTabShown` in `ChromeAgrees`).
- `mod.rs:297` of the tab bar freezes the widths "so X buttons don't drift"; when the chip to the
  right of the closed one is the active one, its X is further right (`NextXUnderPointer`).
- A SERVFAIL reaches the caller of the fallback policy as the resolver's transport error
  (`doh_client.rs:243`), like an outage, so a Standard user who opted in falls back to the system
  resolver after it; `fallback.rs:56-59` and `96-97` count SERVFAIL as definitive.
- `EchPolicy::decide` remembers nothing: when an `ech_required` alert made the first try fail and
  the verifier reports at the next that nothing is offered, Strict connects in the clear, with a
  warning.
- A cancel that comes after the last look at the flag (`coordinator.rs:624`) does not stop the
  request, and one between the look at 594 and `match_host` does not stop the report that the
  request was blocked.
- A release of the button outside the sidebar before the first move, or over another widget,
  leaves the sidebar dragging without a button (`slipped`), and a tooltip whose tab was closed
  under it may come back for the tab that gets the id next (`ghost`).
- The X in the strip closes a Strict tab with unsaved input without asking (`tab_bar/mod.rs:55-56`
  promises the question), and the question does not block the strip, so that its tab may be gone
  when it is answered.
- `radix_tree.rs:140-144` prefers the subdomain-exclusive rule at a node; the later rule wins.
- The offsets of boxes and text do not rotate with the farbling epoch; a window smaller than one
  step of the letterbox is reported larger than it is, against "never larger than the real OS
  window" (`letterbox.rs:70-73`); amplitudes above 127 make canvas noise one-sided;
  `fonts.rs:252` speaks of all ten buckets where the table has nine.
- The bounded arrival of an event has no jitter and a reading of the clock has, so a clock read in
  the callback can be past the arrival, although `gecko/timers.rs:173-176` wants them equal.
- Strict pages of different partitions read clocks of different jitter, if the embedder passes
  seeds in Strict, and a box near the edge of a rounding step is reported one apart by two
  rasterisers (`StrictCohort` says how far either goes).
- `schema.rs:147` allows a custom DoH provider on `http://localhost`; `loader.rs:89-95` refuses it.
- In the history panel, opening it before its entries have arrived, and again after an error,
  shows it empty. The focus messages act on the filtered entries also in the phases that draw
  another body (an error, the question before clearing). With the card view open, Escape closes
  it together with the find bar or the history panel above it.
- That an alert "always produces `Retry`" (`ech.rs:157`) does not hold for a policy that is
  disabled; `NetworkError::clone` turns IPC and sandbox errors into resolution errors; both
  choices of trust anchors are the webpki roots in this commit, and self-signed grants are not
  consulted.
- `read_frame` reports a stream that ends inside the length field as a closed connection, and a
  receive that is dropped between length and payload loses its place in the stream.

## 8. Not modelled

- Drawing, layout, wallpapers (`doodles`), the build script, the test kit and regression
  fixtures; the crates that are stubs in this commit (sync, update, the binary, the permission
  center, downloads, the wizard); the unused second engine of the fingerprint crate.
- Parsing of text and wire formats down to bytes, cryptography (a hash is an injective function,
  a signature a set of keys it verifies under), certificate chains, sockets and pipes, OS
  sandboxing. The data types of `suspension.rs`, without control of their own.
- `set_blocklist` and `set_header_policy` of the coordinator, which replace a value between two
  calls of `route`.
- Messages that nothing in this commit sends, but for those of `Panels` named above (the address bar's focus loss and navigation from
  outside, counters of blocked requests, the interstitial's dismissal, scrolling), window
  buttons, and the suggestion list, whose provider answers nothing. The convert animation,
  which no code starts.
- Loss of power (nothing is synced to disk by the savers; a crash is that of the process), and
  two processes that save through the same temporary file: one saver per file is assumed.
- Epochs and ids that wrap.
