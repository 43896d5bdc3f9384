---------------------------- MODULE TabLifecycle ----------------------------
(***************************************************************************)
(* The tab lifecycle manager of pb-identity (lifecycle.rs): the in-memory  *)
(* profile registry it owns, its tab records, its id counters and the      *)
(* scheduler it drives.  The manager is a synchronous state machine behind *)
(* one mutex, so every method is one action.                               *)
(***************************************************************************)
EXTENDS RendererScheduler

CONSTANTS
  MaxTabs,        \* bound: tab ids the model mints (u64 in the code)
  SuspendReason   \* the reasons of suspension.rs

ASSUME BoundAssumption == MaxTabs \in Nat

VARIABLES
  profiles,       \* ProfileRegistry.profiles: the profiles now inserted
  tabs,           \* tab id -> record
  nextTab,        \* next_tab_id
  nextRenderer    \* next_renderer_id

lifecycleVars == <<renderers, profiles, tabs, nextTab, nextRenderer>>

TabState == {"Active", "Suspended"}
Reason == SuspendReason \cup {"None"}
TabRecord ==
  [profile : ProfileId, renderer : RendererId, state : TabState, reason : Reason]

NewRecord(p, r) ==
  [profile |-> p, renderer |-> r, state |-> "Active", reason |-> "None"]

IdsFromZero ==
  /\ renderers = EmptyMap
  /\ tabs = EmptyMap
  /\ nextTab = 0
  /\ nextRenderer = 0
  /\ profiles = {}

LifecycleInit ==
  /\ renderers = EmptyMap
  /\ tabs = EmptyMap
  /\ nextTab = 1
  /\ nextRenderer = 1
  /\ profiles = {}

-----------------------------------------------------------------------------
(* The registry.                                                           *)

\* insert: a profile id already present is rejected.
InsertProfile(p) ==
  /\ p \notin profiles
  /\ profiles' = profiles \cup {p}
  /\ UNCHANGED <<renderers, tabs, nextTab, nextRenderer>>

\* remove, reached through registry_mut: the tabs of p are left as they are.
RemoveProfile(p) ==
  /\ p \in profiles
  /\ profiles' = profiles \ {p}
  /\ UNCHANGED <<renderers, tabs, nextTab, nextRenderer>>

-----------------------------------------------------------------------------
(* Tabs.  tabs' changes only where the `?` of the scheduler call did not   *)
(* return; what was done before it stays done.                             *)

\* spawn_tab when the scheduler answers Reuse(r).
SpawnInExisting(p, r) ==
  /\ p \in profiles
  /\ nextTab <= MaxTabs
  /\ r \in Reusable(p)
  /\ nextTab' = nextTab + 1
  /\ renderers' = Attached(renderers, r, nextTab, p)
  /\ tabs' = IF AttachAccepted(renderers, r, nextTab, p)
             THEN Put(tabs, nextTab, NewRecord(p, r))
             ELSE tabs
  /\ UNCHANGED <<profiles, nextRenderer>>

\* spawn_tab when it answers SpawnNew: mint, register, attach.
SpawnInNew(p) ==
  LET table == Registered(renderers, nextRenderer, p)
  IN  /\ p \in profiles
      /\ nextTab <= MaxTabs
      /\ Reusable(p) = {}
      /\ nextTab' = nextTab + 1
      /\ nextRenderer' = nextRenderer + 1
      /\ renderers' = Attached(table, nextRenderer, nextTab, p)
      /\ tabs' = IF AttachAccepted(table, nextRenderer, nextTab, p)
                 THEN Put(tabs, nextTab, NewRecord(p, nextRenderer))
                 ELSE tabs
      /\ UNCHANGED profiles

SpawnTab(p) == SpawnInNew(p) \/ \E r \in DOMAIN renderers : SpawnInExisting(p, r)

CloseWithoutDetach(t) ==
  /\ t \in DOMAIN tabs
  /\ tabs' = Without(tabs, t)
  /\ UNCHANGED <<renderers, profiles, nextTab, nextRenderer>>

\* Nobody else is in the renderer of t: CloseAction::DetachAndKillRenderer.
EmptiedOffByOne(t) ==
  /\ DetachAccepted(renderers, tabs[t].renderer, t)
  /\ Cardinality(renderers[tabs[t].renderer].tabs) <= 2

EmptiedBy(t) ==
  /\ DetachAccepted(renderers, tabs[t].renderer, t)
  /\ renderers[tabs[t].renderer].tabs = {t}

CloseRecyclingId(t) ==
  /\ t \in DOMAIN tabs
  /\ tabs' = Without(tabs, t)
  /\ LET r == tabs[t].renderer
         table == Detached(renderers, r, t)
     IN  /\ renderers' = IF EmptiedBy(t) THEN Retired(table, r) ELSE table
         /\ nextRenderer' = IF EmptiedBy(t) THEN r ELSE nextRenderer
  /\ UNCHANGED <<profiles, nextTab>>

\* close_tab, and abort_spawn, which calls it: the record goes first, then the
\* attachment, then the renderer if no tab is left in it.
CloseTab(t) ==
  /\ t \in DOMAIN tabs
  /\ tabs' = Without(tabs, t)
  /\ LET r == tabs[t].renderer
         table == Detached(renderers, r, t)
     IN  renderers' = IF EmptiedBy(t) THEN Retired(table, r) ELSE table
  /\ UNCHANGED <<profiles, nextTab, nextRenderer>>

SuspendTab(t, reason) ==
  /\ t \in DOMAIN tabs
  /\ tabs[t].state # "Suspended"
  /\ tabs' = [tabs EXCEPT ![t].state = "Suspended", ![t].reason = reason]
  /\ UNCHANGED <<renderers, profiles, nextTab, nextRenderer>>

ResumeTab(t) ==
  /\ t \in DOMAIN tabs
  /\ tabs[t].state # "Active"
  /\ tabs' = [tabs EXCEPT ![t].state = "Active", ![t].reason = "None"]
  /\ UNCHANGED <<renderers, profiles, nextTab, nextRenderer>>

LifecycleNext ==
  \/ \E p \in ProfileId : InsertProfile(p) \/ RemoveProfile(p) \/ SpawnTab(p)
  \/ \E t \in DOMAIN tabs :
       \/ CloseTab(t)
       \/ \E reason \in SuspendReason : SuspendTab(t, reason)
       \/ ResumeTab(t)

LifecycleSpec == LifecycleInit /\ [][LifecycleNext]_lifecycleVars

-----------------------------------------------------------------------------
\* Every variable has the type the code declares for it.
LifecycleTypeOK ==
  /\ profiles \subseteq ProfileId
  /\ IsMap(tabs, TabId, TabRecord)
  /\ IsMap(renderers, RendererId, RendererSlot)
  /\ nextTab \in TabId
  /\ nextRenderer \in RendererId

\* The sharing rule of the scheduler (architecture section 3.4): two live tabs
\* are in one renderer if and only if both belong to the same Standard profile;
\* a Strict tab is alone.  Concerns schedule, attach_tab and every path that
\* adds or removes a tab.
SharingRule ==
  \A t, u \in DOMAIN tabs :
    t # u => ( tabs[t].renderer = tabs[u].renderer <=>
                 /\ tabs[t].profile = tabs[u].profile
                 /\ ModeOf(tabs[t].profile) = "Standard" )

\* The two tables lifecycle.rs keeps in step never disagree: a tab record names
\* a registered renderer of its own profile that lists the tab, and every tab a
\* renderer lists has a record that points back.  It is what makes the
\* `expect` of close_tab unreachable.
TablesAgree ==
  /\ \A t \in DOMAIN tabs :
       /\ DetachAccepted(renderers, tabs[t].renderer, t)
       /\ renderers[tabs[t].renderer].profile = tabs[t].profile
  /\ \A r \in DOMAIN renderers : \A t \in renderers[r].tabs :
       t \in DOMAIN tabs /\ tabs[t].renderer = r

\* A registered renderer always has a tab: close_tab and abort_spawn retire a
\* renderer with its last tab, so none is left for schedule to hand out.
NoIdleRenderer == \A r \in DOMAIN renderers : renderers[r].tabs # {}
=============================================================================
