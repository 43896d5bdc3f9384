-------------------------- MODULE TabOrchestration --------------------------
(***************************************************************************)
(* The spawn protocol of lifecycle.rs: the manager mutates its state and   *)
(* returns a ProcessAction or a CloseAction, the orchestrator carries it   *)
(* out at the OS level and calls abort_spawn when the OS spawn fails.  The *)
(* orchestrator is not in the repository, so its part is modelled from     *)
(* that protocol: tasks holding returned actions, and renderer processes.  *)
(***************************************************************************)
EXTENDS TabLifecycle

CONSTANT MaxPending  \* bound: no tab is opened while so many actions are held

ASSUME PendingAssumption == MaxPending \in Nat

VARIABLES
  todo,   \* actions returned by the manager and not carried out yet
  loaded  \* spawns and attaches carried out in the renderer processes that run

vars == <<renderers, profiles, tabs, nextTab, nextRenderer, todo, loaded>>

SpawnAction ==
  [kind : {"SpawnRenderer"}, renderer : RendererId, tab : TabId, profile : ProfileId]
AttachAction ==
  [kind : {"AttachToExisting"}, renderer : RendererId, tab : TabId, profile : ProfileId]
KillAction == [kind : {"KillRenderer"}, renderer : RendererId]

Running == {a.renderer : a \in loaded}

\* What renderer processes were told or will be told to load.
Grants == loaded \cup {a \in todo : a.kind # "KillRenderer"}

Init == LifecycleInit /\ todo = {} /\ loaded = {}

-----------------------------------------------------------------------------
(* The mutex is held during a call of the manager and not until the action *)
(* it returns is carried out, so calls and actions interleave freely.      *)

RegistryChange ==
  /\ \E p \in ProfileId : InsertProfile(p) \/ RemoveProfile(p)
  /\ UNCHANGED <<todo, loaded>>

\* A new tab: the action the manager returns is put on a task.
OpenTab(p) ==
  /\ Cardinality(todo) < MaxPending
  /\ UNCHANGED loaded
  /\ \/ /\ SpawnInNew(p)
        /\ todo' = todo \cup {[kind |-> "SpawnRenderer", renderer |-> nextRenderer,
                               tab |-> nextTab, profile |-> p]}
     \/ \E r \in DOMAIN renderers :
          /\ SpawnInExisting(p, r)
          /\ todo' = todo \cup {[kind |-> "AttachToExisting", renderer |-> r,
                                 tab |-> nextTab, profile |-> p]}

\* The close action close_tab returns: nothing more to do on DetachOnly, a
\* process to kill on DetachAndKillRenderer.
CloseActions(t) ==
  IF EmptiedBy(t) THEN {[kind |-> "KillRenderer", renderer |-> tabs[t].renderer]}
  ELSE {}

UserClosesTab(t) ==
  /\ CloseTab(t)
  /\ todo' = todo \cup CloseActions(t)
  /\ UNCHANGED loaded

UserSuspendsOrResumes(t) ==
  /\ (\E reason \in SuspendReason : SuspendTab(t, reason)) \/ ResumeTab(t)
  /\ UNCHANGED <<todo, loaded>>

OsSpawnSucceeds(a) ==
  /\ a.kind = "SpawnRenderer"
  /\ loaded' = loaded \cup {a}
  /\ todo' = todo \ {a}
  /\ UNCHANGED lifecycleVars

\* abort_spawn(tab), then the close action it returns; an unknown tab is an error
\* that changes nothing.
OsSpawnFails(a) ==
  /\ a.kind = "SpawnRenderer"
  /\ UNCHANGED loaded
  /\ IF a.tab \in DOMAIN tabs
     THEN CloseTab(a.tab) /\ todo' = (todo \ {a}) \cup CloseActions(a.tab)
     ELSE UNCHANGED lifecycleVars /\ todo' = todo \ {a}

\* The attach message reaches a running renderer.
AttachDelivered(a) ==
  /\ a.kind = "AttachToExisting"
  /\ a.renderer \in Running
  /\ loaded' = loaded \cup {a}
  /\ todo' = todo \ {a}
  /\ UNCHANGED lifecycleVars

KillProcess(a) ==
  /\ a.kind = "KillRenderer"
  /\ loaded' = {b \in loaded : b.renderer # a.renderer}
  /\ todo' = todo \ {a}
  /\ UNCHANGED lifecycleVars

Next ==
  \/ RegistryChange
  \/ \E p \in ProfileId : OpenTab(p)
  \/ \E t \in DOMAIN tabs : UserClosesTab(t) \/ UserSuspendsOrResumes(t)
  \/ \E a \in todo :
       OsSpawnSucceeds(a) \/ OsSpawnFails(a) \/ AttachDelivered(a) \/ KillProcess(a)

Spec == Init /\ [][Next]_vars

-----------------------------------------------------------------------------
\* Types of the manager and of the orchestrator's state.
TypeOK ==
  /\ LifecycleTypeOK
  /\ todo \subseteq SpawnAction \cup AttachAction \cup KillAction
  /\ loaded \subseteq SpawnAction \cup AttachAction

\* Whatever has been closed, aborted or reopened since an action was returned:
\* the tabs a process was ever given, or is still to be given, are all of one
\* Standard profile or are a single tab, and of the profile the scheduler has
\* the renderer under for as long as it knows it.  A Strict tab's process never
\* sees another tab, not even after that tab is closed (invariants 3.3 and 3.4
\* of lifecycle.rs, at the processes instead of the tables).
ProcessServesOneIdentity ==
  \A a \in Grants :
    /\ a.renderer \in DOMAIN renderers => renderers[a.renderer].profile = a.profile
    /\ \A b \in Grants \ {a} : a.renderer = b.renderer =>
                                 a.profile = b.profile /\ a.profile \notin StrictProfiles

\* A kill that is still held never hits a renderer that the scheduler would give
\* to a next tab or that a tab is in: the tab opened after the close that
\* returned it is in another renderer (DetachAndKillRenderer).
KillOnlyRetired ==
  \A a \in todo : a.kind = "KillRenderer" => a.renderer \notin DOMAIN renderers

\* Actions carried out late, in any order: no process is shared across
\* identities, and none is killed under a tab that lives in it.
LateActionsAreHarmless == ProcessServesOneIdentity /\ KillOnlyRetired

\* Every renderer the scheduler may hand out has a process that runs or is being
\* spawned (spawn protocol of lifecycle.rs, step 3).  It does not hold: see the
\* README on a second tab that attached before the spawn failed.
RegisteredRendererHasProcess ==
  DOMAIN renderers \subseteq
    Running \cup {a.renderer : a \in {b \in todo : b.kind = "SpawnRenderer"}}

\* An id that is gone never comes back: a tab or renderer that appears in a step
\* carries the counter's value, above every id used before (mint_tab,
\* mint_renderer), so an action still held by a task cannot hit a later tab.
IdsAreFresh ==
  [][ /\ \A t \in DOMAIN tabs' \ DOMAIN tabs : t >= nextTab /\ t < nextTab'
      /\ \A r \in DOMAIN renderers' \ DOMAIN renderers :
           r >= nextRenderer /\ r < nextRenderer'
      /\ nextTab' >= nextTab /\ nextRenderer' >= nextRenderer ]_vars

-----------------------------------------------------------------------------
\* The renderer table seen as the partition of the abstract specification.
Cohorts == {[profile |-> renderers[r].profile, tabs |-> renderers[r].tabs] :
              r \in DOMAIN renderers}

Isolation == INSTANCE IdentityIsolation WITH cohorts <- Cohorts

\* The lifecycle and the scheduler implement the abstract sharing specification:
\* whatever the interleaving of opens, closes, aborted spawns and registry
\* changes, renderers partition the live tabs as it says (spawn_tab, close_tab).
ImplementsIsolation == Isolation!Spec
=============================================================================
