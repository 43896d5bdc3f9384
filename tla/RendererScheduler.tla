------------------------- MODULE RendererScheduler -------------------------
(***************************************************************************)
(* The renderer scheduler of pb-identity (scheduler.rs): which renderer    *)
(* process a new tab goes to, and the tab set of every registered          *)
(* renderer.  The renderer table is a HashMap in the code and a function   *)
(* over the registered ids here.  Each operation is given as a guard that  *)
(* says when the code returns Ok, and as the table it leaves behind; a     *)
(* rejected call leaves the table as it was.                               *)
(***************************************************************************)
EXTENDS Naturals, FiniteSets, HashMap

CONSTANTS
  ProfileId,       \* the identity profiles of the installation
  StrictProfiles   \* those whose mode was built as Strict

ASSUME ProfileAssumption == StrictProfiles \subseteq ProfileId

VARIABLE renderers  \* registered renderer id -> slot

TabId == Nat \ {0}
RendererId == Nat \ {0}
Mode == {"Standard", "Strict"}

\* IdentityProfile::mode: fixed when the profile is built, there is no setter.
ModeOf(p) == IF p \in StrictProfiles THEN "Strict" ELSE "Standard"

RendererSlot == [profile : ProfileId, mode : Mode, tabs : SUBSET TabId]


-----------------------------------------------------------------------------
NeverReuse(p) == {}

\* schedule: the renderers a tab of profile p may be sent to.  Empty stands for
\* RendererDecision::SpawnNew; with several candidates the HashMap's iteration
\* order picks one.
Reusable(p) ==
  IF ModeOf(p) = "Strict" THEN {}
  ELSE {r \in DOMAIN renderers :
          renderers[r].mode = "Standard" /\ renderers[r].profile = p}

\* register_renderer.
Registered(table, r, p) ==
  IF r \in DOMAIN table THEN table
  ELSE Put(table, r, [profile |-> p, mode |-> ModeOf(p), tabs |-> {}])

\* attach_tab: the identity of the slot must be the tab's, a Strict slot must be
\* empty, and the tab must not be attached yet.
AttachAccepted(table, r, t, p) ==
  /\ r \in DOMAIN table
  /\ table[r].profile = p
  /\ table[r].mode = ModeOf(p)
  /\ table[r].mode = "Strict" => table[r].tabs = {}
  /\ t \notin table[r].tabs

Attached(table, r, t, p) ==
  IF AttachAccepted(table, r, t, p)
  THEN [table EXCEPT ![r].tabs = @ \cup {t}]
  ELSE table

\* detach_tab.
DetachAccepted(table, r, t) == r \in DOMAIN table /\ t \in table[r].tabs

Detached(table, r, t) ==
  IF DetachAccepted(table, r, t)
  THEN [table EXCEPT ![r].tabs = @ \ {t}]
  ELSE table

\* retire_renderer.
Retired(table, r) == Without(table, r)
=============================================================================
