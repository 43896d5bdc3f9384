------------------------ MODULE TabLifecycle_proofs ------------------------
(***************************************************************************)
(* For every set of profiles and every bound on tabs: the tables of the    *)
(* lifecycle manager and of the scheduler agree, and renderers are shared  *)
(* exactly as architecture section 3.4 allows.                             *)
(***************************************************************************)
EXTENDS TabOrchestration, TLAPS

\* Ids in use were minted: they are below the counters.
IdsMinted ==
  /\ \A t \in DOMAIN tabs : t < nextTab
  /\ \A r \in DOMAIN renderers : r < nextRenderer
  /\ \A r \in DOMAIN renderers : \A t \in renderers[r].tabs : t < nextTab

\* A slot keeps the mode its profile was built with, and a Strict slot holds one
\* tab at most.
SlotsWellFormed ==
  \A r \in DOMAIN renderers :
    /\ renderers[r].mode = ModeOf(renderers[r].profile)
    /\ renderers[r].mode = "Strict" =>
         \A t, u \in renderers[r].tabs : t = u

\* schedule never found it necessary to start a second renderer for a Standard
\* profile.
OneStandardRenderer ==
  \A r, s \in DOMAIN renderers :
    /\ renderers[r].mode = "Standard"
    /\ renderers[s].mode = "Standard"
    /\ renderers[r].profile = renderers[s].profile
    => r = s

IInv ==
  /\ LifecycleTypeOK
  /\ IdsMinted
  /\ SlotsWellFormed
  /\ OneStandardRenderer
  /\ TablesAgree
  /\ NoIdleRenderer

-----------------------------------------------------------------------------
\* A profile is Standard or Strict.
LEMMA ModeOfType == \A p : ModeOf(p) \in Mode
  BY DEF ModeOf, Mode

\* The inductive invariant contains the sharing rule.
LEMMA InvImpliesSharing == IInv => SharingRule
<1> SUFFICES ASSUME IInv, NEW t \in DOMAIN tabs, NEW u \in DOMAIN tabs, t # u
             PROVE  tabs[t].renderer = tabs[u].renderer <=>
                      /\ tabs[t].profile = tabs[u].profile
                      /\ ModeOf(tabs[t].profile) = "Standard"
  BY DEF SharingRule
<1> DEFINE r == tabs[t].renderer
           s == tabs[u].renderer
<1>1. /\ r \in DOMAIN renderers /\ t \in renderers[r].tabs
      /\ renderers[r].profile = tabs[t].profile
      /\ s \in DOMAIN renderers /\ u \in renderers[s].tabs
      /\ renderers[s].profile = tabs[u].profile
  BY DEF IInv, TablesAgree, DetachAccepted
<1>2. /\ renderers[r].mode = ModeOf(tabs[t].profile)
      /\ renderers[s].mode = ModeOf(tabs[u].profile)
  BY <1>1 DEF IInv, SlotsWellFormed
<1>3. ASSUME r = s PROVE /\ tabs[t].profile = tabs[u].profile
                         /\ ModeOf(tabs[t].profile) = "Standard"
  BY <1>1, <1>2, <1>3, ModeOfType DEF IInv, SlotsWellFormed, Mode
<1>4. ASSUME tabs[t].profile = tabs[u].profile, ModeOf(tabs[t].profile) = "Standard"
      PROVE  r = s
  BY <1>1, <1>2, <1>4 DEF IInv, OneStandardRenderer
<1> QED BY <1>3, <1>4

\* The manager starts with empty tables.
LEMMA InitInv == LifecycleInit => IInv
  BY DEF LifecycleInit, IInv, LifecycleTypeOK, IdsMinted, SlotsWellFormed,
         OneStandardRenderer, TablesAgree, NoIdleRenderer, IsMap, EmptyMap, TabId,
         RendererId

\* One property at a time, from the values the new record and slot take.
LEMMA ReuseKeepsInv ==
  ASSUME IInv, NEW p \in ProfileId, NEW r \in DOMAIN renderers, SpawnInExisting(p, r)
  PROVE  IInv'
<1> DEFINE new == NewRecord(p, r)
           slot == [renderers[r] EXCEPT !.tabs = @ \cup {nextTab}]
<1> USE DEF IInv
<1>1. /\ nextTab \in TabId /\ r \in RendererId /\ nextTab \in Nat
      /\ renderers[r] \in RendererSlot
      /\ renderers[r].mode = "Standard" /\ renderers[r].profile = p
      /\ ModeOf(p) = "Standard"
  BY DEF LifecycleTypeOK, IsMap, SpawnInExisting, Reusable, TabId, RendererId,
         SlotsWellFormed
<1>2. AttachAccepted(renderers, r, nextTab, p)
  BY <1>1 DEF AttachAccepted, IdsMinted
<1>3. /\ tabs' = Put(tabs, nextTab, new)
      /\ renderers' = [renderers EXCEPT ![r].tabs = @ \cup {nextTab}]
      /\ nextTab' = nextTab + 1 /\ nextRenderer' = nextRenderer
      /\ profiles' = profiles
  BY <1>2 DEF SpawnInExisting, Attached
<1>4. new \in TabRecord
  BY <1>1 DEF NewRecord, TabRecord, TabState, Reason
<1>5. /\ IsMap(tabs', TabId, TabRecord)
      /\ DOMAIN tabs' = DOMAIN tabs \cup {nextTab}
      /\ tabs'[nextTab] = new
      /\ \A t \in DOMAIN tabs : t # nextTab => tabs'[t] = tabs[t]
  <2>1. IsMap(tabs, TabId, TabRecord)
    BY DEF LifecycleTypeOK
  <2>2. tabs' = Put(tabs, nextTab, new)
    BY <1>3
  <2> HIDE DEF new, IInv
  <2>3. /\ IsMap(Put(tabs, nextTab, new), TabId, TabRecord)
        /\ DOMAIN Put(tabs, nextTab, new) = DOMAIN tabs \cup {nextTab}
        /\ Put(tabs, nextTab, new)[nextTab] = new
        /\ \A x \in DOMAIN tabs : x # nextTab => Put(tabs, nextTab, new)[x] = tabs[x]
    BY <1>1, <1>4, <2>1 DEF IsMap, Put
  <2> QED BY <2>2, <2>3
<1>6. nextTab \notin DOMAIN tabs
  BY <1>1 DEF IdsMinted
<1>7. /\ slot \in RendererSlot
      /\ slot.tabs = renderers[r].tabs \cup {nextTab}
      /\ slot.profile = renderers[r].profile /\ slot.mode = renderers[r].mode
  BY <1>1 DEF RendererSlot
<1>8. /\ DOMAIN renderers' = DOMAIN renderers
      /\ renderers'[r] = slot
      /\ \A s \in DOMAIN renderers : s # r => renderers'[s] = renderers[s]
      /\ IsMap(renderers', RendererId, RendererSlot)
  BY <1>3, <1>7 DEF LifecycleTypeOK, IsMap
<1>9. LifecycleTypeOK'
  BY <1>1, <1>3, <1>5, <1>8 DEF LifecycleTypeOK, TabId
<1>10. IdsMinted'
  BY <1>1, <1>3, <1>5, <1>7, <1>8 DEF IdsMinted, LifecycleTypeOK, IsMap, TabId,
     RendererSlot
<1> DEFINE Alike(s) == /\ renderers'[s].profile = renderers[s].profile
                       /\ renderers'[s].mode = renderers[s].mode
\* Only the tabs of the renderer change, and it is a Standard one.
<1>10a. \A s \in DOMAIN renderers : Alike(s)
  BY <1>7, <1>8, Zenon
<1>10b. \A s \in DOMAIN renderers : renderers[s].mode = "Strict" =>
                                     renderers'[s].tabs = renderers[s].tabs
  <2>1. renderers[r].mode # "Strict"
    BY <1>1
  <2> QED BY <1>8, <2>1, Zenon
<1> HIDE DEF slot, new
<1>11. SlotsWellFormed'
  <2>1. SlotsWellFormed
    OBVIOUS
  <2> HIDE DEF IInv
  <2>2. ASSUME NEW s \in DOMAIN renderers'
        PROVE  /\ renderers'[s].mode = ModeOf(renderers'[s].profile)
               /\ renderers'[s].mode = "Strict" => \A t, u \in renderers'[s].tabs : t = u
    <3>1. s \in DOMAIN renderers /\ Alike(s)
      BY <1>8, <1>10a, Zenon
    <3> HIDE DEF ModeOf
    <3>2. /\ renderers[s].mode = ModeOf(renderers[s].profile)
          /\ renderers[s].mode = "Strict" => \A t, u \in renderers[s].tabs : t = u
      BY <2>1, <3>1, Zenon DEF SlotsWellFormed
    <3> QED BY <1>10b, <3>1, <3>2, Zenon
  <2> QED BY <2>2, Zenon DEF SlotsWellFormed
<1>12. OneStandardRenderer'
  <2>1. OneStandardRenderer
    OBVIOUS
  <2> HIDE DEF IInv
  <2> QED BY <1>8, <1>10a, <2>1, Zenon DEF OneStandardRenderer
<1> USE DEF slot, new
<1>13. TablesAgree'
  <2>1. new.renderer = r /\ new.profile = p
    BY DEF NewRecord
  <2>2. TablesAgree
    OBVIOUS
  <2> HIDE DEF new, slot, IInv
  <2>3. ASSUME NEW t \in DOMAIN tabs'
        PROVE  /\ tabs'[t].renderer \in DOMAIN renderers'
               /\ t \in renderers'[tabs'[t].renderer].tabs
               /\ renderers'[tabs'[t].renderer].profile = tabs'[t].profile
    <3>1. CASE t = nextTab
      BY <1>1, <1>5, <1>7, <1>8, <2>1, <3>1
    <3>2. CASE t \in DOMAIN tabs /\ t # nextTab
      <4>1. tabs'[t] = tabs[t]
        BY <1>5, <3>2
      <4>2. /\ tabs[t].renderer \in DOMAIN renderers
            /\ t \in renderers[tabs[t].renderer].tabs
            /\ renderers[tabs[t].renderer].profile = tabs[t].profile
        BY <2>2, <3>2 DEF TablesAgree, DetachAccepted
      <4> QED BY <1>7, <1>8, <4>1, <4>2
    <3> QED BY <1>5, <3>1, <3>2
  <2>4. ASSUME NEW s \in DOMAIN renderers', NEW t \in renderers'[s].tabs
        PROVE  t \in DOMAIN tabs' /\ tabs'[t].renderer = s
    <3>1. CASE s = r /\ t = nextTab
      BY <1>5, <2>1, <3>1
    <3>2. CASE ~(s = r /\ t = nextTab)
      <4>1. s \in DOMAIN renderers /\ t \in renderers[s].tabs
        BY <1>7, <1>8, <3>2
      <4>2. t \in DOMAIN tabs /\ tabs[t].renderer = s
        BY <2>2, <4>1 DEF TablesAgree
      <4> QED BY <1>5, <1>6, <4>2
    <3> QED BY <3>1, <3>2
  <2> QED BY <2>3, <2>4 DEF TablesAgree, DetachAccepted
<1>14. NoIdleRenderer'
  BY <1>7, <1>8 DEF NoIdleRenderer
<1> QED BY <1>9, <1>10, <1>11, <1>12, <1>13, <1>14

\* A tab with a process of its own.
LEMMA SpawnNewKeepsInv ==
  ASSUME IInv, NEW p \in ProfileId, SpawnInNew(p)
  PROVE  IInv'
<1> DEFINE r == nextRenderer
           new == NewRecord(p, r)
           empty == [profile |-> p, mode |-> ModeOf(p), tabs |-> {}]
           slot == [profile |-> p, mode |-> ModeOf(p), tabs |-> {nextTab}]
           table == Put(renderers, r, empty)
<1> USE DEF IInv
<1>1. /\ nextTab \in TabId /\ r \in RendererId /\ nextTab \in Nat /\ r \in Nat
      /\ empty \in RendererSlot /\ slot \in RendererSlot
      /\ new \in TabRecord
      /\ new.renderer = r /\ new.profile = p
  BY ModeOfType DEF LifecycleTypeOK, TabId, RendererId, RendererSlot, NewRecord, TabRecord,
     TabState, Reason
<1>2. r \notin DOMAIN renderers /\ nextTab \notin DOMAIN tabs
  BY <1>1 DEF IdsMinted
<1>3. Registered(renderers, r, p) = table
  BY <1>2 DEF Registered
<1>4. /\ IsMap(tabs, TabId, TabRecord) /\ IsMap(renderers, RendererId, RendererSlot)
      /\ profiles \subseteq ProfileId
  BY DEF LifecycleTypeOK
<1>5. /\ IsMap(table, RendererId, RendererSlot)
      /\ DOMAIN table = DOMAIN renderers \cup {r}
      /\ table[r] = empty
      /\ \A s \in DOMAIN renderers : s # r => table[s] = renderers[s]
  <2> HIDE DEF r, empty
  <2> QED BY <1>1, <1>4 DEF IsMap, Put
<1>6. AttachAccepted(table, r, nextTab, p)
  BY <1>5 DEF AttachAccepted
<1>7. /\ tabs' = Put(tabs, nextTab, new)
      /\ renderers' = [table EXCEPT ![r].tabs = @ \cup {nextTab}]
      /\ nextTab' = nextTab + 1 /\ nextRenderer' = nextRenderer + 1
      /\ profiles' = profiles
  BY <1>3, <1>6 DEF SpawnInNew, Attached
<1>8. /\ IsMap(tabs', TabId, TabRecord)
      /\ DOMAIN tabs' = DOMAIN tabs \cup {nextTab}
      /\ tabs'[nextTab] = new
      /\ \A t \in DOMAIN tabs : t # nextTab => tabs'[t] = tabs[t]
  <2> HIDE DEF new, IInv
  <2> QED BY <1>1, <1>4, <1>7 DEF IsMap, Put
<1>9. /\ IsMap(renderers', RendererId, RendererSlot)
      /\ DOMAIN renderers' = DOMAIN renderers \cup {r}
      /\ renderers'[r] = slot
      /\ \A s \in DOMAIN renderers : renderers'[s] = renderers[s]
  <2>1. [table[r] EXCEPT !.tabs = @ \cup {nextTab}] = slot
    BY <1>5
  <2> HIDE DEF table, r, slot, IInv
  <2> QED BY <1>1, <1>2, <1>5, <1>7, <2>1 DEF IsMap
<1>10. /\ slot.profile = p /\ slot.mode = ModeOf(p) /\ slot.tabs = {nextTab}
  OBVIOUS
<1> HIDE DEF slot, new, table, empty
<1>11. LifecycleTypeOK'
  BY <1>1, <1>4, <1>7, <1>8, <1>9 DEF LifecycleTypeOK, TabId, RendererId
<1>12. IdsMinted'
  <2>1. \A s \in DOMAIN renderers : renderers[s].tabs \subseteq Nat /\ s \in Nat
    BY <1>4 DEF IsMap, RendererSlot, TabId, RendererId
  <2>2. \A t \in DOMAIN tabs : t \in Nat
    BY <1>4 DEF IsMap, TabId
  <2>3. \A x \in Nat : x < nextTab => x < nextTab'
    BY <1>1, <1>7
  <2>4. \A x \in Nat : x < nextRenderer => x < nextRenderer'
    BY <1>1, <1>7
  <2>5. nextTab < nextTab' /\ r < nextRenderer'
    BY <1>1, <1>7
  <2>6. IdsMinted
    OBVIOUS
  <2> HIDE DEF IInv, r
  <2>7. \A u \in DOMAIN tabs' : u < nextTab'
    BY <1>8, <2>2, <2>3, <2>5, <2>6 DEF IdsMinted
  <2>8. \A s \in DOMAIN renderers' : s < nextRenderer'
    BY <1>9, <2>1, <2>4, <2>5, <2>6 DEF IdsMinted, r
  <2>9. ASSUME NEW s \in DOMAIN renderers', NEW u \in renderers'[s].tabs
        PROVE  u < nextTab'
    <3>1. CASE s = r
      BY <1>9, <1>10, <2>5, <3>1
    <3>2. CASE s # r
      BY <1>9, <2>1, <2>3, <2>6, <3>2 DEF IdsMinted
    <3> QED BY <3>1, <3>2
  <2> QED BY <2>7, <2>8, <2>9 DEF IdsMinted
<1>13. SlotsWellFormed'
  BY <1>9, <1>10 DEF SlotsWellFormed
<1>14. OneStandardRenderer'
  <2>1. \A s \in DOMAIN renderers :
          renderers[s].mode = "Standard" /\ renderers[s].profile = p
            => slot.mode # "Standard"
    BY <1>10 DEF SpawnInNew, Reusable
  <2> QED BY <1>9, <1>10, <2>1 DEF OneStandardRenderer
<1>15. TablesAgree'
  <2>1. TablesAgree
    OBVIOUS
  <2> HIDE DEF IInv
  <2>2. ASSUME NEW t \in DOMAIN tabs'
        PROVE  /\ tabs'[t].renderer \in DOMAIN renderers'
               /\ t \in renderers'[tabs'[t].renderer].tabs
               /\ renderers'[tabs'[t].renderer].profile = tabs'[t].profile
    BY <1>1, <1>2, <1>8, <1>9, <1>10, <2>1 DEF TablesAgree, DetachAccepted
  <2>3. ASSUME NEW s \in DOMAIN renderers', NEW t \in renderers'[s].tabs
        PROVE  t \in DOMAIN tabs' /\ tabs'[t].renderer = s
    BY <1>1, <1>2, <1>8, <1>9, <1>10, <2>1 DEF TablesAgree
  <2> QED BY <2>2, <2>3 DEF TablesAgree, DetachAccepted
<1>16. NoIdleRenderer'
  BY <1>9, <1>10 DEF NoIdleRenderer
<1> QED BY <1>11, <1>12, <1>13, <1>14, <1>15, <1>16

\* Closing a tab, and its process with the last one.
LEMMA CloseKeepsInv ==
  ASSUME IInv, NEW t \in DOMAIN tabs, CloseTab(t)
  PROVE  IInv'
<1> DEFINE r == tabs[t].renderer
           slot == [renderers[r] EXCEPT !.tabs = @ \ {t}]
           table == [renderers EXCEPT ![r].tabs = @ \ {t}]
<1>1. /\ IsMap(tabs, TabId, TabRecord) /\ IsMap(renderers, RendererId, RendererSlot)
      /\ profiles \subseteq ProfileId /\ nextTab \in TabId /\ nextRenderer \in RendererId
  BY DEF IInv, LifecycleTypeOK
<1>2. /\ DetachAccepted(renderers, r, t) /\ r \in DOMAIN renderers
      /\ t \in renderers[r].tabs
  BY DEF IInv, TablesAgree, DetachAccepted
<1>3. /\ tabs' = Without(tabs, t)
      /\ nextTab' = nextTab /\ nextRenderer' = nextRenderer /\ profiles' = profiles
      /\ renderers' = IF renderers[r].tabs = {t} THEN Without(table, r) ELSE table
  BY <1>2 DEF CloseTab, Detached, EmptiedBy, Retired
<1>4. /\ IsMap(tabs', TabId, TabRecord)
      /\ DOMAIN tabs' = DOMAIN tabs \ {t}
      /\ \A u \in DOMAIN tabs : u # t => tabs'[u] = tabs[u]
  BY <1>1, <1>3 DEF IsMap, Without, Restrict
<1>5. /\ slot \in RendererSlot
      /\ slot.tabs = renderers[r].tabs \ {t}
      /\ slot.profile = renderers[r].profile /\ slot.mode = renderers[r].mode
  BY <1>1, <1>2 DEF IsMap, RendererSlot
<1>6. /\ IsMap(table, RendererId, RendererSlot)
      /\ DOMAIN table = DOMAIN renderers
      /\ table[r] = slot
      /\ \A s \in DOMAIN renderers : s # r => table[s] = renderers[s]
  BY <1>1, <1>2, <1>5 DEF IsMap
<1>7. /\ IsMap(renderers', RendererId, RendererSlot)
      /\ DOMAIN renderers' \subseteq DOMAIN renderers
      /\ \A s \in DOMAIN renderers' : s # r => renderers'[s] = renderers[s]
      /\ r \in DOMAIN renderers' => renderers'[r] = slot /\ renderers[r].tabs # {t}
      /\ \A s \in DOMAIN renderers : s # r => s \in DOMAIN renderers'
      /\ renderers[r].tabs # {t} => r \in DOMAIN renderers'
  <2> HIDE DEF table, slot, r
  <2>1. /\ IsMap(Without(table, r), RendererId, RendererSlot)
        /\ DOMAIN Without(table, r) = DOMAIN table \ {r}
        /\ \A x \in DOMAIN table : x # r => Without(table, r)[x] = table[x]
    BY <1>6 DEF IsMap, Without, Restrict
  <2>2. CASE renderers[r].tabs = {t}
    BY <1>2, <1>3, <1>6, <2>1, <2>2
  <2>3. CASE renderers[r].tabs # {t}
    <3>1. renderers' = table
      BY <1>3, <2>3
    <3> QED BY <1>2, <1>6, <2>3, <3>1
  <2> QED BY <2>2, <2>3
<1> HIDE DEF slot, table
<1>8. LifecycleTypeOK'
  BY <1>1, <1>3, <1>4, <1>7 DEF LifecycleTypeOK
<1>9. IdsMinted'
  BY <1>3, <1>4, <1>5, <1>7 DEF IInv, IdsMinted
<1>10. SlotsWellFormed'
  BY <1>5, <1>7 DEF IInv, SlotsWellFormed
<1>11. OneStandardRenderer'
  BY <1>5, <1>7 DEF IInv, OneStandardRenderer
<1>12. TablesAgree'
  <2>1. TablesAgree
    BY DEF IInv
  <2>2. ASSUME NEW u \in DOMAIN tabs'
        PROVE  /\ tabs'[u].renderer \in DOMAIN renderers'
               /\ u \in renderers'[tabs'[u].renderer].tabs
               /\ renderers'[tabs'[u].renderer].profile = tabs'[u].profile
    <3>1. u \in DOMAIN tabs /\ u # t /\ tabs'[u] = tabs[u]
      BY <1>4
    <3>2. /\ tabs[u].renderer \in DOMAIN renderers
          /\ u \in renderers[tabs[u].renderer].tabs
          /\ renderers[tabs[u].renderer].profile = tabs[u].profile
      BY <2>1, <3>1 DEF TablesAgree, DetachAccepted
    <3> QED BY <1>2, <1>5, <1>7, <3>1, <3>2
  <2>3. ASSUME NEW s \in DOMAIN renderers', NEW u \in renderers'[s].tabs
        PROVE  u \in DOMAIN tabs' /\ tabs'[u].renderer = s
    <3>1. s \in DOMAIN renderers /\ u \in renderers[s].tabs
      BY <1>5, <1>7
    <3>2. u \in DOMAIN tabs /\ tabs[u].renderer = s
      BY <2>1, <3>1 DEF TablesAgree
    <3>3. u # t
      BY <1>5, <1>7, <3>2
    <3> QED BY <1>4, <3>2, <3>3
  <2> QED BY <2>2, <2>3 DEF TablesAgree, DetachAccepted
<1>13. NoIdleRenderer'
  BY <1>2, <1>5, <1>7 DEF IInv, NoIdleRenderer
<1> QED BY <1>8, <1>9, <1>10, <1>11, <1>12, <1>13 DEF IInv

\* Suspending, resuming and changing the registry leave bindings alone.
LEMMA StateChangeKeepsInv ==
  ASSUME IInv, NEW t \in DOMAIN tabs,
         NEW state \in TabState, NEW reason \in Reason,
         tabs' = [tabs EXCEPT ![t].state = state, ![t].reason = reason],
         UNCHANGED <<renderers, profiles, nextTab, nextRenderer>>
  PROVE  IInv'
<1>1. /\ IsMap(tabs', TabId, TabRecord)
      /\ DOMAIN tabs' = DOMAIN tabs
      /\ \A u \in DOMAIN tabs : /\ tabs'[u].renderer = tabs[u].renderer
                                /\ tabs'[u].profile = tabs[u].profile
  BY DEF IInv, LifecycleTypeOK, IsMap, TabRecord
<1>2. LifecycleTypeOK'
  BY <1>1 DEF IInv, LifecycleTypeOK
<1>3. IdsMinted' /\ SlotsWellFormed' /\ OneStandardRenderer' /\ NoIdleRenderer'
  BY <1>1 DEF IInv, IdsMinted, SlotsWellFormed, OneStandardRenderer, NoIdleRenderer
<1>4. TablesAgree'
  BY <1>1 DEF IInv, TablesAgree, DetachAccepted
<1> QED BY <1>2, <1>3, <1>4 DEF IInv

\* Every operation of the manager keeps the invariant.
LEMMA NextKeepsInv == IInv /\ [LifecycleNext]_lifecycleVars => IInv'
<1> SUFFICES ASSUME IInv, [LifecycleNext]_lifecycleVars PROVE IInv'
  OBVIOUS
<1>1. ASSUME NEW p \in ProfileId, InsertProfile(p) \/ RemoveProfile(p) PROVE IInv'
  BY <1>1 DEF InsertProfile, RemoveProfile, IInv, LifecycleTypeOK, IdsMinted,
     SlotsWellFormed, OneStandardRenderer, TablesAgree, DetachAccepted, NoIdleRenderer
<1>2. ASSUME NEW p \in ProfileId, SpawnTab(p) PROVE IInv'
  BY <1>2, ReuseKeepsInv, SpawnNewKeepsInv DEF SpawnTab
<1>3. ASSUME NEW t \in DOMAIN tabs, CloseTab(t) PROVE IInv'
  BY <1>3, CloseKeepsInv
<1>4. ASSUME NEW t \in DOMAIN tabs, NEW reason \in SuspendReason, SuspendTab(t, reason)
      PROVE  IInv'
  BY <1>4, StateChangeKeepsInv DEF SuspendTab, TabState, Reason
<1>5. ASSUME NEW t \in DOMAIN tabs, ResumeTab(t) PROVE IInv'
  BY <1>5, StateChangeKeepsInv DEF ResumeTab, TabState, Reason
<1>6. CASE UNCHANGED lifecycleVars
  BY <1>6 DEF lifecycleVars, IInv, LifecycleTypeOK, IdsMinted, SlotsWellFormed,
     OneStandardRenderer, TablesAgree, DetachAccepted, NoIdleRenderer
<1> QED BY <1>1, <1>2, <1>3, <1>4, <1>5, <1>6 DEF LifecycleNext

\* Every reachable state of the lifecycle manager satisfies the inductive
\* invariant: types, minted ids, slots that keep their identity, one renderer
\* per Standard profile, tables in step, no idle renderer (lifecycle.rs).
THEOREM LifecycleInvariant == LifecycleSpec => []IInv
<1>1. LifecycleInit => IInv
  BY InitInv
<1>2. IInv /\ [LifecycleNext]_lifecycleVars => IInv'
  BY NextKeepsInv
<1> QED BY <1>1, <1>2, PTL DEF LifecycleSpec

\* The renderer sharing rule of architecture section 3.4 holds in every
\* reachable state, for every set of profiles (schedule, attach_tab, close_tab).
THEOREM SharingRuleHolds == LifecycleSpec => []SharingRule
  BY LifecycleInvariant, InvImpliesSharing, PTL

\* The tab records and the scheduler's slots never disagree, so the lookup after
\* the detach in close_tab cannot fail.
THEOREM TablesAgreeHolds == LifecycleSpec => []TablesAgree
<1>1. IInv => TablesAgree
  BY DEF IInv
<1> QED BY <1>1, LifecycleInvariant, PTL
-----------------------------------------------------------------------------
(* The orchestrator.  A step of its specification is a step of the         *)
(* manager's, or leaves the manager alone.                                 *)

\* Every call the orchestrator makes is a call the manager accepts, and carrying
\* out an action touches nothing of the manager.
LEMMA StepIsLifecycleStep == Next => LifecycleNext \/ UNCHANGED lifecycleVars
<1>1. RegistryChange => LifecycleNext
  BY DEF RegistryChange, LifecycleNext
<1>2. ASSUME NEW p \in ProfileId, OpenTab(p) PROVE LifecycleNext
  BY <1>2 DEF OpenTab, LifecycleNext, SpawnTab
<1>3. ASSUME NEW t \in DOMAIN tabs, UserClosesTab(t) \/ UserSuspendsOrResumes(t)
      PROVE  LifecycleNext
  BY <1>3 DEF UserClosesTab, UserSuspendsOrResumes, LifecycleNext
<1>4. ASSUME NEW a \in todo, OsSpawnFails(a)
      PROVE  LifecycleNext \/ UNCHANGED lifecycleVars
  BY <1>4 DEF OsSpawnFails, LifecycleNext
<1>5. ASSUME NEW a \in todo, OsSpawnSucceeds(a) \/ AttachDelivered(a) \/ KillProcess(a)
      PROVE  UNCHANGED lifecycleVars
  BY <1>5 DEF OsSpawnSucceeds, AttachDelivered, KillProcess
<1> QED BY <1>1, <1>2, <1>3, <1>4, <1>5 DEF Next

\* Nothing happens to the tables when nothing happens.
LEMMA StutterOfAll == UNCHANGED vars => UNCHANGED lifecycleVars
  BY DEF vars, lifecycleVars

\* The manager keeps its invariant whatever the orchestrator does.
LEMMA ManagerInvariant == Spec => []IInv
<1>1. Init => IInv
  BY InitInv DEF Init
<1>2. IInv /\ [Next]_vars => IInv'
  BY StepIsLifecycleStep, StutterOfAll, NextKeepsInv
<1> QED BY <1>1, <1>2, PTL DEF Spec

-----------------------------------------------------------------------------
(* What the calls of the manager do to the renderer table.                 *)

\* lifecycle.rs, spawn without a process to share: one tab and one process more.
LEMMA NewRendererEffect ==
  ASSUME IInv, NEW p \in ProfileId, SpawnInNew(p)
  PROVE  /\ nextRenderer \notin DOMAIN renderers
         /\ nextTab \notin DOMAIN tabs
         /\ DOMAIN renderers' = DOMAIN renderers \cup {nextRenderer}
         /\ renderers'[nextRenderer].profile = p
         /\ renderers'[nextRenderer].tabs = {nextTab}
         /\ \A s \in DOMAIN renderers : renderers'[s] = renderers[s]
         /\ DOMAIN tabs' = DOMAIN tabs \cup {nextTab}
         /\ tabs'[nextTab].renderer = nextRenderer
         /\ nextTab' = nextTab + 1 /\ nextRenderer' = nextRenderer + 1
<1> DEFINE r == nextRenderer
           empty == [profile |-> p, mode |-> ModeOf(p), tabs |-> {}]
           table == Put(renderers, r, empty)
<1>1. r \notin DOMAIN renderers /\ nextTab \notin DOMAIN tabs
  BY DEF IInv, LifecycleTypeOK, IdsMinted, TabId, RendererId
<1>2. /\ DOMAIN table = DOMAIN renderers \cup {r}
      /\ table[r] = empty
      /\ \A s \in DOMAIN renderers : table[s] = renderers[s]
  <2> HIDE DEF r, empty
  <2> QED BY <1>1 DEF Put
<1>3. Registered(renderers, r, p) = table
  BY <1>1 DEF Registered
<1>4. AttachAccepted(table, r, nextTab, p)
  BY <1>2 DEF AttachAccepted
<1> HIDE DEF table
<1>5. /\ renderers' = [table EXCEPT ![r].tabs = @ \cup {nextTab}]
      /\ tabs' = Put(tabs, nextTab, NewRecord(p, r))
      /\ nextTab' = nextTab + 1 /\ nextRenderer' = nextRenderer + 1
  BY <1>3, <1>4 DEF SpawnInNew, Attached
<1>6. DOMAIN tabs' = DOMAIN tabs \cup {nextTab} /\ tabs'[nextTab].renderer = r
  BY <1>5 DEF Put, NewRecord
<1> QED BY <1>1, <1>2, <1>5, <1>6

\* lifecycle.rs, spawn into a process: the tab joins those of its profile.
LEMMA ReuseEffect ==
  ASSUME IInv, NEW p \in ProfileId, NEW r \in DOMAIN renderers, SpawnInExisting(p, r)
  PROVE  /\ p \notin StrictProfiles
         /\ renderers[r].profile = p
         /\ renderers' = [renderers EXCEPT ![r].tabs = @ \cup {nextTab}]
         /\ nextTab \notin DOMAIN tabs
         /\ DOMAIN tabs' = DOMAIN tabs \cup {nextTab}
         /\ nextTab' = nextTab + 1 /\ nextRenderer' = nextRenderer
<1>1. /\ renderers[r].mode = "Standard" /\ renderers[r].profile = p
      /\ ModeOf(p) = "Standard" /\ p \notin StrictProfiles
  BY DEF SpawnInExisting, Reusable, IInv, SlotsWellFormed, ModeOf
<1>2. AttachAccepted(renderers, r, nextTab, p) /\ nextTab \notin DOMAIN tabs
  BY <1>1 DEF AttachAccepted, IdsMinted, IInv, LifecycleTypeOK, TabId
<1>3. /\ renderers' = [renderers EXCEPT ![r].tabs = @ \cup {nextTab}]
      /\ tabs' = Put(tabs, nextTab, NewRecord(p, r))
      /\ nextTab' = nextTab + 1 /\ nextRenderer' = nextRenderer
  BY <1>2 DEF SpawnInExisting, Attached
<1> QED BY <1>1, <1>2, <1>3 DEF Put

\* lifecycle.rs, close_tab: the tab leaves, and the process with its last one.
LEMMA CloseEffect ==
  ASSUME IInv, NEW t \in DOMAIN tabs, CloseTab(t)
  PROVE  LET r == tabs[t].renderer
         IN  /\ r \in DOMAIN renderers
             /\ t \in renderers[r].tabs
             /\ EmptiedBy(t) <=> renderers[r].tabs = {t}
             /\ EmptiedBy(t) => DOMAIN renderers' = DOMAIN renderers \ {r}
             /\ ~EmptiedBy(t) => /\ DOMAIN renderers' = DOMAIN renderers
                                 /\ renderers'[r] = [renderers[r] EXCEPT !.tabs = @ \ {t}]
             /\ \A s \in DOMAIN renderers \ {r} : renderers'[s] = renderers[s]
             /\ DOMAIN tabs' = DOMAIN tabs \ {t}
             /\ nextTab' = nextTab /\ nextRenderer' = nextRenderer
<1> DEFINE r == tabs[t].renderer
           table == [renderers EXCEPT ![r].tabs = @ \ {t}]
<1>1. /\ r \in DOMAIN renderers /\ t \in renderers[r].tabs
      /\ EmptiedBy(t) <=> renderers[r].tabs = {t}
  BY DEF IInv, TablesAgree, DetachAccepted, EmptiedBy
<1>2. /\ tabs' = Without(tabs, t)
      /\ renderers' = IF EmptiedBy(t) THEN Without(table, r) ELSE table
      /\ nextTab' = nextTab /\ nextRenderer' = nextRenderer
  BY <1>1 DEF CloseTab, Detached, DetachAccepted, Retired
<1>3. DOMAIN tabs' = DOMAIN tabs \ {t}
  BY <1>2 DEF Without, Restrict
<1>4. /\ DOMAIN table = DOMAIN renderers
      /\ table[r] = [renderers[r] EXCEPT !.tabs = @ \ {t}]
      /\ \A s \in DOMAIN renderers \ {r} : table[s] = renderers[s]
  BY <1>1
<1> HIDE DEF table
<1>5. /\ DOMAIN Without(table, r) = DOMAIN renderers \ {r}
      /\ \A s \in DOMAIN renderers \ {r} : Without(table, r)[s] = renderers[s]
  BY <1>4 DEF Without, Restrict
<1> QED BY <1>1, <1>2, <1>3, <1>4, <1>5
-----------------------------------------------------------------------------
(* The actions that tasks hold, and what the processes were given.         *)

\* A held kill names a renderer that was minted and is gone.
HeldActionsSound ==
  /\ todo \subseteq SpawnAction \cup AttachAction \cup KillAction
  /\ loaded \subseteq SpawnAction \cup AttachAction
  /\ \A a \in todo : a.kind = "KillRenderer" =>
       a.renderer < nextRenderer /\ a.renderer \notin DOMAIN renderers

\* A grant names a tab and a renderer that were minted, whatever became of them.
GrantsMinted == \A a \in Grants : a.renderer < nextRenderer /\ a.tab < nextTab

HeldInv == IInv /\ HeldActionsSound /\ GrantsMinted /\ ProcessServesOneIdentity

\* What was handed out is below the counters.
LEMMA CountersAreIds ==
  IInv => /\ nextTab \in TabId /\ nextRenderer \in RendererId
          /\ DOMAIN renderers \subseteq RendererId
          /\ DOMAIN tabs \subseteq TabId
          /\ \A r \in DOMAIN renderers : r < nextRenderer
          /\ \A t \in DOMAIN tabs : t < nextTab
          /\ \A t \in DOMAIN tabs : tabs[t].renderer \in DOMAIN renderers
  BY DEF IInv, LifecycleTypeOK, IsMap, IdsMinted, TablesAgree, DetachAccepted

\* The action OpenTab adds: a grant for the minted tab, in a renderer that is
\* new or that the scheduler has under the same Standard profile.
LEMMA OpenGrants ==
  ASSUME HeldInv, NEW p \in ProfileId, OpenTab(p)
  PROVE  \E b \in SpawnAction \cup AttachAction :
           /\ todo' = todo \cup {b} /\ loaded' = loaded
           /\ b.tab = nextTab /\ b.profile = p
           /\ nextTab' = nextTab + 1 /\ nextRenderer' >= nextRenderer /\ nextRenderer' \in Nat
           /\ b.renderer < nextRenderer'
           /\ DOMAIN renderers' = DOMAIN renderers \cup {b.renderer}
           /\ \A r \in DOMAIN renderers : renderers'[r].profile = renderers[r].profile
           /\ renderers'[b.renderer].profile = p
           /\ \/ b.renderer = nextRenderer
              \/ b.renderer \in DOMAIN renderers /\ p \notin StrictProfiles
<1>1. /\ nextTab \in TabId /\ nextRenderer \in RendererId
      /\ DOMAIN renderers \subseteq RendererId
      /\ \A r \in DOMAIN renderers : r < nextRenderer
  BY CountersAreIds DEF HeldInv
<1>2. CASE /\ SpawnInNew(p)
           /\ todo' = todo \cup {[kind |-> "SpawnRenderer", renderer |-> nextRenderer,
                                  tab |-> nextTab, profile |-> p]}
  <2> DEFINE b == [kind |-> "SpawnRenderer", renderer |-> nextRenderer, tab |-> nextTab,
                   profile |-> p]
  <2>1. /\ b \in SpawnAction /\ b.renderer = nextRenderer
        /\ b.tab = nextTab /\ b.profile = p /\ todo' = todo \cup {b}
    BY <1>1, <1>2 DEF SpawnAction
  <2>2. /\ DOMAIN renderers' = DOMAIN renderers \cup {nextRenderer}
        /\ renderers'[nextRenderer].profile = p
        /\ \A s \in DOMAIN renderers : renderers'[s] = renderers[s]
        /\ nextTab' = nextTab + 1 /\ nextRenderer' = nextRenderer + 1
    BY <1>2, NewRendererEffect DEF HeldInv
  <2>3. /\ nextRenderer < nextRenderer' /\ nextRenderer' >= nextRenderer
        /\ nextRenderer' \in Nat
    BY <1>1, <2>2 DEF RendererId
  <2>4. loaded' = loaded
    BY DEF OpenTab
  <2> HIDE DEF b
  <2> QED BY <2>1, <2>2, <2>3, <2>4
<1>3. ASSUME NEW r \in DOMAIN renderers, SpawnInExisting(p, r),
             todo' = todo \cup {[kind |-> "AttachToExisting", renderer |-> r,
                                 tab |-> nextTab, profile |-> p]}
      PROVE  \E b \in SpawnAction \cup AttachAction :
               /\ todo' = todo \cup {b} /\ loaded' = loaded
               /\ b.tab = nextTab /\ b.profile = p
               /\ nextTab' = nextTab + 1 /\ nextRenderer' >= nextRenderer /\ nextRenderer' \in Nat
               /\ b.renderer < nextRenderer'
               /\ DOMAIN renderers' = DOMAIN renderers \cup {b.renderer}
               /\ \A s \in DOMAIN renderers : renderers'[s].profile = renderers[s].profile
               /\ renderers'[b.renderer].profile = p
               /\ \/ b.renderer = nextRenderer
                  \/ b.renderer \in DOMAIN renderers /\ p \notin StrictProfiles
  <2> DEFINE b == [kind |-> "AttachToExisting", renderer |-> r, tab |-> nextTab,
                   profile |-> p]
  <2>1. /\ b \in AttachAction /\ b.renderer = r
        /\ b.tab = nextTab /\ b.profile = p /\ todo' = todo \cup {b}
    BY <1>1, <1>3 DEF AttachAction
  <2>2. /\ p \notin StrictProfiles /\ renderers[r].profile = p
        /\ renderers' = [renderers EXCEPT ![r].tabs = @ \cup {nextTab}]
        /\ nextTab' = nextTab + 1 /\ nextRenderer' = nextRenderer
    BY <1>3, ReuseEffect DEF HeldInv
  <2>3. /\ IsMap(renderers, RendererId, RendererSlot)
        /\ renderers[r] \in RendererSlot
    BY DEF HeldInv, IInv, LifecycleTypeOK, IsMap
  <2>4. [renderers[r] EXCEPT !.tabs = @ \cup {nextTab}].profile = renderers[r].profile
    BY <2>3 DEF RendererSlot
  <2>5. /\ DOMAIN renderers' = DOMAIN renderers
        /\ \A s \in DOMAIN renderers : renderers'[s].profile = renderers[s].profile
    BY <2>2, <2>4
  <2>6. r < nextRenderer' /\ nextRenderer' >= nextRenderer /\ nextRenderer' \in Nat
    BY <1>1, <2>2 DEF RendererId
  <2>7. loaded' = loaded
    BY DEF OpenTab
  <2> HIDE DEF b
  <2> QED BY <2>1, <2>2, <2>5, <2>6, <2>7
<1> QED BY <1>2, <1>3 DEF OpenTab

\* A tab opened: earlier grants in its renderer, if any, are of its profile.
LEMMA OpenKeepsHeld ==
  ASSUME HeldInv, NEW p \in ProfileId, OpenTab(p)
  PROVE  HeldActionsSound' /\ GrantsMinted' /\ ProcessServesOneIdentity'
<1>1. /\ nextTab \in Nat /\ nextRenderer \in Nat
      /\ \A r \in DOMAIN renderers : r < nextRenderer /\ r \in Nat
  BY CountersAreIds DEF HeldInv, TabId, RendererId
<1>2. PICK b \in SpawnAction \cup AttachAction :
        /\ todo' = todo \cup {b} /\ loaded' = loaded
        /\ b.tab = nextTab /\ b.profile = p
        /\ nextTab' = nextTab + 1 /\ nextRenderer' >= nextRenderer /\ nextRenderer' \in Nat
        /\ b.renderer < nextRenderer'
        /\ DOMAIN renderers' = DOMAIN renderers \cup {b.renderer}
        /\ \A r \in DOMAIN renderers : renderers'[r].profile = renderers[r].profile
        /\ renderers'[b.renderer].profile = p
        /\ \/ b.renderer = nextRenderer
           \/ b.renderer \in DOMAIN renderers /\ p \notin StrictProfiles
  BY OpenGrants
<1>3. b.kind # "KillRenderer" /\ b.renderer \in Nat /\ b.tab \in Nat
  BY DEF SpawnAction, AttachAction, RendererId, TabId
<1>4. Grants' = Grants \cup {b}
  BY <1>2, <1>3 DEF Grants
<1>5. \A a \in Grants : /\ a.renderer \in Nat /\ a.tab \in Nat
                        /\ a.renderer < nextRenderer /\ a.tab < nextTab
  BY DEF HeldInv, HeldActionsSound, GrantsMinted, Grants, SpawnAction, AttachAction,
         KillAction, RendererId, TabId
<1>6. GrantsMinted'
  BY <1>1, <1>2, <1>3, <1>4, <1>5 DEF GrantsMinted
<1>7. HeldActionsSound'
  <2>1. \A a \in todo : a.kind = "KillRenderer" =>
          /\ a.renderer \in Nat /\ a.renderer < nextRenderer
          /\ a.renderer \notin DOMAIN renderers
    BY DEF HeldInv, HeldActionsSound, SpawnAction, AttachAction, KillAction, RendererId
  <2>2. \A a \in todo : a.kind = "KillRenderer" =>
          a.renderer < nextRenderer' /\ a.renderer \notin DOMAIN renderers'
    BY <1>1, <1>2, <2>1
  <2> QED BY <1>2, <1>3, <2>2 DEF HeldInv, HeldActionsSound
<1>8. \A a \in Grants : a.renderer = b.renderer =>
        a.profile = p /\ p \notin StrictProfiles
  <2> SUFFICES ASSUME NEW a \in Grants, a.renderer = b.renderer
               PROVE  a.profile = p /\ p \notin StrictProfiles
    OBVIOUS
  <2>1. b.renderer # nextRenderer
    BY <1>1, <1>5
  <2>2. b.renderer \in DOMAIN renderers /\ p \notin StrictProfiles
    BY <1>2, <2>1
  <2>3. a.profile = renderers[b.renderer].profile
    BY <2>2 DEF HeldInv, ProcessServesOneIdentity
  <2> QED BY <1>2, <2>2, <2>3
<1>9. \A a \in Grants' : a.renderer \in DOMAIN renderers' =>
                           renderers'[a.renderer].profile = a.profile
  BY <1>2, <1>4, <1>8 DEF HeldInv, ProcessServesOneIdentity
<1>10. \A a \in Grants' : \A c \in Grants' \ {a} : a.renderer = c.renderer =>
                            a.profile = c.profile /\ a.profile \notin StrictProfiles
  BY <1>2, <1>4, <1>8 DEF HeldInv, ProcessServesOneIdentity
<1> QED BY <1>6, <1>7, <1>9, <1>10 DEF ProcessServesOneIdentity

\* No new grant, and of the table at most a renderer or a tab is taken out.
LEMMA FewerGrantsKept ==
  ASSUME HeldInv, Grants' \subseteq Grants,
         nextTab' = nextTab, nextRenderer' = nextRenderer,
         DOMAIN renderers' \subseteq DOMAIN renderers,
         \A r \in DOMAIN renderers' : renderers'[r].profile = renderers[r].profile
  PROVE  GrantsMinted' /\ ProcessServesOneIdentity'
BY DEF HeldInv, GrantsMinted, ProcessServesOneIdentity

\* A close takes records out, and puts a kill for a renderer that goes with it.
LEMMA CloseKeepsHeld ==
  ASSUME HeldInv, NEW t \in DOMAIN tabs, NEW kept \in SUBSET todo, CloseTab(t),
         todo' = kept \cup CloseActions(t), loaded' = loaded
  PROVE  HeldActionsSound' /\ GrantsMinted' /\ ProcessServesOneIdentity'
<1>1. tabs[t].renderer \in RendererId /\ tabs[t].renderer < nextRenderer
  BY CountersAreIds DEF HeldInv
<1>2. /\ DOMAIN renderers' \subseteq DOMAIN renderers
      /\ EmptiedBy(t) => tabs[t].renderer \notin DOMAIN renderers'
      /\ nextTab' = nextTab /\ nextRenderer' = nextRenderer
  BY CloseEffect DEF HeldInv
<1>3. \A r \in DOMAIN renderers' : renderers'[r].profile = renderers[r].profile
  <2>1. \A s \in DOMAIN renderers : renderers[s] \in RendererSlot
    BY DEF HeldInv, IInv, LifecycleTypeOK, IsMap
  <2>2. \A s \in DOMAIN renderers :
          [renderers[s] EXCEPT !.tabs = @ \ {t}].profile = renderers[s].profile
    BY <2>1 DEF RendererSlot
  <2>3. ASSUME NEW s \in DOMAIN renderers'
        PROVE  \/ renderers'[s] = renderers[s]
               \/ renderers'[s] = [renderers[s] EXCEPT !.tabs = @ \ {t}]
    BY CloseEffect DEF HeldInv
  <2> QED BY <1>2, <2>2, <2>3
<1>4. /\ CloseActions(t) \subseteq KillAction
      /\ \A a \in CloseActions(t) :
           a.kind = "KillRenderer" /\ a.renderer = tabs[t].renderer /\ EmptiedBy(t)
  BY <1>1 DEF CloseActions, KillAction
<1>5. Grants' \subseteq Grants
  BY <1>4 DEF Grants
<1>6. HeldActionsSound'
  BY <1>1, <1>2, <1>4 DEF HeldInv, HeldActionsSound
<1> QED BY <1>2, <1>3, <1>5, <1>6, FewerGrantsKept

\* Whatever the order in which tasks call the manager and carry actions out.
LEMMA HeldActionsKept ==
  ASSUME HeldInv, [Next]_vars
  PROVE  HeldActionsSound' /\ GrantsMinted' /\ ProcessServesOneIdentity'
<1> DEFINE Kept == HeldActionsSound' /\ GrantsMinted' /\ ProcessServesOneIdentity'
<1>1. ASSUME UNCHANGED <<todo, loaded>>, nextTab' = nextTab,
             nextRenderer' = nextRenderer, renderers' = renderers
      PROVE  Kept
  <2>1. Grants' = Grants
    BY <1>1 DEF Grants
  <2> QED BY <1>1, <2>1, FewerGrantsKept DEF HeldInv, HeldActionsSound
<1>2. CASE RegistryChange
  BY <1>1, <1>2 DEF RegistryChange, InsertProfile, RemoveProfile
<1>3. ASSUME NEW t \in DOMAIN tabs, UserClosesTab(t) PROVE Kept
  BY <1>3, CloseKeepsHeld DEF UserClosesTab
<1>4. ASSUME NEW t \in DOMAIN tabs, UserSuspendsOrResumes(t) PROVE Kept
  BY <1>1, <1>4 DEF UserSuspendsOrResumes, SuspendTab, ResumeTab
<1>5. ASSUME NEW a \in todo, UNCHANGED lifecycleVars, todo' = todo \ {a},
             OsSpawnSucceeds(a) \/ OsSpawnFails(a) \/ AttachDelivered(a) \/ KillProcess(a)
      PROVE  Kept
  <2>1. /\ loaded' \subseteq loaded \cup {a}
        /\ a \notin loaded => (a \in loaded' => a.kind # "KillRenderer")
    BY <1>5 DEF OsSpawnSucceeds, OsSpawnFails, AttachDelivered, KillProcess
  <2>2. \A b \in loaded : b.kind # "KillRenderer"
    BY DEF HeldInv, HeldActionsSound, SpawnAction, AttachAction
  <2>3. Grants' \subseteq Grants
    BY <1>5, <2>1, <2>2 DEF Grants
  <2>4. loaded' \subseteq SpawnAction \cup AttachAction
    BY <2>1, <2>2 DEF HeldInv, HeldActionsSound, SpawnAction, AttachAction, KillAction
  <2>5. HeldActionsSound'
    BY <1>5, <2>4 DEF HeldInv, HeldActionsSound, lifecycleVars
  <2> QED BY <1>5, <2>3, <2>5, FewerGrantsKept DEF lifecycleVars
<1>6. ASSUME NEW a \in todo, OsSpawnSucceeds(a) \/ AttachDelivered(a) \/ KillProcess(a)
      PROVE  Kept
  <2>1. UNCHANGED lifecycleVars /\ todo' = todo \ {a}
    BY <1>6 DEF OsSpawnSucceeds, AttachDelivered, KillProcess
  <2> QED BY <1>5, <1>6, <2>1
<1>7. ASSUME NEW a \in todo, OsSpawnFails(a) PROVE Kept
  <2>1. CASE a.tab \in DOMAIN tabs
    BY <1>7, <2>1, CloseKeepsHeld DEF OsSpawnFails
  <2>2. CASE a.tab \notin DOMAIN tabs
    BY <1>5, <1>7, <2>2 DEF OsSpawnFails
  <2> QED BY <2>1, <2>2
<1>8. CASE UNCHANGED vars
  BY <1>1, <1>8 DEF vars
<1> QED BY <1>2, <1>3, <1>4, <1>6, <1>7, <1>8, OpenKeepsHeld DEF Next

\* Calls and actions interleave freely; what tasks hold and what processes were
\* given keeps naming what it was returned for (spawn protocol of lifecycle.rs).
LEMMA HeldActionsInvariant == Spec => []HeldInv
<1>1. Init => HeldInv
  <2>1. Init => IInv
    BY InitInv DEF Init
  <2> QED BY <2>1 DEF Init, HeldInv, HeldActionsSound, GrantsMinted, Grants,
                      ProcessServesOneIdentity
<1>2. HeldInv /\ [Next]_vars => HeldInv'
  <2>1. HeldInv /\ [Next]_vars => IInv'
    BY StepIsLifecycleStep, StutterOfAll, NextKeepsInv DEF HeldInv
  <2> QED BY <2>1, HeldActionsKept DEF HeldInv
<1> QED BY <1>1, <1>2, PTL DEF Spec

\* However late returned actions are carried out, and whatever was closed, aborted
\* or opened meanwhile: a renderer process is only ever given tabs of one Standard
\* profile or one single tab, and no kill hits a renderer that is in use
\* (ProcessAction and CloseAction of lifecycle.rs, invariants 3.3 and 3.4).
THEOREM LateActionsAreHarmlessHolds == Spec => []LateActionsAreHarmless
<1>1. HeldInv => LateActionsAreHarmless
  BY DEF HeldInv, HeldActionsSound, LateActionsAreHarmless, KillOnlyRetired
<1> QED BY <1>1, HeldActionsInvariant, PTL

\* An id that is gone never comes back: a tab or renderer that appears carries the
\* counter's value (mint_tab, mint_renderer), so an action a task still holds
\* cannot hit a later tab.
THEOREM IdsAreFreshHolds == Spec => IdsAreFresh
<1> DEFINE Fresh == /\ \A t \in DOMAIN tabs' \ DOMAIN tabs : t >= nextTab /\ t < nextTab'
                    /\ \A r \in DOMAIN renderers' \ DOMAIN renderers :
                         r >= nextRenderer /\ r < nextRenderer'
                    /\ nextTab' >= nextTab /\ nextRenderer' >= nextRenderer
<1>1. ASSUME IInv, Next PROVE Fresh
  <2>1. nextTab \in Nat /\ nextRenderer \in Nat
    BY <1>1, CountersAreIds DEF TabId, RendererId
  <2>2. CASE UNCHANGED lifecycleVars
    BY <2>1, <2>2 DEF lifecycleVars
  <2>3. ASSUME NEW p \in ProfileId, InsertProfile(p) \/ RemoveProfile(p) PROVE Fresh
    BY <2>1, <2>3 DEF InsertProfile, RemoveProfile
  <2>4. ASSUME NEW p \in ProfileId, SpawnInNew(p) PROVE Fresh
    BY <1>1, <2>1, <2>4, NewRendererEffect
  <2>5. ASSUME NEW p \in ProfileId, NEW r \in DOMAIN renderers, SpawnInExisting(p, r)
        PROVE  Fresh
    BY <1>1, <2>1, <2>5, ReuseEffect
  <2>6. ASSUME NEW t \in DOMAIN tabs, CloseTab(t) PROVE Fresh
    <3>1. /\ DOMAIN renderers' \subseteq DOMAIN renderers
          /\ DOMAIN tabs' \subseteq DOMAIN tabs
          /\ nextTab' = nextTab /\ nextRenderer' = nextRenderer
      BY <1>1, <2>6, CloseEffect
    <3> QED BY <2>1, <3>1
  <2>7. ASSUME NEW t \in DOMAIN tabs,
               ResumeTab(t) \/ \E reason \in SuspendReason : SuspendTab(t, reason)
        PROVE  Fresh
    <3>1. /\ renderers' = renderers
          /\ DOMAIN tabs' = DOMAIN tabs
          /\ nextTab' = nextTab /\ nextRenderer' = nextRenderer
      BY <2>7 DEF ResumeTab, SuspendTab
    <3> QED BY <2>1, <3>1
  <2> QED BY <1>1, <2>2, <2>3, <2>4, <2>5, <2>6, <2>7, StepIsLifecycleStep
          DEF LifecycleNext, SpawnTab
<1>2. IInv /\ [Next]_vars => [Fresh]_vars
  BY <1>1
<1> QED BY <1>2, ManagerInvariant, PTL DEF Spec, IdsAreFresh

-----------------------------------------------------------------------------
(* The renderer table implements the abstract sharing specification.       *)

\* The cohort renderer r stands for.
CohortOf(r) == [profile |-> renderers[r].profile, tabs |-> renderers[r].tabs]

\* Two renderers never stand for one cohort: their tab sets are disjoint and not
\* empty.
LEMMA CohortsDistinct ==
  ASSUME IInv, NEW r \in DOMAIN renderers, NEW s \in DOMAIN renderers,
         CohortOf(r) = CohortOf(s)
  PROVE  r = s
<1>1. renderers[r].tabs = renderers[s].tabs
  BY DEF CohortOf
<1>2. PICK t \in renderers[r].tabs : TRUE
  BY DEF IInv, NoIdleRenderer
<1>3. tabs[t].renderer = r /\ tabs[t].renderer = s
  BY <1>1, <1>2 DEF IInv, TablesAgree
<1> QED BY <1>3

\* A tab in a cohort is a live tab of the manager.
LEMMA LiveTabs == IInv => Isolation!Live \subseteq DOMAIN tabs
  BY DEF IInv, TablesAgree, Isolation!Live, Cohorts

\* A tab in a process of its own starts a cohort.
LEMMA SpawnOpensCohort ==
  ASSUME IInv, NEW p \in ProfileId, SpawnInNew(p)
  PROVE  Isolation!Next
<1>1. /\ nextRenderer \notin DOMAIN renderers
      /\ nextTab \notin DOMAIN tabs
      /\ DOMAIN renderers' = DOMAIN renderers \cup {nextRenderer}
      /\ renderers'[nextRenderer].profile = p
      /\ renderers'[nextRenderer].tabs = {nextTab}
      /\ \A s \in DOMAIN renderers : renderers'[s] = renderers[s]
  BY NewRendererEffect
<1>2. Cohorts' = Cohorts \cup {[profile |-> p, tabs |-> {nextTab}]}
  <2> DEFINE n == [profile |-> p, tabs |-> {nextTab}]
             seen(s) == [profile |-> renderers'[s].profile, tabs |-> renderers'[s].tabs]
  <2>1. Cohorts' = {seen(s) : s \in DOMAIN renderers'} /\ seen(nextRenderer) = n
    BY <1>1 DEF Cohorts
  <2>2. Cohorts = {seen(s) : s \in DOMAIN renderers}
    BY <1>1 DEF Cohorts
  <2> HIDE DEF n, seen
  <2>3. {seen(s) : s \in DOMAIN renderers'} = {seen(s) : s \in DOMAIN renderers} \cup {n}
    BY <1>1, <2>1
  <2> QED BY <2>1, <2>2, <2>3 DEF n
<1>3. p \in StrictProfiles \/ \A c \in Cohorts : c.profile # p
  BY DEF SpawnInNew, Reusable, IInv, SlotsWellFormed, ModeOf, Cohorts
<1>4. nextTab \in (1..MaxTabs) \ Isolation!Live
  <2>1. nextTab \in Nat /\ nextTab # 0 /\ nextTab <= MaxTabs
    BY CountersAreIds DEF TabId, SpawnInNew
  <2> QED BY <1>1, <2>1, LiveTabs, BoundAssumption
<1>5. Isolation!OpensCohort(p, nextTab)
  BY <1>2, <1>3 DEF Isolation!OpensCohort
<1> QED BY <1>4, <1>5 DEF Isolation!Next

\* A tab in a process that runs joins its cohort.
LEMMA SpawnJoinsCohort ==
  ASSUME IInv, NEW p \in ProfileId, NEW r \in DOMAIN renderers, SpawnInExisting(p, r)
  PROVE  Isolation!Next
<1> DEFINE c == CohortOf(r)
           d == [c EXCEPT !.tabs = @ \cup {nextTab}]
<1>1. /\ p \notin StrictProfiles
      /\ renderers[r].profile = p
      /\ renderers' = [renderers EXCEPT ![r].tabs = @ \cup {nextTab}]
      /\ nextTab \notin DOMAIN tabs
  BY ReuseEffect
<1>2. renderers[r] \in RendererSlot
  BY DEF IInv, LifecycleTypeOK, IsMap
<1>3. /\ DOMAIN renderers' = DOMAIN renderers
      /\ CohortOf(r)' = d
      /\ \A s \in DOMAIN renderers \ {r} : CohortOf(s)' = CohortOf(s)
  <2>1. /\ DOMAIN renderers' = DOMAIN renderers
        /\ renderers'[r].tabs = renderers[r].tabs \cup {nextTab}
        /\ renderers'[r].profile = renderers[r].profile
        /\ \A s \in DOMAIN renderers \ {r} : renderers'[s] = renderers[s]
    BY <1>1, <1>2 DEF RendererSlot
  <2> QED BY <2>1 DEF CohortOf
<1>4. c \in Cohorts /\ c.profile \notin StrictProfiles
  BY <1>1 DEF Cohorts, CohortOf
<1>5. \A s \in DOMAIN renderers \ {r} : CohortOf(s) # c
  BY CohortsDistinct
<1>6. /\ Cohorts = {CohortOf(s) : s \in DOMAIN renderers}
      /\ Cohorts' = {CohortOf(s)' : s \in DOMAIN renderers'}
  BY DEF Cohorts, CohortOf
<1> HIDE DEF c, d
<1>7. Cohorts' = (Cohorts \ {c}) \cup {d}
  BY <1>3, <1>5, <1>6 DEF c
<1>8. nextTab \in (1..MaxTabs) \ Isolation!Live
  <2>1. nextTab \in Nat /\ nextTab # 0 /\ nextTab <= MaxTabs
    BY CountersAreIds DEF TabId, SpawnInExisting
  <2> QED BY <1>1, <2>1, LiveTabs, BoundAssumption
<1>9. Isolation!JoinsCohort(c, nextTab)
  BY <1>4, <1>7 DEF Isolation!JoinsCohort, d
<1> QED BY <1>4, <1>8, <1>9 DEF Isolation!Next

\* A tab that closes leaves its cohort, which ends with its last one.
LEMMA CloseLeavesCohort ==
  ASSUME IInv, NEW t \in DOMAIN tabs, CloseTab(t)
  PROVE  Isolation!Next
<1> PICK r : r = tabs[t].renderer
  OBVIOUS
<1> DEFINE c == CohortOf(r)
           d == [c EXCEPT !.tabs = @ \ {t}]
<1>1. /\ r \in DOMAIN renderers
      /\ t \in renderers[r].tabs
      /\ EmptiedBy(t) <=> renderers[r].tabs = {t}
      /\ EmptiedBy(t) => DOMAIN renderers' = DOMAIN renderers \ {r}
      /\ ~EmptiedBy(t) => /\ DOMAIN renderers' = DOMAIN renderers
                          /\ renderers'[r] = [renderers[r] EXCEPT !.tabs = @ \ {t}]
      /\ \A s \in DOMAIN renderers \ {r} : renderers'[s] = renderers[s]
  BY CloseEffect
<1>2. renderers[r] \in RendererSlot
  BY <1>1 DEF IInv, LifecycleTypeOK, IsMap
<1>3. c \in Cohorts /\ t \in c.tabs /\ (EmptiedBy(t) <=> c.tabs = {t})
  BY <1>1 DEF Cohorts, CohortOf
<1>4. \A s \in DOMAIN renderers \ {r} : CohortOf(s) # c /\ CohortOf(s)' = CohortOf(s)
  BY <1>1, CohortsDistinct DEF CohortOf
<1>5. /\ Cohorts = {CohortOf(s) : s \in DOMAIN renderers}
      /\ Cohorts' = {CohortOf(s)' : s \in DOMAIN renderers'}
  BY DEF Cohorts, CohortOf
<1>6. CASE EmptiedBy(t)
  <2> HIDE DEF c, d
  <2>1. Cohorts' = Cohorts \ {c}
    BY <1>1, <1>4, <1>5, <1>6 DEF c
  <2> QED BY <1>3, <1>6, <2>1 DEF Isolation!Next, Isolation!Leaves
<1>7. CASE ~EmptiedBy(t)
  <2>1. CohortOf(r)' = d
    <3>1. /\ renderers'[r].tabs = renderers[r].tabs \ {t}
          /\ renderers'[r].profile = renderers[r].profile
      BY <1>1, <1>2, <1>7 DEF RendererSlot
    <3>2. d = [profile |-> renderers[r].profile, tabs |-> renderers[r].tabs \ {t}]
      BY DEF CohortOf
    <3> HIDE DEF d
    <3> QED BY <3>1, <3>2 DEF CohortOf
  <2> HIDE DEF c, d
  <2>2. Cohorts' = (Cohorts \ {c}) \cup {d}
    BY <1>1, <1>4, <1>5, <1>7, <2>1 DEF c
  <2> QED BY <1>3, <1>7, <2>2 DEF Isolation!Next, Isolation!Leaves, d
<1> QED BY <1>6, <1>7

\* The lifecycle manager, its scheduler and whatever the orchestrator does with the
\* actions they return implement the abstract sharing specification: every step
\* opens, joins or leaves a cohort as it allows, or leaves the partition of the
\* live tabs alone (spawn_tab, close_tab and abort_spawn of lifecycle.rs).
THEOREM IsolationImplemented == Spec => ImplementsIsolation
<1>1. Init => Isolation!Init
  BY DEF Init, LifecycleInit, Isolation!Init, Cohorts, EmptyMap
<1>2. ASSUME IInv, [Next]_vars PROVE [Isolation!Next]_Cohorts
  <2>1. CASE UNCHANGED lifecycleVars
    BY <2>1 DEF lifecycleVars, Cohorts
  <2>2. ASSUME NEW p \in ProfileId, InsertProfile(p) \/ RemoveProfile(p)
        PROVE  UNCHANGED Cohorts
    BY <2>2 DEF InsertProfile, RemoveProfile, Cohorts
  <2>3. ASSUME NEW t \in DOMAIN tabs,
               ResumeTab(t) \/ \E reason \in SuspendReason : SuspendTab(t, reason)
        PROVE  UNCHANGED Cohorts
    <3>1. renderers' = renderers
      BY <2>3 DEF ResumeTab, SuspendTab
    <3> QED BY <3>1 DEF Cohorts
  <2> QED BY <1>2, <2>1, <2>2, <2>3, SpawnOpensCohort, SpawnJoinsCohort, CloseLeavesCohort,
             StepIsLifecycleStep, StutterOfAll DEF LifecycleNext, SpawnTab
<1> QED BY <1>1, <1>2, ManagerInvariant, PTL DEF Spec, ImplementsIsolation, Isolation!Spec
=============================================================================
