------------------------- MODULE IdentityIsolation -------------------------
(***************************************************************************)
(* What pb-identity promises about renderer sharing, without ids, tables   *)
(* or protocols: live tabs are partitioned into cohorts, one per renderer. *)
(* A Standard profile has at most one cohort and every new tab of it joins *)
(* that cohort; a Strict tab is a cohort by itself.                        *)
(***************************************************************************)
EXTENDS Naturals

CONSTANTS ProfileId, StrictProfiles, MaxTabs

VARIABLE cohorts   \* set of [profile, tabs]

Cohort == [profile : ProfileId, tabs : SUBSET (1..MaxTabs)]
Live == UNION {c.tabs : c \in cohorts}

Init == cohorts = {}

OpensCohort(p, t) ==
  /\ \/ p \in StrictProfiles
     \/ \A c \in cohorts : c.profile # p
  /\ cohorts' = cohorts \cup {[profile |-> p, tabs |-> {t}]}

JoinsCohort(c, t) ==
  /\ c.profile \notin StrictProfiles
  /\ cohorts' = (cohorts \ {c}) \cup {[c EXCEPT !.tabs = @ \cup {t}]}

Leaves(c, t) ==
  /\ t \in c.tabs
  /\ cohorts' = IF c.tabs = {t} THEN cohorts \ {c}
                ELSE (cohorts \ {c}) \cup {[c EXCEPT !.tabs = @ \ {t}]}

Next ==
  \/ \E t \in (1..MaxTabs) \ Live :
       \/ \E p \in ProfileId : OpensCohort(p, t)
       \/ \E c \in cohorts : JoinsCohort(c, t)
  \/ \E c \in cohorts : \E t \in c.tabs : Leaves(c, t)

Spec == Init /\ [][Next]_cohorts
=============================================================================
