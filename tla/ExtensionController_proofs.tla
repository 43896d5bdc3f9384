--------------------- MODULE ExtensionController_proofs ---------------------
(***************************************************************************)
(* For every set of extensions, files and concurrent installers: the live  *)
(* manifest only moves forward, nothing is disabled in silence, and a      *)
(* recall is missed only by the race of an install with the last swap.     *)
(***************************************************************************)
EXTENDS ExtensionController, TLAPS

\* What the argument needs of the types.
ControllerTypeOK ==
  /\ manifest.version \in Nat
  /\ IsMap(installed, Extension, InstalledExtension)
  /\ DOMAIN installed \subseteq DOMAIN grant
  /\ \A id \in DOMAIN grant : grant[id].by \in Nat /\ grant[id].live \in Nat
  /\ DOMAIN installing = Installer

\* An install under way holds the live manifest, or one that an accepted swap replaced and
\* that is older.
SnapshotsAreOld ==
  \A i \in Installer : installing[i] # Idle =>
    /\ installing[i].candidate \in CandidateFile
    /\ installing[i].snapshot.version \in Nat
    /\ installing[i].snapshot.version <= manifest.version
    /\ installing[i].snapshot.version = manifest.version => installing[i].snapshot = manifest

\* No install was admitted under a manifest that was not live yet.
GrantsAreOld ==
  \A id \in DOMAIN grant :
    grant[id].by <= grant[id].live /\ grant[id].live <= manifest.version

IInv == ControllerTypeOK /\ SnapshotsAreOld /\ GrantsAreOld /\ RecallMissedOnlyByRace

-----------------------------------------------------------------------------
\* The controller starts with nothing installed.
LEMMA InitInv == Init => IInv
  BY FileAssumption
  DEF Init, IInv, ControllerTypeOK, SnapshotsAreOld, GrantsAreOld, RecallMissedOnlyByRace,
      IsMap, EmptyMap

\* An installation that is asked for.
LEMMA BeginKeepsInv ==
  ASSUME IInv, NEW i \in Installer, NEW c \in CandidateFile, BeginInstall(i, c)
  PROVE  IInv'
<1> USE DEF IInv, BeginInstall
<1>1. ControllerTypeOK' /\ GrantsAreOld' /\ RecallMissedOnlyByRace'
  BY DEF ControllerTypeOK, GrantsAreOld, RecallMissedOnlyByRace
<1>2. SnapshotsAreOld'
  BY DEF ControllerTypeOK, SnapshotsAreOld
<1> QED BY <1>1, <1>2

\* An installation that fails a check leaves the registry alone.
LEMMA RejectKeepsInv ==
  ASSUME IInv, NEW i \in Installer, RejectInstall(i)
  PROVE  IInv'
<1> USE DEF IInv
<1>1. /\ UNCHANGED <<manifest, installed, grant>>
      /\ installing' = [installing EXCEPT ![i] = Idle]
  BY DEF RejectInstall
<1>2. ControllerTypeOK' /\ GrantsAreOld' /\ RecallMissedOnlyByRace'
  BY <1>1 DEF ControllerTypeOK, GrantsAreOld, RecallMissedOnlyByRace
<1>3. SnapshotsAreOld'
  BY <1>1 DEF ControllerTypeOK, SnapshotsAreOld
<1> QED BY <1>2, <1>3

\* What the verified candidate is: compatible with the snapshot it was verified against.
LEMMA AdmittedIsCompatible ==
  ASSUME NEW c, NEW m, InstallError(c, m) = "None"
  PROVE  Compatible(m, c.id, c.version)
  BY DEF InstallError, Compatible

\* An installation that passes every check.
LEMMA AdmitKeepsInv ==
  ASSUME IInv, NEW i \in Installer, AdmitInstall(i)
  PROVE  IInv'
<1> DEFINE c == installing[i].candidate
           snapshot == installing[i].snapshot
           record == [version |-> c.version, state |-> "Enabled"]
           admitted == [by |-> snapshot.version, live |-> manifest.version]
<1> USE DEF IInv
<1>1. /\ InstallError(c, snapshot) = "None"
      /\ installed' = Put(installed, c.id, record)
      /\ grant' = Put(grant, c.id, admitted)
      /\ installing' = [installing EXCEPT ![i] = Idle]
      /\ manifest' = manifest
      /\ installing[i] # Idle
  BY DEF AdmitInstall
<1>2. /\ c \in CandidateFile /\ snapshot.version \in Nat
      /\ snapshot.version <= manifest.version
      /\ snapshot.version = manifest.version => snapshot = manifest
  BY <1>1 DEF SnapshotsAreOld
<1>3. c.id \in Extension /\ c.version \in Version
  BY <1>2, CandidateAssumption DEF Candidate
<1>4. Compatible(snapshot, c.id, c.version)
  BY <1>1, AdmittedIsCompatible
<1>5. record \in InstalledExtension
  BY <1>3 DEF InstalledExtension
<1>6. /\ admitted.by = snapshot.version /\ admitted.live = manifest.version
      /\ record.version = c.version
  OBVIOUS
<1> HIDE DEF c, snapshot, record, admitted
<1>7. /\ DOMAIN installed' = DOMAIN installed \cup {c.id}
      /\ installed'[c.id] = record
      /\ \A id \in DOMAIN installed : id # c.id => installed'[id] = installed[id]
      /\ DOMAIN grant' = DOMAIN grant \cup {c.id}
      /\ grant'[c.id] = admitted
      /\ \A id \in DOMAIN grant : id # c.id => grant'[id] = grant[id]
  BY <1>1 DEF Put
<1>8. ControllerTypeOK'
  <2>1. IsMap(Put(installed, c.id, record), Extension, InstalledExtension)
    BY <1>3, <1>5 DEF ControllerTypeOK, IsMap, Put
  <2>2. \A id \in DOMAIN grant' : grant'[id].by \in Nat /\ grant'[id].live \in Nat
    BY <1>2, <1>6, <1>7 DEF ControllerTypeOK
  <2> QED BY <1>1, <1>7, <2>1, <2>2 DEF ControllerTypeOK
<1>9. SnapshotsAreOld'
  BY <1>1 DEF ControllerTypeOK, SnapshotsAreOld
<1>10. GrantsAreOld'
  BY <1>1, <1>2, <1>6, <1>7 DEF ControllerTypeOK, GrantsAreOld
<1>11. RecallMissedOnlyByRace'
  <2> SUFFICES ASSUME NEW id \in DOMAIN installed',
                      installed'[id].state = "Enabled",
                      ~Compatible(manifest, id, installed'[id].version)
               PROVE  grant'[id].by < grant'[id].live /\ grant'[id].live = manifest.version
    BY <1>1 DEF RecallMissedOnlyByRace
  <2>1. CASE id = c.id
    <3>1. snapshot # manifest
      BY <1>4, <1>6, <1>7, <2>1
    <3> QED BY <1>2, <1>6, <1>7, <2>1, <3>1 DEF ControllerTypeOK
  <2>2. CASE id # c.id
    BY <1>7, <2>2 DEF RecallMissedOnlyByRace, ControllerTypeOK
  <2> QED BY <2>1, <2>2
<1> QED BY <1>8, <1>9, <1>10, <1>11

\* A manifest that is refused leaves the old one.
LEMMA SwapRefusedKeepsInv ==
  ASSUME IInv, NEW f \in ManifestFile, SwapRefused(f)
  PROVE  IInv'
<1>1. UNCHANGED <<manifest, installed, installing, grant>>
  BY DEF SwapRefused
<1> QED
  BY <1>1 DEF IInv, ControllerTypeOK, SnapshotsAreOld, GrantsAreOld, RecallMissedOnlyByRace

\* What one accepted swap makes of the registry.
LEMMA SwapReconciles ==
  ASSUME ControllerTypeOK, NEW f \in ManifestFile, SwapAccepted(f)
  PROVE  /\ manifest' = ManifestOf(f) /\ manifest'.version = f.version
         /\ f.version \in Nat /\ f.version > manifest.version
         /\ DOMAIN installed' = DOMAIN installed
         /\ IsMap(installed', Extension, InstalledExtension)
         /\ \A id \in DOMAIN installed :
              IF Compatible(ManifestOf(f), id, installed[id].version)
                THEN installed'[id] = installed[id]
                ELSE installed'[id].state = "Disabled" /\ id \in DisabledBy(ManifestOf(f))
         /\ UNCHANGED <<installing, grant>>
<1> DEFINE m == ManifestOf(f)
<1>1. /\ manifest' = m /\ installed' = Reconciled(m) /\ UNCHANGED <<installing, grant>>
      /\ f.version > manifest.version
  BY DEF SwapAccepted
<1>2. m.version = f.version
  BY DEF ManifestOf
<1> HIDE DEF m
<1>3. \A id \in DOMAIN installed :
        id \in DisabledBy(m) <=> ~Compatible(m, id, installed[id].version)
  BY DEF DisabledBy
<1>4. \A id \in DOMAIN installed : installed[id] \in InstalledExtension
  BY DEF ControllerTypeOK, IsMap
<1>5. \A id \in DOMAIN installed :
        /\ [installed[id] EXCEPT !.state = "Disabled"] \in InstalledExtension
        /\ [installed[id] EXCEPT !.state = "Disabled"].state = "Disabled"
  BY <1>4 DEF InstalledExtension
<1>6. /\ DOMAIN installed' = DOMAIN installed
      /\ \A id \in DOMAIN installed :
           installed'[id] = IF id \in DisabledBy(m)
                              THEN [installed[id] EXCEPT !.state = "Disabled"]
                              ELSE installed[id]
  BY <1>1 DEF Reconciled
<1>7. IsMap(installed', Extension, InstalledExtension)
  <2>1. Reconciled(m) \in [DOMAIN installed -> InstalledExtension]
    BY <1>4, <1>5 DEF Reconciled
  <2> QED BY <1>1, <1>6, <2>1 DEF ControllerTypeOK, IsMap
<1> QED BY <1>1, <1>2, <1>3, <1>5, <1>6, <1>7, FileAssumption DEF m

\* A manifest that replaces the one before.
LEMMA SwapKeepsInv ==
  ASSUME IInv, NEW f \in ManifestFile, SwapAccepted(f)
  PROVE  IInv'
<1> DEFINE m == ManifestOf(f)
<1>1. /\ manifest' = m /\ manifest'.version = f.version
      /\ f.version \in Nat /\ f.version > manifest.version
      /\ DOMAIN installed' = DOMAIN installed
      /\ IsMap(installed', Extension, InstalledExtension)
      /\ \A id \in DOMAIN installed :
           IF Compatible(m, id, installed[id].version)
             THEN installed'[id] = installed[id]
             ELSE installed'[id].state = "Disabled"
      /\ UNCHANGED <<installing, grant>>
  BY SwapReconciles DEF IInv
<1> HIDE DEF m
<1>2. ControllerTypeOK'
  BY <1>1 DEF IInv, ControllerTypeOK
<1>3. SnapshotsAreOld'
  BY <1>1 DEF IInv, ControllerTypeOK, SnapshotsAreOld
<1>4. GrantsAreOld'
  BY <1>1 DEF IInv, ControllerTypeOK, GrantsAreOld
<1>5. RecallMissedOnlyByRace'
  <2>1. ASSUME NEW id \in DOMAIN installed', installed'[id].state = "Enabled"
        PROVE  Compatible(m, id, installed'[id].version)
    BY <1>1, <2>1
  <2> QED BY <1>1, <2>1 DEF RecallMissedOnlyByRace
<1> QED BY <1>2, <1>3, <1>4, <1>5 DEF IInv

\* An extension that is removed.
LEMMA RemoveKeepsInv ==
  ASSUME IInv, NEW id \in DOMAIN installed, RemoveExtension(id)
  PROVE  IInv'
<1>1. /\ installed' = [x \in DOMAIN installed \ {id} |-> installed[x]]
      /\ UNCHANGED <<manifest, installing, grant>>
  BY DEF RemoveExtension, Without, Restrict
<1>2. ControllerTypeOK'
  BY <1>1 DEF IInv, ControllerTypeOK, IsMap
<1>3. SnapshotsAreOld' /\ GrantsAreOld'
  BY <1>1 DEF IInv, SnapshotsAreOld, GrantsAreOld
<1>4. RecallMissedOnlyByRace'
  BY <1>1 DEF IInv, RecallMissedOnlyByRace
<1> QED BY <1>2, <1>3, <1>4 DEF IInv

\* Every operation of the controller keeps the invariant.
LEMMA NextKeepsInv == IInv /\ [Next]_vars => IInv'
<1> SUFFICES ASSUME IInv, [Next]_vars PROVE IInv'
  OBVIOUS
<1>1. ASSUME NEW i \in Installer, NEW c \in CandidateFile, BeginInstall(i, c) PROVE IInv'
  BY <1>1, BeginKeepsInv
<1>2. ASSUME NEW i \in Installer, RejectInstall(i) \/ AdmitInstall(i) PROVE IInv'
  BY <1>2, RejectKeepsInv, AdmitKeepsInv
<1>3. ASSUME NEW f \in ManifestFile, SwapRefused(f) \/ SwapAccepted(f) PROVE IInv'
  BY <1>3, SwapRefusedKeepsInv, SwapKeepsInv
<1>4. ASSUME NEW id \in DOMAIN installed, RemoveExtension(id) PROVE IInv'
  BY <1>4, RemoveKeepsInv
<1>5. CASE UNCHANGED vars
  BY <1>5 DEF vars, IInv, ControllerTypeOK, SnapshotsAreOld, GrantsAreOld,
     RecallMissedOnlyByRace
<1> QED BY <1>1, <1>2, <1>3, <1>4, <1>5 DEF Next

-----------------------------------------------------------------------------
\* The inductive invariant: snapshots and grants are never ahead of the live manifest.
THEOREM ControllerInvariant == Spec => []IInv
<1>1. Init => IInv
  BY InitInv
<1>2. IInv /\ [Next]_vars => IInv'
  BY NextKeepsInv
<1> QED BY <1>1, <1>2, PTL DEF Spec

\* An extension that the live manifest does not admit runs only if its install raced with the
\* very swap that brought this manifest, however many installs and swaps overlap.
THEOREM RecallsAreMissedOnlyByRace == Spec => []RecallMissedOnlyByRace
<1>1. IInv => RecallMissedOnlyByRace
  BY DEF IInv
<1> QED BY <1>1, ControllerInvariant, PTL

\* "Prevents accidental rollback to a recalled version": whatever files arrive in whatever
\* order, the live manifest is only replaced by a newer one.
THEOREM ManifestOnlyMovesForward == Spec => ManifestNeverRollsBack
<1>1. IInv /\ [Next]_vars => [manifest'.version > manifest.version]_manifest
  <2> SUFFICES ASSUME IInv, [Next]_vars, manifest' # manifest
               PROVE  manifest'.version > manifest.version
    OBVIOUS
  <2>1. PICK f \in ManifestFile : SwapAccepted(f)
    BY DEF Next, vars, BeginInstall, RejectInstall, AdmitInstall, SwapRefused, RemoveExtension
  <2> QED BY <2>1, SwapReconciles DEF IInv
<1> QED BY <1>1, ControllerInvariant, PTL DEF Spec, ManifestNeverRollsBack

\* The call that disables an extension returns an intent that names it, for every registry
\* and every manifest that is swapped in.
THEOREM NothingDisabledInSilence == Spec => NoSilentDisable
<1> DEFINE Told ==
      \A id \in DOMAIN installed \cap DOMAIN installed' :
        installed[id].state = "Enabled" /\ installed'[id].state = "Disabled"
          => \E w \in intents' : w.kind \in {"Recall", "UpdateConstraint"} /\ w.id = id
<1>1. IInv /\ [Next]_vars => [Told]_vars
  <2> SUFFICES ASSUME IInv, Next, NEW id \in DOMAIN installed, id \in DOMAIN installed',
                      installed[id].state = "Enabled", installed'[id].state = "Disabled"
               PROVE  \E w \in intents' :
                        w.kind \in {"Recall", "UpdateConstraint"} /\ w.id = id
    OBVIOUS
  <2>1. ASSUME NEW i \in Installer, NEW c \in CandidateFile, BeginInstall(i, c) PROVE FALSE
    BY <2>1 DEF BeginInstall
  <2>2. ASSUME NEW i \in Installer, RejectInstall(i) PROVE FALSE
    BY <2>2 DEF RejectInstall
  <2>3. ASSUME NEW i \in Installer, AdmitInstall(i) PROVE FALSE
    <3> DEFINE k == installing[i].candidate.id
               record == [version |-> installing[i].candidate.version, state |-> "Enabled"]
    <3>1. installed' = Put(installed, k, record)
      BY <2>3 DEF AdmitInstall
    <3>2. record.state = "Enabled"
      OBVIOUS
    <3> HIDE DEF k, record
    <3>3. installed'[id] = IF id = k THEN record ELSE installed[id]
      BY <3>1 DEF Put
    <3> QED BY <3>2, <3>3
  <2>4. ASSUME NEW f \in ManifestFile, SwapRefused(f) PROVE FALSE
    BY <2>4 DEF SwapRefused
  <2>5. ASSUME NEW x \in DOMAIN installed, RemoveExtension(x) PROVE FALSE
    BY <2>5 DEF RemoveExtension, Without, Restrict
  <2>6. PICK f \in ManifestFile : SwapAccepted(f)
    BY <2>1, <2>2, <2>3, <2>4, <2>5 DEF Next
  <2> DEFINE m == ManifestOf(f)
             w == [kind |-> IF Listed(m, id) THEN "UpdateConstraint" ELSE "Recall",
                   id |-> id]
  <2>7. id \in DisabledBy(m)
    BY <2>6, SwapReconciles DEF IInv
  <2>8. w \in intents'
    BY <2>6, <2>7 DEF SwapAccepted, IntentsFor
  <2>9. w.kind \in {"Recall", "UpdateConstraint"} /\ w.id = id
    OBVIOUS
  <2> QED BY <2>8, <2>9
<1> QED BY <1>1, ControllerInvariant, PTL DEF Spec, NoSilentDisable
=============================================================================
