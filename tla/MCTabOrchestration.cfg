CONSTANTS
  ProfileId = {work, home, hidden}
  StrictProfiles = {hidden}
  MaxTabs = 4
  MaxPending = 2
  SuspendReason = {user}
  MAX_MESSAGE_BYTES = 3
SYMMETRY StandardSymmetry
SPECIFICATION Spec
INVARIANTS
  SharingRule
  TablesAgree
  LateActionsAreHarmless
PROPERTIES
  ImplementsIsolation
