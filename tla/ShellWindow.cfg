SPECIFICATION WindowSpec
CONSTANTS
  InitialTabs <- FirstAndLastTab
  InitialActive = 0
  Text = {typed}
  NoText = nothing
  MaxTabs = 2
  NewIds = {0, 5}
  MaxDismissed = 1
  MaxGeneration = 1
  MaxTimers = 1
  MaxBusy = 2
INVARIANTS
  BarFollowsActiveTab
  ChromeAgrees
  LookupIsForText
  DragNeedsButton
  OverlaysFollowPointer
PROPERTIES
  NoWayBackToStandard
