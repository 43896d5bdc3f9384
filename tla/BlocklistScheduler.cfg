CONSTANTS
  MaxVersion = 6
  Published <- NothingBlocked
SPECIFICATION SchedulerSpec
CHECK_DEADLOCK FALSE
PROPERTIES
  RefreshGoesOn
  VersionNeverRollsBack
