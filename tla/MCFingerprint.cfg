SPECIFICATION ReadSpec
CONSTANTS
  User = {"ann", "bob", "cat", "dan", "eve"}
  UserInfo <- MCUserInfo
  Site = {"news", "shop"}
  Context = {"tab"}
  Index = {1}
  Window = {150, 399, 400}
  MaxLaunch = 1
  MaxTime = 5
  None = none
  NoEpoch = noepoch
  NoTimezone = nozone
  WebGpuBucket <- MCWebGpuBucket
  JsQuantum <- MCJsQuantum
  GpuQuantum = 3
  JitterSeed <- MCJitterSeed
  NoJitter = nojitter
  JitterSeedOf <- MCJitterSeedOf
CHECK_DEADLOCK FALSE
INVARIANTS
  StrictCohort
  SiteSeesOneMachine
  NoiseDoesNotJoin
  ClockNeverGoesBack
