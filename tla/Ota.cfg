\* Two jobs, one of them bringing back the first image; the table holds both.
CONSTANTS
  Jobs = {"job a", "job b"}
  Images = {"old", "new"}
  ImageOf <- ImageOfTwo
  FirstImage = "old"
  Interrupting = {"job b"}
  MaxLifetime = 1
  JobRetention = 1
  QueueBound = 2
  MaxTime = 2
  MaxPowerLosses = 1
  NvsMayFail = TRUE
SPECIFICATION FairSpec
INVARIANTS
  TypeOK
  OneLiveJob
  InstalledMeansBooted
PROPERTIES
  Lifecycle
  AttemptIsAccountedFor
