\* The limits scaled down in their order: 4 times the short poll time and the
\* default cadence < never stale < the long poll time = the longest gap that counts.
CONSTANTS
  Polls = {2, 10}
  MaxLateness = 1
  RECENT = 4
  MIN_DELTA = 1
  MAX_DELTA = 10
  DEFAULT_PACKET_CADENCE = 2
  MIN_PACKET_STALE = 9
  MIN_PACKET_FRESH = 3
  MayLose = TRUE
SPECIFICATION Spec
INVARIANTS
  StaleMeansMissedOnceSettled
PROPERTIES
  SilenceIsShown
