\* Production: ticks of five seconds, polls of 10 s and 2 min, no packet late or lost.
CONSTANTS
  Polls = {2, 24}
  MaxLateness = 0
  RECENT = 10
  MIN_DELTA = 1
  MAX_DELTA = 24
  DEFAULT_PACKET_CADENCE = 3
  MIN_PACKET_STALE = 15
  MIN_PACKET_FRESH = 3
  MayLose = FALSE
SPECIFICATION Spec
INVARIANTS
  StaleMeansMissed
