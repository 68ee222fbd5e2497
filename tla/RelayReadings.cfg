\* Every kind of reading, missing samples, rows that expire, a device clock that is behind,
\* completions the device sends itself.
CONSTANTS
  MOTION_ACTIVE_RMS_MG = 16
  MOTION_ACTIVE_PEAK_MG = 80
  MOTION_QUIET_RMS_MG = 14
  HANDLING_RMS_MG = 480
  HANDLING_PEAK_MG = 1200
  SERVER_CLASSIFIER_SMOOTHING_SAMPLES = 3
  SERVER_DONE_QUIET = 1
  SERVER_MINIMUM_RUNTIME = 1
  SERVER_MAX_SAMPLE_GAP = 2
  EVENT_RETENTION = 6
  Readings <- EveryReading
  SampleGaps = {1, 3}
  OtherEvents = {"done_sent"}
  MaxEvents = 5
  MaxBoots = 1
  MaxInFlight = 1
  MaxDelay = 0
  ClockSkews = {0, 1}
  NtpMayFail = FALSE
  Faults = FALSE
  max_peak_mg = 1200
SPECIFICATION Spec
PROPERTIES
  AlertNeedsQuiet
  ClockSkewHidesNoAlert
  OldMotionMustLast
CHECK_DEADLOCK FALSE
