\* The page beside the relay: overlapping and failing fetches, a message from a test build.
CONSTANTS
  MOTION_ACTIVE_RMS_MG = 16
  MOTION_ACTIVE_PEAK_MG = 80
  MOTION_QUIET_RMS_MG = 14
  HANDLING_RMS_MG = 480
  HANDLING_PEAK_MG = 1200
  SERVER_CLASSIFIER_SMOOTHING_SAMPLES = 2
  SERVER_DONE_QUIET = 1
  SERVER_MINIMUM_RUNTIME = 1
  SERVER_MAX_SAMPLE_GAP = 2
  EVENT_RETENTION = 10
  Readings <- SomeReadings
  SampleGaps = {1}
  OtherEvents = {"button_pressed"}
  MaxEvents = 4
  MaxBoots = 1
  MaxInFlight = 1
  MaxDelay = 1
  ClockSkews = {0}
  NtpMayFail = FALSE
  Faults = FALSE
  max_peak_mg = 1200
  Windows = {0, 1, 2}
  chosen = 2
  MaxFetches = 2
SPECIFICATION DashboardSpec
INVARIANTS
  PushedMessagesAreMarked
  PhasesBelongToSamples
  ClientRulesMatch
PROPERTIES
  ViewCatchesUp
CHECK_DEADLOCK FALSE
