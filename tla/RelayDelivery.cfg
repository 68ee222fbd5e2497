\* Lost, delayed and repeated requests, a failing push service, a dying relay, device restarts.
CONSTANTS
  MOTION_ACTIVE_RMS_MG = 16
  MOTION_ACTIVE_PEAK_MG = 80
  MOTION_QUIET_RMS_MG = 14
  HANDLING_RMS_MG = 480
  HANDLING_PEAK_MG = 1200
  SERVER_CLASSIFIER_SMOOTHING_SAMPLES = 4
  SERVER_DONE_QUIET = 1
  SERVER_MINIMUM_RUNTIME = 1
  SERVER_MAX_SAMPLE_GAP = 1
  EVENT_RETENTION = 10
  Readings <- QuietOrGentle
  SampleGaps = {1}
  OtherEvents = {"button_pressed"}
  MaxEvents = 5
  MaxBoots = 2
  MaxInFlight = 2
  MaxDelay = 2
  ClockSkews = {0}
  NtpMayFail = FALSE
  Faults = TRUE
  max_peak_mg = 1200
SPECIFICATION Spec
INVARIANTS
  TypeOK
  PushedAtMostOnce
  AlertedSampleLooksQuiet
PROPERTIES
  AlertNeedsQuiet
  AlertNeedsNewMotion
CHECK_DEADLOCK FALSE
