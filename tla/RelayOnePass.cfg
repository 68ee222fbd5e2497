\* Requests arrive in the tick they are sent in, so in order.
CONSTANTS
  MOTION_ACTIVE_RMS_MG = 16
  MOTION_ACTIVE_PEAK_MG = 80
  MOTION_QUIET_RMS_MG = 14
  HANDLING_RMS_MG = 480
  HANDLING_PEAK_MG = 1200
  SERVER_CLASSIFIER_SMOOTHING_SAMPLES = 3
  SERVER_DONE_QUIET = 1
  SERVER_MINIMUM_RUNTIME = 2
  SERVER_MAX_SAMPLE_GAP = 1
  EVENT_RETENTION = 20
  Readings <- SomeReadings
  SampleGaps = {1}
  OtherEvents = {"done_sent"}
  MaxEvents = 6
  MaxBoots = 2
  MaxInFlight = 1
  MaxDelay = 0
  ClockSkews = {0}
  NtpMayFail = TRUE
  Faults = FALSE
SPECIFICATION OnePassSpec
INVARIANTS
  OneDeviceDonePerBoot
PROPERTIES
  AlertNeedsNewMotion
  OnePassAgrees
CHECK_DEADLOCK FALSE
