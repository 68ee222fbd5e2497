\* Samples may be lost; the durations keep their order but are scaled down.
CONSTANTS
  MOTION_ACTIVE_RMS_MG = 16
  MOTION_ACTIVE_PEAK_MG = 80
  MOTION_QUIET_RMS_MG = 14
  HANDLING_RMS_MG = 480
  HANDLING_PEAK_MG = 1200
  SERVER_CLASSIFIER_SMOOTHING_SAMPLES = 3
  SERVER_DONE_QUIET = 3
  SERVER_MINIMUM_RUNTIME = 3
  SERVER_MAX_SAMPLE_GAP = 2
  active_threshold_mg = 16
  active_peak_threshold_mg = 80
  quiet_threshold_mg = 14
  washer_spin_peak_mg = 4000
  dryer_max_rms_mg = 4000
  classification_smoothing_samples = 1
  confirm_motion = 1
  minimum_washer_runtime = 0
  minimum_dryer_runtime = 0
  done_quiet = 4
  resume_motion_confirm = 1
  dryer_handoff = 3
  notify_on_done = FALSE
  require_continuous_quiet = TRUE
  startup_settle = 1
  ClockSize = 10
  Gaps <- ObservedGaps
  Windows <- EveryWindow
  startup_keep_awake = 3
  startup_poll = 1
  idle_poll = 2
  running_poll = 1
  Uploads = {TRUE, FALSE}
  MaxMoved = 0
SPECIFICATION Spec
INVARIANTS
  DecidedBeforePowerOff
  AlertFindsDeviceQuiet
