\* The production settings in ticks of ten seconds; one window with motion.
CONSTANTS
  MOTION_ACTIVE_RMS_MG = 16
  MOTION_ACTIVE_PEAK_MG = 80
  MOTION_QUIET_RMS_MG = 14
  HANDLING_RMS_MG = 480
  HANDLING_PEAK_MG = 1200
  SERVER_CLASSIFIER_SMOOTHING_SAMPLES = 8
  SERVER_DONE_QUIET = 24
  SERVER_MINIMUM_RUNTIME = 48
  SERVER_MAX_SAMPLE_GAP = 18
  active_threshold_mg = 16
  active_peak_threshold_mg = 80
  quiet_threshold_mg = 14
  washer_spin_peak_mg = 480
  dryer_max_rms_mg = 180
  classification_smoothing_samples = 1
  confirm_motion = 3
  minimum_washer_runtime = 0
  minimum_dryer_runtime = 0
  done_quiet = 30
  resume_motion_confirm = 3
  dryer_handoff = 1440
  notify_on_done = FALSE
  require_continuous_quiet = TRUE
  startup_settle = 3
  ClockSize = 600
  Gaps <- ObservedGaps
  Windows <- StillOrPushed
  startup_keep_awake = 30
  startup_poll = 1
  idle_poll = 12
  running_poll = 1
  Uploads = {TRUE}
  MaxMoved = 1
SPECIFICATION Spec
INVARIANTS
  BriefMovementCannotArm
