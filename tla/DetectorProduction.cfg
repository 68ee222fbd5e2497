\* telemetry_cadence_detector_config() with its durations scaled down.
CONSTANTS
  active_threshold_mg = 16
  active_peak_threshold_mg = 80
  quiet_threshold_mg = 14
  washer_spin_peak_mg = 480
  dryer_max_rms_mg = 180
  classification_smoothing_samples = 1
  confirm_motion = 2
  minimum_washer_runtime = 0
  minimum_dryer_runtime = 0
  done_quiet = 4
  resume_motion_confirm = 2
  dryer_handoff = 6
  notify_on_done = FALSE
  require_continuous_quiet = TRUE
  startup_settle = 2
  ClockSize = 12
  Gaps = {1, 3}
  Windows <- ProductionWindows
SPECIFICATION Spec
INVARIANTS
  TypeOK
  QuietReleasesPower
  TimersBacked
  QuietCounted
PROPERTIES
  DoneNeedsContinuousQuiet
  RunningNeedsConfirmedMotion
  ResumeNeedsSustainedMotion
