----------------------------- MODULE Monitoring -----------------------------
(***************************************************************************)
(* The whole path from the machine to the alert: the production loop of    *)
(* the firmware, whose detector decides how often to sample, and the relay *)
(* whose decision sees only the samples that were uploaded.                *)
(*                                                                         *)
(* Neither side can see the other's state.  The device releases its power  *)
(* bank after done_quiet; the relay needs SERVER_DONE_QUIET of samples.    *)
(***************************************************************************)
EXTENDS CompletionMonitor

CONSTANTS                  \* the detector, see LaundryDetector
  active_threshold_mg, active_peak_threshold_mg, quiet_threshold_mg,
  washer_spin_peak_mg, dryer_max_rms_mg, classification_smoothing_samples,
  confirm_motion, minimum_washer_runtime, minimum_dryer_runtime, done_quiet,
  resume_motion_confirm, dryer_handoff, notify_on_done, require_continuous_quiet,
  startup_settle, ClockSize, Gaps, Windows

CONSTANTS                  \* TelemetryCadenceConfig, in ticks
  startup_keep_awake, startup_poll, idle_poll, running_poll

CONSTANTS
  Uploads,    \* may a sample reach the relay (TRUE), may it be lost (FALSE)?
  MaxMoved    \* bound: windows with motion the machine makes; zero: any number

(* What the sensor delivers is a reading or a failed read. *)
ASSUME DeviceAssumption ==
  /\ Windows \subseteq [seconds : Nat, rms : Nat, peak : Nat]
  /\ ClockSize \in Nat
  /\ {startup_poll, idle_poll, running_poll} \subseteq 1 .. ClockSize - 1
  /\ done_quiet \in Nat
  /\ Uploads \subseteq BOOLEAN
  /\ MaxMoved \in Nat

(***************************************************************************)
(* telemetry_cadence_detector_config: the device judges single windows, by *)
(* the thresholds of the relay.                                            *)
(***************************************************************************)
ASSUME SharedThresholds ==
  /\ classification_smoothing_samples = 1
  /\ active_threshold_mg = MOTION_ACTIVE_RMS_MG
  /\ active_peak_threshold_mg = MOTION_ACTIVE_PEAK_MG
  /\ quiet_threshold_mg = MOTION_QUIET_RMS_MG
  /\ MOTION_ACTIVE_PEAK_MG <= HANDLING_PEAK_MG
  /\ MOTION_QUIET_RMS_MG <= HANDLING_RMS_MG

(***************************************************************************)
(* Its quiet time is unbroken and outlasts the relay's, in which as many   *)
(* samples are due as one average of the relay spans.                      *)
(***************************************************************************)
ASSUME DeviceOutlastsRelay ==
  /\ require_continuous_quiet
  /\ 0 < SERVER_DONE_QUIET /\ SERVER_DONE_QUIET <= done_quiet
  /\ (SERVER_CLASSIFIER_SMOOTHING_SAMPLES - 1) * running_poll <= SERVER_DONE_QUIET

VARIABLES
  state, current_label, last_done_label, last_done, cycle_started, quiet_started,
  quiet_resume_started, motion_seen, recent_windows, should_post, now, streak

VARIABLES
  silence,    \* ticks since the relay last received a sample
  same_boot,  \* has the uptime only grown since then?
  quiet_lost, \* was a sample lost since the device took the machine for quiet?
  moved       \* windows with motion so far, counted when they are bounded

D == INSTANCE LaundryDetector

device_vars ==
  <<state, current_label, last_done_label, last_done, cycle_started,
    quiet_started, quiet_resume_started, motion_seen, recent_windows,
    should_post, now, streak>>

vars == <<device_vars, monitor_vars, silence, same_boot, quiet_lost, moved>>

----------------------------------------------------------------------------
(* The cadence *)

Resting(st) == st \in {"Idle", "DoneSent"}

TelemetryPoll(at, st) ==
  IF ~Resting(st) THEN running_poll
  ELSE IF at < startup_keep_awake THEN startup_poll ELSE idle_poll

(***************************************************************************)
(* The loop naps for the poll time, or, once the device knows the time, up *)
(* to the next multiple of the poll time.                                  *)
(***************************************************************************)
AlignedNap(at, poll) == poll - (at % poll)

Naps == LET poll == TelemetryPoll(now, state) IN {poll, AlignedNap(now, poll)}

----------------------------------------------------------------------------
(* What the relay makes of a window *)

Posted(w) == [valid |-> w.seconds > 0, rms |-> w.rms, peak |-> w.peak]

Moving(w) == RawPhase(Posted(w)) \in {"active", "handling"}

Bounded == MaxMoved > 0

Upload(w, gap) ==
  /\ Receive(same_boot /\ now' >= now, silence + gap, Posted(w))
  /\ silence' = 0
  /\ same_boot' = TRUE

LoseSample(gap) ==
  /\ silence' = UpTo(SERVER_MAX_SAMPLE_GAP + 1, silence + gap)
  /\ same_boot' = (same_boot /\ now' >= now)
  /\ alert' = FALSE
  /\ UNCHANGED <<seen, chunk, counted, active_time, quiet_for>>

----------------------------------------------------------------------------
Init ==
  /\ D!Init
  /\ MonitorInit
  /\ silence = 0
  /\ same_boot = FALSE
  /\ quiet_lost = FALSE
  /\ moved = 0

Loop(w, gap, uploaded) ==
  /\ Moving(w) /\ Bounded => moved < MaxMoved
  /\ moved' = IF Moving(w) /\ Bounded THEN moved + 1 ELSE moved
  /\ D!Observe(w, gap)
  /\ IF uploaded THEN Upload(w, gap) ELSE LoseSample(gap)
  /\ quiet_lost' = (/\ state' \in {"QuietCandidate", "DoneSent"}
                    /\ ~uploaded \/ quiet_lost)

(* The device loses power or crashes, and starts afresh. *)
Restart ==
  /\ D!Boot
  /\ same_boot' = FALSE
  /\ alert' = FALSE
  /\ quiet_lost' = FALSE
  /\ UNCHANGED <<seen, chunk, counted, active_time, quiet_for, silence, moved>>

Next ==
  \/ \E w \in Windows, gap \in Naps, uploaded \in Uploads : Loop(w, gap, uploaded)
  \/ Restart

Spec == Init /\ [][Next]_vars

----------------------------------------------------------------------------
(* Properties *)

(***************************************************************************)
(* Unless a sample is lost while the device waits for the quiet to last,   *)
(* the relay has decided before the device lets its power bank sleep at    *)
(* the end of a load, whatever was lost of the load itself: no evidence is *)
(* left armed, waiting for quiet samples the device may no longer have     *)
(* power to send.                                                          *)
(***************************************************************************)
DecidedBeforePowerOff == state = "DoneSent" /\ ~quiet_lost => ~Armed

(***************************************************************************)
(* The two classifiers agree: the relay never announces the end of a load  *)
(* on a sample in which the device itself saw the machine running.         *)
(***************************************************************************)
AlertFindsDeviceQuiet ==
  alert => state \in {"Idle", "QuietCandidate", "DoneSent"}

(***************************************************************************)
(* README.md: brief setup movement cannot satisfy the runtime requirement  *)
(* merely by sitting still afterward.  Here as little as possible is asked *)
(* of it: a single moving window must not be enough.                       *)
(***************************************************************************)
BriefMovementCannotArm == alert => moved > 1
=============================================================================
