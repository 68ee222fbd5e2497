-------------------------- MODULE LaundryDetector --------------------------
(***************************************************************************)
(* The motion detector of the firmware, class LaundryDetector, driven the  *)
(* way the production loop drives it: observe_after_startup_settle is      *)
(* called with one motion window per loop iteration.                       *)
(*                                                                         *)
(* Time is the device's millis() clock in ticks.  The clock is an unsigned *)
(* 32-bit counter in the code; here it wraps at ClockSize.  The sample     *)
(* loop is sequential, so one observation is one step.                     *)
(***************************************************************************)
EXTENDS Integers, Sequences

CONSTANTS
  active_threshold_mg,        \* RMS at or above this is motion
  active_peak_threshold_mg,   \* peak at or above this is motion
  quiet_threshold_mg,         \* RMS at or below this is quiet
  washer_spin_peak_mg,
  dryer_max_rms_mg,
  classification_smoothing_samples,
  confirm_motion,             \* motion needed to confirm a start, in ticks
  minimum_washer_runtime,
  minimum_dryer_runtime,
  done_quiet,                 \* quiet needed to finish a cycle, in ticks
  resume_motion_confirm,      \* motion needed to leave a quiet candidate
  dryer_handoff,
  notify_on_done,             \* may the detector post its own completion?
  require_continuous_quiet,   \* does any non-quiet window restart the quiet time?
  startup_settle,             \* the detector is held in reset below this uptime
  ClockSize,                  \* the device clock counts modulo this
  Gaps,                       \* ticks that may pass between two observations
  Windows                     \* the motion windows the sensor can deliver

kMaxSmoothingSamples == 8

DetectorStates ==
  {"Idle", "MotionConfirming", "CycleRunning", "QuietCandidate", "DoneSent"}

CycleLabels == {"Unknown", "Washer", "Dryer", "Stack"}

(***************************************************************************)
(* A window carries its sample count (zero when every read failed) and its *)
(* RMS and peak.  A non-finite value in the code is a negative one here:   *)
(* both fail the same validity test.                                       *)
(***************************************************************************)
MotionWindow == [seconds : Nat, rms : Int, peak : Int]

Clock == 0 .. ClockSize - 1

ASSUME ThresholdAssumption ==
  /\ active_threshold_mg \in Nat
  /\ active_peak_threshold_mg \in Nat
  /\ quiet_threshold_mg \in Nat
  /\ washer_spin_peak_mg \in Nat
  /\ dryer_max_rms_mg \in Nat
  /\ classification_smoothing_samples \in Nat

ASSUME DurationAssumption ==
  /\ confirm_motion \in Nat
  /\ minimum_washer_runtime \in Nat
  /\ minimum_dryer_runtime \in Nat
  /\ done_quiet \in Nat \ {0}
  /\ resume_motion_confirm \in Nat
  /\ dryer_handoff \in Nat
  /\ startup_settle \in Nat \ {0}
  /\ notify_on_done \in BOOLEAN
  /\ require_continuous_quiet \in BOOLEAN

(***************************************************************************)
(* The clock wraps after 49 days: the loop observes more often than that,  *)
(* and a quiet time is shorter than that.                                  *)
(***************************************************************************)
ASSUME ClockAssumption ==
  /\ ClockSize \in Nat \ {0}
  /\ Gaps \subseteq 1 .. ClockSize - 1
  /\ \A gap \in Gaps : done_quiet + gap <= ClockSize

ASSUME WindowAssumption == Windows \subseteq MotionWindow

----------------------------------------------------------------------------
VARIABLES
  state,                 \* state_
  current_label,         \* current_label_
  last_done_label,       \* last_done_label_
  last_done,             \* last_done_ms_
  cycle_started,         \* cycle_started_ms_
  quiet_started,         \* quiet_started_ms_, zero when not counting
  quiet_resume_started,  \* quiet_resume_started_ms_, zero when not counting
  motion_seen,           \* the saw_*_ flags that are set
  recent_windows,        \* the past windows the smoothing can still reach
  should_post,           \* should_post of the last decision
  now                    \* millis() at the last observation

(***************************************************************************)
(* What really happened, for the properties only: the class of the latest  *)
(* windows given to the detector and for how many ticks that class has     *)
(* held without a break, counted up to SpanLimit.                          *)
(***************************************************************************)
VARIABLE streak

detector_vars ==
  <<state, current_label, last_done_label, last_done, cycle_started,
    quiet_started, quiet_resume_started, motion_seen, recent_windows,
    should_post>>

vars == <<detector_vars, now, streak>>

----------------------------------------------------------------------------
(* Reading a window *)

Valid(w) == w.seconds # 0 /\ w.rms >= 0 /\ w.peak >= w.rms

SmoothingCount ==
  IF classification_smoothing_samples = 0 THEN 1
  ELSE IF classification_smoothing_samples > kMaxSmoothingSamples
       THEN kMaxSmoothingSamples
       ELSE classification_smoothing_samples

(***************************************************************************)
(* The ring buffer is a sequence.  Only its last SmoothingCount - 1 entries*)
(* can still be averaged with a later window, so only they are kept.       *)
(***************************************************************************)
LastOnes(s, n) == IF Len(s) <= n THEN s ELSE SubSeq(s, Len(s) - n + 1, Len(s))

Remember(w) == LastOnes(Append(recent_windows, w), SmoothingCount - 1)

Total(f) ==
  LET sum[i \in 0 .. Len(f)] == IF i = 0 THEN 0 ELSE sum[i - 1] + f[i]
  IN  sum[Len(f)]

(***************************************************************************)
(* The average over the smoothing buffer, kept as sums and a count: a      *)
(* threshold t is compared as sum >= t * count.                            *)
(***************************************************************************)
Smoothed(w) ==
  LET buffer == Append(recent_windows, w)
  IN  [rms   |-> Total([i \in 1 .. Len(buffer) |-> buffer[i].rms]),
       peak  |-> Total([i \in 1 .. Len(buffer) |-> buffer[i].peak]),
       count |-> Len(buffer)]

IsActive(s) == \/ s.rms >= active_threshold_mg * s.count
               \/ s.peak >= active_peak_threshold_mg * s.count

IsQuiet(s) == s.rms <= quiet_threshold_mg * s.count

(* The three ways observe() treats a valid window, in the order it tests. *)
Class(s) ==
  IF IsActive(s) THEN "active" ELSE IF IsQuiet(s) THEN "quiet" ELSE "uncertain"

----------------------------------------------------------------------------
(* Clock arithmetic: subtraction of unsigned counters *)

Elapsed(at, then) == IF at >= then THEN at - then ELSE at + ClockSize - then

(* Mistake: the clock does not wrap. *)
LaterUnwrapped(at, gap) == at + gap

Later(at, gap) ==
  IF at + gap >= ClockSize THEN at + gap - ClockSize ELSE at + gap

----------------------------------------------------------------------------
(* Steps of the state machine, each for a window observed at time `at' *)

(***************************************************************************)
(* reset() keeps last_done_label and last_done.                            *)
(***************************************************************************)
Reset ==
  /\ state' = "Idle"
  /\ current_label' = "Unknown"
  /\ cycle_started' = 0
  /\ quiet_started' = 0
  /\ quiet_resume_started' = 0
  /\ motion_seen' = {}
  /\ recent_windows' = <<>>
  /\ UNCHANGED <<last_done_label, last_done>>

MotionIn(s) ==
  (IF s.peak >= washer_spin_peak_mg * s.count THEN {"spin_peak"} ELSE {})
  \cup (IF s.rms <= dryer_max_rms_mg * s.count
        THEN {"dryer_like"} ELSE {"midrange"})

StartCycle(s, at) ==
  /\ state' = "MotionConfirming"
  /\ current_label' = "Unknown"
  /\ cycle_started' = at
  /\ quiet_started' = 0
  /\ quiet_resume_started' = 0
  /\ motion_seen' = MotionIn(s)
  /\ UNCHANGED <<last_done_label, last_done>>

FollowsRecentWasher(at) ==
  last_done_label = "Washer" /\ Elapsed(at, last_done) <= dryer_handoff

ClassifyCycle(at) ==
  IF "spin_peak" \in motion_seen THEN "Washer"
  ELSE IF FollowsRecentWasher(at) /\ "dryer_like" \in motion_seen THEN "Dryer"
  ELSE "Stack"

MinimumRuntimeFor(label) ==
  IF label = "Dryer" THEN minimum_dryer_runtime ELSE minimum_washer_runtime

KeepTimers ==
  UNCHANGED <<current_label, last_done_label, last_done, cycle_started,
              quiet_started, quiet_resume_started>>

(* case Idle and case DoneSent *)
WaitForMotion(s, at) ==
  /\ state \in {"Idle", "DoneSent"}
  /\ IF IsActive(s) THEN StartCycle(s, at)
                    ELSE KeepTimers /\ UNCHANGED <<state, motion_seen>>
  /\ should_post' = FALSE

(* case MotionConfirming, still moving *)
ConfirmMotion(s, at) ==
  /\ state = "MotionConfirming"
  /\ IsActive(s)
  /\ motion_seen' = motion_seen \cup MotionIn(s)
  /\ state' = IF Elapsed(at, cycle_started) >= confirm_motion
              THEN "CycleRunning" ELSE state
  /\ should_post' = FALSE
  /\ KeepTimers

(* Mistake: motion that did not last keeps its start time. *)
RejectMotionLate(s) ==
  /\ state = "MotionConfirming"
  /\ ~IsActive(s)
  /\ should_post' = FALSE
  /\ KeepTimers
  /\ UNCHANGED <<state, motion_seen, recent_windows>>

(* case MotionConfirming, the motion did not last *)
RejectMotion(s) ==
  /\ state = "MotionConfirming"
  /\ ~IsActive(s)
  /\ should_post' = FALSE
  /\ Reset

(* case CycleRunning *)
KeepRunning(s) ==
  /\ state = "CycleRunning"
  /\ ~(IsQuiet(s) /\ ~IsActive(s))
  /\ motion_seen' = IF IsActive(s) THEN motion_seen \cup MotionIn(s)
                    ELSE motion_seen
  /\ should_post' = FALSE
  /\ KeepTimers
  /\ UNCHANGED state

SuspectDone(s, at) ==
  /\ state = "CycleRunning"
  /\ ~IsActive(s) /\ IsQuiet(s)
  /\ state' = "QuietCandidate"
  /\ quiet_started' = at
  /\ quiet_resume_started' = 0
  /\ current_label' = ClassifyCycle(at)
  /\ should_post' = FALSE
  /\ UNCHANGED <<last_done_label, last_done, cycle_started, motion_seen>>

(* case QuietCandidate, the machine moves again *)
MoveAgain(s, at) ==
  LET resumed == IF quiet_resume_started = 0 THEN at ELSE quiet_resume_started
      confirmed == Elapsed(at, resumed) >= resume_motion_confirm
  IN  /\ state = "QuietCandidate"
      /\ IsActive(s)
      /\ quiet_started' = IF require_continuous_quiet THEN 0 ELSE quiet_started
      /\ quiet_resume_started' = IF confirmed THEN 0 ELSE resumed
      /\ state' = IF confirmed THEN "CycleRunning" ELSE state
      /\ motion_seen' = IF confirmed THEN motion_seen \cup MotionIn(s)
                        ELSE motion_seen
      /\ should_post' = FALSE
      /\ UNCHANGED <<current_label, last_done_label, last_done, cycle_started>>

(* Mistake: an uncertain window passes for quiet and for motion alike. *)
DoubtNothing(s) ==
  /\ state = "QuietCandidate"
  /\ ~IsActive(s) /\ ~IsQuiet(s)
  /\ should_post' = FALSE
  /\ KeepTimers
  /\ UNCHANGED <<state, motion_seen>>

(* case QuietCandidate, neither moving nor quiet *)
DoubtQuiet(s) ==
  /\ state = "QuietCandidate"
  /\ ~IsActive(s) /\ ~IsQuiet(s)
  /\ quiet_started' = IF require_continuous_quiet THEN 0 ELSE quiet_started
  /\ quiet_resume_started' = 0
  /\ should_post' = FALSE
  /\ UNCHANGED <<state, current_label, last_done_label, last_done,
                 cycle_started, motion_seen>>

(* Mistake: every quiet window starts the count anew. *)
QuietFromHere(at) == at

(* case QuietCandidate, still quiet *)
QuietFrom(at) == IF quiet_started = 0 THEN at ELSE quiet_started

QuietLongEnough(at) ==
  /\ Elapsed(at, QuietFrom(at)) >= done_quiet
  /\ Elapsed(at, cycle_started) >= MinimumRuntimeFor(current_label)

StayQuiet(s, at) ==
  /\ state = "QuietCandidate"
  /\ ~IsActive(s) /\ IsQuiet(s)
  /\ quiet_started' = QuietFrom(at)
  /\ quiet_resume_started' = 0
  /\ IF QuietLongEnough(at)
     THEN /\ state' = "DoneSent"
          /\ last_done_label' = current_label
          /\ last_done' = at
          /\ should_post' = notify_on_done
     ELSE /\ should_post' = FALSE
          /\ UNCHANGED <<state, last_done_label, last_done>>
  /\ UNCHANGED <<current_label, cycle_started, motion_seen>>

(***************************************************************************)
(* observe() of a valid window: smooth it, then take the switch.           *)
(***************************************************************************)
ObserveValid(w, at) ==
  /\ Valid(w)
  /\ LET s == Smoothed(w)
     IN  \/ RejectMotion(s)
         \/ /\ recent_windows' = Remember(w)
            /\ \/ WaitForMotion(s, at)
               \/ ConfirmMotion(s, at)
               \/ KeepRunning(s)
               \/ SuspectDone(s, at)
               \/ MoveAgain(s, at)
               \/ DoubtQuiet(s)
               \/ StayQuiet(s, at)

(***************************************************************************)
(* observe() of a failed read: missing evidence, never a step of the quiet *)
(* count.                                                                  *)
(***************************************************************************)
ObserveInvalid(w) ==
  /\ ~Valid(w)
  /\ should_post' = FALSE
  /\ IF state = "MotionConfirming"
     THEN Reset
     ELSE /\ state' = IF state = "QuietCandidate" THEN "CycleRunning" ELSE state
          /\ quiet_resume_started' = 0
          /\ recent_windows' = <<>>
          /\ UNCHANGED <<current_label, last_done_label, last_done,
                         cycle_started, quiet_started, motion_seen>>

(***************************************************************************)
(* observe_after_startup_settle, in the first ticks after a boot or after  *)
(* the clock wrapped.                                                      *)
(***************************************************************************)
Settle(at) ==
  /\ at < startup_settle
  /\ should_post' = FALSE
  /\ Reset

ObserveAfterStartupSettle(w, at) ==
  \/ Settle(at)
  \/ at >= startup_settle /\ ObserveValid(w, at)
  \/ at >= startup_settle /\ ObserveInvalid(w)

----------------------------------------------------------------------------
(* The streak of real evidence *)

SpanLimit ==
  IF done_quiet >= confirm_motion /\ done_quiet >= resume_motion_confirm
  THEN done_quiet
  ELSE IF confirm_motion >= resume_motion_confirm
       THEN confirm_motion ELSE resume_motion_confirm

Broken == [kind |-> "none", span |-> 0]

Extend(c, gap) ==
  IF streak.kind # c THEN [kind |-> c, span |-> 0]
  ELSE [kind |-> c, span |-> IF streak.span + gap >= SpanLimit
                             THEN SpanLimit ELSE streak.span + gap]

Record(w, at, gap) ==
  streak' = IF at < startup_settle \/ ~Valid(w) THEN Broken
            ELSE Extend(Class(Smoothed(w)), gap)

----------------------------------------------------------------------------
Init ==
  /\ state = "Idle"
  /\ current_label = "Unknown"
  /\ last_done_label = "Unknown"
  /\ last_done = 0
  /\ cycle_started = 0
  /\ quiet_started = 0
  /\ quiet_resume_started = 0
  /\ motion_seen = {}
  /\ recent_windows = <<>>
  /\ should_post = FALSE
  /\ now = 0
  /\ streak = Broken

(***************************************************************************)
(* The device starts again: nothing of the detector survives.              *)
(***************************************************************************)
Boot ==
  /\ state' = "Idle" /\ current_label' = "Unknown" /\ last_done_label' = "Unknown"
  /\ last_done' = 0 /\ cycle_started' = 0
  /\ quiet_started' = 0 /\ quiet_resume_started' = 0
  /\ motion_seen' = {} /\ recent_windows' = <<>> /\ should_post' = FALSE
  /\ now' = 0 /\ streak' = Broken

Observe(w, gap) ==
  LET at == Later(now, gap)
  IN  /\ now' = at
      /\ ObserveAfterStartupSettle(w, at)
      /\ Record(w, at, gap)

Next == \E w \in Windows, gap \in Gaps : Observe(w, gap)

Spec == Init /\ [][Next]_vars

----------------------------------------------------------------------------
(* Properties *)

(***************************************************************************)
(* Every member of the detector has its type, and every time it remembers  *)
(* is a time of the wrapping clock.                                        *)
(***************************************************************************)
TypeOK ==
  /\ state \in DetectorStates
  /\ current_label \in CycleLabels
  /\ last_done_label \in CycleLabels
  /\ last_done \in Clock
  /\ cycle_started \in Clock
  /\ quiet_started \in Clock
  /\ quiet_resume_started \in Clock
  /\ motion_seen \subseteq {"spin_peak", "dryer_like", "midrange"}
  /\ recent_windows \in Seq(Windows)
  /\ should_post \in BOOLEAN
  /\ now \in Clock
  /\ streak \in [kind : {"none", "active", "quiet", "uncertain"}, span : Nat]

Held(kind, ticks) == streak.kind = kind /\ streak.span >= ticks

(***************************************************************************)
(* With require_continuous_quiet, a cycle is declared done only after      *)
(* done_quiet ticks of real time in which every window given to observe()  *)
(* was quiet: no failed read, no uncertain window, no movement, no reset   *)
(* and no wrap of the clock in between.                                    *)
(***************************************************************************)
DoneNeedsContinuousQuiet ==
  [][ (require_continuous_quiet /\ state # "DoneSent" /\ state' = "DoneSent")
      => Held("quiet", done_quiet)' ]_vars

(***************************************************************************)
(* A cycle is taken to be running only after confirm_motion ticks of real  *)
(* time in which every window was active; a stale start time, a failed     *)
(* read or a wrapped clock never shortens the confirmation.                *)
(***************************************************************************)
RunningNeedsConfirmedMotion ==
  [][ (state = "MotionConfirming" /\ state' = "CycleRunning")
      => Held("active", confirm_motion)' ]_vars

(***************************************************************************)
(* A quiet candidate is abandoned for a running cycle only by a failed     *)
(* read or after resume_motion_confirm ticks of unbroken motion: bumps     *)
(* separated by quiet or uncertain windows never add up.                   *)
(***************************************************************************)
ResumeNeedsSustainedMotion ==
  [][ (state = "QuietCandidate" /\ state' = "CycleRunning")
      => (streak' = Broken \/ Held("active", resume_motion_confirm)') ]_vars

(* telemetry_cadence_detector_config, as far as the next property needs it. *)
ProductionSettings ==
  require_continuous_quiet /\ minimum_washer_runtime = 0 /\ minimum_dryer_runtime = 0

(***************************************************************************)
(* Once the windows have been quiet for done_quiet ticks without a break,  *)
(* the detector is in a state that lets the power bank sleep, whatever     *)
(* happened before: no leftover timer holds it in a cycle.  It is claimed  *)
(* for the production settings, where no minimum runtime applies.          *)
(***************************************************************************)
QuietReleasesPower ==
  (ProductionSettings /\ Held("quiet", done_quiet)) => state \in {"Idle", "DoneSent"}

(***************************************************************************)
(* The inductive invariant behind these properties.                        *)
(*                                                                         *)
(* A timer that is running was started inside the present streak, of the   *)
(* kind it is meant to count, so the unsigned difference it yields never   *)
(* exceeds the real length of that streak.                                 *)
(***************************************************************************)
Backed(kind, then) ==
  /\ streak.kind = kind
  /\ Elapsed(now, then) <= streak.span \/ streak.span = SpanLimit

TimersBacked ==
  /\ state = "MotionConfirming" => Backed("active", cycle_started)
  /\ state = "QuietCandidate" /\ quiet_resume_started # 0
       => Backed("active", quiet_resume_started)
  /\ state = "QuietCandidate" /\ quiet_started # 0 /\ require_continuous_quiet
       => Backed("quiet", quiet_started)

(***************************************************************************)
(* Conversely, in the production settings a quiet streak inside a cycle is *)
(* being counted, from its first window and not yet to its end.            *)
(***************************************************************************)
QuietCounted ==
  (ProductionSettings /\ streak.kind = "quiet" /\ state \notin {"Idle", "DoneSent"})
  => /\ state = "QuietCandidate"
     /\ quiet_started # 0
     /\ streak.span < done_quiet
     /\ Elapsed(now, quiet_started) = streak.span
=============================================================================
