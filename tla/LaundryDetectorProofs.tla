----------------------- MODULE LaundryDetectorProofs -----------------------
(***************************************************************************)
(* For every setting of the thresholds, durations, clock size, sampling    *)
(* gaps and readings, the detector of LaundryDetector is type correct and  *)
(* its timers never claim more than the evidence it was given.             *)
(***************************************************************************)
EXTENDS LaundryDetector, TLAPS

----------------------------------------------------------------------------
(* Clock arithmetic *)

(***************************************************************************)
(* Adding a gap to the clock stays in the clock, and unsigned subtraction  *)
(* grows by at most that gap, by exactly it while the clock has not turned *)
(* around since `then'.                                                    *)
(***************************************************************************)
LEMMA ClockStep ==
  ASSUME NEW t \in Clock, NEW then \in Clock, NEW gap \in Gaps
  PROVE  /\ Later(t, gap) \in Clock
         /\ Elapsed(t, then) \in Nat
         /\ Elapsed(Later(t, gap), then) \in Nat
         /\ Elapsed(Later(t, gap), then) <= Elapsed(t, then) + gap
         /\ Elapsed(t, then) + gap < ClockSize
              => Elapsed(Later(t, gap), then) = Elapsed(t, then) + gap
  BY ClockAssumption DEF Clock, Later, Elapsed

(***************************************************************************)
(* No time has passed since now.                                           *)
(***************************************************************************)
LEMMA ElapsedNone == ASSUME NEW t \in Clock PROVE Elapsed(t, t) = 0
  BY ClockAssumption DEF Clock, Elapsed

----------------------------------------------------------------------------
(* Type correctness *)

(***************************************************************************)
(* SpanLimit is a number no smaller than the durations it bounds.          *)
(***************************************************************************)
LEMMA SpanLimitBounds ==
  /\ SpanLimit \in Nat
  /\ SpanLimit >= done_quiet
  /\ SpanLimit >= confirm_motion
  /\ SpanLimit >= resume_motion_confirm
  BY DurationAssumption DEF SpanLimit

(***************************************************************************)
(* The smoothing buffer holds delivered windows only.                      *)
(***************************************************************************)
LEMMA RememberType ==
  ASSUME NEW w \in Windows, recent_windows \in Seq(Windows)
  PROVE  Remember(w) \in Seq(Windows)
<1> DEFINE buffer == Append(recent_windows, w)
           n == SmoothingCount - 1
<1>1. buffer \in Seq(Windows)
  OBVIOUS
<1>2. n \in Nat
  BY ThresholdAssumption DEF SmoothingCount, kMaxSmoothingSamples
<1>3. CASE Len(buffer) <= n
  BY <1>1, <1>3 DEF Remember, LastOnes
<1>4. CASE Len(buffer) > n
  <2> HIDE DEF buffer, n
  <2>1. SubSeq(buffer, Len(buffer) - n + 1, Len(buffer)) \in Seq(Windows)
    BY <1>1, <1>2, <1>4
  <2>2. Remember(w) = LastOnes(buffer, n)
    BY DEF Remember, buffer, n
  <2> QED BY <1>1, <1>2, <1>4, <2>1, <2>2 DEF LastOnes
<1> QED BY <1>1, <1>2, <1>3, <1>4

(* A new detector has all its types. *)
LEMMA InitTypeOK == Init => TypeOK
<1> SUFFICES ASSUME Init PROVE TypeOK
  OBVIOUS
<1>1. recent_windows \in Seq(Windows)
  BY DEF Init
<1>2. streak \in [kind : {"none", "active", "quiet", "uncertain"}, span : Nat]
  BY DEF Init, Broken
<1>3. 0 \in Clock
  BY ClockAssumption DEF Clock
<1>4. /\ state \in DetectorStates
      /\ current_label \in CycleLabels
      /\ last_done_label \in CycleLabels
      /\ motion_seen \subseteq {"spin_peak", "dryer_like", "midrange"}
      /\ should_post \in BOOLEAN
  BY DEF Init, DetectorStates, CycleLabels
<1>5. /\ last_done \in Clock
      /\ cycle_started \in Clock
      /\ quiet_started \in Clock
      /\ quiet_resume_started \in Clock
      /\ now \in Clock
  BY <1>3 DEF Init
<1> QED
  BY <1>1, <1>2, <1>4, <1>5 DEF TypeOK

(***************************************************************************)
(* One observation keeps every variable in its type.                       *)
(***************************************************************************)
LEMMA ObserveTypeOK ==
  ASSUME TypeOK, NEW w \in Windows, NEW gap \in Gaps, Observe(w, gap)
  PROVE  TypeOK'
<1> DEFINE at == Later(now, gap)
           s == Smoothed(w)
<1>1. at \in Clock /\ now' = at /\ 0 \in Clock
  BY ClockStep, ClockAssumption DEF TypeOK, Observe, Clock
<1>2. MotionIn(s) \subseteq {"spin_peak", "dryer_like", "midrange"}
  BY DEF MotionIn
<1>3. streak' \in [kind : {"none", "active", "quiet", "uncertain"}, span : Nat]
  BY SpanLimitBounds, ClockAssumption
     DEF Observe, Record, Extend, Broken, Class, TypeOK
<1>4. recent_windows' \in Seq(Windows)
  <2>1. Remember(w) \in Seq(Windows)
    BY RememberType DEF TypeOK
  <2>2. <<>> \in Seq(Windows) /\ recent_windows \in Seq(Windows)
    BY DEF TypeOK
  <2>3. recent_windows' = Remember(w) \/ recent_windows' = <<>>
    BY DEF Observe, ObserveAfterStartupSettle, Settle, Reset, ObserveValid,
           ObserveInvalid, RejectMotion
  <2> QED BY <2>1, <2>2, <2>3
<1> DEFINE Rest == /\ state' \in DetectorStates
                   /\ current_label' \in CycleLabels
                   /\ last_done_label' \in CycleLabels
                   /\ last_done' \in Clock
                   /\ cycle_started' \in Clock
                   /\ quiet_started' \in Clock
                   /\ quiet_resume_started' \in Clock
                   /\ motion_seen' \subseteq {"spin_peak", "dryer_like", "midrange"}
                   /\ should_post' \in BOOLEAN
<1>5. ASSUME Reset, should_post' = FALSE PROVE Rest
  BY <1>1, <1>5 DEF Reset, TypeOK, DetectorStates, CycleLabels
<1>6. ASSUME ObserveValid(w, at) PROVE Rest
  <2> HIDE DEF at, s
  <2>1. CASE RejectMotion(s)
    BY <1>5, <2>1 DEF RejectMotion
  <2>2. CASE WaitForMotion(s, at)
    BY <1>1, <1>2, <2>2
       DEF WaitForMotion, StartCycle, KeepTimers, TypeOK, DetectorStates, CycleLabels
  <2>3. CASE ConfirmMotion(s, at)
    BY <1>2, <2>3 DEF ConfirmMotion, KeepTimers, TypeOK, DetectorStates
  <2>4. CASE KeepRunning(s)
    BY <1>2, <2>4 DEF KeepRunning, KeepTimers, TypeOK
  <2>5. CASE SuspectDone(s, at)
    BY <1>1, <2>5 DEF SuspectDone, ClassifyCycle, TypeOK, DetectorStates, CycleLabels
  <2>6. CASE MoveAgain(s, at)
    BY <1>1, <1>2, <2>6 DEF MoveAgain, TypeOK, DetectorStates
  <2>7. CASE DoubtQuiet(s)
    BY <1>1, <2>7 DEF DoubtQuiet, TypeOK
  <2>8. CASE StayQuiet(s, at)
    BY <1>1, <2>8, DurationAssumption
       DEF StayQuiet, QuietFrom, TypeOK, DetectorStates, CycleLabels
  <2> QED
    BY <1>6, <2>1, <2>2, <2>3, <2>4, <2>5, <2>6, <2>7, <2>8 DEF ObserveValid, s
<1>7. ASSUME ObserveInvalid(w) PROVE Rest
  BY <1>1, <1>5, <1>7 DEF ObserveInvalid, TypeOK, DetectorStates
<1>8. Rest
  BY <1>5, <1>6, <1>7 DEF Observe, ObserveAfterStartupSettle, Settle
<1> QED
  BY <1>1, <1>3, <1>4, <1>8 DEF TypeOK

(***************************************************************************)
(* Whatever it is shown, the detector stays in its types.                  *)
(***************************************************************************)
THEOREM TypeCorrect == Spec => []TypeOK
<1>1. Init => TypeOK
  BY InitTypeOK
<1>2. TypeOK /\ [Next]_vars => TypeOK'
  <2>1. CASE Next
    BY <2>1, ObserveTypeOK DEF Next
  <2>2. CASE UNCHANGED vars
    BY <2>2 DEF TypeOK, vars, detector_vars
  <2> QED BY <2>1, <2>2
<1> QED BY <1>1, <1>2, PTL DEF Spec

----------------------------------------------------------------------------
(* The timers and the evidence *)

(***************************************************************************)
(* A window of the same kind extends the streak by the gap; one of another *)
(* kind starts a new streak.                                               *)
(***************************************************************************)
LEMMA StreakStep ==
  ASSUME TypeOK, NEW gap \in Gaps, NEW c, streak' = Extend(c, gap)
  PROVE  /\ streak'.kind = c
         /\ streak'.span \in Nat
         /\ streak.kind = c =>
              \/ streak.span + gap < SpanLimit /\ streak'.span = streak.span + gap
              \/ streak.span + gap >= SpanLimit /\ streak'.span = SpanLimit
         /\ streak.kind # c => streak'.span = 0
  BY SpanLimitBounds, ClockAssumption DEF TypeOK, Extend

(***************************************************************************)
(* A timer backed by the streak is still backed after a window of the same *)
(* kind, and what it then shows of time the streak really lasted.          *)
(***************************************************************************)
LEMMA BackedStep ==
  ASSUME TypeOK, NEW gap \in Gaps, NEW c, streak' = Extend(c, gap),
         NEW then \in Clock, Backed(c, then)
  PROVE  /\ streak'.kind = c
         /\ \/ Elapsed(Later(now, gap), then) <= streak'.span
            \/ streak'.span = SpanLimit
         /\ \A d \in Nat :
              (d <= SpanLimit /\ Elapsed(Later(now, gap), then) >= d)
                => streak'.span >= d
<1>1. now \in Clock /\ streak.span \in Nat /\ gap \in Nat
  BY ClockAssumption DEF TypeOK
<1>2. /\ Elapsed(now, then) \in Nat
      /\ Elapsed(Later(now, gap), then) \in Nat
      /\ Elapsed(Later(now, gap), then) <= Elapsed(now, then) + gap
  BY <1>1, ClockStep
<1>3. /\ streak.kind = c
      /\ Elapsed(now, then) <= streak.span \/ streak.span = SpanLimit
  BY DEF Backed
<1>4. /\ streak'.kind = c
      /\ streak'.span \in Nat
      /\ \/ streak.span + gap < SpanLimit /\ streak'.span = streak.span + gap
         \/ streak.span + gap >= SpanLimit /\ streak'.span = SpanLimit
  BY <1>3, StreakStep
<1>5. SpanLimit \in Nat
  BY SpanLimitBounds
<1>6. \/ Elapsed(Later(now, gap), then) <= streak'.span
      \/ streak'.span = SpanLimit
  BY <1>1, <1>2, <1>3, <1>4, <1>5
<1> QED
  BY <1>2, <1>4, <1>5, <1>6

(***************************************************************************)
(* What an observation does to the streak: it is broken by a step that     *)
(* resets or fails, and extended by the class of a valid window.           *)
(***************************************************************************)
LEMMA RecordStep ==
  ASSUME TypeOK, NEW w, NEW gap \in Gaps, Observe(w, gap)
  PROVE  LET at == Later(now, gap)
         IN  /\ now' = at
             /\ \/ Settle(at) /\ streak' = Broken
                \/ ObserveInvalid(w) /\ streak' = Broken
                \/ /\ at >= startup_settle
                   /\ ObserveValid(w, at)
                   /\ streak' = Extend(Class(Smoothed(w)), gap)
<1>1. Later(now, gap) \in Int /\ startup_settle \in Int
  BY ClockStep, DurationAssumption, ClockAssumption DEF TypeOK, Clock
<1> QED
  BY <1>1 DEF Observe, ObserveAfterStartupSettle, ObserveValid, ObserveInvalid, Record,
         Settle

(***************************************************************************)
(* One observation keeps every running timer backed by the streak.         *)
(***************************************************************************)
LEMMA ObserveTimersBacked ==
  ASSUME TypeOK, TypeOK', TimersBacked, NEW w \in Windows, NEW gap \in Gaps,
         Observe(w, gap)
  PROVE  TimersBacked'
<1> DEFINE at == Later(now, gap)
           s == Smoothed(w)
<1>1. at \in Clock /\ now' = at /\ Elapsed(at, at) = 0
  BY ClockStep, ElapsedNone DEF TypeOK, Observe
<1>2. CASE Settle(at)
  BY <1>2 DEF Settle, Reset, TimersBacked
<1>3. CASE ObserveInvalid(w)
  BY <1>3 DEF ObserveInvalid, Reset, TimersBacked
<1>4. CASE ObserveValid(w, at) /\ streak' = Extend(Class(s), gap)
  <2> HIDE DEF at, s
  <2>1. streak'.kind = Class(s) /\ streak'.span \in Nat
    BY <1>4, StreakStep
  <2>2. ASSUME NEW then \in Clock, Backed(Class(s), then)
        PROVE  \/ Elapsed(now', then) <= streak'.span
               \/ streak'.span = SpanLimit
    BY <1>1, <1>4, <2>2, BackedStep DEF at
  <2>3. CASE RejectMotion(s)
    BY <2>3 DEF RejectMotion, Reset, TimersBacked
  <2>4. CASE WaitForMotion(s, at)
    BY <1>1, <2>1, <2>4
       DEF WaitForMotion, StartCycle, KeepTimers, TimersBacked, Backed, Class
  <2>5. CASE ConfirmMotion(s, at)
    <3>1. Class(s) = "active" /\ cycle_started' = cycle_started
      BY <2>5 DEF ConfirmMotion, KeepTimers, Class
    <3>2. Backed("active", cycle_started) /\ cycle_started \in Clock
      BY <2>5 DEF ConfirmMotion, TimersBacked, TypeOK
    <3>3. Backed("active", cycle_started)'
      BY <2>1, <2>2, <3>1, <3>2 DEF Backed
    <3> QED BY <2>5, <3>1, <3>3 DEF ConfirmMotion, TimersBacked
  <2>6. CASE KeepRunning(s)
    BY <2>6 DEF KeepRunning, TimersBacked
  <2>7. CASE SuspectDone(s, at)
    BY <1>1, <2>1, <2>7 DEF SuspectDone, TimersBacked, Backed, Class
  <2>8. CASE MoveAgain(s, at)
    <3>1. Class(s) = "active"
      BY <2>8 DEF MoveAgain, Class
    <3>2. CASE quiet_resume_started = 0
      BY <1>1, <2>1, <2>8, <3>1, <3>2 DEF MoveAgain, TimersBacked, Backed
    <3>3. CASE quiet_resume_started # 0
      <4>1. Backed("active", quiet_resume_started) /\ quiet_resume_started \in Clock
        BY <2>8, <3>3 DEF MoveAgain, TimersBacked, TypeOK
      <4>2. \/ Elapsed(now', quiet_resume_started) <= streak'.span
            \/ streak'.span = SpanLimit
        BY <2>2, <3>1, <4>1
      <4> QED
        BY <2>1, <2>8, <3>1, <3>3, <4>2 DEF MoveAgain, TimersBacked, Backed
    <3> QED BY <3>2, <3>3
  <2>9. CASE DoubtQuiet(s)
    BY <2>9 DEF DoubtQuiet, TimersBacked
  <2>10. CASE StayQuiet(s, at)
    <3>1. Class(s) = "quiet" /\ quiet_resume_started' = 0
      BY <2>10 DEF StayQuiet, Class
    <3>2. CASE quiet_started = 0
      BY <1>1, <2>1, <2>10, <3>1, <3>2 DEF StayQuiet, QuietFrom, TimersBacked, Backed
    <3>3. CASE quiet_started # 0 /\ require_continuous_quiet
      <4>1. Backed("quiet", quiet_started) /\ quiet_started \in Clock
        BY <2>10, <3>3 DEF StayQuiet, TimersBacked, TypeOK
      <4>2. \/ Elapsed(now', quiet_started) <= streak'.span
            \/ streak'.span = SpanLimit
        BY <2>2, <3>1, <4>1
      <4> QED
        BY <2>1, <2>10, <3>1, <3>3, <4>2
           DEF StayQuiet, QuietFrom, TimersBacked, Backed
    <3>4. CASE ~require_continuous_quiet
      BY <2>10, <3>1, <3>4 DEF StayQuiet, TimersBacked
    <3> QED BY <3>2, <3>3, <3>4
  <2> QED
    BY <1>4, <2>3, <2>4, <2>5, <2>6, <2>7, <2>8, <2>9, <2>10 DEF ObserveValid, s
<1> QED
  BY <1>2, <1>3, <1>4, RecordStep

(***************************************************************************)
(* One observation keeps a quiet streak inside a cycle counted.            *)
(***************************************************************************)
LEMMA ObserveQuietCounted ==
  ASSUME TypeOK, TypeOK', TimersBacked, QuietCounted,
         NEW w \in Windows, NEW gap \in Gaps, Observe(w, gap)
  PROVE  QuietCounted'
<1> SUFFICES ASSUME ProductionSettings, streak'.kind = "quiet",
                    state' \notin {"Idle", "DoneSent"}
             PROVE  /\ state' = "QuietCandidate"
                    /\ quiet_started' # 0
                    /\ streak'.span < done_quiet
                    /\ Elapsed(now', quiet_started') = streak'.span
  BY DEF QuietCounted, ProductionSettings
<1> DEFINE at == Later(now, gap)
           s == Smoothed(w)
<1>1. /\ at \in Clock /\ now' = at /\ now \in Clock
      /\ Elapsed(at, at) = 0
      /\ done_quiet \in Nat \ {0}
  BY ClockStep, ElapsedNone, DurationAssumption DEF TypeOK, Observe
<1>2. ~(Settle(at) /\ streak' = Broken) /\ ~(ObserveInvalid(w) /\ streak' = Broken)
  BY DEF Broken
<1>3. /\ at >= startup_settle
      /\ ObserveValid(w, at)
      /\ streak' = Extend(Class(s), gap)
  BY <1>2, RecordStep
<1> HIDE DEF at, s
<1>4. at # 0
  BY <1>1, <1>3, DurationAssumption DEF Clock
<1>5. Class(s) = "quiet" /\ ~IsActive(s) /\ IsQuiet(s)
  BY <1>3, StreakStep DEF Class
<1>6. streak.kind # "quiet" => streak'.span = 0
  BY <1>3, <1>5, StreakStep
<1>7. CASE SuspectDone(s, at)
  BY <1>1, <1>4, <1>6, <1>7 DEF SuspectDone, QuietCounted
<1>8. CASE StayQuiet(s, at)
  <2>1. state = "QuietCandidate" /\ state' = "QuietCandidate" /\ ~QuietLongEnough(at)
    BY <1>8 DEF StayQuiet
  <2>2. ~(Elapsed(at, QuietFrom(at)) >= done_quiet)
    <3>1. MinimumRuntimeFor(current_label) = 0
      BY DEF MinimumRuntimeFor, ProductionSettings
    <3>2. Elapsed(at, cycle_started) \in Nat
      BY <1>1, ClockAssumption DEF Elapsed, Clock, TypeOK
    <3> QED BY <2>1, <3>1, <3>2 DEF QuietLongEnough
  <2>3. quiet_started' = QuietFrom(at) /\ QuietFrom(at) # 0
    BY <1>4, <1>8 DEF StayQuiet, QuietFrom
  <2>4. CASE streak.kind # "quiet"
    <3>1. quiet_started = 0
      BY <2>1, <2>4 DEF TimersBacked, Backed, ProductionSettings
    <3>2. QuietFrom(at) = at
      BY <3>1 DEF QuietFrom
    <3> QED BY <1>1, <1>6, <2>1, <2>3, <2>4, <3>2
  <2>5. CASE streak.kind = "quiet"
    <3>1. /\ quiet_started # 0
          /\ streak.span < done_quiet
          /\ Elapsed(now, quiet_started) = streak.span
      BY <2>1, <2>5 DEF QuietCounted
    <3>2. quiet_started' = quiet_started /\ QuietFrom(at) = quiet_started
      BY <2>3, <3>1 DEF QuietFrom
    <3>3. streak.span + gap < ClockSize /\ streak.span \in Nat /\ gap \in Nat
      BY <1>1, <3>1, ClockAssumption DEF TypeOK
    <3>4. Elapsed(at, quiet_started) = streak.span + gap
      BY <3>1, <3>3, ClockStep DEF TypeOK, at
    <3>5. streak.span + gap < done_quiet
      BY <1>1, <2>2, <3>2, <3>3, <3>4
    <3>6. streak'.span = streak.span + gap
      BY <1>1, <1>3, <1>5, <2>5, <3>3, <3>5, StreakStep, SpanLimitBounds
    <3> QED BY <1>1, <2>1, <3>1, <3>2, <3>4, <3>5, <3>6
  <2> QED BY <2>4, <2>5
<1>9. /\ ~RejectMotion(s) /\ ~ConfirmMotion(s, at) /\ ~MoveAgain(s, at)
      /\ ~DoubtQuiet(s) /\ ~KeepRunning(s)
  BY <1>5 DEF RejectMotion, Reset, ConfirmMotion, MoveAgain, DoubtQuiet, KeepRunning
<1>10. ~WaitForMotion(s, at)
  BY <1>5 DEF WaitForMotion
<1> QED
  BY <1>3, <1>7, <1>8, <1>9, <1>10 DEF ObserveValid, s

----------------------------------------------------------------------------
(* The inductive invariant *)

IInv == TypeOK /\ TimersBacked /\ QuietCounted

(* A new detector counts nothing and has seen nothing. *)
LEMMA InitIInv == Init => IInv
  BY InitTypeOK DEF Init, IInv, TimersBacked, QuietCounted, Broken

(* One observation keeps the inductive invariant. *)
LEMMA ObserveIInv ==
  ASSUME IInv, NEW w \in Windows, NEW gap \in Gaps, Observe(w, gap)
  PROVE  IInv'
<1>1. TypeOK'
  BY ObserveTypeOK DEF IInv
<1> QED
  BY <1>1, ObserveTimersBacked, ObserveQuietCounted DEF IInv

(***************************************************************************)
(* The timers are backed by real evidence, always.                         *)
(***************************************************************************)
THEOREM Evidence == Spec => []IInv
<1>1. IInv /\ [Next]_vars => IInv'
  <2>1. CASE Next
    BY <2>1, ObserveIInv DEF Next
  <2>2. CASE UNCHANGED vars
    BY <2>2 DEF IInv, TypeOK, TimersBacked, QuietCounted, Backed, vars, detector_vars
  <2> QED BY <2>1, <2>2
<1> QED BY InitIInv, <1>1, PTL DEF Spec

----------------------------------------------------------------------------
(* The properties *)

(***************************************************************************)
(* observe(): a timer that runs was started by a window of the kind it     *)
(* counts, and no window of another kind came since, so the unsigned       *)
(* difference it yields is never more than the time it is to measure.      *)
(***************************************************************************)
THEOREM TimersMeasure == Spec => []TimersBacked
<1>1. IInv => TimersBacked
  BY DEF IInv
<1> QED BY Evidence, <1>1, PTL

(***************************************************************************)
(* observe(), in the production settings: inside a cycle no quiet window   *)
(* is forgotten, the timer shows all of the quiet there was.               *)
(***************************************************************************)
THEOREM QuietIsCounted == Spec => []QuietCounted
<1>1. IInv => QuietCounted
  BY DEF IInv
<1> QED BY Evidence, <1>1, PTL

(***************************************************************************)
(* In the production settings a quiet streak of done_quiet ticks always    *)
(* finds the detector in a state that lets the power bank sleep.           *)
(***************************************************************************)
THEOREM PowerReleased == Spec => []QuietReleasesPower
<1>1. IInv => QuietReleasesPower
  <2> SUFFICES ASSUME IInv, ProductionSettings, streak.kind = "quiet",
                      streak.span >= done_quiet
               PROVE  state \in {"Idle", "DoneSent"}
    BY DEF QuietReleasesPower, Held
  <2>1. ~(streak.span < done_quiet)
    BY DurationAssumption DEF IInv, TypeOK
  <2> QED BY <2>1 DEF IInv, QuietCounted
<1> QED BY Evidence, <1>1, PTL

(***************************************************************************)
(* No cycle is declared done without done_quiet ticks of unbroken quiet.   *)
(***************************************************************************)
THEOREM DoneIsEarned == Spec => DoneNeedsContinuousQuiet
<1>1. ASSUME IInv, IInv', Next, require_continuous_quiet,
             state # "DoneSent", state' = "DoneSent"
      PROVE  Held("quiet", done_quiet)'
  <2>1. PICK w \in Windows, gap \in Gaps : Observe(w, gap)
    BY <1>1 DEF Next
  <2> DEFINE at == Later(now, gap)
             s == Smoothed(w)
  <2>2. ~Settle(at) /\ ~ObserveInvalid(w)
    BY <1>1 DEF Settle, Reset, ObserveInvalid
  <2>3. ObserveValid(w, at) /\ streak' = Extend(Class(s), gap)
    BY <1>1, <2>1, <2>2, RecordStep DEF IInv
  <2> HIDE DEF at, s
  <2>4. StayQuiet(s, at)
    BY <1>1, <2>3 DEF ObserveValid, s, RejectMotion, Reset, WaitForMotion,
       StartCycle, ConfirmMotion, KeepRunning, SuspectDone, MoveAgain, DoubtQuiet
  <2>5. QuietLongEnough(at) /\ state = "QuietCandidate" /\ Class(s) = "quiet"
    BY <1>1, <2>4 DEF StayQuiet, Class
  <2>6. now \in Clock /\ quiet_started \in Clock /\ at \in Clock
    BY <1>1, ClockStep DEF IInv, TypeOK, at
  <2>7. quiet_started # 0
    <3>1. Elapsed(at, at) = 0
      BY <2>6, ElapsedNone
    <3> QED BY <2>5, <3>1, DurationAssumption DEF QuietLongEnough, QuietFrom
  <2>8. Backed("quiet", quiet_started)
    BY <1>1, <2>5, <2>7 DEF IInv, TimersBacked
  <2>9. Elapsed(at, quiet_started) >= done_quiet
    BY <2>5, <2>7 DEF QuietLongEnough, QuietFrom
  <2>10. streak'.span >= done_quiet /\ streak'.kind = "quiet"
    BY <1>1, <2>3, <2>5, <2>6, <2>8, <2>9, BackedStep, SpanLimitBounds,
       DurationAssumption DEF IInv, at
  <2> QED BY <2>10 DEF Held
<1>2. IInv /\ IInv' /\ [Next]_vars
      => [ (require_continuous_quiet /\ state # "DoneSent" /\ state' = "DoneSent")
           => Held("quiet", done_quiet)' ]_vars
  BY <1>1
<1> QED BY Evidence, <1>2, PTL DEF Spec, DoneNeedsContinuousQuiet

(***************************************************************************)
(* No cycle is taken to be running without confirm_motion ticks of         *)
(* unbroken motion.                                                        *)
(***************************************************************************)
THEOREM RunningIsEarned == Spec => RunningNeedsConfirmedMotion
<1>1. ASSUME IInv, IInv', Next, state = "MotionConfirming", state' = "CycleRunning"
      PROVE  Held("active", confirm_motion)'
  <2>1. PICK w \in Windows, gap \in Gaps : Observe(w, gap)
    BY <1>1 DEF Next
  <2> DEFINE at == Later(now, gap)
             s == Smoothed(w)
  <2>2. ~Settle(at) /\ ~ObserveInvalid(w)
    BY <1>1 DEF Settle, Reset, ObserveInvalid
  <2>3. ObserveValid(w, at) /\ streak' = Extend(Class(s), gap)
    BY <1>1, <2>1, <2>2, RecordStep DEF IInv
  <2> HIDE DEF at, s
  <2>4. ConfirmMotion(s, at)
    BY <1>1, <2>3 DEF ObserveValid, s, RejectMotion, Reset, WaitForMotion,
       KeepRunning, SuspectDone, MoveAgain, DoubtQuiet, StayQuiet
  <2>5. Elapsed(at, cycle_started) >= confirm_motion /\ Class(s) = "active"
    BY <1>1, <2>4 DEF ConfirmMotion, Class
  <2>6. cycle_started \in Clock /\ Backed("active", cycle_started)
    BY <1>1 DEF IInv, TypeOK, TimersBacked
  <2>7. streak'.span >= confirm_motion /\ streak'.kind = "active"
    BY <1>1, <2>3, <2>5, <2>6, BackedStep, SpanLimitBounds, DurationAssumption
       DEF IInv, at
  <2> QED BY <2>7 DEF Held
<1>2. IInv /\ IInv' /\ [Next]_vars
      => [ (state = "MotionConfirming" /\ state' = "CycleRunning")
           => Held("active", confirm_motion)' ]_vars
  BY <1>1
<1> QED BY Evidence, <1>2, PTL DEF Spec, RunningNeedsConfirmedMotion

(***************************************************************************)
(* No quiet candidate is abandoned but for a failed read or               *)
(* resume_motion_confirm ticks of unbroken motion.                         *)
(***************************************************************************)
THEOREM ResumeIsEarned == Spec => ResumeNeedsSustainedMotion
<1>1. ASSUME IInv, IInv', Next, state = "QuietCandidate", state' = "CycleRunning"
      PROVE  streak' = Broken \/ Held("active", resume_motion_confirm)'
  <2>1. PICK w \in Windows, gap \in Gaps : Observe(w, gap)
    BY <1>1 DEF Next
  <2> DEFINE at == Later(now, gap)
             s == Smoothed(w)
  <2>2. CASE streak' = Broken
    BY <2>2
  <2>3. CASE ObserveValid(w, at) /\ streak' = Extend(Class(s), gap)
    <3> HIDE DEF at, s
    <3>1. MoveAgain(s, at)
      BY <1>1, <2>3 DEF ObserveValid, s, RejectMotion, Reset, WaitForMotion,
         ConfirmMotion, KeepRunning, SuspectDone, DoubtQuiet, StayQuiet
    <3>2. /\ Class(s) = "active"
          /\ \/ quiet_resume_started = 0 /\ Elapsed(at, at) >= resume_motion_confirm
             \/ /\ quiet_resume_started # 0
                /\ Elapsed(at, quiet_resume_started) >= resume_motion_confirm
      BY <1>1, <3>1 DEF MoveAgain, Class
    <3>3. streak'.kind = "active" /\ streak'.span \in Nat
      BY <1>1, <2>3, <3>2, StreakStep DEF IInv
    <3>4. CASE quiet_resume_started = 0
      <4>1. at \in Clock
        BY <1>1, ClockStep DEF IInv, TypeOK, at
      <4>2. Elapsed(at, at) = 0
        BY <4>1, ElapsedNone
      <4> QED BY <3>2, <3>3, <3>4, <4>2, DurationAssumption DEF Held
    <3>5. CASE quiet_resume_started # 0
      <4>1. /\ quiet_resume_started \in Clock
            /\ Backed("active", quiet_resume_started)
        BY <1>1, <3>5 DEF IInv, TypeOK, TimersBacked
      <4>2. streak'.span >= resume_motion_confirm
        BY <1>1, <2>3, <3>2, <3>5, <4>1, BackedStep, SpanLimitBounds,
           DurationAssumption DEF IInv, at
      <4> QED BY <3>3, <4>2 DEF Held
    <3> QED BY <3>4, <3>5
  <2> QED BY <1>1, <2>1, <2>2, <2>3, RecordStep DEF IInv
<1>2. IInv /\ IInv' /\ [Next]_vars
      => [ (state = "QuietCandidate" /\ state' = "CycleRunning")
           => (streak' = Broken \/ Held("active", resume_motion_confirm)') ]_vars
  BY <1>1
<1> QED BY Evidence, <1>2, PTL DEF Spec, ResumeNeedsSustainedMotion
=============================================================================
