----------------------------- MODULE PowerPolicy ----------------------------
(***************************************************************************)
(* The power side of the production loop: how long the device sleeps       *)
(* between two samples and how it keeps its USB power bank from switching  *)
(* itself off.  A bank that sees no load for BankCutoff turns off; that is *)
(* a disaster during a cycle and the purpose afterwards.                   *)
(*                                                                         *)
(* One iteration of loop() is four steps: Sample, Upload, PlanNap (with    *)
(* the load pulse it may begin with) and one NapSlice per turn of nap().   *)
(* What the detector decides is taken from its state graph, see            *)
(* LaundryDetector.  Time is in ticks, and millis() wraps at ClockSize.    *)
(***************************************************************************)
EXTENDS Integers

CONSTANTS                     \* TelemetryCadenceConfig, in ticks
  startup_settle, startup_keep_awake, startup_poll, idle_poll, running_poll,
  battery_keepalive_interval, battery_keepalive_pulse,
  active_load_pulse_interval, active_load_pulse

CONSTANTS
  Second,        \* ticks in a second, the unit of time(nullptr)
  SampleTimes,   \* ticks sample_motion_window can take
  UploadTimes,   \* ticks the uploads of one iteration can take
  WallOffsets,   \* what the wall clock may be ahead of millis()
  ClockSize,     \* millis() counts modulo this
  BankCutoff     \* a power bank without load for so long turns off

ASSUME DurationAssumption ==
  /\ \A d \in {startup_settle, startup_keep_awake, startup_poll, idle_poll,
               running_poll, battery_keepalive_interval, battery_keepalive_pulse,
               active_load_pulse_interval, active_load_pulse, BankCutoff} : d \in Nat
  /\ Second \in Nat \ {0}
  /\ startup_settle <= startup_keep_awake
  /\ SampleTimes \subseteq Nat /\ SampleTimes # {}
  /\ UploadTimes \subseteq Nat /\ UploadTimes # {}
  /\ WallOffsets \subseteq Nat

(***************************************************************************)
(* The poll times divide the range of the clock, so that millis() and the  *)
(* wall clock keep their distance when millis() wraps.                     *)
(***************************************************************************)
ASSUME ClockAssumption ==
  /\ ClockSize \in Nat \ {0}
  /\ \A poll \in {startup_poll, idle_poll, running_poll} :
       poll # 0 /\ ClockSize % poll = 0 /\ poll % Second = 0

VARIABLES
  step,               \* the next step of the loop
  state,              \* the state in cadence_decision
  clock,              \* millis()
  last_active_load_pulse,
  remaining,          \* remaining_ms in nap()
  wall_offset         \* wall clock minus millis(), or NotSynced

(***************************************************************************)
(* What happened, for the properties only.                                 *)
(***************************************************************************)
VARIABLES
  interval,      \* the target interval of the last plan
  aligned,       \* was that nap aligned to the wall clock?
  overrun,       \* ticks by which the load pulse outlasted that nap
  since_sample,  \* ticks since the last sample began
  unloaded,      \* ticks in demand of the bank without a full load
  radio_off,     \* ticks since the radio was last on
  bank_held      \* ticks out of demand in which the bank could not turn off

loop_vars == <<step, state, clock, last_active_load_pulse, remaining, wall_offset>>
history_vars == <<interval, aligned, overrun, since_sample, unloaded, radio_off, bank_held>>
vars == <<loop_vars, history_vars>>

NotSynced == -1

----------------------------------------------------------------------------
(* The policy functions *)

Resting(st) == st \in {"Idle", "DoneSent"}

AtLeast(a, b) == IF a >= b THEN a ELSE b
AtMost(a, b) == IF a <= b THEN a ELSE b

StartupKeepsRadioAwake(at) == at < startup_settle /\ at < startup_keep_awake

(* Mistake: only a running cycle is polled fast, not a suspected end or start. *)
PollFastWhenRunning(at, st) ==
  IF st = "CycleRunning" THEN running_poll
  ELSE IF at < startup_keep_awake THEN startup_poll ELSE idle_poll

TelemetryPoll(at, st) ==
  IF ~Resting(st) THEN running_poll
  ELSE IF at < startup_keep_awake THEN startup_poll ELSE idle_poll

(* Mistake: a finished cycle is not recognised as resting. *)
KeepaliveUnlessIdle(at, st) == at < startup_keep_awake \/ st # "Idle"

BatteryKeepaliveAllowed(at, st) == at < startup_keep_awake \/ ~Resting(st)

ActiveCycleLoadPulse(at, st, last) ==
  IF \/ active_load_pulse_interval = 0
     \/ st = "DoneSent"
     \/ (st = "Idle" /\ at >= startup_keep_awake)
     \/ (at - last) % ClockSize < active_load_pulse_interval
  THEN 0 ELSE active_load_pulse

(***************************************************************************)
(* A code tick is a millisecond; a nap the loop is already late for lasts  *)
(* one, which is nothing here.                                             *)
(***************************************************************************)
NapDuration(elapsed, target) == IF elapsed >= target THEN 0 ELSE target - elapsed

(* Mistake: on the boundary itself the device does not wait for the next one. *)
AlignedFromBoundary(wall, target) ==
  LET epoch == wall - (wall % Second)
  IN  (target - (epoch % target)) % target

(***************************************************************************)
(* time(nullptr) has whole seconds: the wall clock is cut down to them,    *)
(* and the nap ends a fraction of a second after the boundary.             *)
(***************************************************************************)
AlignedWallClockNap(wall, target) ==
  LET epoch == wall - (wall % Second)
  IN  target - (epoch % target)

(***************************************************************************)
(* next_battery_keepalive_nap: a slice of sleep, and the awake pulse that  *)
(* follows it.                                                             *)
(***************************************************************************)
NextBatteryKeepaliveNap(nap, at, st) ==
  IF \/ ~BatteryKeepaliveAllowed(at, st)
     \/ battery_keepalive_interval = 0
     \/ nap <= battery_keepalive_interval
  THEN [sleep |-> nap, pulse |-> 0]
  ELSE [sleep |-> battery_keepalive_interval,
        pulse |-> AtMost(battery_keepalive_pulse, nap - battery_keepalive_interval)]

(***************************************************************************)
(* An idle poll time is long: it holds the work of two iterations, the nap *)
(* that leads out of the startup window or a load pulse, and the time the  *)
(* bank waits for a load.  In the firmware it is 120 seconds.              *)
(***************************************************************************)
ASSUME IdleAssumption ==
  /\ BankCutoff # 0
  /\ \A sampled \in SampleTimes, uploaded \in UploadTimes :
       2 * (sampled + uploaded) + AtLeast(startup_poll, active_load_pulse)
         + BankCutoff + Second <= idle_poll

(* Uploads that do not last long enough to be a load. *)
ShortUploads == {ticks \in UploadTimes : ticks < active_load_pulse}

(***************************************************************************)
(* Load pulses are not switched off, and millis() does not wrap between    *)
(* two of them.  In the firmware it wraps after 49 days.                   *)
(***************************************************************************)
ASSUME LoadAssumption ==
  /\ active_load_pulse_interval # 0 /\ active_load_pulse # 0
  /\ \A sampled \in SampleTimes, uploaded \in UploadTimes :
       active_load_pulse_interval + AtLeast(startup_poll, running_poll)
         + sampled + uploaded <= ClockSize

(* The states observe() can lead to from each state, in one call. *)
Decided(st) ==
  CASE st = "Idle"             -> {"Idle", "MotionConfirming"}
    [] st = "MotionConfirming" -> {"Idle", "MotionConfirming", "CycleRunning"}
    [] st = "CycleRunning"     -> {"CycleRunning", "QuietCandidate"}
    [] st = "QuietCandidate"   -> {"QuietCandidate", "CycleRunning", "DoneSent"}
    [] st = "DoneSent"         -> {"DoneSent", "MotionConfirming"}

DetectorStates ==
  {"Idle", "MotionConfirming", "CycleRunning", "QuietCandidate", "DoneSent"}

----------------------------------------------------------------------------
(* The passing of time *)

(* Mistake: the device clock is taken to never wrap. *)
LaterUnwrapped(ticks) == clock + ticks

Later(ticks) == (clock + ticks) % ClockSize

(***************************************************************************)
(* The device relies on the bank while it waits for the first start after  *)
(* power-up, and in a cycle.                                               *)
(***************************************************************************)
Demanded(at, st) == ~Resting(st) \/ (st = "Idle" /\ at < startup_keep_awake)

(***************************************************************************)
(* Pass lets "off" ticks pass with the radio off, then "on" ticks with the *)
(* radio on; "full" says that those are as good a load as a load pulse.    *)
(***************************************************************************)
Pass(off, on, st, full) ==
  LET end  == Later(off + on)
      dark == radio_off + off
  IN  /\ clock' = end
      /\ since_sample' = since_sample + off + on
      /\ unloaded' = IF full \/ ~Demanded(clock, state) \/ ~Demanded(end, st) THEN 0
                     ELSE unloaded + off + on
      /\ radio_off' = IF on = 0 THEN AtMost(dark, BankCutoff) ELSE 0
      /\ bank_held' = IF end < startup_keep_awake \/ ~Resting(st) \/ dark >= BankCutoff
                      THEN 0 ELSE bank_held + off + on

----------------------------------------------------------------------------
(* The loop *)

(* setup(): the detector is new, nothing was pulsed, the clock is unknown. *)
Init ==
  /\ step = "sample"
  /\ state = "Idle"
  /\ clock = 0
  /\ last_active_load_pulse = 0
  /\ remaining = 0
  /\ wall_offset = NotSynced
  /\ interval = running_poll
  /\ aligned = FALSE
  /\ overrun = 0
  /\ since_sample = 0
  /\ unloaded = 0
  /\ radio_off = 0
  /\ bank_held = 0

(***************************************************************************)
(* sample_motion_window and observe_after_startup_settle.  During the      *)
(* startup settle, and again when millis() wraps, the detector is reset.   *)
(***************************************************************************)
Sample ==
  /\ step = "sample"
  /\ \E ticks \in SampleTimes :
       /\ state' \in IF Later(ticks) < startup_settle THEN {"Idle"} ELSE Decided(state)
       /\ Pass(ticks, 0, state', FALSE)
  /\ step' = "upload"
  /\ UNCHANGED <<last_active_load_pulse, remaining, wall_offset, interval, aligned, overrun>>

(* maybe_sync_clock: the wall clock, once known, stays known. *)
SyncedClock ==
  IF wall_offset = NotSynced THEN WallOffsets \cup {NotSynced} ELSE {wall_offset}

(***************************************************************************)
(* The posts, each of which connects, may learn the wall clock, and then   *)
(* switches the radio off unless it is startup.  An upload that lasts as   *)
(* long as a load pulse is as good a load.                                 *)
(***************************************************************************)
Upload ==
  /\ step = "upload"
  /\ \E ticks \in UploadTimes :
       Pass(0, ticks, state,
            ticks >= active_load_pulse \/ StartupKeepsRadioAwake(Later(ticks)))
  /\ wall_offset' \in SyncedClock
  /\ step' = "plan"
  /\ UNCHANGED <<state, last_active_load_pulse, remaining, interval, aligned, overrun>>

(* The nap the loop plans once the uploads are done. *)
PlannedNap(target) ==
  IF wall_offset = NotSynced THEN NapDuration(since_sample, target)
  ELSE AlignedWallClockNap(clock + wall_offset, target)

(* The radio is on for the whole pulse. *)
PowerBankKeepalivePulse(ticks) == Pass(0, ticks, state, TRUE)

(* Mistake: the time a load pulse took is not taken out of the nap. *)
PulseBesidesNap(pulse, nap) ==
  /\ PowerBankKeepalivePulse(pulse)
  /\ last_active_load_pulse' = Later(pulse)
  /\ remaining' = nap

(***************************************************************************)
(* The rest of loop() up to nap(): the planned nap, shortened by a load    *)
(* pulse if one is due (maybe_active_cycle_load_pulse).                    *)
(***************************************************************************)
LoadPulse(pulse, nap) ==
  /\ PowerBankKeepalivePulse(pulse)
  /\ last_active_load_pulse' = Later(pulse)
  /\ remaining' = AtLeast(nap - pulse, 0)

NoLoadPulse(nap) ==
  /\ remaining' = nap
  /\ UNCHANGED <<clock, last_active_load_pulse, since_sample, unloaded, radio_off,
                 bank_held>>

PlanNap ==
  LET target == TelemetryPoll(clock, state)
      nap    == PlannedNap(target)
      pulse  == IF StartupKeepsRadioAwake(clock) THEN 0
                ELSE ActiveCycleLoadPulse(clock, state, last_active_load_pulse)
  IN  /\ step = "plan"
      /\ IF pulse = 0 THEN NoLoadPulse(nap) ELSE LoadPulse(pulse, nap)
      /\ interval' = target
      /\ aligned' = (wall_offset # NotSynced)
      /\ overrun' = AtLeast(pulse - nap, 0)
      /\ step' = IF StartupKeepsRadioAwake(clock') THEN "delay" ELSE "nap"
      /\ UNCHANGED <<state, wall_offset>>

(* While the radio is kept awake, nap() is one plain delay. *)
StartupNap ==
  /\ step = "delay"
  /\ Pass(0, remaining, state, TRUE)
  /\ remaining' = 0
  /\ step' = "nap"
  /\ UNCHANGED <<state, last_active_load_pulse, wall_offset, interval, aligned, overrun>>

(***************************************************************************)
(* One turn of the loop in nap(): light sleep, then the awake pulse, which *)
(* is too short to count as a full load.                                   *)
(***************************************************************************)
NapSlice ==
  LET slice == NextBatteryKeepaliveNap(remaining, clock, state)
  IN  /\ step = "nap"
      /\ remaining # 0
      /\ Pass(slice.sleep, slice.pulse, state, FALSE)
      /\ remaining' = remaining - slice.sleep - slice.pulse
      /\ UNCHANGED <<step, state, last_active_load_pulse, wall_offset, interval,
                     aligned, overrun>>

(* loop() returns and is called again. *)
NapEnds ==
  /\ step = "nap"
  /\ remaining = 0
  /\ step' = "sample"
  /\ since_sample' = 0
  /\ UNCHANGED <<state, clock, last_active_load_pulse, remaining, wall_offset,
                 interval, aligned, overrun, unloaded, radio_off, bank_held>>

Next == Sample \/ Upload \/ PlanNap \/ StartupNap \/ NapSlice \/ NapEnds

Spec == Init /\ [][Next]_vars

----------------------------------------------------------------------------
(* Properties *)

(***************************************************************************)
(* Every variable has its type; in particular millis() stays in its range, *)
(* and a nap is never negative however it is cut.                          *)
(***************************************************************************)
TypeOK ==
  /\ step \in {"sample", "upload", "plan", "delay", "nap"}
  /\ state \in DetectorStates
  /\ clock \in 0 .. ClockSize - 1
  /\ last_active_load_pulse \in 0 .. ClockSize - 1
  /\ remaining \in Nat
  /\ wall_offset \in WallOffsets \cup {NotSynced}
  /\ interval \in {startup_poll, idle_poll, running_poll}
  /\ aligned \in BOOLEAN
  /\ overrun \in Nat
  /\ since_sample \in Nat /\ unloaded \in Nat /\ bank_held \in Nat
  /\ radio_off \in 0 .. BankCutoff

(***************************************************************************)
(* What the documentation says of the load pulses: while the device relies *)
(* on its bank, the bank never goes without a full load for the time after *)
(* which it turns off.                                                     *)
(***************************************************************************)
BankStaysOn == unloaded < BankCutoff

(***************************************************************************)
(* What the loop does for it: a pulse is only considered once per          *)
(* iteration, so to its interval come a nap and the work of the iteration  *)
(* that follows, and the work of the one in which the device came to rely  *)
(* on the bank.  No state, slicing of naps or wrap of millis() adds more.  *)
(***************************************************************************)
LoadsKeepComing ==
  unloaded # 0 =>
    \E sampled, sampled_before \in SampleTimes,
       uploaded, uploaded_before \in ShortUploads \cup {0} :
      unloaded < active_load_pulse_interval + AtLeast(startup_poll, running_poll)
                   + sampled + uploaded + sampled_before + uploaded_before

(***************************************************************************)
(* Whatever a nap is cut into, and although load pulses are taken out of   *)
(* it, two samples are never further apart than the work of an iteration   *)
(* and the poll time chosen for it (a load pulse may outlast a short one). *)
(***************************************************************************)
SamplesKeepCadence ==
  \E sampled \in SampleTimes, uploaded \in UploadTimes :
    since_sample <= sampled + uploaded + AtLeast(interval, active_load_pulse)

(***************************************************************************)
(* A sample planned by the wall clock begins within a second of a boundary *)
(* of its poll time, or later by exactly what a load pulse took longer     *)
(* than the nap it replaced; and never twice on the same boundary.         *)
(***************************************************************************)
AlignedSamplesAreOnTime ==
  step = "nap" /\ remaining = 0 /\ aligned =>
    /\ (clock + wall_offset - overrun) % interval < Second
    /\ since_sample >= Second

(***************************************************************************)
(* Once nothing needs the bank, it gets the dark time it needs to turn     *)
(* itself off before an idle poll time is over: finished laundry does not  *)
(* drain it.                                                               *)
(***************************************************************************)
BankMayTurnOff == bank_held <= idle_poll
=============================================================================
