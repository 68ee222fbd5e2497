-------------------------- MODULE PowerPolicyProofs -------------------------
(***************************************************************************)
(* For every cadence, every duration of a sample and an upload, every wall *)
(* clock and every range of millis(): the loop's variables keep their      *)
(* types, its samples keep their cadence, an aligned sample comes within a *)
(* second of a boundary of the wall clock, the power bank is given loads   *)
(* while the device relies on it, and is left alone when there is nothing  *)
(* to watch.                                                               *)
(***************************************************************************)
EXTENDS PowerPolicy, TLAPS

----------------------------------------------------------------------------
(* The inductive invariant *)

(***************************************************************************)
(* What the iteration has taken so far is what its sample and its uploads  *)
(* took; from the nap on, what is left of the nap is accounted for, too.   *)
(***************************************************************************)
WorkSoFar ==
  /\ step = "sample" => since_sample = 0
  /\ step = "upload" => since_sample \in SampleTimes
  /\ step = "plan" => \E s \in SampleTimes, u \in UploadTimes : since_sample = s + u
  /\ step \in {"delay", "nap"} =>
       \E s \in SampleTimes, u \in UploadTimes :
         since_sample + remaining <= s + u + AtLeast(interval, active_load_pulse)

IInv == TypeOK /\ WorkSoFar

----------------------------------------------------------------------------
(* Durations *)

LEMMA Polls ==
  /\ startup_poll \in Nat \ {0} /\ idle_poll \in Nat \ {0} /\ running_poll \in Nat \ {0}
  /\ active_load_pulse \in Nat /\ BankCutoff \in Nat /\ Second \in Nat \ {0}
BY DurationAssumption, ClockAssumption

LEMMA LaterInRange ==
  ASSUME clock \in Nat, NEW ticks \in Nat
  PROVE  Later(ticks) \in 0 .. ClockSize - 1
BY ClockAssumption DEF Later

LEMMA PollIsOne ==
  ASSUME NEW at, NEW st
  PROVE  TelemetryPoll(at, st) \in {startup_poll, idle_poll, running_poll}
BY DEF TelemetryPoll

(* No planned nap is longer than the poll time it is planned for. *)
LEMMA NapWithinPoll ==
  ASSUME TypeOK, NEW target \in Nat \ {0}
  PROVE  PlannedNap(target) \in 0 .. target
<1>1. CASE wall_offset = NotSynced
  BY <1>1 DEF TypeOK, PlannedNap, NapDuration
<1>2. CASE wall_offset # NotSynced
  <2> DEFINE wall == clock + wall_offset
             epoch == wall - (wall % Second)
  <2>1. wall \in Nat
    BY <1>2, DurationAssumption, ClockAssumption DEF TypeOK
  <2>2. epoch \in Int
    BY <2>1, Polls
  <2>3. epoch % target \in 0 .. target - 1
    <3> HIDE DEF epoch
    <3> QED
      BY <2>2
  <2>4. PlannedNap(target) = target - (epoch % target)
    BY <1>2 DEF PlannedNap, AlignedWallClockNap
  <2> HIDE DEF epoch
  <2> QED
    BY <2>3, <2>4
<1> QED
  BY <1>1, <1>2

(* A slice and its pulse are part of the nap. *)
LEMMA SliceWithinNap ==
  ASSUME NEW nap \in Nat, NEW at, NEW st
  PROVE  LET slice == NextBatteryKeepaliveNap(nap, at, st)
         IN  slice.sleep \in Nat /\ slice.pulse \in Nat /\ slice.sleep + slice.pulse <= nap
<1>1. battery_keepalive_interval \in Nat /\ battery_keepalive_pulse \in Nat
  BY DurationAssumption
<1>2. CASE \/ ~BatteryKeepaliveAllowed(at, st)
           \/ battery_keepalive_interval = 0
           \/ nap <= battery_keepalive_interval
  <2>1. NextBatteryKeepaliveNap(nap, at, st) = [sleep |-> nap, pulse |-> 0]
    BY <1>2 DEF NextBatteryKeepaliveNap
  <2> QED
    BY <2>1
<1>3. CASE ~(\/ ~BatteryKeepaliveAllowed(at, st)
             \/ battery_keepalive_interval = 0
             \/ nap <= battery_keepalive_interval)
  <2> DEFINE pulse == AtMost(battery_keepalive_pulse, nap - battery_keepalive_interval)
  <2>1. NextBatteryKeepaliveNap(nap, at, st)
          = [sleep |-> battery_keepalive_interval, pulse |-> pulse]
    BY <1>3 DEF NextBatteryKeepaliveNap
  <2>2. pulse \in Nat /\ pulse <= nap - battery_keepalive_interval
    BY <1>1, <1>3 DEF AtMost
  <2> HIDE DEF pulse
  <2> QED
    BY <1>1, <2>1, <2>2
<1> QED
  BY <1>2, <1>3

(* The passing of time keeps the types of what it changes. *)
LEMMA PassTypes ==
  ASSUME TypeOK, NEW off \in Nat, NEW on \in Nat, NEW st, NEW full, Pass(off, on, st, full)
  PROVE  /\ clock' \in 0 .. ClockSize - 1
         /\ since_sample' = since_sample + off + on
         /\ since_sample' \in Nat /\ unloaded' \in Nat /\ bank_held' \in Nat
         /\ radio_off' \in 0 .. BankCutoff
<1>1. /\ clock \in Nat /\ since_sample \in Nat /\ unloaded \in Nat /\ bank_held \in Nat
      /\ radio_off \in Nat /\ off + on \in Nat
  BY ClockAssumption DEF TypeOK
<1>2. clock' \in 0 .. ClockSize - 1
  BY <1>1, LaterInRange DEF Pass
<1>3. since_sample' = since_sample + off + on /\ since_sample' \in Nat
  BY <1>1 DEF Pass
<1>4. unloaded' = 0 \/ unloaded' = unloaded + off + on
  BY DEF Pass
<1>5. bank_held' = 0 \/ bank_held' = bank_held + off + on
  BY DEF Pass
<1>6. radio_off' = 0 \/ radio_off' = AtMost(radio_off + off, BankCutoff)
  BY DEF Pass
<1>7. radio_off' \in 0 .. BankCutoff
  BY <1>1, <1>6, Polls DEF AtMost
<1> QED
  BY <1>1, <1>2, <1>3, <1>4, <1>5, <1>7

----------------------------------------------------------------------------
(* One lemma per step of the loop *)

LEMMA SampleKeeps == IInv /\ Sample => IInv'
<1> SUFFICES ASSUME IInv, Sample
             PROVE  IInv'
  OBVIOUS
<1>1. PICK ticks \in SampleTimes :
        /\ state' \in (IF Later(ticks) < startup_settle THEN {"Idle"} ELSE Decided(state))
        /\ Pass(ticks, 0, state', FALSE)
  BY DEF Sample
<1>2. /\ step = "sample" /\ step' = "upload"
      /\ UNCHANGED <<last_active_load_pulse, remaining, wall_offset, interval, aligned, overrun>>
  BY DEF Sample
<1>3. ticks \in Nat
  BY DurationAssumption
<1>4. state' \in DetectorStates
  BY <1>1 DEF IInv, TypeOK, DetectorStates, Decided
<1>5. /\ clock' \in 0 .. ClockSize - 1 /\ since_sample' = since_sample + ticks + 0
      /\ since_sample' \in Nat /\ unloaded' \in Nat /\ bank_held' \in Nat
      /\ radio_off' \in 0 .. BankCutoff
  BY <1>1, <1>3, PassTypes DEF IInv
<1>6. TypeOK'
  BY <1>2, <1>4, <1>5 DEF IInv, TypeOK
<1>7. WorkSoFar'
  BY <1>2, <1>3, <1>5 DEF IInv, WorkSoFar
<1> QED
  BY <1>6, <1>7 DEF IInv

LEMMA UploadKeeps == IInv /\ Upload => IInv'
<1> SUFFICES ASSUME IInv, Upload
             PROVE  IInv'
  OBVIOUS
<1>1. PICK ticks \in UploadTimes :
        Pass(0, ticks, state,
             ticks >= active_load_pulse \/ StartupKeepsRadioAwake(Later(ticks)))
  BY DEF Upload
<1>2. /\ step = "upload" /\ step' = "plan" /\ wall_offset' \in SyncedClock
      /\ UNCHANGED <<state, last_active_load_pulse, remaining, interval, aligned, overrun>>
  BY DEF Upload
<1>3. ticks \in Nat
  BY DurationAssumption
<1>4. wall_offset' \in WallOffsets \cup {NotSynced}
  BY <1>2 DEF IInv, TypeOK, SyncedClock
<1>5. /\ clock' \in 0 .. ClockSize - 1 /\ since_sample' = since_sample + 0 + ticks
      /\ since_sample' \in Nat /\ unloaded' \in Nat /\ bank_held' \in Nat
      /\ radio_off' \in 0 .. BankCutoff
  BY <1>1, <1>3, PassTypes DEF IInv
<1>6. TypeOK'
  BY <1>2, <1>4, <1>5 DEF IInv, TypeOK
<1>7. since_sample \in SampleTimes /\ since_sample' = since_sample + ticks
  BY <1>2, <1>3, <1>5 DEF IInv, TypeOK, WorkSoFar
<1>8. WorkSoFar'
  BY <1>2, <1>7 DEF WorkSoFar
<1> QED
  BY <1>6, <1>8 DEF IInv

LEMMA PlanKeeps == IInv /\ PlanNap => IInv'
<1> SUFFICES ASSUME IInv, PlanNap
             PROVE  IInv'
  OBVIOUS
<1> DEFINE target == TelemetryPoll(clock, state)
           nap    == PlannedNap(target)
<1>1. PICK pulse :
        /\ pulse = 0 \/ pulse = active_load_pulse
        /\ pulse = 0 => NoLoadPulse(nap)
        /\ pulse # 0 => LoadPulse(pulse, nap)
  BY DEF PlanNap, ActiveCycleLoadPulse
<1>2. /\ step = "plan" /\ step' \in {"delay", "nap"}
      /\ interval' = target /\ aligned' \in BOOLEAN
      /\ UNCHANGED <<state, wall_offset>>
  BY DEF PlanNap
<1>3. target \in {startup_poll, idle_poll, running_poll} /\ target \in Nat \ {0}
  BY PollIsOne, Polls
<1>4. nap \in 0 .. target
  BY <1>3, NapWithinPoll DEF IInv
<1>5. PICK s \in SampleTimes, u \in UploadTimes : since_sample = s + u
  BY <1>2 DEF IInv, WorkSoFar
<1>6. s \in Nat /\ u \in Nat /\ since_sample \in Nat /\ active_load_pulse \in Nat
  BY Polls, DurationAssumption DEF IInv, TypeOK
<1> HIDE DEF target, nap
<1>7. /\ clock' \in 0 .. ClockSize - 1
      /\ last_active_load_pulse' \in 0 .. ClockSize - 1
      /\ remaining' \in Nat /\ since_sample' \in Nat
      /\ unloaded' \in Nat /\ bank_held' \in Nat /\ radio_off' \in 0 .. BankCutoff
      /\ since_sample' + remaining' <= s + u + AtLeast(target, active_load_pulse)
  <2>1. CASE pulse = 0
    <3>1. /\ remaining' = nap
          /\ UNCHANGED <<clock, last_active_load_pulse, since_sample, unloaded, radio_off,
                         bank_held>>
      BY <1>1, <2>1 DEF NoLoadPulse
    <3>2. since_sample' + remaining' <= s + u + AtLeast(target, active_load_pulse)
      BY <1>3, <1>4, <1>5, <1>6, <3>1 DEF AtLeast
    <3> QED
      BY <1>3, <1>4, <3>1, <3>2 DEF IInv, TypeOK
  <2>2. CASE pulse # 0
    <3>1. pulse = active_load_pulse /\ pulse \in Nat
      BY <1>1, <1>6, <2>2
    <3>2. /\ Pass(0, pulse, state, TRUE) /\ last_active_load_pulse' = Later(pulse)
          /\ remaining' = AtLeast(nap - pulse, 0)
      BY <1>1, <2>2 DEF LoadPulse, PowerBankKeepalivePulse
    <3>3. /\ clock' \in 0 .. ClockSize - 1 /\ since_sample' = since_sample + 0 + pulse
          /\ since_sample' \in Nat /\ unloaded' \in Nat /\ bank_held' \in Nat
          /\ radio_off' \in 0 .. BankCutoff
      BY <3>1, <3>2, PassTypes DEF IInv
    <3>4. last_active_load_pulse' \in 0 .. ClockSize - 1
      BY <3>1, <3>2, LaterInRange, ClockAssumption DEF IInv, TypeOK
    <3>5. /\ remaining' \in Nat
          /\ since_sample' + remaining' <= s + u + AtLeast(target, active_load_pulse)
      BY <1>3, <1>4, <1>5, <1>6, <3>1, <3>2, <3>3 DEF AtLeast
    <3> QED
      BY <3>3, <3>4, <3>5
  <2> QED
    BY <2>1, <2>2
<1>8. overrun' \in Nat
  <2>1. overrun' = AtLeast(0 - nap, 0) \/ overrun' = AtLeast(active_load_pulse - nap, 0)
    BY DEF PlanNap, ActiveCycleLoadPulse, target, nap
  <2> QED
    BY <1>3, <1>4, <1>6, <2>1 DEF AtLeast
<1>9. TypeOK'
  BY <1>2, <1>3, <1>7, <1>8 DEF IInv, TypeOK
<1>10. WorkSoFar'
  BY <1>2, <1>7 DEF WorkSoFar, AtLeast
<1> QED
  BY <1>9, <1>10 DEF IInv

(* A step of the nap, whole or in slices, takes its time out of what is left. *)
LEMMA NapStepKeeps ==
  ASSUME IInv, step \in {"delay", "nap"}, NEW off \in Nat, NEW on \in Nat, NEW full,
         Pass(off, on, state, full), off + on <= remaining, remaining' = remaining - off - on,
         step' = "nap",
         UNCHANGED <<state, last_active_load_pulse, wall_offset, interval, aligned, overrun>>
  PROVE  IInv'
<1>1. /\ clock' \in 0 .. ClockSize - 1 /\ since_sample' = since_sample + off + on
      /\ since_sample' \in Nat /\ unloaded' \in Nat /\ bank_held' \in Nat
      /\ radio_off' \in 0 .. BankCutoff
  BY PassTypes DEF IInv
<1>2. /\ remaining' \in Nat
      /\ since_sample' + remaining' = since_sample + remaining
  BY <1>1 DEF IInv, TypeOK
<1>3. TypeOK'
  BY <1>1, <1>2 DEF IInv, TypeOK
<1>4. WorkSoFar'
  BY <1>2 DEF IInv, WorkSoFar, AtLeast
<1> QED
  BY <1>3, <1>4 DEF IInv

LEMMA StartupNapKeeps == IInv /\ StartupNap => IInv'
<1> SUFFICES ASSUME IInv, StartupNap
             PROVE  IInv'
  OBVIOUS
<1>1. remaining \in Nat
  BY DEF IInv, TypeOK
<1>2. /\ step \in {"delay", "nap"} /\ step' = "nap"
      /\ Pass(0, remaining, state, TRUE) /\ remaining' = 0
      /\ UNCHANGED <<state, last_active_load_pulse, wall_offset, interval, aligned, overrun>>
  BY DEF StartupNap
<1>3. 0 + remaining <= remaining /\ remaining' = remaining - 0 - remaining
  BY <1>1, <1>2
<1> QED
  BY <1>1, <1>2, <1>3, NapStepKeeps

LEMMA NapSliceKeeps == IInv /\ NapSlice => IInv'
<1> SUFFICES ASSUME IInv, NapSlice
             PROVE  IInv'
  OBVIOUS
<1> DEFINE slice == NextBatteryKeepaliveNap(remaining, clock, state)
<1>1. slice.sleep \in Nat /\ slice.pulse \in Nat /\ slice.sleep + slice.pulse <= remaining
  BY SliceWithinNap DEF IInv, TypeOK
<1>2. /\ step = "nap" /\ step' = "nap"
      /\ Pass(slice.sleep, slice.pulse, state, FALSE)
      /\ remaining' = remaining - slice.sleep - slice.pulse
      /\ UNCHANGED <<state, last_active_load_pulse, wall_offset, interval, aligned, overrun>>
  BY DEF NapSlice
<1> QED
  BY <1>1, <1>2, NapStepKeeps

LEMMA NapEndsKeeps == IInv /\ NapEnds => IInv'
BY DEF NapEnds, IInv, TypeOK, WorkSoFar

LEMMA InitKeeps == Init => IInv
<1> SUFFICES ASSUME Init
             PROVE  IInv
  OBVIOUS
<1>1. TypeOK
  <2>1. /\ clock \in 0 .. ClockSize - 1 /\ last_active_load_pulse \in 0 .. ClockSize - 1
        /\ remaining \in Nat /\ since_sample \in Nat /\ unloaded \in Nat
        /\ bank_held \in Nat /\ radio_off \in 0 .. BankCutoff
    BY Polls, ClockAssumption DEF Init
  <2>2. /\ step = "sample" /\ state \in DetectorStates
        /\ wall_offset \in WallOffsets \cup {NotSynced}
        /\ interval \in {startup_poll, idle_poll, running_poll} /\ aligned \in BOOLEAN
        /\ overrun \in Nat
    BY DEF Init, DetectorStates
  <2> QED
    BY <2>1, <2>2 DEF TypeOK
<1>2. WorkSoFar
  BY DEF Init, WorkSoFar
<1> QED
  BY <1>1, <1>2 DEF IInv

----------------------------------------------------------------------------
(* The theorems *)

(***************************************************************************)
(* The inductive invariant of loop(): the time since the last sample is    *)
(* the work of the iteration, and the nap fills it up to the poll time.    *)
(***************************************************************************)
THEOREM WorkIsAccountedFor == Spec => []IInv
<1>1. IInv /\ [Next]_vars => IInv'
  <2> SUFFICES ASSUME IInv, [Next]_vars
               PROVE  IInv'
    OBVIOUS
  <2>1. CASE UNCHANGED vars
    BY <2>1 DEF IInv, TypeOK, WorkSoFar, vars, loop_vars, history_vars
  <2> QED
    BY <2>1, SampleKeeps, UploadKeeps, PlanKeeps, StartupNapKeeps, NapSliceKeeps,
       NapEndsKeeps DEF Next
<1> QED
  BY <1>1, InitKeeps, PTL DEF Spec

(* loop() and nap() keep the types of their variables: no nap is negative. *)
THEOREM TypeCorrect == Spec => []TypeOK
<1>1. IInv => TypeOK
  BY DEF IInv
<1> QED
  BY <1>1, WorkIsAccountedFor, PTL

(***************************************************************************)
(* Whatever next_battery_keepalive_nap cuts a nap into and a load pulse    *)
(* takes out of it, samples are no further apart than the work of an       *)
(* iteration and its poll time.                                            *)
(***************************************************************************)
THEOREM CadenceKept == Spec => []SamplesKeepCadence
<1>1. IInv => SamplesKeepCadence
  <2> SUFFICES ASSUME IInv
               PROVE  SamplesKeepCadence
    OBVIOUS
  <2>1. /\ interval \in Nat /\ active_load_pulse \in Nat
        /\ since_sample \in Nat /\ remaining \in Nat
    BY Polls DEF IInv, TypeOK
  <2>2. AtLeast(interval, active_load_pulse) \in Nat
    BY <2>1 DEF AtLeast
  <2>3. PICK s0 \in SampleTimes, u0 \in UploadTimes : s0 \in Nat /\ u0 \in Nat
    BY DurationAssumption
  <2>4. CASE step = "sample"
    BY <2>2, <2>3, <2>4 DEF IInv, WorkSoFar, SamplesKeepCadence
  <2>5. CASE step = "upload"
    <3>1. since_sample \in SampleTimes
      BY <2>5 DEF IInv, WorkSoFar
    <3>2. since_sample <= since_sample + u0 + AtLeast(interval, active_load_pulse)
      BY <2>1, <2>2, <2>3
    <3> QED
      BY <3>1, <3>2 DEF SamplesKeepCadence
  <2>6. CASE step = "plan"
    <3>1. PICK s \in SampleTimes, u \in UploadTimes : since_sample = s + u
      BY <2>6 DEF IInv, WorkSoFar
    <3>2. since_sample <= s + u + AtLeast(interval, active_load_pulse)
      BY <2>1, <2>2, <3>1
    <3> QED
      BY <3>2 DEF SamplesKeepCadence
  <2>7. CASE step \in {"delay", "nap"}
    <3>1. PICK s \in SampleTimes, u \in UploadTimes :
            since_sample + remaining <= s + u + AtLeast(interval, active_load_pulse)
      BY <2>7 DEF IInv, WorkSoFar
    <3>2. s \in Nat /\ u \in Nat
      BY DurationAssumption
    <3>3. since_sample <= s + u + AtLeast(interval, active_load_pulse)
      BY <2>1, <2>2, <3>1, <3>2
    <3> QED
      BY <3>3 DEF SamplesKeepCadence
  <2> QED
    BY <2>4, <2>5, <2>6, <2>7 DEF IInv, TypeOK
<1> QED
  BY <1>1, WorkIsAccountedFor, PTL

----------------------------------------------------------------------------
(* Remainders *)

LEMMA Division ==
  ASSUME NEW a \in Int, NEW n \in Nat \ {0}
  PROVE  a % n \in 0 .. n - 1 /\ \E q \in Int : a = n * q + (a % n)
<1>1. a % n \in 0 .. n - 1
  OBVIOUS
<1>2. a \div n \in Int /\ a = n * (a \div n) + (a % n)
  OBVIOUS
<1> QED
  BY <1>1, <1>2

LEMMA RemainderIsUnique ==
  ASSUME NEW a \in Int, NEW n \in Nat \ {0}, NEW q \in Int, NEW r \in 0 .. n - 1,
         a = n * q + r
  PROVE  a % n = r
<1> DEFINE s == a % n
<1>1. s \in 0 .. n - 1 /\ \E p \in Int : a = n * p + s
  BY Division
<1> HIDE DEF s
<1>2. PICK p \in Int : a = n * p + s
  BY <1>1
<1>3. n * (p - q) = r - s
  BY <1>1, <1>2
<1>4. p - q = 0
  <2>1. ASSUME p - q >= 1
        PROVE  FALSE
    <3>1. n * (p - q) >= n
      BY <2>1
    <3> QED
      BY <1>1, <1>3, <3>1
  <2>2. ASSUME p - q <= -1
        PROVE  FALSE
    <3>1. n * (p - q) <= -n
      BY <2>2
    <3> QED
      BY <1>1, <1>3, <3>1
  <2> QED
    BY <2>1, <2>2
<1> QED
  BY <1>1, <1>2, <1>4 DEF s

LEMMA MultipleDropsOut ==
  ASSUME NEW a \in Int, NEW n \in Nat \ {0}, NEW k \in Int
  PROVE  (a + n * k) % n = a % n
<1> DEFINE r == a % n
           b == a + n * k
<1>1. r \in 0 .. n - 1 /\ \E q \in Int : a = n * q + r
  BY Division
<1> HIDE DEF r
<1>2. PICK q \in Int : a = n * q + r
  BY <1>1
<1>3. b \in Int /\ b = n * (q + k) + r /\ q + k \in Int
  BY <1>1, <1>2
<1> HIDE DEF b
<1>4. b % n = r
  BY <1>1, <1>3, RemainderIsUnique
<1> QED
  BY <1>4 DEF b, r

(* A multiple of the divisor. *)
LEMMA Divides ==
  ASSUME NEW m \in Nat \ {0}, NEW n \in Nat \ {0}, m % n = 0
  PROVE  n <= m /\ \E k \in Int : m = n * k
<1> DEFINE r == m % n
<1>1. m \in Int
  OBVIOUS
<1>2. \E k \in Int : m = n * k + r
  BY <1>1, Division
<1> HIDE DEF r
<1>3. PICK k \in Int : m = n * k
  <2>1. r = 0
    BY DEF r
  <2> QED
    BY <1>2, <2>1
<1>4. k >= 1
  <2> SUFFICES ASSUME k <= 0
               PROVE  FALSE
    OBVIOUS
  <2>1. n * k <= 0
    OBVIOUS
  <2> QED
    BY <1>3, <2>1
<1>5. n * k >= n
  BY <1>4
<1> QED
  BY <1>3, <1>5

LEMMA RemainderAtMost ==
  ASSUME NEW a \in Int, NEW n \in Nat \ {0}, NEW q \in Int, NEW r \in Nat, a = n * q + r
  PROVE  a % n <= r
<1> DEFINE s == r % n
<1>1. s \in 0 .. n - 1 /\ s <= r /\ r \in Int
  OBVIOUS
<1>2. \E p \in Int : r = n * p + s
  BY <1>1, Division
<1> HIDE DEF s
<1>3. PICK p \in Int : r = n * p + s
  BY <1>2
<1> DEFINE t == p + q
<1>4. t \in Int /\ a = n * t + s
  BY <1>1, <1>3
<1> HIDE DEF t
<1>5. a % n = s
  BY <1>1, <1>4, RemainderIsUnique
<1> QED
  BY <1>1, <1>5

(* A clock that wraps at a multiple of the divisor. *)
LEMMA WrapDropsOut ==
  ASSUME NEW a \in Int, NEW m \in Nat \ {0}, NEW n \in Nat \ {0}, m % n = 0, NEW x \in Int
  PROVE  ((a % m) + x) % n = (a + x) % n
<1>1. a % m \in Int
  OBVIOUS
<1>2. PICK j \in Int : a = m * j + (a % m)
  BY Division
<1>3. PICK k \in Int : m = n * k
  BY Divides
<1> DEFINE b == a % m
           y == b + x
<1>4. b \in Int /\ a = m * j + b
  BY <1>1, <1>2
<1> HIDE DEF b
<1>5. m * j = n * (k * j) /\ k * j \in Int /\ y \in Int
  BY <1>3, <1>4
<1>6. a + x = y + n * (k * j)
  BY <1>4, <1>5
<1> HIDE DEF y
<1>7. (y + n * (k * j)) % n = y % n
  BY <1>5, MultipleDropsOut
<1> QED
  BY <1>6, <1>7 DEF y, b

(* A clock that has wrapped counts on as one that has not. *)
LEMMA WrappedClock ==
  ASSUME NEW a \in Int, NEW n \in Nat \ {0}, NEW x \in Int
  PROVE  ((a % n) + x) % n = (a + x) % n
<1> DEFINE r == a % n
           y == r + x
<1>1. r \in Int
  OBVIOUS
<1>2. \E q \in Int : a = n * q + r
  BY Division
<1> HIDE DEF r
<1>3. PICK q \in Int : a = n * q + r
  BY <1>2
<1>4. y \in Int /\ a + x = y + n * q
  BY <1>1, <1>3
<1> HIDE DEF y
<1>5. (y + n * q) % n = y % n
  BY <1>4, MultipleDropsOut
<1> QED
  BY <1>4, <1>5 DEF y, r

(* From a time cut down to whole seconds to the next boundary. *)
LEMMA NapToBoundary ==
  ASSUME NEW wall \in Nat, NEW second \in Nat \ {0}, NEW poll \in Nat \ {0},
         poll % second = 0
  PROVE  LET nap == poll - ((wall - (wall % second)) % poll)
         IN  /\ nap \in Nat /\ nap >= second /\ nap >= poll - (wall % poll)
             /\ wall % second \in 0 .. second - 1 /\ second <= poll
             /\ \E k \in Int : wall + nap = poll * k + (wall % second)
<1> DEFINE late  == wall % second
           epoch == wall - late
           past  == epoch % poll
           nap   == poll - past
<1>1. wall \in Int /\ late \in 0 .. second - 1 /\ late \in Int
  OBVIOUS
<1>2. \E a \in Int : wall = second * a + late
  BY <1>1, Division
<1> HIDE DEF late
<1>3. PICK a \in Int : wall = second * a + late
  BY <1>2
<1>4. epoch = second * a /\ epoch \in Int
  BY <1>1, <1>3
<1> HIDE DEF epoch
<1>5. past \in 0 .. poll - 1 /\ past \in Int
  BY <1>4
<1>6. PICK q \in Int : epoch = poll * q + past
  BY <1>4, Division
<1> HIDE DEF past, nap
<1>7. PICK b \in Int : poll = second * b
  BY Divides
<1>8. second <= poll
  BY Divides
<1>9. poll - past >= second
  <2> DEFINE c == b - a + b * q
  <2>1. c \in Int
    OBVIOUS
  <2>2. poll * q = second * (b * q)
    BY <1>7
  <2>3. past = second * a - second * (b * q)
    BY <1>4, <1>5, <1>6, <2>2
  <2>4. second * c = second * b - second * a + second * (b * q)
    OBVIOUS
  <2>5. poll - past = second * c
    BY <1>7, <2>3, <2>4
  <2> HIDE DEF c
  <2>6. c >= 1
    <3> SUFFICES ASSUME c <= 0
                 PROVE  FALSE
      BY <2>1
    <3>1. second * c <= 0
      BY <2>1
    <3> QED
      BY <1>5, <2>5, <3>1
  <2>7. second * c >= second
    BY <2>1, <2>6
  <2> QED
    BY <2>5, <2>7
<1>10. wall = poll * q + (past + late)
  BY <1>1, <1>3, <1>4, <1>5, <1>6
<1>11. past + late \in 0 .. poll - 1
  BY <1>1, <1>5, <1>9
<1>12. wall % poll = past + late
  BY <1>1, <1>10, <1>11, RemainderIsUnique
<1>13. nap = poll - past
  BY DEF nap
<1>14. wall + nap = poll * (q + 1) + late
  BY <1>1, <1>5, <1>10, <1>13
<1>15. nap \in Nat /\ nap >= second /\ nap >= poll - (wall % poll)
  <2> HIDE DEF late, past
  <2> DEFINE w == wall % poll
  <2>1. w = past + late
    BY <1>12
  <2> HIDE DEF w
  <2>2. nap \in Nat /\ nap >= second /\ nap >= poll - w
    BY <1>1, <1>5, <1>9, <1>13, <2>1
  <2> QED
    BY <2>2 DEF w
<1>16. \E k \in Int : wall + nap = poll * k + late
  <2> DEFINE k == q + 1
  <2>1. k \in Int /\ wall + nap = poll * k + late
    BY <1>14
  <2> HIDE DEF k
  <2> QED
    BY <2>1
<1> QED
  BY <1>1, <1>8, <1>15, <1>16 DEF late, epoch, past, nap

PollTimes == {startup_poll, idle_poll, running_poll}

(* The wall clock keeps its distance from millis(), also when that wraps. *)
LEMMA WrapKeepsBoundaries ==
  ASSUME TypeOK, NEW ticks \in Nat, NEW poll \in PollTimes, NEW x \in Int
  PROVE  (Later(ticks) + x) % poll = (clock + ticks + x) % poll
<1>1. /\ clock + ticks \in Int /\ ClockSize \in Nat \ {0} /\ poll \in Nat \ {0}
      /\ ClockSize % poll = 0
  BY Polls, ClockAssumption DEF TypeOK, PollTimes
<1> DEFINE now == clock + ticks
<1>2. now \in Int
  BY <1>1
<1> HIDE DEF now
<1>3. ((now % ClockSize) + x) % poll = (now + x) % poll
  BY <1>1, <1>2, WrapDropsOut
<1> QED
  BY <1>3 DEF now, Later

(***************************************************************************)
(* An aligned nap ends where a poll time of the wall clock does, late by   *)
(* the fraction of a second that time(nullptr) does not show.              *)
(***************************************************************************)
LEMMA AlignedNapEnds ==
  ASSUME TypeOK, wall_offset # NotSynced, NEW poll \in PollTimes
  PROVE  LET wall == clock + wall_offset
             nap  == PlannedNap(poll)
         IN  /\ nap \in Nat /\ nap >= Second /\ nap >= poll - (wall % poll)
             /\ wall % Second \in 0 .. Second - 1 /\ Second <= poll
             /\ \E k \in Int : wall + nap = poll * k + (wall % Second)
<1> DEFINE wall == clock + wall_offset
           nap  == PlannedNap(poll)
<1>1. /\ wall \in Nat /\ poll \in Nat \ {0} /\ Second \in Nat \ {0} /\ poll % Second = 0
  BY Polls, DurationAssumption, ClockAssumption DEF TypeOK, PollTimes
<1>2. nap = poll - ((wall - (wall % Second)) % poll)
  BY DEF PlannedNap, AlignedWallClockNap
<1> HIDE DEF wall, nap
<1> DEFINE to == poll - ((wall - (wall % Second)) % poll)
<1>3. /\ to \in Nat /\ to >= Second /\ to >= poll - (wall % poll)
      /\ wall % Second \in 0 .. Second - 1 /\ Second <= poll
      /\ \E k \in Int : wall + to = poll * k + (wall % Second)
  BY ONLY <1>1, NapToBoundary
<1> HIDE DEF to
<1>4. nap = to
  BY <1>2 DEF to
<1> QED
  BY <1>3, <1>4 DEF wall, nap

----------------------------------------------------------------------------
(* Naps aligned to the wall clock *)

NapEnd == clock + wall_offset + remaining

(***************************************************************************)
(* A nap by the wall clock is still aimed at its boundary, or at what the  *)
(* load pulse took longer than it; and it aims at the next boundary, not   *)
(* at the one the last sample was for.                                     *)
(***************************************************************************)
Aimed ==
  step \in {"delay", "nap"} /\ aligned =>
    /\ wall_offset # NotSynced
    /\ (NapEnd - overrun) % interval < Second
    /\ since_sample + remaining >= Second

LEMMA NapEndStays ==
  ASSUME TypeOK, NEW off \in Nat, NEW on \in Nat, NEW full, Pass(off, on, state, full),
         remaining' = remaining - off - on, wall_offset' = wall_offset,
         wall_offset # NotSynced, NEW poll \in PollTimes, NEW y \in Nat
  PROVE  (NapEnd' - y) % poll = (NapEnd - y) % poll
<1>1. /\ clock \in Int /\ remaining \in Int /\ wall_offset \in Int
      /\ clock' = Later(off + on) /\ off + on \in Nat
  BY DurationAssumption DEF TypeOK, Pass
<1> DEFINE x == wall_offset + remaining - off - on - y
<1>2. (Later(off + on) + x) % poll = (clock + (off + on) + x) % poll
  BY <1>1, WrapKeepsBoundaries
<1>3. Later(off + on) \in Int
  BY <1>1, ClockAssumption DEF Later
<1>4. NapEnd' - y = Later(off + on) + x /\ NapEnd - y = clock + (off + on) + x
  BY <1>1, <1>3 DEF NapEnd
<1> QED
  BY <1>2, <1>4

LEMMA NapStepKeepsAim ==
  ASSUME TypeOK, Aimed, step \in {"delay", "nap"}, NEW off \in Nat, NEW on \in Nat, NEW full,
         Pass(off, on, state, full), remaining' = remaining - off - on,
         UNCHANGED <<wall_offset, interval, aligned, overrun>>
  PROVE  Aimed'
<1>1. interval \in PollTimes /\ overrun \in Nat
  BY DEF TypeOK, PollTimes
<1>2. wall_offset # NotSynced =>
        (NapEnd' - overrun) % interval = (NapEnd - overrun) % interval
  BY <1>1, NapEndStays
<1>3. since_sample' + remaining' = since_sample + remaining
  BY PassTypes DEF TypeOK
<1> QED
  BY <1>2, <1>3 DEF Aimed

LEMMA PlanAims ==
  ASSUME IInv, PlanNap
  PROVE  Aimed'
<1> DEFINE target == TelemetryPoll(clock, state)
           nap    == PlannedNap(target)
           pulse  == IF StartupKeepsRadioAwake(clock) THEN 0
                     ELSE ActiveCycleLoadPulse(clock, state, last_active_load_pulse)
           wall   == clock + wall_offset
           late   == wall % Second
           end    == wall + nap
<1>1. /\ pulse = 0 => NoLoadPulse(nap)
      /\ pulse # 0 => LoadPulse(pulse, nap)
      /\ interval' = target /\ aligned' = (wall_offset # NotSynced)
      /\ wall_offset' = wall_offset /\ overrun' = AtLeast(pulse - nap, 0)
  BY DEF PlanNap
<1> SUFFICES ASSUME wall_offset # NotSynced
             PROVE  /\ (NapEnd' - overrun') % target < Second
                    /\ since_sample' + remaining' >= Second
  BY <1>1 DEF Aimed
<1>2. pulse \in Nat
  BY Polls DEF ActiveCycleLoadPulse
<1>3. target \in PollTimes /\ target \in Nat \ {0}
  BY PollIsOne, Polls DEF PollTimes
<1>4. /\ nap \in Nat /\ nap >= Second
      /\ \E k \in Int : end = target * k + late
      /\ late \in 0 .. Second - 1 /\ Second <= target
  BY <1>3, AlignedNapEnds DEF IInv
<1>5. /\ clock \in Nat /\ wall_offset \in Nat /\ since_sample \in Nat
      /\ Second \in Nat \ {0}
  BY Polls, DurationAssumption, ClockAssumption DEF IInv, TypeOK
<1> HIDE DEF target, nap, pulse, late
<1>6. end \in Int
  BY <1>4, <1>5
<1>7. end % target < Second
  <2> HIDE DEF end
  <2>1. PICK k \in Int : end = target * k + late
    BY <1>4
  <2>2. late \in 0 .. target - 1
    BY <1>3, <1>4, <1>5
  <2>3. end % target = late
    BY <1>3, <1>6, <2>1, <2>2, RemainderIsUnique
  <2> QED
    BY <1>4, <1>5, <2>3
<1>8. CASE pulse = 0
  <2>1. remaining' = nap /\ clock' = clock /\ since_sample' = since_sample /\ overrun' = 0
    BY <1>1, <1>4, <1>8 DEF NoLoadPulse, AtLeast
  <2>2. NapEnd' - overrun' = end
    BY <1>1, <1>4, <1>5, <2>1 DEF NapEnd
  <2> QED
    BY <1>4, <1>5, <1>7, <2>1, <2>2
<1>9. CASE pulse # 0
  <2>1. /\ clock' = Later(pulse) /\ since_sample' = since_sample + pulse
        /\ remaining' = AtLeast(nap - pulse, 0)
    <3>1. clock' = Later(0 + pulse) /\ since_sample' = since_sample + 0 + pulse
      BY <1>1, <1>9 DEF LoadPulse, PowerBankKeepalivePulse, Pass
    <3> QED
      BY <1>1, <1>2, <1>5, <1>9, <3>1 DEF LoadPulse
  <2>2. Later(pulse) \in Int
    BY <1>2, <1>5, ClockAssumption DEF Later
  <2> DEFINE x == wall_offset + (nap - pulse)
  <2>3. x \in Int /\ NapEnd' - overrun' = Later(pulse) + x /\ end = clock + pulse + x
    BY <1>1, <1>2, <1>4, <1>5, <2>1, <2>2 DEF NapEnd, AtLeast
  <2>4. (Later(pulse) + x) % target = (clock + pulse + x) % target
    BY <1>2, <1>3, <2>3, WrapKeepsBoundaries DEF IInv
  <2>5. since_sample' + remaining' >= Second
    BY <1>2, <1>4, <1>5, <2>1 DEF AtLeast
  <2> HIDE DEF x, end
  <2> QED
    BY <1>7, <2>3, <2>4, <2>5
<1> QED
  BY <1>8, <1>9

LEMMA AimIsKept == IInv /\ Aimed /\ [Next]_vars => Aimed'
<1> SUFFICES ASSUME IInv, Aimed, [Next]_vars
             PROVE  Aimed'
  OBVIOUS
<1>1. CASE Sample \/ Upload \/ NapEnds
  BY <1>1 DEF Sample, Upload, NapEnds, Aimed
<1>2. CASE PlanNap
  BY <1>2, PlanAims
<1>3. CASE StartupNap
  <2>1. remaining \in Nat /\ 0 \in Nat
    BY DEF IInv, TypeOK
  <2>2. remaining' = remaining - 0 - remaining
    BY <1>3, <2>1 DEF StartupNap
  <2> QED
    BY <1>3, <2>1, <2>2, NapStepKeepsAim DEF StartupNap, IInv
<1>4. CASE NapSlice
  <2> DEFINE slice == NextBatteryKeepaliveNap(remaining, clock, state)
  <2>1. slice.sleep \in Nat /\ slice.pulse \in Nat
    BY SliceWithinNap DEF IInv, TypeOK
  <2>2. /\ step = "nap" /\ Pass(slice.sleep, slice.pulse, state, FALSE)
        /\ remaining' = remaining - slice.sleep - slice.pulse
        /\ UNCHANGED <<wall_offset, interval, aligned, overrun>>
    BY <1>4 DEF NapSlice
  <2> HIDE DEF slice
  <2> QED
    BY <2>1, <2>2, NapStepKeepsAim DEF IInv
<1>5. CASE UNCHANGED vars
  BY <1>5 DEF Aimed, NapEnd, vars, loop_vars, history_vars
<1> QED
  BY <1>1, <1>2, <1>3, <1>4, <1>5 DEF Next

(***************************************************************************)
(* aligned_wall_clock_nap_ms and what nap() and the load pulse make of it: *)
(* a sample comes within a second of a boundary of the poll time by the    *)
(* wall clock, late by what a load pulse took longer than its nap and no   *)
(* more, and never twice for one boundary; for every offset of that clock  *)
(* and also when millis() wraps in the nap.                                *)
(***************************************************************************)
THEOREM AlignmentKept == Spec => []AlignedSamplesAreOnTime
<1>1. Init => Aimed
  BY DEF Init, Aimed
<1>2. IInv /\ Aimed => AlignedSamplesAreOnTime
  <2> SUFFICES ASSUME IInv, Aimed, step = "nap", remaining = 0, aligned
               PROVE  /\ (clock + wall_offset - overrun) % interval < Second
                      /\ since_sample >= Second
    BY DEF AlignedSamplesAreOnTime
  <2>1. /\ (NapEnd - overrun) % interval < Second /\ wall_offset # NotSynced
        /\ since_sample + remaining >= Second
    BY DEF Aimed
  <2>2. NapEnd = clock + wall_offset
    BY <2>1, DurationAssumption DEF NapEnd, IInv, TypeOK
  <2>3. since_sample >= Second
    BY <2>1, Polls DEF IInv, TypeOK
  <2>4. NapEnd - overrun = clock + wall_offset - overrun
    BY <2>1, <2>2, DurationAssumption, ClockAssumption DEF IInv, TypeOK
  <2> QED
    BY <2>1, <2>3, <2>4
<1> QED
  BY <1>1, <1>2, AimIsKept, WorkIsAccountedFor, PTL DEF Spec

----------------------------------------------------------------------------
(* Loads while the bank is relied on *)

LongestPoll == AtLeast(startup_poll, running_poll)

(* What an iteration can do without giving the bank a full load. *)
Works == {sampled + uploaded : sampled \in SampleTimes, uploaded \in ShortUploads \cup {0}}

(* What the loop takes for the time since the last load pulse. *)
SincePulse == (clock - last_active_load_pulse) % ClockSize

(***************************************************************************)
(* The bank has waited no longer than the loop knows of, but for the work  *)
(* of the iteration in which the device came to rely on it; and a pulse    *)
(* was not yet due when the nap was planned.                               *)
(***************************************************************************)
Counting(work) ==
  /\ \E before \in Works : unloaded <= SincePulse + before
  /\ SincePulse + remaining <= active_load_pulse_interval - 1 + LongestPoll + work

Bounded ==
  \E before, work \in Works :
    unloaded <= active_load_pulse_interval - 1 + LongestPoll + before + work

(***************************************************************************)
(* In the iteration in which the device comes to rely on the bank, the     *)
(* wait is part of the work; in later ones the loop counts it.  The idle   *)
(* nap in which millis() wraps into a startup window is in one piece.      *)
(***************************************************************************)
WaitIsCounted ==
  /\ step = "sample" => unloaded = 0 \/ Counting(0)
  /\ step = "upload" => unloaded <= since_sample \/ Counting(since_sample)
  /\ step = "plan" => \/ unloaded = 0
                      \/ \E work \in Works : unloaded <= work \/ Counting(work)
  /\ step = "delay" => Bounded
  /\ step = "nap" => (unloaded = 0 /\ remaining = 0) \/ Counting(0)

LInv ==
  /\ step \in {"sample", "upload", "plan"} => remaining = 0
  /\ ~Demanded(clock, state) => unloaded = 0
  /\ Demanded(clock, state) => WaitIsCounted

LEMMA LoadBudget ==
  /\ active_load_pulse_interval \in Nat \ {0} /\ active_load_pulse \in Nat \ {0}
  /\ LongestPoll \in Nat /\ startup_poll <= LongestPoll /\ running_poll <= LongestPoll
  /\ \A sampled \in SampleTimes, uploaded \in UploadTimes :
       /\ sampled \in Nat /\ uploaded \in Nat
       /\ active_load_pulse_interval + LongestPoll + sampled + uploaded <= ClockSize
  /\ \A sampled \in SampleTimes :
       active_load_pulse_interval + LongestPoll + sampled <= ClockSize
  /\ active_load_pulse_interval + LongestPoll <= ClockSize
  /\ ClockSize \in Nat \ {0}
<1>1. /\ active_load_pulse_interval \in Nat \ {0} /\ active_load_pulse \in Nat \ {0}
      /\ ClockSize \in Nat \ {0}
  BY DurationAssumption, LoadAssumption, ClockAssumption
<1>2. LongestPoll \in Nat /\ startup_poll <= LongestPoll /\ running_poll <= LongestPoll
  BY Polls DEF LongestPoll, AtLeast
<1>3. \A sampled \in SampleTimes, uploaded \in UploadTimes :
        /\ sampled \in Nat /\ uploaded \in Nat
        /\ active_load_pulse_interval + LongestPoll + sampled + uploaded <= ClockSize
  BY DurationAssumption, LoadAssumption DEF LongestPoll
<1>4. PICK s0 \in SampleTimes, u0 \in UploadTimes : s0 \in Nat /\ u0 \in Nat
  BY DurationAssumption
<1>5. \A sampled \in SampleTimes :
        active_load_pulse_interval + LongestPoll + sampled <= ClockSize
  <2> SUFFICES ASSUME NEW sampled \in SampleTimes
               PROVE  active_load_pulse_interval + LongestPoll + sampled <= ClockSize
    OBVIOUS
  <2>1. /\ active_load_pulse_interval + LongestPoll + sampled + u0 <= ClockSize
        /\ sampled \in Nat
    BY <1>3, <1>4
  <2> QED
    BY <1>1, <1>2, <1>4, <2>1
<1>6. active_load_pulse_interval + LongestPoll <= ClockSize
  <2>1. active_load_pulse_interval + LongestPoll + s0 <= ClockSize
    BY <1>4, <1>5
  <2> QED
    BY <1>1, <1>2, <1>4, <2>1
<1> QED
  BY <1>1, <1>2, <1>3, <1>5, <1>6

LEMMA WorkIsTime ==
  /\ Works \subseteq Nat /\ Works # {}
  /\ SampleTimes \subseteq Works
  /\ \A sampled \in SampleTimes, uploaded \in ShortUploads : sampled + uploaded \in Works
<1>1. SampleTimes \subseteq Nat /\ SampleTimes # {} /\ ShortUploads \cup {0} \subseteq Nat
  <2>1. UploadTimes \subseteq Nat /\ SampleTimes \subseteq Nat /\ SampleTimes # {}
    BY DurationAssumption
  <2>2. \A uploaded \in ShortUploads \cup {0} : uploaded \in Nat
    BY <2>1 DEF ShortUploads
  <2> QED
    BY <2>1, <2>2
<1>2. Works \subseteq Nat
  BY <1>1 DEF Works
<1>3. \A sampled \in SampleTimes : sampled \in Works
  <2> SUFFICES ASSUME NEW sampled \in SampleTimes
               PROVE  sampled \in Works
    OBVIOUS
  <2>1. sampled = sampled + 0
    BY <1>1
  <2> QED
    BY <2>1 DEF Works
<1>4. \A sampled \in SampleTimes, uploaded \in ShortUploads : sampled + uploaded \in Works
  BY DEF Works
<1> QED
  BY <1>1, <1>2, <1>3, <1>4

(* The loop's count goes on with the clock, unless it wraps. *)
LEMMA PulseRecedes ==
  ASSUME TypeOK, NEW ticks \in Nat, SincePulse + ticks < ClockSize,
         clock' = Later(ticks), last_active_load_pulse' = last_active_load_pulse
  PROVE  SincePulse' = SincePulse + ticks
<1> DEFINE ago == clock - last_active_load_pulse
           r   == ago % ClockSize
           now == clock + ticks
           x   == 0 - last_active_load_pulse
<1>1. /\ ClockSize \in Nat \ {0} /\ clock \in Int /\ last_active_load_pulse \in Int
      /\ ago \in Int /\ now \in Int /\ x \in Int
  BY ClockAssumption DEF TypeOK
<1>2. SincePulse = r
  BY DEF SincePulse
<1>3. now + x = ago + ticks
  BY <1>1
<1>4. SincePulse' = ((now % ClockSize) + x) % ClockSize
  <2>1. now % ClockSize \in Int
    BY <1>1
  <2>2. SincePulse' = ((now % ClockSize) - last_active_load_pulse) % ClockSize
    BY DEF SincePulse, Later
  <2>3. (now % ClockSize) - last_active_load_pulse = (now % ClockSize) + x
    <3> HIDE DEF now
    <3> QED
      BY <1>1, <2>1
  <2> QED
    BY <2>2, <2>3
<1> HIDE DEF now, x, ago, r
<1>5. ((now % ClockSize) + x) % ClockSize = (now + x) % ClockSize
  BY <1>1, WrappedClock
<1>6. r \in 0 .. ClockSize - 1 /\ \E q \in Int : ago = ClockSize * q + r
  BY <1>1, Division DEF r
<1>7. PICK q \in Int : ago = ClockSize * q + r
  BY <1>6
<1> DEFINE s == r + ticks
           t == ago + ticks
<1>8. s \in 0 .. ClockSize - 1 /\ t \in Int /\ t = ClockSize * q + s
  BY <1>1, <1>2, <1>6, <1>7
<1> HIDE DEF s, t
<1>9. t % ClockSize = s
  BY <1>1, <1>8, RemainderIsUnique
<1> QED
  BY <1>2, <1>3, <1>4, <1>5, <1>9 DEF s, t

LEMMA SincePulseType ==
  ASSUME TypeOK
  PROVE  SincePulse \in Nat
<1> DEFINE ago == clock - last_active_load_pulse
<1>1. ago \in Int /\ ClockSize \in Nat \ {0}
  BY ClockAssumption DEF TypeOK
<1> HIDE DEF ago
<1>2. ago % ClockSize \in Nat
  BY <1>1
<1> QED
  BY <1>2 DEF SincePulse, ago

(* What the passing of time does to the wait. *)
LEMMA PassWaits ==
  ASSUME TypeOK, NEW off \in Nat, NEW on \in Nat, NEW full, Pass(off, on, state', full)
  PROVE  /\ clock' = Later(off + on)
         /\ ~Demanded(clock', state') => unloaded' = 0
         /\ full => unloaded' = 0
         /\ \/ unloaded' = 0
            \/ /\ unloaded' = unloaded + (off + on)
               /\ Demanded(clock, state) /\ ~full
         /\ ~full /\ Demanded(clock, state) /\ Demanded(clock', state') =>
              unloaded' = unloaded + (off + on)
<1>1. clock' = Later(off + on)
  BY DEF Pass
<1>2. unloaded \in Nat /\ unloaded + off + on = unloaded + (off + on)
  BY DEF TypeOK
<1> QED
  BY <1>1, <1>2 DEF Pass

(* The count goes on while the wait does. *)
LEMMA CountGoesOn ==
  ASSUME TypeOK, NEW work \in Nat, NEW ticks \in Nat, NEW more \in Nat, Counting(work),
         active_load_pulse_interval + LongestPoll + work <= ClockSize,
         active_load_pulse_interval + LongestPoll + work + more <= ClockSize,
         clock' = Later(ticks), last_active_load_pulse' = last_active_load_pulse,
         unloaded' = unloaded + ticks, NEW left \in Nat, remaining' = left,
         ticks + left <= more + remaining
  PROVE  Counting(work + more)'
<1>1. /\ SincePulse \in Nat /\ remaining \in Nat /\ unloaded \in Nat
      /\ active_load_pulse_interval \in Nat \ {0} /\ LongestPoll \in Nat
      /\ ClockSize \in Nat \ {0} /\ Works \subseteq Nat
  BY SincePulseType, LoadBudget, WorkIsTime DEF TypeOK
<1>2. SincePulse + remaining <= active_load_pulse_interval - 1 + LongestPoll + work
  BY DEF Counting
<1>3. SincePulse' = SincePulse + ticks
  <2>1. ticks <= more + remaining
    BY <1>1
  <2>2. SincePulse + ticks <= active_load_pulse_interval - 1 + LongestPoll + work + more
    BY <1>1, <1>2, <2>1
  <2>3. SincePulse + ticks < ClockSize
    BY <1>1, <2>2
  <2> QED
    BY <2>3, PulseRecedes
<1>4. PICK before \in Works : unloaded <= SincePulse + before
  BY DEF Counting
<1>5. unloaded' <= SincePulse' + before
  BY <1>1, <1>3, <1>4
<1>6. SincePulse' + remaining' <= active_load_pulse_interval - 1 + LongestPoll + (work + more)
  BY <1>1, <1>2, <1>3
<1> QED
  BY <1>5, <1>6 DEF Counting, LongestPoll, Works, ShortUploads

LEMMA SampleCounts == IInv /\ LInv /\ Sample => LInv'
<1> SUFFICES ASSUME IInv, LInv, Sample
             PROVE  LInv'
  OBVIOUS
<1>1. PICK ticks \in SampleTimes : Pass(ticks, 0, state', FALSE)
  BY DEF Sample
<1>2. /\ step = "sample" /\ step' = "upload" /\ remaining = 0 /\ remaining' = 0
      /\ since_sample = 0 /\ last_active_load_pulse' = last_active_load_pulse
  BY DEF Sample, LInv, IInv, WorkSoFar
<1>3. ticks \in Nat /\ ticks + 0 = ticks /\ TypeOK /\ unloaded \in Nat
  BY DurationAssumption DEF IInv, TypeOK
<1>4. /\ clock' = Later(ticks) /\ since_sample' = ticks
      /\ ~Demanded(clock', state') => unloaded' = 0
      /\ unloaded' = 0 \/ (unloaded' = unloaded + ticks /\ Demanded(clock, state))
  <2>1. since_sample' = since_sample + ticks + 0
    BY <1>1 DEF Pass
  <2>2. since_sample + ticks + 0 = ticks /\ 0 \in Nat
    BY <1>2, <1>3
  <2> QED
    BY <1>1, <1>3, <2>1, <2>2, PassWaits
<1>5. unloaded' <= since_sample' \/ Counting(since_sample)'
  <2>1. CASE unloaded' = 0
    BY <1>3, <1>4, <2>1
  <2>2. CASE unloaded' = unloaded + ticks /\ unloaded = 0
    BY <1>3, <1>4, <2>2
  <2>3. CASE unloaded' = unloaded + ticks /\ Counting(0)
    <3>1. /\ active_load_pulse_interval + LongestPoll + 0 <= ClockSize
          /\ active_load_pulse_interval + LongestPoll + 0 + ticks <= ClockSize
      BY <1>3, LoadBudget
    <3>2. ticks + 0 <= ticks + remaining
      BY <1>2, <1>3
    <3>3. Counting(0 + ticks)'
      BY <1>2, <1>3, <1>4, <2>3, <3>1, <3>2, CountGoesOn
    <3>4. 0 + ticks = since_sample'
      BY <1>3, <1>4
    <3> QED
      BY <3>3, <3>4 DEF Counting
  <2> QED
    BY <1>2, <1>4, <2>1, <2>2, <2>3 DEF LInv, WaitIsCounted
<1> QED
  BY <1>2, <1>4, <1>5 DEF LInv, WaitIsCounted

LEMMA UploadCounts == IInv /\ LInv /\ Upload => LInv'
<1> SUFFICES ASSUME IInv, LInv, Upload
             PROVE  LInv'
  OBVIOUS
<1>1. PICK ticks \in UploadTimes :
        Pass(0, ticks, state,
             ticks >= active_load_pulse \/ StartupKeepsRadioAwake(Later(ticks)))
  BY DEF Upload
<1> DEFINE full == ticks >= active_load_pulse \/ StartupKeepsRadioAwake(Later(ticks))
<1>2. /\ step = "upload" /\ step' = "plan" /\ remaining = 0 /\ remaining' = 0
      /\ since_sample \in SampleTimes /\ state' = state
      /\ last_active_load_pulse' = last_active_load_pulse
  BY DEF Upload, LInv, IInv, WorkSoFar
<1>3. /\ ticks \in Nat /\ 0 + ticks = ticks /\ TypeOK /\ unloaded \in Nat
      /\ since_sample \in Nat /\ active_load_pulse \in Nat
  <2>1. UploadTimes \subseteq Nat
    BY DurationAssumption
  <2> QED
    BY <2>1, Polls DEF IInv, TypeOK
<1>4. /\ clock' = Later(ticks)
      /\ ~Demanded(clock', state') => unloaded' = 0
      /\ unloaded' = 0
           \/ (unloaded' = unloaded + ticks /\ Demanded(clock, state) /\ ~full)
  <2>1. Pass(0, ticks, state', full)
    BY <1>1, <1>2
  <2> HIDE DEF full
  <2> QED
    BY <1>3, <2>1, PassWaits
<1>5. CASE unloaded' = 0
  BY <1>2, <1>4, <1>5 DEF LInv, WaitIsCounted
<1>6. CASE unloaded' = unloaded + ticks /\ Demanded(clock, state) /\ ~full
  <2>1. ticks \in ShortUploads
    BY <1>3, <1>6 DEF ShortUploads
  <2>2. PICK sampled \in SampleTimes : sampled = since_sample
    BY <1>2
  <2> DEFINE work == sampled + ticks
  <2>3. work \in Works /\ work \in Nat /\ sampled \in Nat
    BY <1>3, <2>1, <2>2, WorkIsTime
  <2>4. unloaded <= sampled \/ Counting(sampled)
    BY <1>2, <1>6, <2>2 DEF LInv, WaitIsCounted
  <2>5. unloaded' <= work \/ Counting(work)'
    <3>1. CASE unloaded <= sampled
      <4>1. unloaded + ticks <= sampled + ticks
        BY <1>3, <2>3, <3>1
      <4> QED
        BY <1>6, <4>1
    <3>2. CASE Counting(sampled)
      <4>1. /\ active_load_pulse_interval + LongestPoll + sampled <= ClockSize
            /\ active_load_pulse_interval + LongestPoll + sampled + ticks <= ClockSize
        BY LoadBudget
      <4>2. ticks + 0 <= ticks + remaining /\ 0 \in Nat
        BY <1>2, <1>3
      <4> QED
        BY <1>2, <1>3, <1>4, <1>6, <2>3, <3>2, <4>1, <4>2, CountGoesOn
    <3> QED
      BY <2>4, <3>1, <3>2
  <2> HIDE DEF work
  <2> QED
    BY <1>2, <1>4, <2>3, <2>5 DEF LInv, WaitIsCounted
<1> QED
  BY <1>4, <1>5, <1>6

LEMMA PlanCounts == IInv /\ LInv /\ PlanNap => LInv'
<1> SUFFICES ASSUME IInv, LInv, PlanNap
             PROVE  LInv'
  OBVIOUS
<1> DEFINE target == TelemetryPoll(clock, state)
           nap    == PlannedNap(target)
           pulse  == IF StartupKeepsRadioAwake(clock) THEN 0
                     ELSE ActiveCycleLoadPulse(clock, state, last_active_load_pulse)
<1>1. /\ step = "plan" /\ state' = state
      /\ pulse = 0 => NoLoadPulse(nap)
      /\ pulse # 0 => LoadPulse(pulse, nap)
      /\ step' = IF StartupKeepsRadioAwake(clock') THEN "delay" ELSE "nap"
  BY DEF PlanNap
<1>2. target \in Nat \ {0} /\ nap \in 0 .. target
  <2>1. target \in Nat \ {0}
    BY PollIsOne, Polls
  <2> HIDE DEF target
  <2> QED
    BY <2>1, NapWithinPoll DEF IInv
<1>3. pulse = 0 \/ pulse = active_load_pulse
  BY DEF ActiveCycleLoadPulse
<1>4. /\ active_load_pulse_interval \in Nat \ {0} /\ active_load_pulse \in Nat \ {0}
      /\ LongestPoll \in Nat /\ unloaded \in Nat /\ SincePulse \in Nat /\ pulse \in Nat
      /\ Works # {} /\ Works \subseteq Nat
  BY <1>3, LoadBudget, WorkIsTime, SincePulseType DEF IInv, TypeOK
<1>5. Demanded(clock, state) => target <= LongestPoll
  BY LoadBudget, DurationAssumption DEF Demanded, TelemetryPoll, Resting, IInv, TypeOK
<1>6. Demanded(clock, state) /\ pulse = 0 /\ ~StartupKeepsRadioAwake(clock) =>
        SincePulse < active_load_pulse_interval
  BY <1>4, DurationAssumption
     DEF Demanded, ActiveCycleLoadPulse, Resting, SincePulse, IInv, TypeOK
<1>7. ~Demanded(clock, state) => pulse = 0
  BY DurationAssumption DEF Demanded, ActiveCycleLoadPulse, Resting, IInv, TypeOK, DetectorStates
<1> HIDE DEF target, nap, pulse
<1>8. step' \in {"delay", "nap"}
  BY <1>1
<1>9. CASE pulse # 0
  <2>1. /\ Pass(0, pulse, state', TRUE) /\ last_active_load_pulse' = Later(pulse)
        /\ remaining' = AtLeast(nap - pulse, 0)
    BY <1>1, <1>9 DEF LoadPulse, PowerBankKeepalivePulse
  <2>2. unloaded' = 0 /\ clock' = Later(pulse)
    <3>1. 0 + pulse = pulse
      BY <1>4
    <3> QED
      BY <1>4, <2>1, <3>1, PassWaits DEF IInv
  <2>3. SincePulse' = 0
    <3> DEFINE now == Later(pulse)
    <3>1. now \in Int /\ ClockSize \in Nat \ {0}
      BY <1>4, LaterInRange, ClockAssumption DEF IInv, TypeOK
    <3>2. clock' = now /\ last_active_load_pulse' = now
      BY <2>1, <2>2
    <3> HIDE DEF now
    <3>3. 0 = ClockSize * 0 + 0 /\ 0 \in 0 .. ClockSize - 1
      BY <3>1
    <3>4. 0 % ClockSize = 0
      BY <3>1, <3>3, RemainderIsUnique
    <3>5. now - now = 0
      BY <3>1
    <3> QED
      BY <3>2, <3>4, <3>5 DEF SincePulse
  <2>4. remaining' \in Nat /\ remaining' <= LongestPoll
    BY <1>2, <1>4, <1>5, <1>7, <1>9, <2>1 DEF AtLeast
  <2>5. PICK before \in Works : before \in Nat
    BY <1>4
  <2>6. Counting(0)'
    <3> DEFINE left == AtLeast(nap - pulse, 0)
    <3>1. 0 <= 0 + before
      BY <2>5
    <3>2. 0 + left <= active_load_pulse_interval - 1 + LongestPoll + 0
      <4>1. left \in Nat /\ left <= LongestPoll
        BY <2>1, <2>4
      <4> HIDE DEF left
      <4> QED
        BY <1>4, <4>1
    <3> HIDE DEF left
    <3>3. unloaded' <= SincePulse' + before
      BY <2>2, <2>3, <3>1
    <3>4. SincePulse' + remaining' <= active_load_pulse_interval - 1 + LongestPoll + 0
      BY <2>1, <2>3, <3>2 DEF left
    <3> QED
      BY <3>3, <3>4 DEF Counting
  <2>7. Bounded'
    <3>1. unloaded' <= active_load_pulse_interval - 1 + LongestPoll + before + before
      BY <1>4, <2>2, <2>5
    <3> QED
      BY <3>1 DEF Bounded
  <2> QED
    BY <1>8, <2>2, <2>6, <2>7 DEF LInv, WaitIsCounted
<1>10. CASE pulse = 0 /\ ~Demanded(clock, state)
  BY <1>1, <1>8, <1>10 DEF LInv, NoLoadPulse
<1>11. CASE pulse = 0 /\ Demanded(clock, state)
  <2>1. /\ remaining' = nap /\ clock' = clock /\ unloaded' = unloaded
        /\ last_active_load_pulse' = last_active_load_pulse
    BY <1>1, <1>11 DEF NoLoadPulse
  <2>2. SincePulse' = SincePulse
    BY <2>1 DEF SincePulse
  <2>3. \/ unloaded = 0
        \/ \E work \in Works : unloaded <= work \/ Counting(work)
    BY <1>1, <1>11 DEF LInv, WaitIsCounted
  <2>4. \E before \in Works : unloaded <= SincePulse + before
    <3>1. CASE unloaded = 0
      <4>1. PICK before \in Works : before \in Nat
        BY <1>4
      <4>2. unloaded <= SincePulse + before
        BY <1>4, <3>1, <4>1
      <4> QED
        BY <4>2
    <3>2. CASE \E work \in Works : unloaded <= work
      <4>1. PICK work \in Works : unloaded <= work /\ work \in Nat
        BY <1>4, <3>2
      <4>2. unloaded <= SincePulse + work
        BY <1>4, <4>1
      <4> QED
        BY <4>2
    <3> QED
      BY <2>3, <3>1, <3>2 DEF Counting
  <2>5. Bounded'
    <3>1. CASE unloaded = 0
      <4>1. PICK before \in Works : before \in Nat
        BY <1>4
      <4>2. unloaded' <= active_load_pulse_interval - 1 + LongestPoll + before + before
        BY <1>4, <2>1, <3>1, <4>1
      <4> QED
        BY <4>2 DEF Bounded
    <3>2. CASE \E work \in Works : unloaded <= work
      <4>1. PICK work \in Works : unloaded <= work /\ work \in Nat
        BY <1>4, <3>2
      <4>2. unloaded' <= active_load_pulse_interval - 1 + LongestPoll + work + work
        BY <1>4, <2>1, <4>1
      <4> QED
        BY <4>2 DEF Bounded
    <3>3. CASE \E work \in Works : Counting(work)
      <4>1. PICK work \in Works : Counting(work)
        BY <3>3
      <4>2. PICK before \in Works : unloaded <= SincePulse + before
        BY <4>1 DEF Counting
      <4>3. remaining \in Nat /\ work \in Nat /\ before \in Nat
        BY <1>4 DEF IInv, TypeOK
      <4>4. SincePulse + remaining <= active_load_pulse_interval - 1 + LongestPoll + work
        BY <4>1 DEF Counting
      <4>5. unloaded' <= active_load_pulse_interval - 1 + LongestPoll + before + work
        BY <1>4, <2>1, <4>2, <4>3, <4>4
      <4> QED
        BY <4>5 DEF Bounded
    <3> QED
      BY <2>3, <3>1, <3>2, <3>3
  <2>6. CASE StartupKeepsRadioAwake(clock)
    BY <1>1, <1>11, <2>1, <2>5, <2>6 DEF LInv, WaitIsCounted
  <2>7. CASE ~StartupKeepsRadioAwake(clock)
    <3>1. SincePulse < active_load_pulse_interval
      BY <1>6, <1>11, <2>7
    <3>2. SincePulse + nap <= active_load_pulse_interval - 1 + LongestPoll + 0
      BY <1>2, <1>4, <1>5, <1>11, <3>1
    <3>3. Counting(0)'
      BY <2>1, <2>2, <2>4, <3>2 DEF Counting
    <3> QED
      BY <1>1, <1>11, <2>1, <2>7, <3>3 DEF LInv, WaitIsCounted
  <2> QED
    BY <2>6, <2>7
<1> QED
  BY <1>9, <1>10, <1>11

LEMMA StartupNapCounts == IInv /\ LInv /\ StartupNap => LInv'
<1> SUFFICES ASSUME IInv, LInv, StartupNap
             PROVE  LInv'
  OBVIOUS
<1>1. /\ step' = "nap" /\ remaining' = 0 /\ Pass(0, remaining, state', TRUE)
  BY DEF StartupNap
<1>2. remaining \in Nat /\ 0 \in Nat /\ TypeOK
  BY DEF IInv, TypeOK
<1>3. unloaded' = 0
  BY <1>1, <1>2, PassWaits
<1> QED
  BY <1>1, <1>3 DEF LInv, WaitIsCounted

LEMMA NapSliceCounts == IInv /\ LInv /\ NapSlice => LInv'
<1> SUFFICES ASSUME IInv, LInv, NapSlice
             PROVE  LInv'
  OBVIOUS
<1> DEFINE slice == NextBatteryKeepaliveNap(remaining, clock, state)
           ticks == slice.sleep + slice.pulse
<1>1. slice.sleep \in Nat /\ slice.pulse \in Nat /\ ticks <= remaining
  BY SliceWithinNap DEF IInv, TypeOK
<1>2. /\ step = "nap" /\ step' = "nap" /\ remaining # 0 /\ state' = state
      /\ Pass(slice.sleep, slice.pulse, state', FALSE)
      /\ remaining' = remaining - slice.sleep - slice.pulse
      /\ last_active_load_pulse' = last_active_load_pulse
  BY DEF NapSlice
<1>3. ~Demanded(clock, state) /\ Demanded(clock', state') => slice.sleep = remaining /\ slice.pulse = 0
  <2> SUFFICES ASSUME ~Demanded(clock, state), Demanded(clock', state')
               PROVE  slice = [sleep |-> remaining, pulse |-> 0]
    OBVIOUS
  <2>1. ~BatteryKeepaliveAllowed(clock, state)
    BY <1>2, DurationAssumption DEF Demanded, Resting, BatteryKeepaliveAllowed, IInv, TypeOK
  <2> QED
    BY <2>1 DEF NextBatteryKeepaliveNap
<1> HIDE DEF slice
<1>4. /\ remaining \in Nat /\ unloaded \in Nat /\ ticks \in Nat
      /\ remaining' = remaining - ticks /\ TypeOK
  BY <1>1, <1>2 DEF IInv, TypeOK
<1>5. /\ clock' = Later(ticks)
      /\ ~Demanded(clock', state') => unloaded' = 0
      /\ unloaded' = 0 \/ (unloaded' = unloaded + ticks /\ Demanded(clock, state))
      /\ Demanded(clock, state) /\ Demanded(clock', state') => unloaded' = unloaded + ticks
  BY <1>1, <1>2, <1>4, PassWaits
<1>6. CASE ~Demanded(clock', state')
  BY <1>2, <1>5, <1>6 DEF LInv
<1>7. CASE Demanded(clock', state') /\ ~Demanded(clock, state)
  <2>1. unloaded' = 0
    BY <1>5, <1>7
  <2>2. remaining' = 0
    BY <1>1, <1>2, <1>3, <1>4, <1>7
  <2> QED
    BY <1>2, <2>1, <2>2 DEF LInv, WaitIsCounted
<1>8. CASE Demanded(clock', state') /\ Demanded(clock, state)
  <2>1. Counting(0) /\ unloaded' = unloaded + ticks
    BY <1>2, <1>5, <1>8 DEF LInv, WaitIsCounted
  <2>2. /\ active_load_pulse_interval + LongestPoll + 0 <= ClockSize
        /\ active_load_pulse_interval + LongestPoll + 0 + 0 <= ClockSize
    BY LoadBudget
  <2> DEFINE left == remaining - ticks
  <2>3. left \in Nat /\ remaining' = left /\ ticks + left <= 0 + remaining /\ 0 \in Nat
    BY <1>1, <1>4
  <2> HIDE DEF left, ticks
  <2>4. Counting(0 + 0)'
    BY <1>2, <1>4, <1>5, <2>1, <2>2, <2>3, CountGoesOn
  <2>5. Counting(0)'
    BY <2>4
  <2> QED
    BY <1>2, <1>8, <2>5 DEF LInv, WaitIsCounted
<1> QED
  BY <1>6, <1>7, <1>8

LEMMA NapEndsCounts == IInv /\ LInv /\ NapEnds => LInv'
<1> SUFFICES ASSUME IInv, LInv, NapEnds
             PROVE  LInv'
  OBVIOUS
<1>1. /\ step = "nap" /\ step' = "sample" /\ remaining = 0
      /\ UNCHANGED <<state, clock, last_active_load_pulse, remaining, unloaded>>
  BY DEF NapEnds
<1>2. Counting(0) => Counting(0)'
  BY <1>1 DEF Counting, SincePulse
<1> QED
  BY <1>1, <1>2 DEF LInv, WaitIsCounted

LEMMA InitCounts == Init => LInv
<1> SUFFICES ASSUME Init
             PROVE  LInv
  OBVIOUS
<1>1. step = "sample" /\ remaining = 0 /\ unloaded = 0
  BY DEF Init
<1> QED
  BY <1>1 DEF LInv, WaitIsCounted

LEMMA CountIsKept == IInv /\ LInv /\ [Next]_vars => LInv'
<1> SUFFICES ASSUME IInv, LInv, [Next]_vars
             PROVE  LInv'
  OBVIOUS
<1>1. CASE UNCHANGED vars
  BY <1>1 DEF LInv, WaitIsCounted, Counting, Bounded, SincePulse, vars, loop_vars, history_vars
<1> QED
  BY <1>1, SampleCounts, UploadCounts, PlanCounts, StartupNapCounts, NapSliceCounts,
     NapEndsCounts DEF Next

(***************************************************************************)
(* active_cycle_load_pulse_ms and the loop around it: while the device     *)
(* relies on its bank, the bank waits for a full load no longer than the   *)
(* pulse interval, a poll time and the work of two iterations, whatever    *)
(* the state, the slicing of the naps, the wall clock and the wraps of     *)
(* millis().                                                               *)
(***************************************************************************)
THEOREM LoadsAreRegular == Spec => []LoadsKeepComing
<1>1. IInv /\ LInv => LoadsKeepComing
  <2> SUFFICES ASSUME IInv, LInv, unloaded # 0
               PROVE  LoadsKeepComing
    BY DEF LoadsKeepComing
  <2> DEFINE Waited ==
        \E before, work \in Works :
          unloaded < active_load_pulse_interval + LongestPoll + work + before
  <2>1. /\ active_load_pulse_interval \in Nat \ {0} /\ LongestPoll \in Nat
        /\ unloaded \in Nat /\ remaining \in Nat /\ SincePulse \in Nat
        /\ Works # {} /\ Works \subseteq Nat
    BY LoadBudget, WorkIsTime, SincePulseType DEF IInv, TypeOK
  <2>2. WaitIsCounted
    BY DEF LInv
  <2>3. \A work \in Works :
          Counting(work) \/ unloaded <= work =>
            \E before \in Works :
              unloaded < active_load_pulse_interval + LongestPoll + work + before
    <3> SUFFICES ASSUME NEW work \in Works, Counting(work) \/ unloaded <= work
                 PROVE  \E before \in Works :
                          unloaded < active_load_pulse_interval + LongestPoll + work + before
      OBVIOUS
    <3>1. CASE unloaded <= work
      BY <2>1, <3>1
    <3>2. CASE Counting(work)
      <4>1. PICK before \in Works : unloaded <= SincePulse + before
        BY <3>2 DEF Counting
      <4>2. SincePulse + remaining <= active_load_pulse_interval - 1 + LongestPoll + work
        BY <3>2 DEF Counting
      <4>3. unloaded < active_load_pulse_interval + LongestPoll + work + before
        BY <2>1, <4>1, <4>2
      <4> QED
        BY <4>3
    <3> QED
      BY <3>1, <3>2
  <2>4. ASSUME Counting(0)
        PROVE  Waited
    <3>1. PICK before \in Works : unloaded <= SincePulse + before
      BY <2>4 DEF Counting
    <3>2. SincePulse + remaining <= active_load_pulse_interval - 1 + LongestPoll + 0
      BY <2>4 DEF Counting
    <3>3. unloaded < active_load_pulse_interval + LongestPoll + before + before
      BY <2>1, <3>1, <3>2
    <3> QED
      BY <3>3
  <2>5. ASSUME step = "upload"
        PROVE  Waited
    <3>1. since_sample \in Works
      BY <2>5, WorkIsTime DEF IInv, WorkSoFar
    <3> QED
      BY <2>2, <2>3, <2>5, <3>1 DEF WaitIsCounted
  <2>6. ASSUME step = "plan"
        PROVE  Waited
    BY <2>2, <2>3, <2>6 DEF WaitIsCounted
  <2>7. ASSUME step = "delay"
        PROVE  Waited
    <3>1. PICK before, work \in Works :
            unloaded <= active_load_pulse_interval - 1 + LongestPoll + before + work
      BY <2>2, <2>7 DEF WaitIsCounted, Bounded
    <3>2. unloaded < active_load_pulse_interval + LongestPoll + work + before
      BY <2>1, <3>1
    <3> QED
      BY <3>2
  <2>8. PICK before \in Works, work \in Works :
          unloaded < active_load_pulse_interval + LongestPoll + work + before
    BY <2>2, <2>4, <2>5, <2>6, <2>7 DEF WaitIsCounted, IInv, TypeOK
  <2>9. PICK s1 \in SampleTimes, u1 \in ShortUploads \cup {0} : before = s1 + u1
    BY DEF Works
  <2>10. PICK s2 \in SampleTimes, u2 \in ShortUploads \cup {0} : work = s2 + u2
    BY DEF Works
  <2>11. s1 \in Nat /\ u1 \in Nat /\ s2 \in Nat /\ u2 \in Nat
    <3>1. SampleTimes \subseteq Nat /\ UploadTimes \subseteq Nat
      BY DurationAssumption
    <3> QED
      BY <3>1 DEF ShortUploads
  <2>12. unloaded < active_load_pulse_interval + LongestPoll + s2 + u2 + s1 + u1
    BY <2>1, <2>8, <2>9, <2>10, <2>11
  <2> QED
    BY <2>12 DEF LoadsKeepComing, LongestPoll
<1> QED
  BY <1>1, InitCounts, CountIsKept, WorkIsAccountedFor, PTL DEF Spec

----------------------------------------------------------------------------
(* The bank at rest *)

(* What is left of a nap that leads out of the startup window. *)
FirstNap == AtLeast(startup_poll, active_load_pulse)

LongestWork == (idle_poll - BankCutoff - Second - FirstNap) \div 2

OutOfDemand == Resting(state) /\ clock >= startup_keep_awake

(* The wall clock is not farther than so from a boundary of the idle poll time. *)
OnBoundary(late) ==
  wall_offset # NotSynced /\ (clock + wall_offset) % idle_poll < Second + late

HeldAtRest == bank_held # 0 => OutOfDemand

(***************************************************************************)
(* Either the bank was first held in this iteration or the nap before it,  *)
(* or the iteration began on a boundary and its nap will be a long one.    *)
(***************************************************************************)
HeldInWork ==
  step \in {"sample", "upload", "plan"} =>
    \/ bank_held <= FirstNap + since_sample
    \/ /\ OnBoundary(since_sample)
       /\ bank_held <= FirstNap + LongestWork + BankCutoff + since_sample

(***************************************************************************)
(* In a nap: it leads out of the startup window; or the bank is not held;  *)
(* or the nap is the first in rest, and long or aimed at a boundary; or    *)
(* the second, and long; or it was a short one and is over.                *)
(***************************************************************************)
HeldInNap ==
  step \in {"delay", "nap"} =>
    \/ bank_held + remaining <= FirstNap
    \/ ~Resting(state)
    \/ /\ OutOfDemand /\ step = "nap" /\ bank_held <= FirstNap + LongestWork
       /\ \/ remaining >= BankCutoff
          \/ wall_offset # NotSynced /\ NapEnd % idle_poll < Second
    \/ /\ OutOfDemand /\ step = "nap" /\ remaining >= BankCutoff
       /\ bank_held <= FirstNap + LongestWork + BankCutoff + LongestWork
    \/ /\ step = "nap" /\ remaining = 0 /\ OnBoundary(0)
       /\ bank_held <= FirstNap + LongestWork + BankCutoff

HInv == HeldAtRest /\ HeldInWork /\ HeldInNap

LEMMA Budget ==
  /\ FirstNap \in Nat /\ startup_poll <= FirstNap /\ active_load_pulse <= FirstNap
  /\ LongestWork \in Nat /\ BankCutoff \in Nat \ {0}
  /\ \A s \in SampleTimes, u \in UploadTimes : s + u <= LongestWork
  /\ \A s \in SampleTimes : s <= LongestWork
  /\ FirstNap + LongestWork + BankCutoff + LongestWork + Second <= idle_poll
<1>1. FirstNap \in Nat /\ startup_poll <= FirstNap /\ active_load_pulse <= FirstNap
  BY Polls DEF FirstNap, AtLeast
<1>2. BankCutoff \in Nat \ {0} /\ idle_poll \in Nat /\ Second \in Nat
  BY Polls, IdleAssumption
<1> DEFINE slack == idle_poll - BankCutoff - Second - FirstNap
<1>3. slack \in Int /\ LongestWork = slack \div 2
  BY <1>1, <1>2 DEF LongestWork
<1>4. \A s \in SampleTimes, u \in UploadTimes : s \in Nat /\ u \in Nat /\ 2 * (s + u) <= slack
  <2> TAKE s \in SampleTimes, u \in UploadTimes
  <2>1. s \in Nat /\ u \in Nat
    BY DurationAssumption
  <2>2. 2 * (s + u) + FirstNap + BankCutoff + Second <= idle_poll
    BY IdleAssumption DEF FirstNap
  <2> QED
    BY <1>1, <1>2, <2>1, <2>2
<1> HIDE DEF slack
<1>5. LongestWork \in Int /\ 2 * LongestWork <= slack /\ slack <= 2 * LongestWork + 1
  BY <1>3
<1>6. \A s \in SampleTimes, u \in UploadTimes : s + u <= LongestWork
  BY <1>4, <1>5, <1>3
<1>7. PICK u0 \in UploadTimes : u0 \in Nat
  BY DurationAssumption
<1>8. PICK s0 \in SampleTimes : s0 \in Nat
  BY DurationAssumption
<1>9. \A s \in SampleTimes : s <= LongestWork
  BY <1>4, <1>5, <1>6, <1>7
<1>10. LongestWork \in Nat
  BY <1>5, <1>8, <1>9
<1>11. FirstNap + LongestWork + BankCutoff + LongestWork + Second <= idle_poll
  BY <1>1, <1>2, <1>5 DEF slack
<1> QED
  BY <1>1, <1>2, <1>6, <1>9, <1>10, <1>11

(* The work of an iteration is never longer than that. *)
LEMMA WorkInBudget ==
  ASSUME IInv, step \in {"sample", "upload", "plan"}
  PROVE  since_sample \in Nat /\ since_sample <= LongestWork
<1>1. since_sample \in Nat
  BY DEF IInv, TypeOK
<1> QED
  BY <1>1, Budget DEF IInv, WorkSoFar

(* The bank is held on, or had its time, or is needed. *)
LEMMA PassHolds ==
  ASSUME TypeOK, NEW off \in Nat, NEW on \in Nat, NEW st, NEW full, Pass(off, on, st, full)
  PROVE  \/ bank_held' = 0
         \/ /\ bank_held' = bank_held + off + on
            /\ clock' >= startup_keep_awake /\ Resting(st) /\ radio_off + off < BankCutoff
<1>1. bank_held' = 0 \/ ~(\/ clock' < startup_keep_awake \/ ~Resting(st)
                          \/ radio_off + off >= BankCutoff)
  BY DEF Pass
<1>2. clock' \in Int /\ radio_off + off \in Int
  BY PassTypes DEF TypeOK
<1> QED
  BY <1>1, <1>2, DurationAssumption DEF Pass

(* From a boundary, the work of an iteration does not reach the next one. *)
LEMMA BoundaryLater ==
  ASSUME TypeOK, NEW late \in Nat, OnBoundary(late), NEW ticks \in Nat,
         late + ticks <= LongestWork, clock' = Later(ticks)
  PROVE  (clock' + wall_offset) % idle_poll < Second + late + ticks
<1>1. /\ clock \in Nat /\ wall_offset \in Nat /\ wall_offset # NotSynced
      /\ idle_poll \in Nat \ {0} /\ Second \in Nat
  BY Polls, DurationAssumption, ClockAssumption DEF TypeOK, OnBoundary
<1> DEFINE wall == clock + wall_offset
           r    == wall % idle_poll
           then == clock + ticks + wall_offset
<1>2. wall \in Int /\ then \in Int /\ then = wall + ticks
  BY <1>1
<1>3. r < Second + late
  BY DEF OnBoundary
<1> HIDE DEF wall
<1>4. r \in 0 .. idle_poll - 1 /\ r \in Int
  BY <1>1, <1>2
<1>5. \E q \in Int : wall = idle_poll * q + r
  BY <1>1, <1>2, Division
<1> HIDE DEF r
<1>6. PICK q \in Int : wall = idle_poll * q + r
  BY <1>5
<1> DEFINE s == r + ticks
<1>7. s \in 0 .. idle_poll - 1 /\ s < Second + late + ticks
  BY <1>1, <1>3, <1>4, Budget
<1>8. then = idle_poll * q + s
  BY <1>1, <1>2, <1>4, <1>6
<1> HIDE DEF s, then
<1>9. then % idle_poll = s
  BY <1>1, <1>2, <1>7, <1>8, RemainderIsUnique
<1>10. (Later(ticks) + wall_offset) % idle_poll = then % idle_poll
  BY <1>1, WrapKeepsBoundaries DEF then, PollTimes
<1> QED
  BY <1>7, <1>9, <1>10

(* Sample and Upload. *)
LEMMA WorkHolds ==
  ASSUME IInv, HInv, step \in {"sample", "upload"}, step' \in {"upload", "plan"},
         NEW off \in Nat, NEW on \in Nat, NEW full, Pass(off, on, state', full),
         since_sample + off + on <= LongestWork,
         wall_offset # NotSynced => wall_offset' = wall_offset
  PROVE  HInv'
<1>1. /\ bank_held \in Nat /\ since_sample \in Nat /\ FirstNap \in Nat
      /\ LongestWork \in Nat /\ BankCutoff \in Nat /\ Second \in Nat
  BY Budget, Polls DEF IInv, TypeOK
<1>2. since_sample' = since_sample + off + on /\ clock' = Later(off + on)
  BY DEF Pass
<1>3. HeldAtRest'
  BY PassHolds DEF HeldAtRest, OutOfDemand, IInv
<1>4. HeldInNap'
  BY DEF HeldInNap
<1>5. HeldInWork'
  <2>1. CASE bank_held' = 0
    BY <1>1, <1>2, <2>1 DEF HeldInWork
  <2>2. CASE bank_held' = bank_held + off + on /\ bank_held <= FirstNap + since_sample
    <3>1. bank_held' <= FirstNap + since_sample'
      BY <1>1, <1>2, <2>2
    <3> QED
      BY <3>1 DEF HeldInWork
  <2>3. CASE /\ bank_held' = bank_held + off + on
             /\ OnBoundary(since_sample)
             /\ bank_held <= FirstNap + LongestWork + BankCutoff + since_sample
    <3>1. bank_held' <= FirstNap + LongestWork + BankCutoff + since_sample'
      BY <1>1, <1>2, <2>3
    <3>2. off + on \in Nat /\ since_sample + (off + on) <= LongestWork
      BY <1>1
    <3>3. (clock' + wall_offset) % idle_poll < Second + since_sample + (off + on)
      BY <1>1, <1>2, <2>3, <3>2, BoundaryLater DEF IInv
    <3>4. wall_offset' # NotSynced /\ wall_offset' = wall_offset
      BY <2>3 DEF OnBoundary
    <3>5. Second + since_sample + (off + on) = Second + since_sample'
      BY <1>1, <1>2
    <3>6. OnBoundary(since_sample)'
      BY <3>3, <3>4, <3>5 DEF OnBoundary
    <3> QED
      BY <3>1, <3>6 DEF HeldInWork
  <2> QED
    BY <2>1, <2>2, <2>3, PassHolds DEF HInv, HeldInWork, IInv
<1> QED
  BY <1>3, <1>4, <1>5 DEF HInv

LEMMA SampleHolds == IInv /\ HInv /\ Sample => HInv'
<1> SUFFICES ASSUME IInv, HInv, Sample
             PROVE  HInv'
  OBVIOUS
<1>1. PICK ticks \in SampleTimes : Pass(ticks, 0, state', FALSE)
  BY DEF Sample
<1>2. step = "sample" /\ step' = "upload" /\ wall_offset' = wall_offset
  BY DEF Sample
<1>3. ticks \in Nat /\ 0 \in Nat /\ since_sample + ticks + 0 <= LongestWork
  BY <1>2, Budget, DurationAssumption DEF IInv, WorkSoFar
<1> QED
  BY <1>1, <1>2, <1>3, WorkHolds

LEMMA UploadHolds == IInv /\ HInv /\ Upload => HInv'
<1> SUFFICES ASSUME IInv, HInv, Upload
             PROVE  HInv'
  OBVIOUS
<1>1. PICK ticks \in UploadTimes :
        Pass(0, ticks, state,
             ticks >= active_load_pulse \/ StartupKeepsRadioAwake(Later(ticks)))
  BY DEF Upload
<1>2. /\ step = "upload" /\ step' = "plan" /\ state' = state
      /\ wall_offset # NotSynced => wall_offset' = wall_offset
  BY DEF Upload, SyncedClock
<1>3. ticks \in Nat /\ 0 \in Nat /\ since_sample + 0 + ticks <= LongestWork
  <2>1. since_sample \in SampleTimes /\ since_sample \in Nat /\ ticks \in Nat
    BY <1>2, DurationAssumption DEF IInv, WorkSoFar, TypeOK
  <2>2. since_sample + ticks <= LongestWork
    BY <2>1, Budget
  <2> QED
    BY <2>1, <2>2
<1> QED
  BY <1>1, <1>2, <1>3, WorkHolds

LEMMA PlanHolds == IInv /\ HInv /\ PlanNap => HInv'
<1> SUFFICES ASSUME IInv, HInv, PlanNap
             PROVE  HInv'
  OBVIOUS
<1> DEFINE target == TelemetryPoll(clock, state)
           nap    == PlannedNap(target)
           pulse  == IF StartupKeepsRadioAwake(clock) THEN 0
                     ELSE ActiveCycleLoadPulse(clock, state, last_active_load_pulse)
<1>1. /\ step = "plan" /\ state' = state /\ wall_offset' = wall_offset
      /\ pulse = 0 => NoLoadPulse(nap)
      /\ pulse # 0 => LoadPulse(pulse, nap)
      /\ step' = IF StartupKeepsRadioAwake(clock') THEN "delay" ELSE "nap"
  BY DEF PlanNap
<1>2. target \in PollTimes /\ target \in Nat \ {0}
  BY PollIsOne, Polls DEF PollTimes
<1>3. nap \in 0 .. target /\ nap \in Nat
  BY <1>2, NapWithinPoll DEF IInv
<1>4. pulse \in {0, active_load_pulse} /\ pulse \in Nat
  BY Polls DEF ActiveCycleLoadPulse
<1>5. /\ since_sample \in Nat /\ since_sample <= LongestWork
      /\ bank_held \in Nat /\ clock \in Nat /\ startup_keep_awake \in Nat
  BY <1>1, WorkInBudget, DurationAssumption DEF IInv, TypeOK
<1>6. HeldInWork'
  BY <1>1 DEF HeldInWork
<1>7. CASE ~Resting(state)
  <2>1. bank_held = 0
    BY <1>7 DEF HInv, HeldAtRest, OutOfDemand
  <2>2. bank_held' = 0
    BY <1>1, <1>7, <2>1 DEF NoLoadPulse, LoadPulse, PowerBankKeepalivePulse, Pass
  <2>3. HeldInNap' /\ HeldAtRest'
    BY <1>1, <1>7, <2>2 DEF HeldInNap, HeldAtRest
  <2> QED
    BY <1>6, <2>3 DEF HInv
<1>8. CASE Resting(state) /\ clock < startup_keep_awake
  <2>1. bank_held = 0
    BY <1>5, <1>8 DEF HInv, HeldAtRest, OutOfDemand
  <2>2. target = startup_poll
    BY <1>8 DEF TelemetryPoll
  <2> HIDE DEF target, nap, pulse
  <2>3. /\ bank_held' + remaining' <= FirstNap
        /\ bank_held' # 0 => clock' >= startup_keep_awake
    <3>1. CASE pulse = 0
      <4>1. bank_held' = 0 /\ remaining' = nap
        BY <1>1, <2>1, <3>1 DEF NoLoadPulse
      <4> QED
        BY <1>2, <1>3, <2>2, <4>1, Budget
    <3>2. CASE pulse # 0
      <4>1. Pass(0, pulse, state, TRUE) /\ remaining' = AtLeast(nap - pulse, 0)
        BY <1>1, <3>2 DEF LoadPulse, PowerBankKeepalivePulse
      <4>2. \/ bank_held' = 0
            \/ bank_held' = bank_held + 0 + pulse /\ clock' >= startup_keep_awake
        BY <1>4, <4>1, PassHolds DEF IInv
      <4> QED
        BY <1>2, <1>3, <1>4, <2>1, <2>2, <4>1, <4>2, Budget, Polls DEF AtLeast
    <3> QED
      BY <3>1, <3>2
  <2>4. HeldInNap' /\ HeldAtRest'
    BY <1>1, <1>8, <2>3 DEF HeldInNap, HeldAtRest, OutOfDemand
  <2> QED
    BY <1>6, <2>4 DEF HInv
<1>9. CASE OutOfDemand
  <2>1. target = idle_poll /\ pulse = 0
    BY <1>5, <1>9 DEF OutOfDemand, TelemetryPoll, ActiveCycleLoadPulse, Resting
  <2> HIDE DEF target, nap, pulse
  <2>2. /\ remaining' = nap /\ bank_held' = bank_held /\ clock' = clock
    BY <1>1, <2>1 DEF NoLoadPulse
  <2>3. step' = "nap"
    BY <1>1, <1>5, <1>9, <2>2, DurationAssumption DEF StartupKeepsRadioAwake, OutOfDemand
  <2>4. OutOfDemand' /\ HeldAtRest'
    BY <1>1, <1>9, <2>2 DEF OutOfDemand, HeldAtRest
  <2>5. CASE bank_held <= FirstNap + since_sample
    <3>1. bank_held' <= FirstNap + LongestWork
      BY <1>5, <2>2, <2>5, Budget
    <3>2. CASE wall_offset = NotSynced
      <4>1. nap = NapDuration(since_sample, idle_poll)
        BY <2>1, <3>2 DEF nap, PlannedNap
      <4>2. nap >= BankCutoff
        BY <1>5, <4>1, Budget, Polls DEF NapDuration
      <4> QED
        BY <1>6, <2>2, <2>3, <2>4, <3>1, <4>2 DEF HInv, HeldInNap
    <3>3. CASE wall_offset # NotSynced
      <4> DEFINE wall == clock + wall_offset
                 late == wall % Second
      <4>1. /\ late \in 0 .. Second - 1 /\ Second <= idle_poll
            /\ \E k \in Int : wall + nap = idle_poll * k + late
        BY <1>2, <2>1, <3>3, AlignedNapEnds DEF nap, IInv
      <4>2. wall + nap \in Int /\ Second \in Nat /\ idle_poll \in Nat \ {0}
        BY <1>3, <1>5, <3>3, Polls, DurationAssumption DEF IInv, TypeOK
      <4> DEFINE end == wall + nap
      <4>3. NapEnd' = end
        BY <1>1, <2>2 DEF NapEnd
      <4> HIDE DEF late, end
      <4>4. PICK k \in Int : end = idle_poll * k + late
        BY <4>1 DEF end
      <4>5. late \in 0 .. idle_poll - 1 /\ end \in Int
        BY <4>1, <4>2 DEF end
      <4>6. end % idle_poll = late
        BY <4>2, <4>4, <4>5, RemainderIsUnique
      <4>7. NapEnd' % idle_poll < Second
        BY <4>1, <4>2, <4>3, <4>6
      <4> QED
        BY <1>1, <1>6, <2>3, <2>4, <3>1, <3>3, <4>7 DEF HInv, HeldInNap
    <3> QED
      BY <3>2, <3>3
  <2>6. CASE /\ OnBoundary(since_sample)
             /\ bank_held <= FirstNap + LongestWork + BankCutoff + since_sample
    <3>1. bank_held' <= FirstNap + LongestWork + BankCutoff + LongestWork
      BY <1>5, <2>2, <2>6, Budget
    <3> DEFINE wall == clock + wall_offset
               r    == wall % idle_poll
    <3>2. nap >= idle_poll - r
      BY <1>2, <2>1, <2>6, AlignedNapEnds DEF nap, IInv, OnBoundary
    <3>3. r < Second + since_sample
      BY <2>6 DEF OnBoundary
    <3>4. r \in Int
      BY <1>5, <2>6, Polls, DurationAssumption DEF IInv, TypeOK, OnBoundary
    <3> HIDE DEF r
    <3>5. nap >= BankCutoff
      BY <1>3, <1>5, <3>2, <3>3, <3>4, Budget, Polls
    <3> QED
      BY <1>6, <2>2, <2>3, <2>4, <3>1, <3>5 DEF HInv, HeldInNap
  <2> QED
    BY <1>1, <2>5, <2>6 DEF HInv, HeldInWork
<1> QED
  BY <1>5, <1>7, <1>8, <1>9 DEF OutOfDemand

(* A step of the nap; once the bank is not needed, the nap is one step. *)
LEMMA NapStepHolds ==
  ASSUME IInv, HInv, step \in {"delay", "nap"}, step = "nap" => remaining # 0,
         NEW off \in Nat, NEW on \in Nat, NEW full, Pass(off, on, state, full),
         off + on <= remaining, remaining' = remaining - off - on,
         step = "nap" /\ OutOfDemand => off = remaining /\ on = 0,
         step' = "nap", UNCHANGED <<state, wall_offset, interval, aligned, overrun>>
  PROVE  HInv'
<1>1. /\ bank_held \in Nat /\ remaining \in Nat /\ radio_off \in Nat /\ FirstNap \in Nat
      /\ LongestWork \in Nat /\ BankCutoff \in Nat \ {0} /\ remaining' \in Nat
  BY Budget DEF IInv, TypeOK
<1>2. \/ bank_held' = 0
      \/ /\ bank_held' = bank_held + off + on
         /\ clock' >= startup_keep_awake /\ Resting(state) /\ radio_off + off < BankCutoff
  BY PassHolds DEF IInv
<1>3. HeldInWork' /\ HeldAtRest'
  BY <1>2 DEF HeldInWork, HeldAtRest, OutOfDemand
<1>4. CASE bank_held + remaining <= FirstNap
  <2>1. bank_held' + remaining' <= FirstNap
    BY <1>1, <1>2, <1>4
  <2> QED
    BY <1>3, <2>1 DEF HInv, HeldInNap
<1>5. CASE ~Resting(state)
  BY <1>3, <1>5 DEF HInv, HeldInNap
<1>6. CASE step = "nap" /\ OutOfDemand /\ bank_held' = 0
  <2>1. bank_held' + remaining' <= FirstNap
    BY <1>1, <1>6
  <2> QED
    BY <1>3, <2>1 DEF HInv, HeldInNap
<1>7. CASE /\ step = "nap" /\ OutOfDemand /\ bank_held' # 0 /\ remaining < BankCutoff
           /\ bank_held <= FirstNap + LongestWork
           /\ wall_offset # NotSynced /\ NapEnd % idle_poll < Second
  <2>1. remaining' = 0 /\ bank_held' <= FirstNap + LongestWork + BankCutoff
    BY <1>1, <1>2, <1>7
  <2>2. clock' + wall_offset' + remaining' = clock' + wall_offset'
    <3>1. clock' \in Int /\ wall_offset' \in Int
      <4>1. off + on \in Nat /\ clock \in Nat /\ wall_offset \in Int
        BY <1>7, ClockAssumption, DurationAssumption DEF IInv, TypeOK
      <4> QED
        BY <4>1, LaterInRange DEF Pass
    <3> QED
      BY <2>1, <3>1
  <2>3. NapEnd' % idle_poll = NapEnd % idle_poll
    <3>1. (NapEnd' - 0) % idle_poll = (NapEnd - 0) % idle_poll
      BY <1>7, NapEndStays DEF IInv, PollTimes
    <3>2. NapEnd' - 0 = NapEnd' /\ NapEnd - 0 = NapEnd
      <4>1. NapEnd \in Int /\ NapEnd' \in Int
        <5>1. /\ off + on \in Nat /\ clock \in Nat /\ wall_offset \in Int
              /\ wall_offset' = wall_offset
          BY <1>7, ClockAssumption, DurationAssumption DEF IInv, TypeOK
        <5>2. clock' \in Int
          BY <5>1, LaterInRange DEF Pass
        <5> QED
          BY <1>1, <5>1, <5>2 DEF NapEnd
      <4>2. \A a \in Int : a - 0 = a
        OBVIOUS
      <4> QED
        BY <4>1, <4>2
    <3> QED
      BY <3>1, <3>2
  <2>4. OnBoundary(0)'
    <3>1. Second + 0 = Second
      BY Polls
    <3> QED
      BY <1>7, <2>2, <2>3, <3>1 DEF OnBoundary, NapEnd
  <2> QED
    BY <1>3, <2>1, <2>4 DEF HInv, HeldInNap
<1>8. CASE step = "nap" /\ OutOfDemand /\ bank_held' # 0 /\ remaining >= BankCutoff
  BY <1>1, <1>2, <1>8
<1> QED
  BY <1>1, <1>4, <1>5, <1>6, <1>7, <1>8 DEF HInv, HeldInNap

LEMMA StartupNapHolds == IInv /\ HInv /\ StartupNap => HInv'
<1> SUFFICES ASSUME IInv, HInv, StartupNap
             PROVE  HInv'
  OBVIOUS
<1>1. remaining \in Nat
  BY DEF IInv, TypeOK
<1>2. /\ step = "delay" /\ step' = "nap" /\ Pass(0, remaining, state, TRUE) /\ remaining' = 0
      /\ UNCHANGED <<state, wall_offset, interval, aligned, overrun>>
  BY DEF StartupNap
<1>3. 0 + remaining <= remaining /\ remaining' = remaining - 0 - remaining
  BY <1>1, <1>2
<1> QED
  BY <1>1, <1>2, <1>3, NapStepHolds

LEMMA NapSliceHolds == IInv /\ HInv /\ NapSlice => HInv'
<1> SUFFICES ASSUME IInv, HInv, NapSlice
             PROVE  HInv'
  OBVIOUS
<1> DEFINE slice == NextBatteryKeepaliveNap(remaining, clock, state)
<1>1. slice.sleep \in Nat /\ slice.pulse \in Nat /\ slice.sleep + slice.pulse <= remaining
  BY SliceWithinNap DEF IInv, TypeOK
<1>2. /\ step = "nap" /\ step' = "nap" /\ remaining # 0
      /\ Pass(slice.sleep, slice.pulse, state, FALSE)
      /\ remaining' = remaining - slice.sleep - slice.pulse
      /\ UNCHANGED <<state, wall_offset, interval, aligned, overrun>>
  BY DEF NapSlice
<1>3. OutOfDemand => slice.sleep = remaining /\ slice.pulse = 0
  <2> SUFFICES ASSUME OutOfDemand
               PROVE  slice = [sleep |-> remaining, pulse |-> 0]
    OBVIOUS
  <2>1. ~BatteryKeepaliveAllowed(clock, state)
    BY DurationAssumption DEF OutOfDemand, BatteryKeepaliveAllowed, IInv, TypeOK
  <2> QED
    BY <2>1 DEF NextBatteryKeepaliveNap
<1> HIDE DEF slice
<1> QED
  BY <1>1, <1>2, <1>3, NapStepHolds

LEMMA NapEndsHolds == IInv /\ HInv /\ NapEnds => HInv'
<1> SUFFICES ASSUME IInv, HInv, NapEnds
             PROVE  HInv'
  OBVIOUS
<1>1. /\ step = "nap" /\ remaining = 0 /\ step' = "sample" /\ since_sample' = 0
      /\ UNCHANGED <<state, clock, remaining, wall_offset, bank_held>>
  BY DEF NapEnds
<1>2. /\ bank_held \in Nat /\ FirstNap \in Nat /\ LongestWork \in Nat
      /\ BankCutoff \in Nat \ {0} /\ Second \in Nat
  BY Budget, Polls DEF IInv, TypeOK
<1>3. HeldAtRest' /\ HeldInNap'
  BY <1>1 DEF HInv, HeldAtRest, OutOfDemand, HeldInNap
<1>4. CASE bank_held <= FirstNap
  BY <1>1, <1>2, <1>3, <1>4 DEF HInv, HeldInWork
<1>5. CASE OnBoundary(0) /\ bank_held <= FirstNap + LongestWork + BankCutoff
  <2>1. OnBoundary(since_sample)'
    BY <1>1, <1>5 DEF OnBoundary
  <2>2. bank_held' <= FirstNap + LongestWork + BankCutoff + since_sample'
    BY <1>1, <1>2, <1>5
  <2> QED
    BY <1>3, <2>1, <2>2 DEF HInv, HeldInWork
<1>6. CASE ~Resting(state)
  <2>1. bank_held = 0
    BY <1>6 DEF HInv, HeldAtRest, OutOfDemand
  <2> QED
    BY <1>2, <1>4, <2>1
<1>7. ~(remaining >= BankCutoff)
  BY <1>1, <1>2
<1>8. wall_offset # NotSynced /\ NapEnd % idle_poll < Second => OnBoundary(0)
  <2> SUFFICES ASSUME wall_offset # NotSynced
               PROVE  NapEnd = clock + wall_offset /\ Second + 0 = Second
    BY DEF OnBoundary
  <2> QED
    BY <1>1, Polls, DurationAssumption, ClockAssumption DEF NapEnd, IInv, TypeOK
<1> QED
  BY <1>1, <1>2, <1>4, <1>5, <1>6, <1>7, <1>8 DEF HInv, HeldInNap

LEMMA InitHolds == Init => HInv
<1> SUFFICES ASSUME Init
             PROVE  HInv
  OBVIOUS
<1>1. step = "sample" /\ bank_held = 0 /\ since_sample = 0
  BY DEF Init
<1> QED
  BY <1>1, Budget DEF HInv, HeldAtRest, HeldInWork, HeldInNap

(***************************************************************************)
(* telemetry_poll_ms and battery_keepalive_allowed: with nothing to watch, *)
(* the bank is dark for BankCutoff before an idle poll time is over.  An   *)
(* aligned nap may be too short for it, but then the next one is long.     *)
(***************************************************************************)
THEOREM BankIsReleased == Spec => []BankMayTurnOff
<1>1. IInv /\ HInv /\ [Next]_vars => HInv'
  <2> SUFFICES ASSUME IInv, HInv, [Next]_vars
               PROVE  HInv'
    OBVIOUS
  <2>1. CASE UNCHANGED vars
    BY <2>1 DEF HInv, HeldAtRest, HeldInWork, HeldInNap, OutOfDemand, OnBoundary, NapEnd,
                vars, loop_vars, history_vars
  <2> QED
    BY <2>1, SampleHolds, UploadHolds, PlanHolds, StartupNapHolds, NapSliceHolds,
       NapEndsHolds DEF Next
<1>2. IInv /\ HInv => BankMayTurnOff
  <2> SUFFICES ASSUME IInv, HInv
               PROVE  bank_held <= idle_poll
    BY DEF BankMayTurnOff
  <2>1. /\ bank_held \in Nat /\ FirstNap \in Nat /\ LongestWork \in Nat
        /\ BankCutoff \in Nat /\ remaining \in Nat /\ idle_poll \in Nat /\ Second \in Nat
        /\ FirstNap + LongestWork + BankCutoff + LongestWork + Second <= idle_poll
    BY Budget, Polls DEF IInv, TypeOK
  <2>2. CASE step \in {"sample", "upload", "plan"}
    <3>1. since_sample \in Nat /\ since_sample <= LongestWork
      BY <2>2, WorkInBudget
    <3> QED
      BY <2>1, <2>2, <3>1 DEF HInv, HeldInWork
  <2>3. CASE step \in {"delay", "nap"}
    <3>1. ~Resting(state) => bank_held = 0
      BY DEF HInv, HeldAtRest, OutOfDemand
    <3> QED
      BY <2>1, <2>3, <3>1 DEF HInv, HeldInNap
  <2> QED
    BY <2>2, <2>3 DEF IInv, TypeOK
<1> QED
  BY <1>1, <1>2, InitHolds, WorkIsAccountedFor, PTL DEF Spec
=============================================================================
