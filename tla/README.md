# laundry-done: the verification project

laundry-done is a puck on a washing machine (an ESP32 with an accelerometer and a
USB power bank) and a relay on the home network. The puck samples motion, posts
each sample to the relay and sleeps. The relay decides when the laundry is done
and pushes a message to a phone. The relay also hands out firmware updates.

This directory holds TLA+ models of the parts that decide something, the TLC
runs that check them on small instances, and TLAPS proofs for every instance: about
the detector, the loop's cadence and power bank, the relay's delivery of messages and
what its alerts rest on, device and relay together, the live page and its indicators,
and the updates. `PROJECT.json` lists components, runs, mutants (the mistakes each
property must notice), the source lines behind every definition, the hazards and the
theorems. Paths below are relative to the repository's root; `cpp` is
`firmware/lib/laundry_detector/laundry_detector.cpp`, `main` is
`firmware/src/main.cpp`, `app` is `server/src/laundry_done_relay/app.py`, `ota` is
`server/src/laundry_done_relay/ota.py`, `lota` is
`firmware/lib/laundry_ota/laundry_ota.cpp`.

## The system

| component | state | operations | module |
|---|---|---|---|
| motion detector (`cpp`) | state machine of five states, start times of cycle, quiet and resumption, flags of what was seen, smoothing ring | `observe`, `reset`, `observe_after_startup_settle` | `LaundryDetector` |
| production loop (`main`) | the detector, uptime, last load pulse, wall clock known or not | `setup`, `loop`, `nap`, load pulses | `Monitoring` (cadence, uploads), `PowerPolicy` (naps, power bank) |
| sample classifier (`app`) | none: phases of a list of samples | `_classify_server_event`, `_smoothed_events` | `ServerClassifier` |
| event intake and completion (`app`) | SQLite table of events, log of pushes | `receive_event`, `_maybe_send_server_done`, pruning | `Relay`, `CompletionMonitor`, `RelayOnePass` |
| event list and live page (`app`, Python and JavaScript) | the page's samples, notifications, status and fetches under way | `list_calibration_events`, `loadSamples`, pause, `update`, `draw` | `EventList`, `Dashboard` |
| connection indicators of the page (`app`, JavaScript) | the gaps between packets, the shown cadence, age and node states | `estimateSampleCadenceMs`, `updateConnectionIndicators`, `updatePingCountdown` | `Freshness` |
| update jobs (`ota`) | SQLite table of jobs | `stage`, `offer_update`, `download` | `Ota`, `UpdateLifecycle` |
| update installer (`lota`) | attempt record in NVS, boot slot, step of the installation | `diagnostics`, `handle_offer`, `begin` | `Ota` |
| movement trigger, bring-up builds, update packaging, warm-up probe, diagnostics query, access control, deployment | | | not modelled, see below |

How they interact: one loop iteration samples, shows the window to the detector,
posts the sample (carrying an update check-in) and naps for a time the detector's
state chooses. The relay answers a post with at most one update offer. The
detector decides the cadence and when the power bank may sleep; it does not send
the alert. The relay decides the alert from the samples it received and nothing
else. Neither sees the other's state. The live page asks the relay every two
seconds for the samples and notifications it has, and computes for itself what it
says of the link and which phases it draws.

That the decision is split is the interesting part of the system: two classifiers,
with separately kept thresholds, look at the same windows, one of them through a
lossy network, and the device may lose its power as soon as its own classifier is
satisfied.

What is hard about it:

* time: `millis()` wraps, the wall clock may be unknown, naps are cut and shortened;
* evidence: a failed read, a lost sample, a jolt or a restart must count as "don't
  know", never as quiet;
* delivery: a post is sent once and may be lost, late, reordered or repeated, and
  a message must not go out twice;
* stale views: the page's answers may overtake each other, each is two queries
  with events stored in between, and a silent device looks like a slow one;
* failure in the middle: the relay commits the completion before it pushes it; an
  update can lose power between any two steps, and the records of it may fail.

## Modules

**LaundryDetector** is the class of the same name, one action per case of
`observe`'s switch, under the guard of `observe_after_startup_settle`. Variables
have the names of the members. `Later` and `Elapsed` are the unsigned clock
arithmetic with the range `ClockSize` in place of 2^32. A window is RMS, peak and
whether the read succeeded (`Valid`); readings are integers in quarter milli-g,
which puts every threshold of the code on an integer. `streak` is a history
variable: what kind of window has held, unbroken, for how long. **LaundryDetectorProofs**
proves about it; **MCDetector** instantiates it.

**PowerPolicy** is the other half of the loop: `Sample`, `Upload`, `PlanNap`
(target interval, nap, wall clock alignment and the load pulse with which the nap
may begin) and `NapSlice` per turn of `nap()`. The detector is its state graph
(`Decided`). History variables count ticks without a load in demand, ticks without
radio, ticks since the last sample began, and by how much a load pulse outlasted the nap
it was taken from (`overrun`). **PowerPolicyProofs** proves about the cadence, the
alignment, the loads and the release of the bank.

**ServerClassifier** has the relay's phase of a sample and of a sample averaged
with its predecessors, where an average begins anew after a sample that is no
evidence. **Relay** is `receive_event`: prune, deduplicate, store, decide, store
the completion, push. A request is a record in `net`; it can be lost, arrive late
or twice. The relay runs one event loop and `receive_event` does not await before
its answer, so a request is one step, but a step that may end early: the push
fails, or the process dies, after the commit (`Outcomes`). `skew` is how far the
device's clock is behind the relay's: samples are dated by the one, completions by
the other. **RelayProofs** proves about the delivery and the alerts, with
**ListProofs**: lemmas about finite sets in order, sums, averages and phases.
**CompletionMonitor** is the decision of the relay as a machine that reads each
sample once; **RelayOnePass** runs both side by side and tells the monitor of the
completions that the device sends itself (`Announced`); **ObserverProofs** proves that
they decide alike. **Monitoring** composes
`LaundryDetector`, the loop's cadence and `CompletionMonitor`: the path from the
machine to the alert; `quiet_lost` remembers whether a sample was lost while the device
waited for quiet. **MonitoringProofs** proves that the two agree.

**EventList** is what the list endpoint answers from the relay's table: the samples within
the page's peak limit, in the order of receipt, each with its phase, and the notifications.
**Dashboard** puts the live page beside it. A fetch goes through `ListSamples`
and `ListNotifications`, the two queries of one request, to `FetchDone` or
`FetchFails`; the timer (`LoadSamples`) starts the next one regardless. The page
keeps `samples` and `notifications`; what it draws of them are operators:
`VisibleSamples` and `DrawnPhases` in a time range, `Markers` of the messages,
`ClientPhases` of its own classifier, `DrawingThrows` for the case in which drawing
fails. **ObserverProofs**, which is about both observers of the relay, the page and the
monitor, also proves what the page shows of the table.

**Freshness** is what the page says of the link: the median of the last gaps, the
limit after which a packet is overdue, the node states and the countdown. Beside it
runs a device that changes its poll time, is late, loses packets or falls silent. The
page recomputes the nodes with every answer of the relay and the countdown on a timer
of its own, so after `Disconnects` only the countdown moves (`OlderOffline`). An
outage of the relay is permanent and begins as a packet is due; other outages show
the page nothing else while they last. **FreshnessProofs** proves when silence is silence.

**UpdateLifecycle** is what an operator is promised of an update job. **Ota** is
the job table, the check-ins and the installer; `status` and `tried` map it to
`UpdateLifecycle` (property `Lifecycle`). **OtaProofs** proves the safety
properties of `Ota` and that it implements `UpdateLifecycle`.

## Runs

| run | cfg | what it asks | what it shows |
|---|---|---|---|
| `detector_production` | `DetectorProduction.cfg` | production settings, seven windows on both sides of each limit, gaps of 1 and 3 ticks, wrapping clock | "done", "running" and "resumed" rest on real unbroken evidence; quiet releases the bank; also checks the inductive invariant |
| `power_bank` | `PowerBank.cfg` | real cadence in half seconds, uploads of five lengths | full loads keep coming while the bank is needed, as often as the loop's structure allows; the bank may turn off afterwards; samples keep cadence and boundaries |
| `power_bank_cutoff` | `PowerBankCutoff.cfg` | the same with uploads of half a second and of three seconds | violated: see Findings |
| `relay_delivery` | `RelayDelivery.cfg` | lost, late, repeated requests, device restarts, failing pushes, a dying relay | no message twice, alerts only from unbroken quiet after new motion; the list, which averages rows of an older segment or boot that the decision leaves out, has the alerted sample as quiet |
| `relay_readings` | `RelayReadings.cfg` | every kind of reading, silences, expiring rows, a device clock that agrees or is behind, completions sent by older firmware, a runtime of one tick and smoothing over three samples | jolts, failed reads and silences never pass for quiet; the skew withholds no alert; an alert about motion announced before needs samples after the announcement that span the minimum runtime |
| `relay_one_pass` | `RelayOnePass.cfg` | the table scan beside the one-pass monitor; two boots, clock unknown, completions sent by older firmware | they decide alike at every sample, which lets `Monitoring` use the monitor; one message per boot; motion announced once is not announced again |
| `dashboard` | `Dashboard.cfg` | overlapping fetches, failing fetches, events stored between two queries, pausing | each sample is drawn with its phase, each pushed message is marked, the page's classifier agrees with the relay's, the page catches up |
| `freshness` | `Freshness.cfg` | two poll times, late and lost packets, a silent device, a page without the relay | a settled cadence is never taken for silence, silence is always shown |
| `freshness_cadence_change` | `FreshnessCadenceChange.cfg` | the real poll times and limits in ticks of five seconds | violated: see Findings |
| `monitoring` | `Monitoring.cfg` | every window, uploads lost, restarts, wrapping clock | the relay has decided before the device lets the bank sleep, unless a sample was lost while the device waited for quiet; it announces no stop on a sample in which the device saw motion |
| `monitoring_brief_movement` | `MonitoringBriefMovement.cfg` | real durations in ticks of ten seconds, one moving window | violated: see Findings |
| `ota` | `Ota.cfg` | two jobs, a loss of power, failing records, one late check-in, repeated check-ins, under fairness | one live job, "installed" means booted, the promised lifecycle, and every attempt ends in a settled job |

The library defaults of the detector (smoothing 3, quiet not required to be
continuous) have no run of their own: what holds of them, `RunningIsEarned` and
`ResumeIsEarned`, is proved for every smoothing length.

### Bounds, and why they are enough

* Detector: durations are scaled to 2 to 6 ticks and the clock to 12 (9). What
  matters is their order (settle < confirm < quiet < handoff, and quiet plus a gap
  fits in the clock); gaps of 1 and 3 make a timer both hit and overstep its
  limit, and the clock wraps within a cycle. State space is finite without a bound
  on the run. The proofs remove all of these bounds for the theorems.
* Power: the durations of the firmware in ticks of half a second, except a startup
  window of one minute for five and a `millis()` range of four minutes for 49 days.
  Both only cut stretches in which nothing new can happen. The uploads of an iteration
  take 0.5, 3, 5, 7.5 or 12 seconds: one that fails at once, three on both sides of what
  the timers leave room for, the longest of which is half a second short of a load pulse,
  and the connection timeout. An upload as long as a load pulse (8 s) counts as a load;
  shorter ones do not, though the radio is on, as the repository says nothing of what
  less than a pulse does for a bank. With these times more than fifty seconds can pass
  without a load; `LoadsKeepComing` allows 25 s and a poll time of 10 s, and twice the work
  of an iteration, 4 s and 7.5 s: 58 s. The wall clock is nine and a
  half seconds ahead of `millis()`, so that the seconds of the two begin apart. With the production
  values a nap that allows keepalive is never longer than one slice, so the pulse
  in `next_battery_keepalive_nap` is never reached; it is modelled, and fires only
  under the mutant.
* Relay: five or six device events, quiet of one tick. That is enough for motion, quiet, an
  alert and what follows it, with one request late or repeated and the device restarted in
  between. `relay_delivery` averages four samples, one more than an alert would need
  if averages over fewer were to decide, so the list's average can reach back to an
  older boot, or over a lost sample, where the decision's must not (a silence is longer than one tick
  there); samples received late after an alert have no room in its five events.
  In `relay_one_pass` the runtime is two, since there smoothing shows
  strong motion for one tick after the next sample; in `relay_readings` it is one and three
  samples are averaged, so that old motion does arm a second alert. The clock skew there is
  none or one tick: as large as the minimum runtime and no
  larger, which is the limit up to which `ClockSkewHidesNoAlert` can hold (eight minutes
  in production).
* Monitoring: durations keep their order (server quiet < device quiet, gap limit >=
  idle poll); losses and restarts at any step, no bound on the run, the clock wraps. `MonitoringBriefMovement` uses
  the real ones.
* Dashboard: four device events, two fetches under way, one boot, three time ranges.
  Two fetches suffice for one to overtake the other; four samples for an alert and a
  sample after it, or a test build's message before, between and after three of them.
  Samples are received as they are sent there, so what is out of a time range is the beginning
  of the list; restarts, lost, late and repeated requests are in the relay's own runs, and
  lists in any order are the matter of `PhasesAreOwn`.
* Freshness: limits scaled down in their order. In production four short polls
  (40 s) and four default cadences (60 s) are below the least limit (75 s), which
  is below the long poll, and the long poll equals the longest gap that counts
  (120 s). A packet is at most one tick late; the cadence is learned from four
  packets for ten: three gaps for nine, an odd number like it, of which the median
  is the middle one. The run with the violated property has the production numbers.
  `CadenceAssumption` limits the lateness: RECENT packets must not all be later than
  the one before. Otherwise TLC finds `StaleMeansMissedOnceSettled` violated: at the idle
  poll time, which is the longest gap that counts, every gap is then too long to count and
  the default cadence is taken. Times of receipt have a resolution of one second
  (`app:228`), so that would take ten packets, each later than the one before, up to nine seconds.
* Updates: two jobs, so that one supersedes another and the second restores the
  image of the first; both fit the table (`QueueBound` 2), so a refusal for a full
  table does not occur. One loss of power, at any step; the proofs allow any number.

### Deadlock, fairness

Runs with the relay and its event bound stop when the bound is used up, so their
configurations turn the deadlock check off; every other run checks it.

`Ota`: `WF(CheckIn)`, `WF(NextLoop \/ StartAttempt)` and `WF(Installing)`, as the
device's loop is sequential and always goes on, and each step of an installation
ends or times out. `SF(HandleInTime)`: the network and the relay may fail any number
of times but not for ever, since the device checks in again at each sample. Staging,
time, loss of power and late or repeated check-ins are not fair. A failing NVS write
may fail every time.

`Dashboard`: `WF(LoadSamples)`, the page's interval timer; `SF` of each of the two
queries and of the answer, for the same reason as in `Ota`. Pausing and resuming is
up to the user: `ViewCatchesUp` demands nothing of a page that stays paused.
`Freshness`: `WF(Tick)` only, since time passes; the device is not obliged to send anything.

## Findings

`BriefMovementCannotArm` is violated. `README.md` says that a load needs at least
eight minutes of adjacent observed activity and that brief setup movement cannot
satisfy that by sitting still afterwards. The code averages eight samples and
credits the time between samples whose average is active. At the two-minute idle
cadence one jolt (RMS 60 mg, peak 200 mg, below the handling limits) is in the
average of eight samples, and the time between those is counted as activity: more
than eight minutes of it. The counterexample has one moving window; running the
relay's code on such samples gave an alert too.

`StaleMeansMissed` is violated. `README.md` (line 61) tells the reader to check the
power bank and the Wi-Fi when the page says that there are no recent packets, and the
page's own help text explains that state as "Stale after missed packets". The page
calls a packet overdue after four times the median of the last ten gaps, and at least
75 seconds. When the device leaves its ten-second startup cadence for the two-minute
idle one, the median stays at ten seconds until half of the gaps are long: for about four
packets the page says "No recent packets" and "Disconnected" from second 76 on, until
the packet arrives on time at second 120. `StaleMeansMissedOnceSettled` is what does
hold.

`BankStaysOn` is violated. `docs/build-guide.md` (lines 255-258) says that an active
cycle has an 8-second load pulse every 25 seconds, and that this "leaves margin under the
measured sub-40-second no-load cutoff" of the power bank. The loop looks once per
iteration whether a pulse is due, after the uploads and before the nap. An iteration that
looks just before the 25 s are over naps on, samples for four seconds and uploads once
more before it looks again, and with uploads of three seconds more than 40 s pass between
two pulses. Whether uploads of three seconds hold the bank by themselves the repository does not
say; the margin that the guide speaks of does not come from the pulses alone.
`LoadsKeepComing` is what does hold.

## Proofs

### The detector (LaundryDetectorProofs)

For every value of the thresholds, durations, smoothing length, window set, gap
set and clock size that satisfies the four assumptions of `LaundryDetector`: types,
a positive settle and quiet time, and that a quiet time plus a sampling gap fits
into the clock (49 days in the code).

* `TypeCorrect`: `Spec => []TypeOK`.
* `Evidence`: `Spec => []IInv`, with `IInv == TypeOK /\ TimersBacked /\ QuietCounted`.
* `TimersMeasure`, `QuietIsCounted`: the parts of `IInv`, which the run checks by themselves.
* `PowerReleased`: `Spec => []QuietReleasesPower`.
* `DoneIsEarned`, `RunningIsEarned`, `ResumeIsEarned`: the three action properties.

Why the invariant is needed: the detector computes differences of clock values,
and the properties speak of real time. A difference alone proves nothing, as a
start time left over from an earlier phase, or from before a wrap, can give any number. `TimersBacked`
says that a timer that is running was started inside the present streak of windows of
its own kind, so the difference is no more than the length of that streak.
`QuietCounted` is the other direction: in the production settings a quiet streak
inside a cycle is being counted from its first window, so it cannot go on
unnoticed. `PowerReleased` is immediate from it. The argument is by cases on what
one observation does to the streak (`StreakStep`, `RecordStep`): a window of the same
kind extends it by the gap, which is what `ClockStep` says the difference grows by
while there is room in the clock; any other window ends it, and the step that
sees it also clears the timer or leaves the state that uses it. TLC checks `IInv`
in `detector_production`.

### Updates (OtaProofs)

For every set of jobs and images, every lifetime, retention and bound of the table,
any number of losses of power and any requests under way, with or without failing
NVS writes. The only assumption is `OtaAssumption`, which says what kind of thing each
constant is. `MaxTime` and `MaxPowerLosses` are arbitrary numbers in the theorems.

* `TruthfulTable`: `Spec => []IInv`, with `IInv == TypeOK /\ OfferIsStaged /\
  ReportsAreTrue /\ LiveIsOne /\ InstalledMeansBooted`.
* `TypeCorrect`, `AtMostOneLive`, `InstalledIsTrue`: `TypeOK`, `OneLiveJob` and
  `InstalledMeansBooted` hold throughout.
* `AttemptsAgree`: `Spec => [](RInv /\ OfferStands)`, with `RInv == IInv /\ AttemptsAreKnown`.
* `LifecycleKept`: `Spec => Lifecycle`, the refinement of `UpdateLifecycle`.

`InstalledMeansBooted` is not inductive: the table believes requests, requests
repeat what the device believes, and each may be old. `ReportsAreTrue` says
of all three that they claim only boots that happened; it holds at a reboot, since
`begin` compares the record with the image that runs. `LiveIsOne` is `OneLiveJob`
without counting.

For the refinement one must know that a job the device takes up was never tried.
The device remembers only its last job, in NVS. `AttemptsAreKnown` says that
this is enough: any other tried job is no longer live, so it is never offered, and an
offer in hand that was tried before is the remembered one, which `handle_offer`
turns down. A device moves on from a tried job only for a job staged later, and staging
supersedes. `OfferStands` says that the relay forgets no job whose offer can
still be taken up. The simulation maps `Stage` to `StageJob`, `StartAttempt` to
`TryJob`, a check-in to `SettleJob` or `OfferJob` and never both, as settling
the one live job leaves none to offer; everything else is a stutter.

### The relay (RelayProofs)

For every number of events, boots and requests under way, every set of readings and
clock skews, with or without faults. Assumed are the kinds of the constants
(`ClassifierAssumption`, `RelayAssumption`) and that a request is not under way for longer
than rows are kept (`DelayAssumption`; seconds against 14 days).

* `MessagesRemembered`: `Spec => []IInv`, with `IInv == Typed /\ Recent /\
  PushedWereSent /\ PushedIsStored /\ PushedAtMostOnce /\ DeviceDoneIsOne`.
* `TypeCorrect`: `Spec => []TypeOK`, from `TInv`, which adds to `IInv` the bounds of the
  variables and that event ids are unique in the table.
* `NoMessageTwice`: `Spec => []PushedAtMostOnce`.
* `OneMessagePerBoot`: `Spec => []OneDeviceDonePerBoot`.
* `AlertsNeedQuiet`: `Spec => AlertNeedsQuiet`, an action property.
* `SkewHidesNoAlert`: `Spec => ClockSkewHidesNoAlert`, an action property, under
  `SkewWithinRuntime`.
* `OldMotionLasts`: `Spec => OldMotionMustLast`, an action property.

`PushedAtMostOnce` is not inductive: a second push is prevented by the row that the
first one left, and rows expire. `PushedIsStored` says that while a copy of the
request is under way, its row is there, stored after the request was sent. `Recent`
bounds the request's age, so that row is younger than the retention
(`YoungRowsStay`), and the request is a duplicate (`PushedIsDuplicate`).
`PushedWereSent` keeps the ids of future events fresh. `DeviceDoneIsOne` is
`OneDeviceDonePerBoot` without counting: a boot's completion leads to a message only if no
row holds an earlier one. What the relay decides about the quiet plays no part in these four.

`AlertNeedsQuiet` speaks of raw readings and of samples next to each other; the code
decides by averages over a list sorted by (boot, counter) and cut into segments. The
proof leads from the one to the other. The rows of a finite set in the order of their
keys are a sequence without gaps (`ListProofs`); the segment is the end of that
sequence, in one boot, without long gaps. An average of quiet readings is quiet, never
active, so motion after the quiet began would show as an active phase, and the quiet
that the code counts begins after the last sample that is not quiet. Induction is by
the least counterexample (`WFMin`), which states in terms of sets what the induction
theorems would say with an operator.

`SkewHidesNoAlert` adds to `TInv` that an event's date plus the skew is the time it was
sent (`DatesAreTrue`). Motion received after the last completion may then be dated
before it, but by no more than the skew and the delay of one request, and the motion
lasts for the minimum runtime. `SkewWithinRuntime` says that this is longer: eight minutes in the code
against seconds of delay and the drift of a clock that is set by the network.

`OldMotionMustLast` says what the code guarantees about motion that a completion has announced
already, whoever sent the completion. A sample is active by the average with the seven
before it, so after a completion the next ones may still be active by motion from before.
An alert then rests either on a moving sample received since the last completion, or on
announced motion that an average still shows at a sample received since, at least the
minimum runtime after the sample that followed the motion. There is no assumption on the
cadence or on the smoothing; only the table must have its samples in the order they are dated
in (`ReceivedAsDated`, part of the property), since a late sample of earlier motion is received
after the completion that announced it. Were all motion announced, the
active samples received since would reach back to the latest motion (`ActiveAverage`), so lie
within one smoothing window of it (`LastSegment`), and their active time is shorter than
the time from the sample after the motion to the last of them (`ActiveTimeWithin`). Expired
rows only make the set of completions smaller, on both sides.

What it comes to is a matter of the cadence. Six gaps of 10 s, counted from the sample
after the motion, are a minute against eight: nothing is announced twice. At the idle cadence
of two minutes they are twelve, and the code may announce a motion again; that is the
finding about `BriefMovementCannotArm` once more. So `AlertNeedsNewMotion`, which forbids it,
is only model-checked: in `relay_one_pass`, whose runtime outlasts the smoothing, and in
`relay_delivery`, where the device sends no completions. In
`relay_readings` neither is so, and TLC finds it violated by that configuration.

### The loop's cadence (PowerPolicyProofs)

For all durations, sets of sample and upload times (none of them empty), wall clocks
and ranges of `millis()` under `DurationAssumption` and `ClockAssumption`.

* `WorkIsAccountedFor`: `Spec => []IInv`, with `IInv == TypeOK /\ WorkSoFar`.
* `TypeCorrect`: `Spec => []TypeOK`. `CadenceKept`: `Spec => []SamplesKeepCadence`.

`SamplesKeepCadence` is about the time since the last sample only; it is inductive
once that time is tied to the step of the loop. `WorkSoFar` says that up to the plan it is
what sampling and uploads took, and from then on that it and what is left of the nap
stay within them and the poll time. A planned nap is at most its poll time, aligned to the wall
clock or not (`NapWithinPoll`), and a slice and its pulse come out of the nap (`SliceWithinNap`).

* `AlignmentKept`: `Spec => []AlignedSamplesAreOnTime`. The invariant `Aimed` says that an
  aligned nap ends within a second after a boundary (`time(nullptr)` has whole seconds),
  plus `overrun`, wherever in the nap `millis()` wraps. `overrun` is not zero only if a
  load pulse took longer than the nap it was taken from. That the sample began a
  second or more after the last one excludes a nap of zero on the boundary itself.
* `LoadsAreRegular`: `Spec => []LoadsKeepComing`, under `LoadAssumption`: pulses are not
  switched off, and `millis()` does not wrap between two of them.
* `BankIsReleased`: `Spec => []BankMayTurnOff`, under `IdleAssumption`: an idle poll time holds
  the work of two iterations, a startup nap or a load pulse, the time the bank takes to
  turn off, and a second. In the firmware these are 120 s against 10 s, 40 s and 1 s,
  which leaves 34 s for one sample with its upload, of which the connection timeout is 12.

`BankMayTurnOff` needs a history: how long the bank was held is bounded by where the
loop is and how it got there (`HInv`). The hard case is an aligned nap too short for the
bank: it ends on a boundary of the idle poll time, so the next one is nearly as
long as that poll time (`HeldInNap`, `OnBoundary`).

`LoadsKeepComing` compares real time without a load with the code's difference of two clock
values. `LInv` ties them together (`Counting`): the bank has waited no longer than since the
last pulse by the loop's count, plus the work of the iteration in which the device came to
rely on it; and when a nap was planned without a pulse, the pulse was not due yet.

### Device and relay together (MonitoringProofs)

For all poll times, durations, thresholds, clock sizes and windows under three
assumptions. `DeviceAssumption` is about kinds. `SharedThresholds`: the device judges
single windows by the thresholds of the relay, as `cpp:241` says it must.
`DeviceOutlastsRelay`: the device's quiet is unbroken and at least as long as the relay's
(`cpp:247`; 300 s and 240 s), and a smoothing window of samples is due within the latter (seven gaps
of 10 s).

* `DecidesFirst`: `Spec => []DecidedBeforePowerOff`, whatever is lost: the property leaves out
  loads of which a sample was lost while the device waited for quiet.
* `AlertsFindQuiet`: `Spec => []AlertFindsDeviceQuiet`, whatever is lost.

The invariant `MInv` says of a quiet candidate of the device, none of whose quiet windows was
lost, that either nothing is armed
in the relay and nothing it could still average shows motion (`Settled`), or the relay is
counting the quiet and its count has reached the device's (`Counting`). The windows of the
device's quiet are the last readings of the relay's smoothing window, so once they fill
it the averages are quiet; that they fill it before the relay's quiet time is
over is what `DeviceOutlastsRelay` is for. A device that is done has been quiet for
so long that only `Settled` is left.

### The live page (ObserverProofs)

For every relay of `Relay`, any number of fetches under way and every time range.

* `AnswersAreComplete`: `DashboardSpec => []DInv`.
* `MessagesAreMarked`: `DashboardSpec => []PushedMessagesAreMarked`.
* `PhasesAreOwn`: `DashboardSpec => []PhasesBelongToSamples`, for every list, whatever the
  order of receipt.
* `ClassifiersAgree`: `DashboardSpec => []ClientRulesMatch`.
* `AlertsAreListedQuiet`: `Spec /\ [](InSequence(db) /\ AveragesAreKept(ListedSamples(db))) =>
  []AlertedSampleLooksQuiet`.

The two queries of an answer may have events stored, and rows deleted, between them. `Complete`
is what survives that: of the notifications received before a listed sample, all
that are still in the table are among those listed. It is kept by every answer under way and by
the page, old answers included, since a row that is stored later is received no
earlier than any sample already listed (`TableGrows`). `Gapless` says of the samples that a
list misses none that was received before its last one and is still stored and low enough to be listed. `ClassifiersAgree` is an
induction over the list: the page's running state after each sample is the relay's.

`PhasesAreOwn` rests on ranks. `draw()` takes as many phases from the end of the list as there
are visible samples; if none that is listed after a visible sample is hidden, all the hidden
ones are below it, so it has the same place from the end among the visible samples as in the list
(`RankFromTheEnd`). The visible samples with a hidden one after them are not covered, see
Abstractions and limits.

`AlertsAreListedQuiet` is about two different averages: the relay decides by the stored
segment of one boot, in the device's order, and the list shows the averages of whatever
is stored, as received. `InSequence` says that no two samples were received in one tick and that
the later one is dated later; `AveragesAreKept` that up to an alerted sample at least a
smoothing window of samples is listed, which is so until the first of them expires; a list
that has lost it averages fewer readings and may come to another phase.
The property itself asks less, that the samples received up to the alerted one came in
order; with two in one tick, and other samples out of order, it is model-checked in
`relay_delivery`.
The invariant is `Explained`: in the unexpired samples of the table every alerted
sample, if the smoothing window fits before it, is quiet. It is kept because a phase is a
matter of the last readings only (`PhaseOfLatest`): a later sample is in none
of the earlier averages (`QuietWithNext`), and rows expire oldest first
(`QuietAfterPruning`). At the sample decided on, the segment is long enough to give
the list's phase (`DecidedIsQuiet`). The page shows such lists, older ones included: the alert
for a sample is decided in the step that stores it.

### The one-pass monitor (ObserverProofs)

For all thresholds, readings, smoothing lengths, durations, gaps and numbers of events and
boots, whether or not the device knows the time:

* `MonitorDecidesAlike`: `OnePassSpec /\ []NothingExpires => OnePassAgrees`, under
  `OneAtATime`.

`OneAtATime` says that a request is received in the tick it was sent in, before the next is
sent, or is lost; that the relay does not die, its pushes do not fail and nothing is
repeated; that the device's clock agrees, and that the minimum runtime is not zero.
`NothingExpires` confines the theorem to the retention time (14 days), in which pruning
deletes nothing. Run `relay_one_pass` satisfies both. They are the meaning of reading in order: the relay sorts its whole table, so a late or misdated sample
takes its place among earlier ones, an expired one leaves the sums, and the monitor sees
neither. What the relay does with late and repeated requests is the matter of `RelayProofs`.

The invariant is `InStepInv /\ Remembers`. `InStep` says that at most one request is under way,
that a sample under way is younger than every row, and that a completion of the
relay stands beside the sample it was decided at. `Remembers` gives the monitor's
variables as functions of the table: `seen` and `last` are about the end of the
last segment, `chunk` is what the next average can reach, `counted` and `active_time` come
from the segment's active samples that no completion has announced, and `quiet_for` is
the time since its quiet began; times are kept up to the bound at which they no
longer matter. A new sample is the last in order (`LatestIsLast`), so it prolongs the segment or starts one
(`SegmentGrows`), and each function of the longer segment is that of the shorter one and the
sample: the average (`ReachableGrows`), the active time (`ActiveTimeGrows`), the quiet
(`QuietGrows`). A completion is dated no earlier than any sample, so it empties the set of
active ones.

With it what `MonitoringProofs` says of the monitor is said of the relay's own scan of
its table, for a device whose uploads reach it at once or are lost, since `Monitoring`
composes the same `CompletionMonitor`.

### The indicators (FreshnessProofs)

For all poll times, limits, numbers of packets learned from and bounds on lateness under
`FreshnessAssumption` and `CadenceAssumption`: a packet at a poll time is either never
old enough to be stale, or its gaps count and four of them, less the lateness, outlast a
poll time and the lateness.

* `SettledIsNotSilence`: `Spec => []StaleMeansMissedOnceSettled`.

`FInv` says how late the last packet was (`OnTime`), which with the time until the next gives
its age; that no gap at the present poll time is short (`GapsTell`); and that a run of gaps
each longer than the poll time is no longer than the lateness of the last packet. So among
RECENT packets one gap is at most the poll time, and counts; the cadence learned is
one of the gaps (`CadenceIsAGap`), hence long enough.

### Only model-checked

* `AlertNeedsNewMotion`: it depends on the cadence, see `OldMotionMustLast` above.
* `AlertedSampleLooksQuiet` where samples are received out of order.
* `AttemptIsAccountedFor`, `ViewCatchesUp`, `SilenceIsShown`: liveness under fairness, which
  is out of the prover's reach.

## Abstractions and limits

* `PowerPolicy` keeps the wall clock as a distance from `millis()` and assumes that
  the poll times divide the range of the clock (`ClockAssumption`), so that this
  distance survives the wrap. In the code the wall clock is a counter of its own,
  which a wrap of `millis()` does not touch, and 2^32 ms is no multiple of a poll
  time. The assumption only replaces the second counter.
* One device. The relay's queries are per device except the dashboard's lists.
* `Monitoring`: a loop iteration takes less than a tick. `PowerPolicy` models what
  it takes.
* The device's clock is a constant number of ticks away from the relay's, and the
  device may not know the time. The skew must stay within the minimum runtime of eight
  minutes: one beyond it would make a completion look later than the motion that followed.
  `RelayOnePass` has no skew, since the one-pass monitor reads samples as they come.
* `Dashboard`: the limits on rows (200 000 and 5 000) are never reached; rows of
  the same second are ordered by boot and number, where the code orders ids as text; a request of
  the device is one step beside the list's thread. Layout, hover, formatting and the
  smoothing of the drawn curves are left out. Samples with a peak above 300 mg are
  not listed; to `Freshness` such a packet is like a lost one.
* The phases that `draw()` takes from the end of the list are right only as long as the hidden
  samples are the oldest of it. A sample that was received after a newer one can be out of the
  chosen range in the middle of the list; the visible samples listed before it are then drawn
  with the phases of those after them. `PhasesBelongToSamples` leaves them out. `docs/instructable.md`
  (line 234) calls the phase backgrounds "the dashboard's best guess for that time span".
* A message whose push fails after the commit is lost: at most once is what the
  code chooses and what `PushedAtMostOnce` says.
* An update job superseded during its download may still be installed. The table
  keeps it as superseded. Nothing in the repository excludes that.
* Job ids are drawn at random by the publisher; the model never reuses one.
* An NVS partition that does not open and a failed read of the running image's
  digest are not modelled; signatures and encryption are taken to work.
* Not modelled: the movement trigger and the bring-up builds (separate test
  builds; their events reach the relay as `OtherEvents`), update packaging
  (client and cryptography), the warm-up probe and diagnostics (no state between
  rounds), access control (stateless), deployment (configuration).

## Plan

Done: every component that decides something is modelled and checked, and every safety
property but those under Only model-checked is proved, or violated by the code. Next, in this order:

1. `MovementTrigger` (the motion request build) and the publisher's side of an update
   (`firmware_update.py`: packaging, staging, waiting for the outcome).
