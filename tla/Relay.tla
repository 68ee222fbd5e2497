------------------------------- MODULE Relay --------------------------------
(***************************************************************************)
(* The notification side of the relay: one monitored device, the network   *)
(* between it and the relay, the events table and the push service.        *)
(*                                                                         *)
(* receive_event runs on one event loop and does not yield after the body  *)
(* is read, so a request is one step; the process may die inside it, and   *)
(* the push service may refuse, after rows have been committed.            *)
(*                                                                         *)
(* Time is in ticks; received_at and device_time_utc have the resolution   *)
(* of one tick.                                                            *)
(***************************************************************************)
EXTENDS ServerClassifier

CONSTANTS
  SERVER_DONE_QUIET,       \* quiet ticks before an alert
  SERVER_MINIMUM_RUNTIME,  \* active ticks before an alert
  SERVER_MAX_SAMPLE_GAP,   \* a longer silence is missing evidence
  EVENT_RETENTION,         \* rows older than this are deleted
  Readings,                \* the readings the device can take
  SampleGaps,              \* ticks that may pass between two device samples
  OtherEvents,             \* the other states the device may report
  MaxEvents,               \* bound: events the device sends
  MaxBoots,                \* bound: boots of the device
  MaxInFlight,             \* bound: requests under way at once
  MaxDelay,                \* bound: ticks a request may be under way
  ClockSkews,              \* ticks the device's clock may be behind the relay's, or ahead
  NtpMayFail,              \* may the device stay without the time?
  Faults                   \* may pushes fail, requests repeat, the relay die?

ASSUME RelayAssumption ==
  /\ SERVER_DONE_QUIET \in Nat /\ SERVER_MINIMUM_RUNTIME \in Nat
  /\ SERVER_MAX_SAMPLE_GAP \in Nat /\ EVENT_RETENTION \in Nat
  /\ Readings \subseteq Reading
  /\ SampleGaps \subseteq Nat \ {0}
  /\ OtherEvents \subseteq {"done_sent", "button_pressed", "motion_started"}
  /\ MaxEvents \in Nat /\ MaxBoots \in Nat \ {0}
  /\ MaxInFlight \in Nat /\ MaxDelay \in Nat /\ ClockSkews \subseteq Int
  /\ NtpMayFail \in BOOLEAN /\ Faults \in BOOLEAN

(* Rows are kept for 14 days; a request is under way for seconds. *)
ASSUME DelayAssumption == MaxDelay <= EVENT_RETENTION

NOTIFICATION_STATES == {"done_sent", "button_pressed", "motion_started"}

NoTime == -1       \* the event carries no device_time_utc
NoReading == [valid |-> FALSE, rms |-> 0, peak |-> 0]

VARIABLES
  clock,     \* the time, by the relay's clock
  skew,      \* ticks the device's clock is behind it; ahead of it when negative
  boot,      \* the device's run id: one per boot
  booted,    \* the time the device booted
  synced,    \* has the device learned the time since it booted?
  counter,   \* the device's event counter
  net,       \* requests sent and not yet settled
  db,        \* the events table
  pushed     \* how often each event's message was pushed

device_vars == <<skew, boot, booted, synced, counter>>

vars == <<clock, device_vars, net, db, pushed>>

----------------------------------------------------------------------------
(* Events *)

(***************************************************************************)
(* An event as the device builds it.  Its id repeats the run id and the    *)
(* counter; a server-made completion repeats the id of the sample that     *)
(* completed it.                                                           *)
(***************************************************************************)
Event(st, r, at) ==
  [origin |-> "device", cycle_id |-> boot, n |-> counter + 1, state |-> st,
   reading |-> r, uptime |-> at - booted,
   device_time |-> IF synced THEN at - skew ELSE NoTime]

EventId(e) == <<e.origin, e.cycle_id, e.n>>

(* Mistake: a row is dated by the device's clock. *)
StoredAsDated(e, at) == [event |-> e, received_at |-> e.device_time]

Stored(e, at) == [event |-> e, received_at |-> at]

EventTimestamp(row) ==
  IF row.event.device_time = NoTime THEN row.received_at ELSE row.event.device_time

----------------------------------------------------------------------------
(* Queries on the events table *)

Unexpired(rows) == {row \in rows : clock - row.received_at <= EVENT_RETENTION}

(* Mistake: only samples are looked up again. *)
StoredSampleIds(rows) ==
  {EventId(row.event) : row \in {r \in rows : r.event.state = "calibration_sample"}}

StoredIds(rows) == {EventId(row.event) : row \in rows}

(* Mistake: a completion is new unless this very event is stored. *)
DoneSentEventExists(rows, e) ==
  e.state = "done_sent" /\ \E row \in rows : EventId(row.event) = EventId(e)

DoneSentForCycleExists(rows, e) ==
  e.state = "done_sent" /\
    \E row \in rows : row.event.state = "done_sent" /\ row.event.cycle_id = e.cycle_id

(* Mistake: the relay forgets the completions it made itself. *)
DoneRowsOfDevice(rows) ==
  {row \in Unexpired(rows) : row.event.state = "done_sent" /\ row.event.origin = "device"}

DoneRows(rows) == {row \in Unexpired(rows) : row.event.state = "done_sent"}

SampleRows(rows) == {row \in Unexpired(rows) : row.event.state = "calibration_sample"}

(***************************************************************************)
(* The order of _calibration_events_for_device: a stable sort by timestamp *)
(* of rows that come by receipt time and id.                               *)
(***************************************************************************)
SortKey(row) ==
  <<EventTimestamp(row), row.received_at, row.event.cycle_id, row.event.n>>

Less(k, l) ==
  \E i \in DOMAIN k : k[i] < l[i] /\ \A j \in 1 .. i - 1 : k[j] = l[j]

Precedes(a, b) == Less(SortKey(a), SortKey(b))

InOrder(rows, Before(_, _)) ==
  [i \in 1 .. Cardinality(rows) |->
     CHOOSE row \in rows : Cardinality({r \in rows : Before(r, row)}) = i - 1]

(* Mistake: a long silence between two samples is not missing evidence. *)
ContinuesAfterSilence(previous, current) ==
  /\ current.event.cycle_id = previous.event.cycle_id
  /\ current.event.uptime >= previous.event.uptime
  /\ EventTimestamp(previous) < EventTimestamp(current)

(***************************************************************************)
(* _current_observation_segment: the samples after the last one that does  *)
(* not continue its predecessor.                                           *)
(***************************************************************************)
Continues(previous, current) ==
  LET step == EventTimestamp(current) - EventTimestamp(previous)
  IN  /\ current.event.cycle_id = previous.event.cycle_id
      /\ current.event.uptime >= previous.event.uptime
      /\ 0 < step /\ step <= SERVER_MAX_SAMPLE_GAP
      /\ current.received_at - previous.received_at <= SERVER_MAX_SAMPLE_GAP

CurrentObservationSegment(samples) ==
  LET starts == {1} \cup {i \in 2 .. Len(samples) :
                            ~Continues(samples[i - 1], samples[i])}
      start  == CHOOSE s \in starts : \A t \in starts : t <= s
  IN  SubSeq(samples, start, Len(samples))

----------------------------------------------------------------------------
(* The completion decision of _maybe_send_server_done *)

(***************************************************************************)
(* Active samples the relay received after the latest completion, which is *)
(* to say after every completion it still remembers.                       *)
(***************************************************************************)
ReceivedAfter(row, done) == \A d \in done : row.received_at > d.received_at

ActiveIndexes(samples, phases, done) ==
  {i \in 1 .. Len(samples) : phases[i] = "active" /\ ReceivedAfter(samples[i], done)}

(* Mistake: quiet counts from the first quiet reading there is. *)
QuietStartEarliest(raw) ==
  CHOOSE q \in 1 .. Len(raw) :
    raw[q] = "quiet" /\ \A i \in 1 .. q - 1 : raw[i] # "quiet"

(* The first reading of the raw quiet that lasts to the end. *)
QuietStart(raw) ==
  CHOOSE q \in 1 .. Len(raw) :
    /\ \A i \in q .. Len(raw) : raw[i] = "quiet"
    /\ q > 1 => raw[q - 1] # "quiet"

(* Time between neighbouring active samples only. *)
ActiveTime(samples, active) ==
  SumOf([i \in 1 .. Len(samples) |->
           IF {i - 1, i} \subseteq active
           THEN EventTimestamp(samples[i]) - EventTimestamp(samples[i - 1]) ELSE 0])

(* Mistake: any completion still remembered withholds the next one. *)
HasNotification(done, threshold) == done # {}

HasNotificationAfter(done, threshold) ==
  \E d \in done : EventTimestamp(d) >= threshold

(* What _maybe_send_server_done looks at. *)
Evidence(rows) ==
  LET samples  == CurrentObservationSegment(InOrder(SampleRows(rows), Precedes))
      readings == [i \in 1 .. Len(samples) |-> samples[i].event.reading]
      phases   == SmoothedPhases(readings)
  IN  [samples |-> samples,
       phases  |-> phases,
       raw     |-> [i \in 1 .. Len(samples) |-> RawPhase(readings[i])],
       active  |-> ActiveIndexes(samples, phases, DoneRows(rows))]

(* Mistake: averages over fewer samples decide as well. *)
SomeSamples(samples) == Len(samples) > 0

EnoughSamples(samples) == Len(samples) >= SERVER_CLASSIFIER_SMOOTHING_SAMPLES

(* Motion that no completion has announced, for long enough, and then quiet. *)
LoadCompleted(v, e) ==
  LET last == Len(v.samples)
  IN  /\ EnoughSamples(v.samples)
      /\ EventId(v.samples[last].event) = EventId(e)
      /\ v.phases[last] = "quiet" /\ v.raw[last] = "quiet"
      /\ v.active # {}
      /\ EventTimestamp(v.samples[last]) - EventTimestamp(v.samples[QuietStart(v.raw)])
           >= SERVER_DONE_QUIET
      /\ ActiveTime(v.samples, v.active) >= SERVER_MINIMUM_RUNTIME

AnnouncedSince(rows, v) ==
  HasNotificationAfter(DoneRows(rows), EventTimestamp(v.samples[Max(v.active)]))

ServerDone(rows, e) ==
  LET v == Evidence(rows)
  IN  LoadCompleted(v, e) /\ ~AnnouncedSince(rows, v)

(* The completion event made from the sample that completed it. *)
ServerDoneEvent(e) ==
  [e EXCEPT !.origin = "server", !.state = "done_sent", !.reading = NoReading,
            !.device_time = NoTime]

----------------------------------------------------------------------------
(* The device *)

UnderWay(at) == {m \in net : at - m.sent <= MaxDelay}

(* A request the relay has not taken MaxDelay ticks after it was sent is lost. *)
Send(e, at) ==
  /\ counter < MaxEvents
  /\ Cardinality(UnderWay(at)) < MaxInFlight
  /\ counter' = counter + 1
  /\ net' = UnderWay(at) \cup {[event |-> e, sent |-> at]}

(***************************************************************************)
(* One loop of the device.  The clock is set during the first exchange     *)
(* after a boot, so at the earliest the second sample carries the time.    *)
(***************************************************************************)
TakeSample ==
  \E r \in Readings, gap \in SampleGaps :
    LET at == clock + gap
    IN  /\ clock' = at
        /\ Send(Event("calibration_sample", r, at), at)
        /\ synced' \in (IF NtpMayFail THEN {synced, TRUE} ELSE {TRUE})
        /\ UNCHANGED <<skew, boot, booted, db, pushed>>

(***************************************************************************)
(* The completion event of the older firmware and the test events of the   *)
(* bring-up builds.                                                        *)
(***************************************************************************)
SendOther ==
  \E st \in OtherEvents :
    /\ Send(Event(st, NoReading, clock), clock)
    /\ UNCHANGED <<clock, skew, boot, booted, synced, db, pushed>>

(***************************************************************************)
(* The device boots: a new boot id, uptime from zero, the time not known.  *)
(* Its event counter starts again in the code; here it goes on, so that    *)
(* MaxEvents bounds all boots together (the boot id tells events apart).   *)
(***************************************************************************)
Restart ==
  /\ boot < MaxBoots
  /\ boot' = boot + 1
  /\ booted' = clock
  /\ synced' = FALSE
  /\ UNCHANGED <<clock, skew, counter, net, db, pushed>>

----------------------------------------------------------------------------
(* The relay *)

CountPush(ids) ==
  pushed' = [id \in DOMAIN pushed \cup ids |->
               (IF id \in DOMAIN pushed THEN pushed[id] ELSE 0)
               + (IF id \in ids THEN 1 ELSE 0)]

(***************************************************************************)
(* receive_event.  `kept' says whether the network still holds a copy of   *)
(* the request, `outcome' how the step ends: in full, with the push        *)
(* service refusing (or the process dying before it answers), or with the  *)
(* process dying once the event is stored.                                 *)
(***************************************************************************)
ReceiveEvent(m, kept, outcome) ==
  LET e         == m.event
      rows      == Unexpired(db)
      notified  == DoneSentForCycleExists(db, e)
      duplicate == EventId(e) \in StoredIds(rows)
      with_e    == IF duplicate THEN rows ELSE rows \cup {Stored(e, clock)}
      decides   == /\ ~duplicate /\ e.state = "calibration_sample"
                   /\ outcome # "dies"
                   /\ ServerDone(with_e, e)
                   /\ EventId(ServerDoneEvent(e)) \notin StoredIds(with_e)
      announces == ~duplicate /\ ~notified /\ e.state \in NOTIFICATION_STATES
      messages  == (IF decides THEN {EventId(ServerDoneEvent(e))} ELSE {})
                   \cup (IF announces THEN {EventId(e)} ELSE {})
  IN  /\ net' = IF kept THEN net ELSE net \ {m}
      /\ db' = with_e \cup (IF decides THEN {Stored(ServerDoneEvent(e), clock)} ELSE {})
      /\ CountPush(IF outcome = "ok" THEN messages ELSE {})
      /\ UNCHANGED <<clock, device_vars>>

Outcomes == IF Faults THEN {"ok", "push_fails", "dies"} ELSE {"ok"}

Receive ==
  \E m \in net, kept \in (IF Faults THEN BOOLEAN ELSE {FALSE}), outcome \in Outcomes :
    ReceiveEvent(m, kept, outcome)

(* A dashboard request prunes the table too. *)
ListEvents ==
  /\ db' = Unexpired(db)
  /\ UNCHANGED <<clock, device_vars, net, pushed>>

----------------------------------------------------------------------------
Init ==
  /\ skew \in ClockSkews
  /\ clock = Max({0, skew})
  /\ boot = 1
  /\ booted = clock
  /\ synced = FALSE
  /\ counter = 0
  /\ net = {}
  /\ db = {}
  /\ pushed = <<>>

Next == TakeSample \/ SendOther \/ Restart \/ Receive \/ ListEvents

Spec == Init /\ [][Next]_vars

----------------------------------------------------------------------------
(* Properties *)

(***************************************************************************)
(* Every variable has its type, an event id is stored at most once, and no *)
(* row was received in the future.                                         *)
(***************************************************************************)
TypeOK ==
  /\ clock \in Nat /\ skew \in ClockSkews /\ boot \in 1 .. MaxBoots /\ booted \in 0 .. clock
  /\ synced \in BOOLEAN /\ counter \in 0 .. MaxEvents
  /\ \A m \in net : m.event.origin = "device" /\ m.event.reading \in Reading
  /\ \A row \in db : row.received_at \in 0 .. clock /\ row.event.reading \in Reading
  /\ Cardinality(StoredIds(db)) = Cardinality(db)
  /\ \A id \in DOMAIN pushed : pushed[id] \in Nat

(* The completions the relay adds in a step. *)
NewAlerts ==
  {row \in db' \ db : row.event.origin = "server"}

(***************************************************************************)
(* No message is pushed twice, although requests are repeated, the push    *)
(* service fails and the relay dies in the middle of a request.            *)
(***************************************************************************)
PushedAtMostOnce == \A id \in DOMAIN pushed : pushed[id] <= 1

(* From sample to sample, quiet only, without a gap and in one boot. *)
UnbrokenQuiet(rows, first, last) ==
  LET span == {row \in rows : /\ EventTimestamp(row) >= EventTimestamp(first)
                              /\ EventTimestamp(row) <= EventTimestamp(last)}
  IN  /\ \A row \in span : /\ RawPhase(row.event.reading) = "quiet"
                           /\ row.event.cycle_id = last.event.cycle_id
      /\ \A row \in span \ {last} :
           \E next \in span :
             /\ EventTimestamp(next) > EventTimestamp(row)
             /\ EventTimestamp(next) - EventTimestamp(row) <= SERVER_MAX_SAMPLE_GAP

(***************************************************************************)
(* Whatever was lost, delayed or repeated, an alert rests on an unbroken   *)
(* run of samples of the present boot that spans SERVER_DONE_QUIET ticks,  *)
(* in which every received sample is quiet and none is farther than        *)
(* SERVER_MAX_SAMPLE_GAP from the next.                                    *)
(***************************************************************************)
AlertNeedsQuiet ==
  [][ \A alert \in NewAlerts :
        LET rows == {row \in db' : row.event.state = "calibration_sample"}
        IN  \E first, last \in rows :
              /\ last.event.n = alert.event.n /\ last.event.cycle_id = alert.event.cycle_id
              /\ EventTimestamp(last) - EventTimestamp(first) >= SERVER_DONE_QUIET
              /\ UnbrokenQuiet(rows, first, last) ]_vars

(***************************************************************************)
(* An alert is about motion of the present boot that no earlier            *)
(* completion, the server's or the device's own, has already announced.    *)
(***************************************************************************)
AlertNeedsNewMotion ==
  [][ \A alert \in NewAlerts :
        \E row \in db' :
          /\ row.event.state = "calibration_sample"
          /\ RawPhase(row.event.reading) = "active"
          /\ row.event.cycle_id = alert.event.cycle_id
          /\ \A d \in db : d.event.state = "done_sent"
                             => row.received_at > d.received_at ]_vars

(* Samples were received in the order they are dated in. *)
ReceivedAsDated(rows) ==
  \A a, b \in {row \in rows : row.event.state = "calibration_sample"} :
    EventTimestamp(a) < EventTimestamp(b) => a.received_at <= b.received_at

(***************************************************************************)
(* An average shows motion as long as it reaches back to it.  So an alert  *)
(* may rest on motion that was announced already, but only if samples      *)
(* received since have been active by it for the minimum runtime: not      *)
(* while samples are 10 s apart, for 8 of them are within 70 s.            *)
(***************************************************************************)
OldMotionMustLast ==
  [][ \A alert \in NewAlerts :
        LET v     == Evidence(db')
            seg   == v.samples
            done  == {d \in db : d.event.state = "done_sent"}
            moved == {k \in 1 .. Len(seg) : RawPhase(seg[k].event.reading) = "active"}
            new   == {i \in 1 .. Len(seg) : ReceivedAfter(seg[i], done)}
        IN  ReceivedAsDated(db') =>
              \/ moved \cap new # {}
              \/ \E k \in moved, i \in new :
                   /\ v.phases[i] = "active"
                   /\ k < i /\ i < k + SERVER_CLASSIFIER_SMOOTHING_SAMPLES
                   /\ EventTimestamp(seg[i]) - EventTimestamp(seg[k + 1])
                        >= SERVER_MINIMUM_RUNTIME ]_vars

(***************************************************************************)
(* The relay dates its completions by its own clock and motion by the      *)
(* device's.  Comparing the two never withholds an alert that is due: the  *)
(* minimum runtime is longer than the clocks are apart.                    *)
(***************************************************************************)
ClockSkewHidesNoAlert ==
  [][ \A row \in db' \ db :
        LET rows == db' \ NewAlerts
            v    == Evidence(rows)
        IN  row.event.state = "calibration_sample" /\ LoadCompleted(v, row.event)
              => ~AnnouncedSince(rows, v) ]_vars

(***************************************************************************)
(* The completion events of one boot of older firmware, whatever their     *)
(* number, lead to at most one message.                                    *)
(***************************************************************************)
OneDeviceDonePerBoot ==
  \A b \in 1 .. MaxBoots :
    Cardinality({row \in db : /\ row.event.origin = "device"
                              /\ row.event.state = "done_sent"
                              /\ row.event.cycle_id = b
                              /\ EventId(row.event) \in DOMAIN pushed}) <= 1
=============================================================================
