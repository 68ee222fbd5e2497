----------------------------- MODULE Dashboard ------------------------------
(***************************************************************************)
(* The live page at /monitor beside the relay it reads: the event list     *)
(* endpoint, the page's copy of the list, and what the page draws of it.   *)
(*                                                                         *)
(* receive_event runs on the event loop, the list endpoint on a thread of  *)
(* its own, and it queries twice: an event may be stored between its       *)
(* samples and its notifications.  The page asks every two seconds whether *)
(* or not earlier answers have come, so answers may overtake each other.   *)
(***************************************************************************)
EXTENDS EventList

CONSTANTS
  Windows,       \* the time ranges on offer, in ticks
  chosen,        \* the one chosen; another choice only draws again
  MaxFetches     \* bound: fetches under way at once

AllLoaded == 0   \* the time range `all'

ASSUME DashboardAssumption ==
  /\ MaxFetches \in Nat
  /\ Windows \subseteq Nat /\ chosen \in Windows

VARIABLES
  samples,        \* state.samples, as a set of rows
  notifications,  \* state.notifications, likewise
  paused,
  status,         \* what the status line says
  fetches         \* fetches under way, in the order they were sent

view == <<samples, notifications>>

page_vars == <<view, paused, status, fetches>>

dashboard_vars == <<vars, page_vars>>

NothingShown == [stage |-> "sent", samples |-> {}, notifications |-> {}]

----------------------------------------------------------------------------
(* The page's own classifier, for samples without a server_phase *)

(* Mistake: a failed read does not start a new average. *)
RestartsAfterJolt(phase) == phase = "handling"

RestartsAverage(phase) == phase \in {"invalid", "handling"}

(***************************************************************************)
(* classifySample, on `n' readings averaged: their sums, and whether the   *)
(* sample itself is valid.                                                 *)
(***************************************************************************)
ClassifySample(valid, rms, peak, n) ==
  IF ~valid \/ peak < rms THEN "invalid"
  ELSE IF peak > HANDLING_PEAK_MG * n \/ rms > HANDLING_RMS_MG * n THEN "handling"
  ELSE IF rms >= MOTION_ACTIVE_RMS_MG * n \/ peak >= MOTION_ACTIVE_PEAK_MG * n THEN "active"
  ELSE IF rms <= MOTION_QUIET_RMS_MG * n THEN "quiet"
  ELSE "settling"

(* smoothedClassificationSamples and the classification of what it returns. *)
ClientPhases(readings) ==
  LET own(i) == ClassifySample(readings[i].valid, readings[i].rms, readings[i].peak, 1)
      validStart[i \in 0 .. Len(readings)] ==
        IF i = 0 THEN 1 ELSE IF RestartsAverage(own(i)) THEN i + 1 ELSE validStart[i - 1]
      chunk(i) ==
        SubSeq(readings, Max({validStart[i], i - SERVER_CLASSIFIER_SMOOTHING_SAMPLES + 1}), i)
      averaged(c, i) ==
        ClassifySample(readings[i].valid, SumOf([j \in DOMAIN c |-> c[j].rms]),
                       SumOf([j \in DOMAIN c |-> c[j].peak]), Len(c))
  IN  [i \in 1 .. Len(readings) |->
         IF RestartsAverage(own(i)) THEN own(i) ELSE averaged(chunk(i), i)]

----------------------------------------------------------------------------
(* What the page draws of its samples and notifications *)

ActivityTimes ==
  {EventTimestamp(row) : row \in samples} \cup {row.received_at : row \in notifications}

(* Neither date of the window's start can be after latestActivityTimestamp. *)
InWindow(at, window) == window = AllLoaded \/ at >= Max(ActivityTimes) - window

(* The samples in the window, or else the newest one there is. *)
VisibleSamples(window) ==
  LET all     == Chronological(samples)
      visible == {row \in samples : InWindow(EventTimestamp(row), window)}
  IN  IF visible = {} /\ samples # {} THEN <<all[Len(all)]>> ELSE Chronological(visible)

VisibleNotifications(window) ==
  {row \in notifications : InWindow(row.received_at, window)}

(* With nothing but notifications, [latest] is [undefined], and drawing throws. *)
DrawingThrows(window) ==
  window # AllLoaded /\ samples = {} /\ notifications # {}

(* Mistake: the phases of the oldest samples are drawn with the visible ones. *)
DrawnPhasesOfOldest(window) ==
  SubSeq(ServerPhases(samples), 1, Len(VisibleSamples(window)))

(* draw() takes as many phases from the end as there are visible samples. *)
DrawnPhases(window) ==
  LET all == ServerPhases(samples)
  IN  SubSeq(all, Len(all) - Len(VisibleSamples(window)) + 1, Len(all))

TimesDrawn(window) ==
  {EventTimestamp(row) : row \in ToSet(VisibleSamples(window))}
  \cup {row.received_at : row \in VisibleNotifications(window)}

(* Mistake: the time axis ends with the last sample. *)
MarkersAmongSamples(window) ==
  {row \in notifications :
     \E i, j \in 1 .. Len(VisibleSamples(window)) :
       /\ EventTimestamp(VisibleSamples(window)[i]) <= row.received_at
       /\ row.received_at <= EventTimestamp(VisibleSamples(window)[j])}

(* drawNotificationMarkers: none without two samples and a time axis. *)
Markers(window) ==
  LET times == TimesDrawn(window)
  IN  IF Len(VisibleSamples(window)) < 2 \/ Cardinality(times) < 2 THEN {}
      ELSE {row \in notifications : Min(times) <= row.received_at
                                    /\ row.received_at <= Max(times)}

----------------------------------------------------------------------------
(* Fetching *)

(* Mistake: the page stops asking once a fetch failed. *)
AsksUntilFailure == ~paused /\ status # "failed"

Asks == ~paused

Fetch ==
  /\ Len(fetches) < MaxFetches
  /\ fetches' = Append(fetches, NothingShown)
  /\ status' = "fetching"

(* loadSamples, from the timer: every two seconds, earlier answers or not. *)
LoadSamples ==
  /\ Asks
  /\ Fetch
  /\ UNCHANGED <<vars, view, paused>>

(* The pause button; resuming asks at once. *)
TogglePause ==
  /\ paused' = ~paused
  /\ \/ ~paused /\ status' = "paused" /\ UNCHANGED fetches
     \/ paused /\ Fetch
  /\ UNCHANGED <<vars, view>>

ListSamples(i) ==
  /\ fetches[i].stage = "sent"
  /\ ListEvents
  /\ fetches' = [fetches EXCEPT ![i].stage = "samples", ![i].samples = ListedSamples(db)]
  /\ UNCHANGED <<view, paused, status>>

ListNotifications(i) ==
  /\ fetches[i].stage = "samples"
  /\ ListEvents
  /\ fetches' = [fetches EXCEPT ![i].stage = "listed",
                               ![i].notifications = ListedNotifications(db)]
  /\ UNCHANGED <<view, paused, status>>

(***************************************************************************)
(* The answer comes: update() and draw(), paused or not, and whatever was  *)
(* shown meanwhile.  An exception in them is caught and its text shown.    *)
(***************************************************************************)
FetchDone(i) ==
  /\ fetches[i].stage = "listed"
  /\ samples' = fetches[i].samples
  /\ notifications' = fetches[i].notifications
  /\ UNCHANGED <<vars, paused>>
  /\ status' = IF DrawingThrows(chosen)' THEN "error" ELSE "live"
  /\ fetches' = RemoveAt(fetches, i)

(* No answer, or a refusal: what was shown stays. *)
FetchFails(i) ==
  /\ status' = "failed"
  /\ fetches' = RemoveAt(fetches, i)
  /\ UNCHANGED <<vars, view, paused>>

----------------------------------------------------------------------------
DashboardInit ==
  /\ Init
  /\ samples = {} /\ notifications = {}
  /\ paused = FALSE /\ status = "fetching"
  /\ fetches = <<NothingShown>>

Monitored ==
  /\ TakeSample \/ SendOther \/ Restart \/ Receive
  /\ UNCHANGED page_vars

Page ==
  \/ LoadSamples \/ TogglePause
  \/ \E i \in DOMAIN fetches :
       ListSamples(i) \/ ListNotifications(i) \/ FetchDone(i) \/ FetchFails(i)

DashboardNext == Monitored \/ Page

(***************************************************************************)
(* The page's timer goes on while the page is open, and the network may    *)
(* fail any number of times but not for ever.                              *)
(***************************************************************************)
DashboardSpec ==
  /\ DashboardInit /\ [][DashboardNext]_dashboard_vars
  /\ WF_dashboard_vars(LoadSamples)
  /\ SF_dashboard_vars(\E i \in DOMAIN fetches : ListSamples(i))
  /\ SF_dashboard_vars(\E i \in DOMAIN fetches : ListNotifications(i))
  /\ SF_dashboard_vars(\E i \in DOMAIN fetches : FetchDone(i))

----------------------------------------------------------------------------
(* Properties *)

(* The newest sample on the page, by receipt. *)
ShownUpTo == Max({0} \cup {row.received_at : row \in samples})

(***************************************************************************)
(* Every message that went to the phone has its mark on the chart: were it *)
(* pushed before the last sample shown was received, and in the time range *)
(* shown, it is drawn, although samples and notifications are read in two  *)
(* queries with events stored in between.                                  *)
(***************************************************************************)
PushedMessagesAreMarked ==
  \A row \in {r \in db : EventId(r.event) \in DOMAIN pushed}, window \in Windows :
    /\ row.received_at < ShownUpTo
    /\ InWindow(row.received_at, window)
    /\ Len(VisibleSamples(window)) >= 2 /\ Cardinality(TimesDrawn(window)) >= 2
    => row \in Markers(window)

(***************************************************************************)
(* The phase drawn at a visible sample is the phase of that sample, in     *)
(* every time range and whatever the order of receipt, as long as every    *)
(* sample received after it is visible too: draw() counts phases from the  *)
(* end of the list.                                                        *)
(***************************************************************************)
PhasesBelongToSamples ==
  LET all    == Chronological(samples)
      phases == ServerPhases(samples)
  IN  \A window \in Windows :
        LET visible == VisibleSamples(window)
            drawn   == DrawnPhases(window)
        IN  \A i \in DOMAIN visible, j \in DOMAIN all :
              /\ visible[i] = all[j]
              /\ \A k \in j + 1 .. Len(all) : all[k] \in ToSet(visible)
              => drawn[i] = phases[j]

(***************************************************************************)
(* The page's own classifier, kept for samples without the relay's phase,  *)
(* says of every list what the relay says (docs/architecture.md).          *)
(***************************************************************************)
ClientRulesMatch == ClientPhases(ReadingsOf(samples)) = ServerPhases(samples)

(***************************************************************************)
(* Whatever overtook what and failed in between: once nothing new arrives, *)
(* the page settles on what the relay has stored, unless it stays paused.  *)
(***************************************************************************)
ViewCatchesUp ==
  \/ <>[]paused
  \/ <>[](samples = ListedSamples(db) /\ notifications = ListedNotifications(db))
=============================================================================
