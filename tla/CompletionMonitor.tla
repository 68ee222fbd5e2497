------------------------- MODULE CompletionMonitor --------------------------
(***************************************************************************)
(* The relay's completion decision as a one-pass monitor: what it must     *)
(* remember of the samples it has received to decide, at each new one,     *)
(* whether the laundry stopped.                                            *)
(*                                                                         *)
(* The relay itself keeps no such state: it re-reads its table at every    *)
(* sample.  RelayOnePass runs both; ObserverProofs proves they agree.      *)
(***************************************************************************)
EXTENDS ServerClassifier

CONSTANTS
  SERVER_DONE_QUIET,       \* quiet ticks before an alert
  SERVER_MINIMUM_RUNTIME,  \* active ticks before an alert
  SERVER_MAX_SAMPLE_GAP    \* a longer silence is missing evidence

ASSUME MonitorAssumption ==
  /\ SERVER_DONE_QUIET \in Nat
  /\ SERVER_MINIMUM_RUNTIME \in Nat \ {0}
  /\ SERVER_MAX_SAMPLE_GAP \in Nat \ {0}

NotQuiet == -1

VARIABLES
  seen,         \* samples in the present segment, counted up to the smoothing length
  chunk,        \* the readings a later average can still reach
  counted,      \* was the last sample active and not yet announced?
  active_time,  \* ticks between neighbouring counted samples, up to the minimum runtime
  quiet_for,    \* ticks of raw quiet up to the last sample, or NotQuiet
  alert         \* did the last sample complete a load?

monitor_vars == <<seen, chunk, counted, active_time, quiet_for, alert>>

LastOf(s, n) == IF Len(s) <= n THEN s ELSE SubSeq(s, Len(s) - n + 1, Len(s))

UpTo(bound, n) == IF n >= bound THEN bound ELSE n

----------------------------------------------------------------------------
MonitorInit ==
  /\ seen = 0
  /\ chunk = <<>>
  /\ counted = FALSE
  /\ active_time = 0
  /\ quiet_for = NotQuiet
  /\ alert = FALSE

(***************************************************************************)
(* A sample arrives `step' ticks after the one before.  `same' says that   *)
(* both are of one boot and the device's uptime did not go back.           *)
(***************************************************************************)
Receive(same, step, r) ==
  LET continues == same /\ seen > 0 /\ 0 < step /\ step <= SERVER_MAX_SAMPLE_GAP
      averaged  == Append(IF continues THEN chunk ELSE <<>>, r)
      phase     == IF NoEvidence(r) THEN RawPhase(r) ELSE ChunkPhase(averaged)
      is_active == phase = "active"
      earned    == IF ~continues THEN 0
                   ELSE IF is_active /\ counted
                        THEN UpTo(SERVER_MINIMUM_RUNTIME, active_time + step)
                   ELSE active_time
      quiet     == IF RawPhase(r) # "quiet" THEN NotQuiet
                   ELSE IF continues /\ quiet_for # NotQuiet
                        THEN UpTo(SERVER_DONE_QUIET, quiet_for + step)
                   ELSE 0
      enough    == UpTo(SERVER_CLASSIFIER_SMOOTHING_SAMPLES,
                        IF continues THEN seen + 1 ELSE 1)
      stopped   == /\ enough = SERVER_CLASSIFIER_SMOOTHING_SAMPLES
                   /\ phase = "quiet"
                   /\ quiet >= SERVER_DONE_QUIET
                   /\ earned >= SERVER_MINIMUM_RUNTIME
  IN  /\ seen' = enough
      /\ chunk' = IF NoEvidence(r) THEN <<>>
                  ELSE LastOf(averaged, SERVER_CLASSIFIER_SMOOTHING_SAMPLES - 1)
      /\ quiet_for' = quiet
      /\ alert' = stopped
      /\ active_time' = IF stopped THEN 0 ELSE earned
      /\ counted' = is_active

(* A completion the device sends itself announces all motion so far. *)
Announced ==
  /\ active_time' = 0
  /\ counted' = FALSE
  /\ alert' = FALSE
  /\ UNCHANGED <<seen, chunk, quiet_for>>

(* The relay's evidence is armed: quiet alone now completes the load. *)
Armed == active_time >= SERVER_MINIMUM_RUNTIME
=============================================================================
