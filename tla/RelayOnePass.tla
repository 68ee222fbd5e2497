---------------------------- MODULE RelayOnePass ----------------------------
(***************************************************************************)
(* The relay beside the one-pass monitor, fed the same samples in order:   *)
(* the table-scanning decision of the code and the monitor agree on every  *)
(* sample.                                                                 *)
(***************************************************************************)
EXTENDS Relay

VARIABLES
  seen, chunk, counted, active_time, quiet_for, alert,
  last   \* the last sample the monitor was given

M == INSTANCE CompletionMonitor
       WITH seen <- seen, chunk <- chunk, counted <- counted,
            active_time <- active_time, quiet_for <- quiet_for, alert <- alert

NothingYet == [cycle_id |-> 0, uptime |-> 0, at |-> 0]

monitor == <<seen, chunk, counted, active_time, quiet_for, alert, last>>

one_pass_vars == <<vars, monitor>>

OnePassInit == Init /\ M!MonitorInit /\ last = NothingYet

(* The monitor is shown what the relay newly stores. *)
NewRows(st) ==
  {row \in db' \ db : row.event.state = st /\ row.event.origin = "device"}

NewSamples == NewRows("calibration_sample")

ShowMonitor(row) ==
  LET at == EventTimestamp(row)
  IN  /\ M!Receive(/\ row.event.cycle_id = last.cycle_id
                   /\ row.event.uptime >= last.uptime,
                   at - last.at, row.event.reading)
      /\ last' = [cycle_id |-> row.event.cycle_id, uptime |-> row.event.uptime,
                  at |-> at]

OnePassNext ==
  \/ /\ Receive
     /\ \/ \E row \in NewSamples : ShowMonitor(row)
        \/ NewRows("done_sent") # {} /\ M!Announced /\ UNCHANGED last
        \/ NewRows("done_sent") \cup NewSamples = {} /\ UNCHANGED monitor
  \/ (TakeSample \/ SendOther \/ Restart) /\ UNCHANGED monitor

OnePassSpec == OnePassInit /\ [][OnePassNext]_one_pass_vars

(***************************************************************************)
(* At every sample the code's decision, computed from the whole table, is  *)
(* the decision of the one-pass monitor.                                   *)
(***************************************************************************)
OnePassAgrees ==
  [][ NewSamples # {} =>
        (alert' <=> \E row \in db' \ db : row.event.origin = "server") ]_one_pass_vars
=============================================================================
