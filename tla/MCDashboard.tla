---------------------------- MODULE MCDashboard -----------------------------
(* Small instances of Dashboard; readings are in quarter-milli-g. *)
EXTENDS Dashboard

Of(rms, peak) == [valid |-> TRUE, rms |-> rms, peak |-> peak]

Failed == [valid |-> FALSE, rms |-> 0, peak |-> 0]

SomeReadings == {Of(4, 12), Of(28, 90), Failed}
=============================================================================
