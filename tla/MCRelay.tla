------------------------------ MODULE MCRelay -------------------------------
(***************************************************************************)
(* Small instances of EventList, and so of Relay.  Readings are in quarter-milli-g: the         *)
(* thresholds 4, 20, 3.5, 120 and 300 mg are 16, 80, 14, 480 and 1200.     *)
(***************************************************************************)
EXTENDS EventList

Of(rms, peak) == [valid |-> TRUE, rms |-> rms, peak |-> peak]

Quiet == Of(4, 12)
Active == Of(40, 150)
Gentle == Of(28, 90)
Uncertain == Of(15, 30)
Jolt == Of(400, 1300)
Failed == [valid |-> FALSE, rms |-> 0, peak |-> 0]

QuietOrGentle == {Quiet, Gentle}
EveryReading == {Quiet, Active, Uncertain, Jolt, Failed}
=============================================================================
