--------------------------- MODULE MCRelayOnePass ---------------------------
(* A small instance of RelayOnePass; readings are in quarter-milli-g. *)
EXTENDS RelayOnePass

Of(rms, peak) == [valid |-> TRUE, rms |-> rms, peak |-> peak]

(* Motion strong enough to stay visible in the next average. *)
SomeReadings == { Of(4, 12), Of(100, 300), Of(400, 1300) }
=============================================================================
