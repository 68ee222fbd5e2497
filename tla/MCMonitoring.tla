---------------------------- MODULE MCMonitoring ----------------------------
(* Small instances of Monitoring; readings are in quarter-milli-g. *)
EXTENDS Monitoring

Window(rms, peak) == [seconds |-> 4, rms |-> rms, peak |-> peak]

FailedRead == [seconds |-> 0, rms |-> 0, peak |-> 0]

QuietWindow == Window(8, 30)
ActiveWindow == Window(10, 150)      \* by its peak alone
HummingWindow == Window(20, 60)      \* by its RMS alone
UncertainWindow == Window(15, 40)
ExtremeWindow == Window(600, 1500)

EveryWindow ==
  {QuietWindow, ActiveWindow, HummingWindow, UncertainWindow, ExtremeWindow,
   FailedRead}

(* Noise, and one push against the machine: 60 mg, below the 120 mg of handling. *)
StillOrPushed == {QuietWindow, Window(240, 800)}

ObservedGaps == 1 .. idle_poll
=============================================================================
