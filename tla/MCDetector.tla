----------------------------- MODULE MCDetector -----------------------------
(***************************************************************************)
(* Small instances of LaundryDetector.  Readings are in quarter-milli-g,   *)
(* so the production thresholds 4, 20 and 3.5 mg are 16, 80 and 14.        *)
(***************************************************************************)
EXTENDS LaundryDetector

Window(rms, peak) == [seconds |-> 4, rms |-> rms, peak |-> peak]

FailedRead == [seconds |-> 0, rms |-> 0, peak |-> 0]
NotFinite == [seconds |-> 4, rms |-> -1, peak |-> 40]
PeakBelowRms == [seconds |-> 4, rms |-> 12, peak |-> 8]

(***************************************************************************)
(* Every class of window, on both sides of each threshold of the           *)
(* production settings.                                                    *)
(***************************************************************************)
ProductionWindows ==
  { Window(14, 79),    \* quiet, at both limits
    Window(15, 40),    \* uncertain
    Window(16, 40),    \* active by its RMS alone
    Window(10, 480),   \* active by its peak alone, a spin peak
    FailedRead, NotFinite, PeakBelowRms }
=============================================================================
