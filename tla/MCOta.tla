------------------------------- MODULE MCOta --------------------------------
(* Small instances of Ota. *)
EXTENDS Ota

JobA == "job a"
JobB == "job b"

(* The second job brings back the image the device had at first. *)
ImageOfTwo == [j \in {JobA, JobB} |-> IF j = JobA THEN "new" ELSE "old"]
=============================================================================
