-------------------------- MODULE UpdateLifecycle ---------------------------
(***************************************************************************)
(* What on-demand firmware updates promise the operator, with no device,   *)
(* network or storage in sight: a staged job is tried at most once, is     *)
(* installed or failed only after it was tried, and never leaves a settled *)
(* status until the relay forgets it.                                      *)
(***************************************************************************)
CONSTANT Jobs

VARIABLES
  status,   \* the status of each job, "absent" when the relay has no row
  tried     \* the jobs the device has started to install

lifecycle_vars == <<status, tried>>

Live == {"pending", "offered"}
Settled == {"installed", "failed", "superseded"}
Statuses == {"absent"} \cup Live \cup Settled

----------------------------------------------------------------------------
LifecycleInit ==
  /\ status = [j \in Jobs |-> "absent"]
  /\ tried = {}

(***************************************************************************)
(* A new job is staged.  The jobs in `forgotten' are dropped for good and  *)
(* a live one gives way to the new one.                                    *)
(***************************************************************************)
StageJob(j, forgotten) ==
  /\ status[j] = "absent" /\ j \notin tried
  /\ status' = [k \in Jobs |->
                  IF k = j THEN "pending"
                  ELSE IF k \in forgotten THEN "absent"
                  ELSE IF status[k] \in Live THEN "superseded"
                  ELSE status[k]]
  /\ UNCHANGED tried

OfferJob(j) ==
  /\ status[j] \in Live
  /\ status' = [status EXCEPT ![j] = "offered"]
  /\ UNCHANGED tried

TryJob(j) ==
  /\ status[j] # "absent"
  /\ j \notin tried
  /\ tried' = tried \cup {j}
  /\ UNCHANGED status

SettleJob(j, result) ==
  /\ status[j] \in Live
  /\ j \in tried
  /\ status' = [status EXCEPT ![j] = result]
  /\ UNCHANGED tried

LifecycleNext ==
  \E j \in Jobs :
    \/ \E forgotten \in SUBSET Jobs : StageJob(j, forgotten)
    \/ OfferJob(j)
    \/ TryJob(j)
    \/ \E result \in {"installed", "failed"} : SettleJob(j, result)

LifecycleSpec == LifecycleInit /\ [][LifecycleNext]_lifecycle_vars
=============================================================================
