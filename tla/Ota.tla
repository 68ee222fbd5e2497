-------------------------------- MODULE Ota ---------------------------------
(***************************************************************************)
(* On-demand firmware updates: the relay's job table (ota.py), the device's*)
(* installer (laundry_ota.cpp) and the check-ins between them.             *)
(*                                                                         *)
(* The device is one thread: while it installs it sends nothing.  It may   *)
(* lose power between any two steps; its NVS record and its flash slots    *)
(* survive.  The relay handles one request at a time.  Job ids are fresh:  *)
(* firmware_update.py draws them at random.                                *)
(***************************************************************************)
EXTENDS Integers, FiniteSets

CONSTANTS
  Jobs,              \* update jobs the operator may stage for the device
  Images,            \* firmware images
  ImageOf,           \* the image of each job
  FirstImage,        \* the image the device runs at first
  Interrupting,      \* the jobs staged with interrupt_monitoring
  MaxLifetime,       \* longest ttl_seconds, in ticks
  JobRetention,      \* an expired job is kept this many ticks
  QueueBound,        \* jobs the table may hold
  MaxTime,           \* bound: the relay's clock
  MaxPowerLosses,    \* bound: losses of power
  NvsMayFail         \* may a write of the NVS record fail?

NoJob == "no job"
NoOffer == [job |-> NoJob, expires_at |-> 0]
Offer(j, expires_at) == [job |-> j, expires_at |-> expires_at]
NoImage == "no image"

ASSUME OtaAssumption ==
  /\ ImageOf \in [Jobs -> Images] /\ FirstImage \in Images
  /\ NoJob \notin Jobs /\ NoImage \notin Images
  /\ Interrupting \subseteq Jobs
  /\ MaxLifetime \in Nat /\ JobRetention \in Nat /\ QueueBound \in Nat
  /\ MaxTime \in Nat /\ MaxPowerLosses \in Nat /\ NvsMayFail \in BOOLEAN

VARIABLES
  clock,
  firmware_jobs,     \* the table: a function from the job ids it holds
  requests,          \* check-ins on their way to the relay
  answer             \* the offer in the answer to the present check-in

relay_vars == <<clock, firmware_jobs>>

VARIABLES
  next_boot,         \* the image the boot loader will start
  nvs,               \* the attempt record
  last_job, last_result, installed_sha256,
  resting,           \* is the local detector Idle or DoneSent?
  settled,           \* has the startup settling period passed?
  check_in,          \* number of the present check-in
  step,              \* how far the installer has come
  power_losses

device_vars ==
  <<next_boot, nvs, last_job, last_result, installed_sha256, resting,
    settled, check_in, step, power_losses>>

VARIABLES
  staged,            \* the job ids used so far
  tried,             \* for the properties: the jobs the device started to install
  ran                \* for the properties: the images it booted, by job last tried

history_vars == <<staged, tried, ran>>

vars == <<relay_vars, requests, answer, device_vars, history_vars>>

----------------------------------------------------------------------------
(* The job table *)

LiveStatus == {"pending", "offered"}

Held == DOMAIN firmware_jobs

LiveJobs == {j \in Held : firmware_jobs[j].status \in LiveStatus}

Servable == {j \in LiveJobs : firmware_jobs[j].expires_at >= clock}

(* Mistake: a job once offered is not superseded. *)
SupersededIfPending(k) ==
  IF firmware_jobs[k].status = "pending"
  THEN [firmware_jobs[k] EXCEPT !.status = "superseded"] ELSE firmware_jobs[k]

Superseded(k) ==
  IF k \in LiveJobs
  THEN [firmware_jobs[k] EXCEPT !.status = "superseded"] ELSE firmware_jobs[k]

(***************************************************************************)
(* stage(), for a job the table does not hold: drop the jobs long expired, *)
(* refuse when the table is full, supersede the live job, insert.  A       *)
(* repeated request finds its job held and changes nothing.                *)
(***************************************************************************)
Stage(j, lifetime) ==
  LET kept == {k \in Held : firmware_jobs[k].expires_at >= clock - JobRetention}
  IN  /\ j \notin staged
      /\ Cardinality(kept) < QueueBound
      /\ firmware_jobs' =
           [k \in kept \cup {j} |->
              IF k = j THEN [status |-> "pending", expires_at |-> clock + lifetime]
              ELSE Superseded(k)]
      /\ staged' = staged \cup {j}
      /\ UNCHANGED <<clock, requests, answer, device_vars, tried, ran>>

(* Mistake: a report changes a job that is already settled. *)
ReportCountsLate(m) ==
  /\ m.job \in Held
  /\ \/ m.result = "failed"
     \/ m.result = "installed" /\ m.installed_sha256 = ImageOf[m.job]

(* Mistake: the report on an expired job is dropped. *)
ReportCountsUnexpired(m) ==
  /\ m.job \in Servable
  /\ \/ m.result = "failed"
     \/ m.result = "installed" /\ m.installed_sha256 = ImageOf[m.job]

(***************************************************************************)
(* The first half of offer_update(): settle the job the device reports on. *)
(* An "installed" that the running image does not bear out is ignored.     *)
(***************************************************************************)
ReportCounts(m) ==
  /\ m.job \in LiveJobs
  /\ \/ m.result = "failed"
     \/ m.result = "installed" /\ m.installed_sha256 = ImageOf[m.job]

AfterReport(m) ==
  IF ReportCounts(m)
  THEN [firmware_jobs EXCEPT ![m.job].status = m.result]
  ELSE firmware_jobs

(***************************************************************************)
(* The second half: offer the newest live job.  There is at most one.      *)
(***************************************************************************)
MayOffer(m, j) ==
  /\ ~m.startup_settling
  /\ j \in Servable
  /\ AfterReport(m)[j].status \in LiveStatus
  /\ m.resting \/ j \in Interrupting

(***************************************************************************)
(* The relay handles a check-in.  The answer reaches the device only if it *)
(* is still waiting for this one; it can be lost, and so can the request,  *)
(* which may also arrive late or twice.                                    *)
(***************************************************************************)
HandleCheckIn(m, repeated) ==
  /\ requests' = IF repeated THEN requests ELSE requests \ {m}
  /\ \/ /\ \A j \in Jobs : ~MayOffer(m, j)
        /\ firmware_jobs' = AfterReport(m)
        /\ UNCHANGED answer
     \/ \E j \in Jobs :
          /\ MayOffer(m, j)
          /\ firmware_jobs' = [AfterReport(m) EXCEPT ![j].status = "offered"]
          /\ answer' = IF m.n = check_in /\ step = "waiting"
                       THEN Offer(j, firmware_jobs[j].expires_at) ELSE answer
  /\ UNCHANGED <<clock, device_vars, history_vars>>

Tick ==
  /\ clock < MaxTime
  /\ clock' = clock + 1
  /\ UNCHANGED <<firmware_jobs, requests, answer, device_vars, history_vars>>

----------------------------------------------------------------------------
(* The device between updates *)

(* diagnostics(), sent with every sample.  Only the check-in just before may *)
(* still be under way.                                                       *)
CheckIn ==
  /\ step = "loop"
  /\ step' = "waiting"
  /\ check_in' = 1 - check_in
  /\ answer' = NoOffer
  /\ requests' = {m \in requests : m.n = check_in} \cup
       {[n |-> check_in', job |-> last_job, result |-> last_result,
         installed_sha256 |-> installed_sha256, resting |-> resting,
         startup_settling |-> ~settled]}
  /\ UNCHANGED <<relay_vars, next_boot, nvs, last_job, last_result,
                 installed_sha256, resting, settled, power_losses, history_vars>>

(***************************************************************************)
(* No answer, or one that handle_offer() turns down: bad signature, device *)
(* clock not set, the job was already tried, it expired, not allowed now.  *)
(* Then the device naps, and its detector may have changed its mind.       *)
(***************************************************************************)
NextLoop ==
  /\ step = "waiting"
  /\ step' = "loop"
  /\ answer' = NoOffer
  /\ resting' \in BOOLEAN
  /\ settled' = TRUE
  /\ UNCHANGED <<relay_vars, requests, next_boot, nvs, last_job,
                 last_result, installed_sha256, check_in, power_losses, history_vars>>

(* Mistake: two arguments change places. *)
RecordSwapped(job, result, image) == [job |-> job, result |-> image, sha256 |-> result]

Record(job, result, image) == [job |-> job, result |-> result, sha256 |-> image]

(* save_attempt: one atomic NVS write, or a failed one. *)
SaveAttempt(record) == nvs' = record
SaveFails == NvsMayFail /\ UNCHANGED nvs

AcceptableOffer ==
  /\ settled
  /\ answer # NoOffer
  /\ resting \/ answer.job \in Interrupting
  /\ answer.job # last_job
  /\ answer.expires_at >= clock

(* handle_offer() up to the call of download(). *)
StartAttempt ==
  /\ step = "waiting"
  /\ AcceptableOffer
  /\ SaveAttempt(Record(answer.job, "attempting", NoImage))
  /\ last_job' = answer.job
  /\ last_result' = "failed"
  /\ step' = "attempting"
  /\ tried' = tried \cup {answer.job}
  /\ UNCHANGED <<relay_vars, requests, answer, next_boot,
                 installed_sha256, resting, settled, check_in, power_losses, staged, ran>>

----------------------------------------------------------------------------
(* The installer *)

InstallerStep(from, to) ==
  /\ step = from
  /\ step' = to
  /\ UNCHANGED <<relay_vars, requests, last_job, last_result,
                 installed_sha256, resting, settled, check_in, power_losses,
                 history_vars>>

(* The relay serves the blob only while the job is live. *)
Download ==
  /\ answer.job \in Servable
  /\ InstallerStep("attempting", "authenticated")
  /\ UNCHANGED <<answer, nvs, next_boot>>

SaveVerified ==
  /\ InstallerStep("authenticated", "verified")
  /\ SaveAttempt(Record(answer.job, "verified", ImageOf[answer.job]))
  /\ UNCHANGED <<answer, next_boot>>

(* Update.end: the boot loader will start the other slot. *)
Activate ==
  /\ InstallerStep("verified", "activated")
  /\ next_boot' = ImageOf[answer.job]
  /\ UNCHANGED <<answer, nvs>>

(***************************************************************************)
(* Any failure of the download, of the record or of Update.end: the record *)
(* is overwritten and monitoring resumes.                                  *)
(***************************************************************************)
AttemptFails ==
  /\ \E from \in {"attempting", "authenticated", "verified"} :
       InstallerStep(from, "waiting")
  /\ SaveAttempt(Record(answer.job, "failed", NoImage)) \/ SaveFails
  /\ answer' = NoOffer
  /\ UNCHANGED next_boot

(* Mistake: the record is believed without hashing the running image. *)
RecordedImageUnchecked ==
  IF nvs.result = "verified" THEN nvs.sha256 ELSE NoImage

(* The image of the record, when it is the one that now runs. *)
RecordedImage ==
  IF nvs.result = "verified" /\ nvs.sha256 = next_boot THEN nvs.sha256 ELSE NoImage

(***************************************************************************)
(* begin(): after a reboot the record says which job was tried last, and   *)
(* the running image whether it was installed.                             *)
(***************************************************************************)
Begin ==
  /\ ran' = ran \cup {<<nvs.job, next_boot>>}
  /\ last_job' = nvs.job
  /\ last_result' = IF nvs.job = NoJob THEN "none"
                    ELSE IF RecordedImage # NoImage THEN "installed" ELSE "failed"
  /\ installed_sha256' = RecordedImage
  /\ resting' = TRUE
  /\ settled' = FALSE
  /\ step' = "loop"
  /\ answer' = NoOffer
  /\ UNCHANGED <<relay_vars, requests, next_boot, nvs, check_in, staged, tried>>

RestartIntoImage ==
  /\ step = "activated"
  /\ Begin
  /\ UNCHANGED power_losses

LosePower ==
  /\ power_losses < MaxPowerLosses
  /\ power_losses' = power_losses + 1
  /\ Begin

----------------------------------------------------------------------------
Init ==
  /\ clock = 0 /\ firmware_jobs = <<>> /\ requests = {} /\ answer = NoOffer
  /\ next_boot = FirstImage
  /\ nvs = Record(NoJob, "none", NoImage)
  /\ last_job = NoJob /\ last_result = "none" /\ installed_sha256 = NoImage
  /\ resting = TRUE /\ settled = FALSE /\ check_in = 0 /\ step = "loop"
  /\ power_losses = 0 /\ staged = {} /\ tried = {} /\ ran = {}

Staging == \E j \in Jobs, lifetime \in 1 .. MaxLifetime : Stage(j, lifetime)

Handling == \E m \in requests, repeated \in BOOLEAN : HandleCheckIn(m, repeated)

Installing ==
  Download \/ SaveVerified \/ Activate \/ RestartIntoImage \/ AttemptFails

Next ==
  \/ Staging \/ Tick \/ Handling
  \/ CheckIn \/ NextLoop \/ StartAttempt
  \/ Installing
  \/ LosePower

Spec == Init /\ [][Next]_vars

(***************************************************************************)
(* The device's loop goes on, and of the check-ins the relay could handle  *)
(* while the device waits, it handles some: it is not always unreachable.  *)
(***************************************************************************)
HandleInTime == \E m \in requests : m.n = check_in /\ HandleCheckIn(m, FALSE)

FairSpec ==
  /\ Spec
  /\ WF_vars(CheckIn)
  /\ WF_vars(NextLoop \/ StartAttempt)
  /\ WF_vars(Installing)
  /\ SF_vars(HandleInTime)

----------------------------------------------------------------------------
(* Properties *)

JobStatuses == LiveStatus \cup {"installed", "failed", "superseded"}
Results == {"none", "failed", "installed"}
MaybeJobs == Jobs \cup {NoJob}
MaybeImages == Images \cup {NoImage}

(***************************************************************************)
(* Every variable has its type; the relay holds staged jobs only, and the  *)
(* device tries no other.                                                  *)
(***************************************************************************)
TypeOK ==
  /\ clock \in 0 .. MaxTime
  /\ Held \subseteq staged
  /\ \A j \in Held : firmware_jobs[j] \in [status : JobStatuses, expires_at : Nat]
  /\ requests \subseteq [n : {0, 1}, job : MaybeJobs, result : Results,
                         installed_sha256 : MaybeImages, resting : BOOLEAN,
                         startup_settling : BOOLEAN]
  /\ answer \in [job : MaybeJobs, expires_at : Nat]
  /\ next_boot \in Images
  /\ nvs \in [job : MaybeJobs, sha256 : MaybeImages,
              result : {"none", "attempting", "verified", "failed"}]
  /\ last_job \in MaybeJobs /\ last_result \in Results
  /\ installed_sha256 \in MaybeImages
  /\ resting \in BOOLEAN /\ settled \in BOOLEAN /\ check_in \in {0, 1}
  /\ step \in {"loop", "waiting", "attempting", "authenticated", "verified",
               "activated"}
  /\ power_losses \in 0 .. MaxPowerLosses
  /\ staged \subseteq Jobs /\ tried \subseteq staged
  /\ ran \subseteq MaybeJobs \X Images

(***************************************************************************)
(* However requests are delayed or repeated, power is lost or jobs are     *)
(* superseded under way: at most one job is pending or offered.  The       *)
(* device remembers one job, so it could not keep two of them apart.       *)
(***************************************************************************)
OneLiveJob == Cardinality(LiveJobs) <= 1

(***************************************************************************)
(* A job the relay shows as installed was: after the attempt at this job   *)
(* the device booted into the job's image.  Neither a download that was    *)
(* never activated, nor a record of another job, nor a late or repeated    *)
(* report can say otherwise.                                               *)
(***************************************************************************)
InstalledMeansBooted ==
  \A j \in Held : firmware_jobs[j].status = "installed" => <<j, ImageOf[j]>> \in ran

(* The refinement mapping to UpdateLifecycle; tried is mapped to itself. *)
status == [j \in Jobs |-> IF j \in Held THEN firmware_jobs[j].status ELSE "absent"]

L == INSTANCE UpdateLifecycle WITH Jobs <- Jobs, status <- status, tried <- tried

(***************************************************************************)
(* What the operator is promised (UpdateLifecycle) holds of the relay's    *)
(* table and the device together: no automatic second attempt, no outcome  *)
(* without an attempt, no change of a settled status.                      *)
(***************************************************************************)
Lifecycle == L!LifecycleSpec

(***************************************************************************)
(* Every attempt is accounted for: a job the device started to install     *)
(* does not stay pending or offered for good, though the answer was lost,  *)
(* the power failed, or the job expired before the device could report.    *)
(***************************************************************************)
AttemptIsAccountedFor ==
  \A j \in Jobs : (j \in tried) ~> (status[j] \notin LiveStatus)
=============================================================================
