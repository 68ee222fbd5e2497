------------------------------ MODULE OtaProofs ------------------------------
(***************************************************************************)
(* For every set of jobs and images, every bound on time, losses of power  *)
(* and the job table, and with or without failing records: the job table   *)
(* and the device of Ota keep their types, at most one job is live, and a  *)
(* job shown as installed was booted.  However requests are delayed or     *)
(* repeated, both implement UpdateLifecycle: a job is tried at most once   *)
(* and its status tells its story.                                         *)
(***************************************************************************)
EXTENDS Ota, FiniteSetTheorems, TLAPS

----------------------------------------------------------------------------
(* The inductive invariant *)

(***************************************************************************)
(* An offer names a staged job, and an installation works on an offer.     *)
(***************************************************************************)
OfferIsStaged ==
  /\ answer # NoOffer => answer.job \in staged
  /\ step \in {"attempting", "authenticated", "verified", "activated"}
       => answer # NoOffer

(***************************************************************************)
(* Whoever says "installed", the device or a check-in on its way, says so  *)
(* of an image that was booted after the attempt at the job it names.      *)
(***************************************************************************)
ReportsAreTrue ==
  /\ last_result = "installed" => <<last_job, installed_sha256>> \in ran
  /\ \A m \in requests :
       m.result = "installed" => <<m.job, m.installed_sha256>> \in ran

(* OneLiveJob without counting. *)
LiveIsOne == \A j, k \in LiveJobs : j = k

IInv == TypeOK /\ OfferIsStaged /\ ReportsAreTrue /\ LiveIsOne /\ InstalledMeansBooted

----------------------------------------------------------------------------
(* The job table *)

(***************************************************************************)
(* Settling a job on a report makes no job live and ends the life of none  *)
(* but the reported one.                                                   *)
(***************************************************************************)
LEMMA AfterReportTable ==
  ASSUME TypeOK, NEW m \in requests
  PROVE  /\ DOMAIN AfterReport(m) = Held
         /\ \A j \in Held :
              /\ AfterReport(m)[j] \in [status : JobStatuses, expires_at : Nat]
              /\ AfterReport(m)[j].status \in LiveStatus => j \in LiveJobs
              /\ AfterReport(m)[j].status = "installed"
                   => \/ firmware_jobs[j].status = "installed"
                      \/ ReportCounts(m) /\ m.job = j /\ m.result = "installed"
<1>1. CASE ~ReportCounts(m)
  BY <1>1 DEF AfterReport, TypeOK, LiveJobs, Held
<1>2. CASE ReportCounts(m)
  <2>1. m.job \in Held /\ m.result \in {"failed", "installed"}
    BY <1>2 DEF ReportCounts, LiveJobs
  <2>2. AfterReport(m) = [firmware_jobs EXCEPT ![m.job].status = m.result]
    BY <1>2 DEF AfterReport
  <2>3. ASSUME NEW j \in Held, j # m.job
        PROVE  AfterReport(m)[j] = firmware_jobs[j]
    BY <2>2, <2>3 DEF Held
  <2>4. AfterReport(m)[m.job] = [firmware_jobs[m.job] EXCEPT !.status = m.result]
    BY <2>1, <2>2 DEF Held
  <2>5. /\ AfterReport(m)[m.job].status = m.result
        /\ AfterReport(m)[m.job] \in [status : JobStatuses, expires_at : Nat]
    BY <2>1, <2>4 DEF TypeOK, JobStatuses
  <2> QED
    BY <1>2, <2>1, <2>2, <2>3, <2>5 DEF Held, TypeOK, LiveJobs, LiveStatus
<1> QED BY <1>1, <1>2

(***************************************************************************)
(* The same of the whole check-in: the table holds the same jobs, live     *)
(* jobs were live before, and what became installed was reported so.       *)
(***************************************************************************)
LEMMA HandledTable ==
  ASSUME TypeOK, NEW m \in requests, NEW repeated \in BOOLEAN,
         HandleCheckIn(m, repeated)
  PROVE  /\ Held' = Held
         /\ \A j \in Held :
              /\ firmware_jobs'[j] \in [status : JobStatuses, expires_at : Nat]
              /\ firmware_jobs'[j].status \in LiveStatus => j \in LiveJobs
              /\ firmware_jobs'[j].status = "installed"
                   => \/ firmware_jobs[j].status = "installed"
                      \/ ReportCounts(m) /\ m.job = j /\ m.result = "installed"
<1>1. CASE firmware_jobs' = AfterReport(m)
  BY <1>1, AfterReportTable DEF Held
<1>2. ASSUME NEW j \in Jobs, MayOffer(m, j),
             firmware_jobs' = [AfterReport(m) EXCEPT ![j].status = "offered"]
      PROVE  /\ Held' = Held
             /\ \A k \in Held :
                  /\ k # j => firmware_jobs'[k] = AfterReport(m)[k]
                  /\ k = j => /\ k \in LiveJobs
                              /\ firmware_jobs'[k].status = "offered"
                              /\ firmware_jobs'[k] \in
                                   [status : JobStatuses, expires_at : Nat]
  <2>1. j \in LiveJobs /\ j \in Held
    BY <1>2 DEF MayOffer, Servable, LiveJobs
  <2>2. firmware_jobs'[j] = [AfterReport(m)[j] EXCEPT !.status = "offered"]
    BY <1>2, <2>1, AfterReportTable
  <2>3. firmware_jobs'[j].status = "offered"
        /\ firmware_jobs'[j] \in [status : JobStatuses, expires_at : Nat]
    BY <2>1, <2>2, AfterReportTable DEF JobStatuses, LiveStatus
  <2> QED BY <1>2, <2>1, <2>3, AfterReportTable DEF Held
<1>3. \/ firmware_jobs' = AfterReport(m)
      \/ \E j \in Jobs :
           /\ MayOffer(m, j)
           /\ firmware_jobs' = [AfterReport(m) EXCEPT ![j].status = "offered"]
  BY DEF HandleCheckIn
<1>4. CASE \E j \in Jobs :
            /\ MayOffer(m, j)
            /\ firmware_jobs' = [AfterReport(m) EXCEPT ![j].status = "offered"]
  <2>1. PICK j \in Jobs :
          /\ MayOffer(m, j)
          /\ firmware_jobs' = [AfterReport(m) EXCEPT ![j].status = "offered"]
    BY <1>4
  <2>2. Held' = Held
    BY <1>2, <2>1
  <2>3. ASSUME NEW k \in Held, k # j
        PROVE  firmware_jobs'[k] = AfterReport(m)[k]
    BY <1>2, <2>1, <2>3
  <2>4. /\ j \in Held => j \in LiveJobs
        /\ j \in Held => firmware_jobs'[j].status = "offered"
        /\ j \in Held => firmware_jobs'[j] \in [status : JobStatuses, expires_at : Nat]
    BY <1>2, <2>1
  <2> QED BY <2>2, <2>3, <2>4, AfterReportTable
<1> QED BY <1>1, <1>3, <1>4

(***************************************************************************)
(* Staging a job leaves it as the only live one and installs none.         *)
(***************************************************************************)
LEMMA StagedTable ==
  ASSUME TypeOK, NEW j \in Jobs, NEW lifetime \in 1 .. MaxLifetime,
         Stage(j, lifetime)
  PROVE  /\ Held' \subseteq Held \cup {j}
         /\ \A k \in Held' :
              /\ firmware_jobs'[k] \in [status : JobStatuses, expires_at : Nat]
              /\ firmware_jobs'[k].status \in LiveStatus => k = j
              /\ firmware_jobs'[k].status = "installed"
                   => k \in Held /\ firmware_jobs[k].status = "installed"
<1> DEFINE kept == {k \in Held : firmware_jobs[k].expires_at >= clock - JobRetention}
<1>1. /\ Held' = kept \cup {j}
      /\ \A k \in kept \cup {j} :
           firmware_jobs'[k] = IF k = j THEN [status |-> "pending",
                                              expires_at |-> clock + lifetime]
                               ELSE Superseded(k)
  BY DEF Stage, Held
<1>2. clock + lifetime \in Nat
  BY OtaAssumption DEF TypeOK
<1>3. ASSUME NEW k \in Held
      PROVE  /\ Superseded(k) \in [status : JobStatuses, expires_at : Nat]
             /\ Superseded(k).status \notin LiveStatus
             /\ Superseded(k).status = "installed"
                  => firmware_jobs[k].status = "installed"
  <2>1. firmware_jobs[k] \in [status : JobStatuses, expires_at : Nat]
    BY <1>3 DEF TypeOK
  <2>2. CASE k \in LiveJobs
    <3>1. Superseded(k) = [firmware_jobs[k] EXCEPT !.status = "superseded"]
      BY <2>2 DEF Superseded
    <3> QED BY <2>1, <3>1 DEF JobStatuses, LiveStatus
  <2>3. CASE k \notin LiveJobs
    BY <1>3, <2>1, <2>3 DEF Superseded, LiveJobs
  <2> QED BY <2>2, <2>3
<1>4. ASSUME NEW k \in Held'
      PROVE  /\ firmware_jobs'[k] \in [status : JobStatuses, expires_at : Nat]
             /\ firmware_jobs'[k].status \in LiveStatus => k = j
             /\ firmware_jobs'[k].status = "installed"
                  => k \in Held /\ firmware_jobs[k].status = "installed"
  <2>1. CASE k = j
    BY <1>1, <1>2, <2>1 DEF JobStatuses, LiveStatus
  <2>2. CASE k # j
    BY <1>1, <1>3, <1>4, <2>2
  <2> QED BY <2>1, <2>2
<1> QED BY <1>1, <1>4

----------------------------------------------------------------------------
(* The steps keep the invariant *)

(* A new relay and a new device: nothing is staged, asked or installed. *)
LEMMA InitIInv == Init => IInv
<1> SUFFICES ASSUME Init PROVE IInv
  OBVIOUS
<1>1. Held = {}
  BY DEF Init, Held
<1>2. TypeOK
  <2>1. nvs \in [job : MaybeJobs, sha256 : MaybeImages,
                result : {"none", "attempting", "verified", "failed"}]
    BY DEF Init, Record, MaybeJobs, MaybeImages
  <2>2. answer \in [job : MaybeJobs, expires_at : Nat]
    BY DEF Init, NoOffer, MaybeJobs
  <2>3. clock \in 0 .. MaxTime /\ power_losses \in 0 .. MaxPowerLosses
    BY OtaAssumption DEF Init
  <2>4. /\ last_job \in MaybeJobs /\ last_result \in Results
        /\ installed_sha256 \in MaybeImages /\ next_boot \in Images
    BY OtaAssumption DEF Init, MaybeJobs, MaybeImages, Results
  <2>5. /\ resting \in BOOLEAN /\ settled \in BOOLEAN /\ check_in \in {0, 1}
        /\ step \in {"loop", "waiting", "attempting", "authenticated", "verified",
                     "activated"}
        /\ requests = {} /\ staged = {} /\ tried = {} /\ ran = {}
    BY DEF Init
  <2> QED BY <1>1, <2>1, <2>2, <2>3, <2>4, <2>5 DEF TypeOK
<1>3. OfferIsStaged /\ ReportsAreTrue
  BY DEF Init, OfferIsStaged, ReportsAreTrue
<1>4. LiveIsOne /\ InstalledMeansBooted
  BY <1>1 DEF LiveIsOne, LiveJobs, InstalledMeansBooted
<1> QED BY <1>2, <1>3, <1>4 DEF IInv

(***************************************************************************)
(* What the invariant says of the job table survives a step that leaves    *)
(* the table alone and forgets no boot.                                    *)
(***************************************************************************)
LEMMA TableKept ==
  ASSUME LiveIsOne, InstalledMeansBooted, UNCHANGED firmware_jobs, ran \subseteq ran'
  PROVE  LiveIsOne' /\ InstalledMeansBooted'
  BY DEF LiveIsOne, LiveJobs, InstalledMeansBooted, Held

(* Staging a job. *)
LEMMA StageIInv ==
  ASSUME IInv, NEW j \in Jobs, NEW lifetime \in 1 .. MaxLifetime, Stage(j, lifetime)
  PROVE  IInv'
<1>1. /\ Held' \subseteq Held \cup {j}
      /\ \A k \in Held' :
           /\ firmware_jobs'[k] \in [status : JobStatuses, expires_at : Nat]
           /\ firmware_jobs'[k].status \in LiveStatus => k = j
           /\ firmware_jobs'[k].status = "installed"
                => k \in Held /\ firmware_jobs[k].status = "installed"
  BY StagedTable DEF IInv
<1>2. /\ staged' = staged \cup {j}
      /\ UNCHANGED <<clock, requests, answer, device_vars, tried, ran>>
  BY DEF Stage
<1>3. TypeOK'
  BY <1>1, <1>2 DEF IInv, TypeOK, device_vars
<1>4. OfferIsStaged' /\ ReportsAreTrue'
  BY <1>2 DEF IInv, OfferIsStaged, ReportsAreTrue, device_vars
<1>5. LiveIsOne'
  BY <1>1 DEF LiveIsOne, LiveJobs
<1>6. InstalledMeansBooted'
  BY <1>1, <1>2 DEF IInv, InstalledMeansBooted
<1> QED BY <1>3, <1>4, <1>5, <1>6 DEF IInv

(* The relay handles a check-in. *)
LEMMA HandleIInv ==
  ASSUME IInv, NEW m \in requests, NEW repeated \in BOOLEAN,
         HandleCheckIn(m, repeated)
  PROVE  IInv'
<1>1. /\ Held' = Held
      /\ \A j \in Held :
           /\ firmware_jobs'[j] \in [status : JobStatuses, expires_at : Nat]
           /\ firmware_jobs'[j].status \in LiveStatus => j \in LiveJobs
           /\ firmware_jobs'[j].status = "installed"
                => \/ firmware_jobs[j].status = "installed"
                   \/ ReportCounts(m) /\ m.job = j /\ m.result = "installed"
  BY HandledTable DEF IInv
<1>2. requests' \subseteq requests /\ UNCHANGED <<clock, device_vars, history_vars>>
  BY DEF HandleCheckIn
<1>3. \/ UNCHANGED answer
      \/ \E j \in Jobs : /\ MayOffer(m, j) /\ step = "waiting"
                         /\ answer' = Offer(j, firmware_jobs[j].expires_at)
  BY DEF HandleCheckIn
<1>4. ASSUME NEW j \in Jobs, MayOffer(m, j)
      PROVE  j \in staged /\ j \in Held /\ firmware_jobs[j].expires_at \in Nat
  BY <1>4 DEF MayOffer, Servable, LiveJobs, IInv, TypeOK
<1>5. /\ answer' \in [job : MaybeJobs, expires_at : Nat]
      /\ answer' # NoOffer => answer'.job \in staged
      /\ step # "waiting" => answer' = answer
  BY <1>3, <1>4 DEF Offer, MaybeJobs, IInv, TypeOK, OfferIsStaged
<1>6. TypeOK'
  BY <1>1, <1>2, <1>5 DEF IInv, TypeOK, device_vars, history_vars
<1>7. OfferIsStaged'
  BY <1>2, <1>5 DEF IInv, OfferIsStaged, device_vars, history_vars
<1>8. ReportsAreTrue'
  BY <1>2 DEF IInv, ReportsAreTrue, device_vars, history_vars
<1>9. LiveIsOne'
  BY <1>1 DEF IInv, LiveIsOne, LiveJobs
<1>10. InstalledMeansBooted'
  BY <1>1, <1>2 DEF IInv, InstalledMeansBooted, ReportsAreTrue, ReportCounts,
                    history_vars
<1> QED BY <1>6, <1>7, <1>8, <1>9, <1>10 DEF IInv

(* The relay's time passes. *)
LEMMA TickIInv == ASSUME IInv, Tick PROVE IInv'
<1>1. TypeOK'
  BY OtaAssumption DEF Tick, IInv, TypeOK, device_vars, history_vars, Held
<1>2. OfferIsStaged' /\ ReportsAreTrue'
  BY DEF Tick, IInv, OfferIsStaged, ReportsAreTrue, device_vars, history_vars
<1>3. LiveIsOne' /\ InstalledMeansBooted'
  BY TableKept DEF Tick, IInv, history_vars
<1> QED BY <1>1, <1>2, <1>3 DEF IInv

(* The device checks in: what it reports is what it believes. *)
LEMMA CheckInIInv == ASSUME IInv, CheckIn PROVE IInv'
<1> DEFINE new == [n |-> check_in', job |-> last_job, result |-> last_result,
                   installed_sha256 |-> installed_sha256, resting |-> resting,
                   startup_settling |-> ~settled]
<1>1. /\ requests' \subseteq requests \cup {new}
      /\ answer' = NoOffer /\ step' = "waiting"
      /\ check_in' = 1 - check_in
      /\ UNCHANGED <<relay_vars, next_boot, nvs, last_job, last_result,
                     installed_sha256, resting, settled, power_losses, history_vars>>
  BY DEF CheckIn
<1>2. new \in [n : {0, 1}, job : MaybeJobs, result : Results,
               installed_sha256 : MaybeImages, resting : BOOLEAN,
               startup_settling : BOOLEAN]
  BY <1>1 DEF IInv, TypeOK
<1>3. new.job = last_job /\ new.result = last_result
      /\ new.installed_sha256 = installed_sha256
  OBVIOUS
<1> HIDE DEF new
<1>4. TypeOK'
  BY <1>1, <1>2 DEF IInv, TypeOK, relay_vars, history_vars, NoOffer, MaybeJobs, Held
<1>5. OfferIsStaged'
  BY <1>1 DEF OfferIsStaged
<1>6. ReportsAreTrue'
  BY <1>1, <1>3 DEF IInv, ReportsAreTrue, history_vars
<1>7. LiveIsOne' /\ InstalledMeansBooted'
  BY <1>1, TableKept DEF IInv, relay_vars, history_vars
<1> QED BY <1>4, <1>5, <1>6, <1>7 DEF IInv

(* The device goes on without an installation. *)
LEMMA NextLoopIInv == ASSUME IInv, NextLoop PROVE IInv'
<1>1. TypeOK'
  BY DEF NextLoop, IInv, TypeOK, relay_vars, history_vars, NoOffer, MaybeJobs, Held
<1>2. OfferIsStaged' /\ ReportsAreTrue'
  BY DEF NextLoop, IInv, OfferIsStaged, ReportsAreTrue, history_vars
<1>3. LiveIsOne' /\ InstalledMeansBooted'
  BY TableKept DEF NextLoop, IInv, relay_vars, history_vars
<1> QED BY <1>1, <1>2, <1>3 DEF IInv

(* The device takes up an offer: until it has booted, it has failed. *)
LEMMA StartAttemptIInv == ASSUME IInv, StartAttempt PROVE IInv'
<1>1. answer # NoOffer /\ answer.job \in staged /\ answer.job \in Jobs
  BY DEF StartAttempt, AcceptableOffer, IInv, OfferIsStaged, TypeOK
<1>2. nvs' \in [job : MaybeJobs, sha256 : MaybeImages,
               result : {"none", "attempting", "verified", "failed"}]
  BY <1>1 DEF StartAttempt, SaveAttempt, Record, MaybeJobs, MaybeImages
<1>3. /\ last_job' \in MaybeJobs /\ last_result' \in Results /\ step' = "attempting"
      /\ tried' \subseteq staged'
  BY <1>1 DEF StartAttempt, MaybeJobs, Results, IInv, TypeOK
<1>4. TypeOK'
  BY <1>2, <1>3 DEF StartAttempt, IInv, TypeOK, relay_vars, Held
<1>5. OfferIsStaged' /\ ReportsAreTrue'
  BY <1>1 DEF StartAttempt, IInv, OfferIsStaged, ReportsAreTrue
<1>6. LiveIsOne' /\ InstalledMeansBooted'
  BY TableKept DEF StartAttempt, IInv, relay_vars
<1> QED BY <1>4, <1>5, <1>6 DEF IInv

(***************************************************************************)
(* What the steps of the installer have in common: they touch the record,  *)
(* the boot slot and their own progress, and nothing that was reported.    *)
(***************************************************************************)
LEMMA InstallerIInv ==
  ASSUME IInv,
         NEW from \in {"attempting", "authenticated", "verified", "activated"},
         NEW to \in {"waiting", "authenticated", "verified", "activated"},
         InstallerStep(from, to),
         answer' = answer \/ (answer' = NoOffer /\ to = "waiting"),
         next_boot' \in Images,
         nvs' \in [job : MaybeJobs, sha256 : MaybeImages,
                  result : {"none", "attempting", "verified", "failed"}]
  PROVE  IInv'
<1>1. answer' \in [job : MaybeJobs, expires_at : Nat]
  BY DEF IInv, TypeOK, NoOffer, MaybeJobs
<1>2. TypeOK'
  BY <1>1 DEF InstallerStep, IInv, TypeOK, relay_vars, history_vars, Held
<1>3. OfferIsStaged' /\ ReportsAreTrue'
  BY DEF InstallerStep, IInv, OfferIsStaged, ReportsAreTrue, history_vars
<1>4. LiveIsOne' /\ InstalledMeansBooted'
  BY TableKept DEF InstallerStep, IInv, relay_vars, history_vars
<1> QED BY <1>2, <1>3, <1>4 DEF IInv

(***************************************************************************)
(* The device boots: it says "installed" only of the image that now runs,  *)
(* and of the job its record names.                                        *)
(***************************************************************************)
LEMMA BeginIInv ==
  ASSUME IInv, Begin, power_losses' \in 0 .. MaxPowerLosses
  PROVE  IInv'
<1>1. /\ nvs.job \in MaybeJobs /\ nvs.sha256 \in MaybeImages /\ next_boot \in Images
  BY DEF IInv, TypeOK
<1>2. RecordedImage \in MaybeImages /\ (RecordedImage # NoImage => RecordedImage = next_boot)
  BY <1>1 DEF RecordedImage, MaybeImages
<1>3. TypeOK'
  <2>1. ran' \subseteq MaybeJobs \X Images
    BY <1>1 DEF Begin, IInv, TypeOK
  <2>2. last_job' \in MaybeJobs /\ last_result' \in Results
    BY <1>1 DEF Begin, Results
  <2>3. installed_sha256' \in MaybeImages
    BY <1>2 DEF Begin
  <2>4. answer' \in [job : MaybeJobs, expires_at : Nat]
    BY DEF Begin, NoOffer, MaybeJobs
  <2>5. resting' \in BOOLEAN /\ settled' \in BOOLEAN /\ step' = "loop"
    BY DEF Begin
  <2>6. UNCHANGED <<relay_vars, requests, next_boot, nvs, check_in, staged, tried>>
    BY DEF Begin
  <2> QED
    BY <2>1, <2>2, <2>3, <2>4, <2>5, <2>6 DEF IInv, TypeOK, relay_vars, Held
<1>4. OfferIsStaged'
  BY DEF Begin, OfferIsStaged
<1>5. ReportsAreTrue'
  BY <1>2 DEF Begin, IInv, ReportsAreTrue
<1>6. LiveIsOne' /\ InstalledMeansBooted'
  BY TableKept DEF Begin, IInv, relay_vars
<1> QED BY <1>3, <1>4, <1>5, <1>6 DEF IInv

(* The installer's own steps. *)
LEMMA InstallingIInv == ASSUME IInv, Installing PROVE IInv'
<1>1. CASE Download
  BY <1>1, InstallerIInv DEF Download, IInv, TypeOK
<1>2. ASSUME step \in {"attempting", "authenticated", "verified"}
      PROVE  answer.job \in Jobs /\ ImageOf[answer.job] \in Images
  BY <1>2, OtaAssumption DEF IInv, OfferIsStaged, TypeOK
<1>3. CASE SaveVerified
  <2>1. nvs' \in [job : MaybeJobs, sha256 : MaybeImages,
                 result : {"none", "attempting", "verified", "failed"}]
    BY <1>2, <1>3 DEF SaveVerified, InstallerStep, SaveAttempt, Record, MaybeJobs,
                      MaybeImages
  <2> QED BY <1>3, <2>1, InstallerIInv DEF SaveVerified, IInv, TypeOK
<1>4. CASE Activate
  <2>1. next_boot' \in Images
    BY <1>2, <1>4 DEF Activate, InstallerStep
  <2> QED BY <1>4, <2>1, InstallerIInv DEF Activate, IInv, TypeOK
<1>5. CASE RestartIntoImage
  BY <1>5, BeginIInv DEF RestartIntoImage, IInv, TypeOK
<1>6. CASE AttemptFails
  <2>1. PICK from \in {"attempting", "authenticated", "verified"} :
          InstallerStep(from, "waiting")
    BY <1>6 DEF AttemptFails
  <2>2. nvs' = nvs \/ nvs' = Record(answer.job, "failed", NoImage)
    BY <1>6 DEF AttemptFails, SaveAttempt, SaveFails
  <2>3. nvs' \in [job : MaybeJobs, sha256 : MaybeImages,
                 result : {"none", "attempting", "verified", "failed"}]
    BY <1>2, <2>1, <2>2
       DEF InstallerStep, Record, MaybeJobs, MaybeImages, IInv, TypeOK
  <2> QED BY <1>6, <2>1, <2>3, InstallerIInv DEF AttemptFails, IInv, TypeOK
<1> QED BY <1>1, <1>3, <1>4, <1>5, <1>6 DEF Installing

----------------------------------------------------------------------------
(* The theorems *)

(***************************************************************************)
(* The inductive invariant holds: types, one live job, and nothing that    *)
(* was reported, is reported or is on its way claims a boot that was not.  *)
(***************************************************************************)
THEOREM TruthfulTable == Spec => []IInv
<1>1. IInv /\ [Next]_vars => IInv'
  <2> SUFFICES ASSUME IInv, [Next]_vars PROVE IInv'
    OBVIOUS
  <2>1. CASE Staging
    BY <2>1, StageIInv DEF Staging
  <2>2. CASE Tick
    BY <2>2, TickIInv
  <2>3. CASE Handling
    BY <2>3, HandleIInv DEF Handling
  <2>4. CASE CheckIn
    BY <2>4, CheckInIInv
  <2>5. CASE NextLoop
    BY <2>5, NextLoopIInv
  <2>6. CASE StartAttempt
    BY <2>6, StartAttemptIInv
  <2>7. CASE Installing
    BY <2>7, InstallingIInv
  <2>8. CASE LosePower
    <3>1. power_losses' \in 0 .. MaxPowerLosses
      BY <2>8, OtaAssumption DEF LosePower, IInv, TypeOK
    <3> QED BY <2>8, <3>1, BeginIInv DEF LosePower
  <2>9. CASE UNCHANGED vars
    BY <2>9 DEF IInv, TypeOK, OfferIsStaged, ReportsAreTrue, LiveIsOne, LiveJobs,
                InstalledMeansBooted, Held, vars, relay_vars, device_vars, history_vars
  <2> QED
    BY <2>1, <2>2, <2>3, <2>4, <2>5, <2>6, <2>7, <2>8, <2>9 DEF Next
<1> QED BY InitIInv, <1>1, PTL DEF Spec

(***************************************************************************)
(* The relay and the device keep their types (handle_offer, begin and the  *)
(* job table of ota.py), whatever fails.                                   *)
(***************************************************************************)
THEOREM TypeCorrect == Spec => []TypeOK
<1>1. IInv => TypeOK
  BY DEF IInv
<1> QED BY <1>1, TruthfulTable, PTL

(***************************************************************************)
(* stage() supersedes whatever is live and offer_update() revives nothing: *)
(* there is never more than one pending or offered job.                    *)
(***************************************************************************)
THEOREM AtMostOneLive == Spec => []OneLiveJob
<1>1. IInv => OneLiveJob
  <2> SUFFICES ASSUME IInv PROVE Cardinality(LiveJobs) <= 1
    BY DEF OneLiveJob
  <2>1. CASE LiveJobs = {}
    BY <2>1, FS_EmptySet
  <2>2. CASE LiveJobs # {}
    <3>1. PICK j \in LiveJobs : TRUE
      BY <2>2
    <3>2. LiveJobs = {j}
      BY <3>1 DEF IInv, LiveIsOne
    <3> QED BY <3>2, FS_Singleton
  <2> QED BY <2>1, <2>2
<1> QED BY <1>1, TruthfulTable, PTL

(***************************************************************************)
(* A job the relay shows as installed was booted into after an attempt at  *)
(* it, for any number of losses of power and any reports, late or twice.   *)
(***************************************************************************)
THEOREM InstalledIsTrue == Spec => []InstalledMeansBooted
<1>1. IInv => InstalledMeansBooted
  BY DEF IInv
<1> QED BY <1>1, TruthfulTable, PTL

----------------------------------------------------------------------------
(* The promised lifecycle *)

(***************************************************************************)
(* The device and the table agree about attempts.  The device remembers    *)
(* one job, the last it tried, and this is enough: any other tried job is  *)
(* no longer live, and an offer in hand is of the one job that could be.   *)
(***************************************************************************)
AttemptsAreKnown ==
  /\ nvs.job = last_job
  /\ last_job # NoJob => last_job \in tried
  /\ last_result # "none" => last_job # NoJob
  /\ \A m \in requests : m.result # "none" => m.job \in tried
  /\ \A j \in tried : j \in LiveJobs => j = last_job
  /\ answer # NoOffer =>
       /\ answer.job \in tried => answer.job = last_job
       /\ \A j \in tried : j \in LiveJobs => j = answer.job
  /\ step \in {"attempting", "authenticated", "verified", "activated"}
       => answer.job = last_job

RInv == IInv /\ AttemptsAreKnown

----------------------------------------------------------------------------
(* The invariant *)

(* A new device has tried nothing. *)
LEMMA InitRInv == Init => RInv
  BY InitIInv DEF RInv, AttemptsAreKnown, Init, Record

(* A staged job is new: nobody tried it. *)
LEMMA StageKnown ==
  ASSUME RInv, NEW j \in Jobs, NEW lifetime \in 1 .. MaxLifetime, Stage(j, lifetime)
  PROVE  AttemptsAreKnown'
<1>1. j \notin tried
  BY DEF Stage, RInv, IInv, TypeOK
<1>2. \A k \in LiveJobs' : k = j
  BY StagedTable DEF RInv, IInv, LiveJobs
<1>3. UNCHANGED <<requests, answer, device_vars, tried>>
  BY DEF Stage
<1> QED BY <1>1, <1>2, <1>3 DEF RInv, AttemptsAreKnown, device_vars

(***************************************************************************)
(* A check-in makes nothing live, and what it offers is the live job.      *)
(***************************************************************************)
LEMMA HandleKnown ==
  ASSUME RInv, NEW m \in requests, NEW repeated \in BOOLEAN,
         HandleCheckIn(m, repeated)
  PROVE  AttemptsAreKnown'
<1>1. LiveJobs' \subseteq LiveJobs
  BY HandledTable DEF RInv, IInv, LiveJobs
<1>2. requests' \subseteq requests /\ UNCHANGED <<device_vars, history_vars>>
  BY DEF HandleCheckIn
<1>3. CASE UNCHANGED answer
  BY <1>1, <1>2, <1>3 DEF RInv, AttemptsAreKnown, device_vars, history_vars
<1>4. ASSUME NEW j \in Jobs, MayOffer(m, j), step = "waiting",
             answer' = Offer(j, firmware_jobs[j].expires_at)
      PROVE  AttemptsAreKnown'
  <2>1. j \in LiveJobs /\ answer'.job = j
    BY <1>4 DEF MayOffer, Servable, Offer
  <2>2. \A k \in LiveJobs : k = j
    BY <2>1 DEF RInv, IInv, LiveIsOne
  <2> QED
    BY <1>1, <1>2, <1>4, <2>1, <2>2
       DEF RInv, AttemptsAreKnown, device_vars, history_vars
<1>5. \/ UNCHANGED answer
      \/ \E j \in Jobs : /\ MayOffer(m, j) /\ step = "waiting"
                         /\ answer' = Offer(j, firmware_jobs[j].expires_at)
  BY DEF HandleCheckIn
<1> QED BY <1>3, <1>4, <1>5

(* A check-in reports on the last job, which was tried. *)
LEMMA CheckInKnown == ASSUME RInv, CheckIn PROVE AttemptsAreKnown'
<1> DEFINE new == [n |-> check_in', job |-> last_job, result |-> last_result,
                   installed_sha256 |-> installed_sha256, resting |-> resting,
                   startup_settling |-> ~settled]
<1>1. /\ requests' \subseteq requests \cup {new}
      /\ answer' = NoOffer /\ step' = "waiting"
      /\ UNCHANGED <<relay_vars, nvs, last_job, last_result, history_vars>>
  BY DEF CheckIn
<1>2. new.job = last_job /\ new.result = last_result
  OBVIOUS
<1> HIDE DEF new
<1>3. LiveJobs' = LiveJobs
  BY <1>1 DEF LiveJobs, Held, relay_vars
<1> QED BY <1>1, <1>2, <1>3 DEF RInv, AttemptsAreKnown, history_vars

(* Taking up an offer: the job before it is no longer live. *)
LEMMA StartKnown == ASSUME RInv, StartAttempt PROVE AttemptsAreKnown'
<1>1. /\ answer # NoOffer /\ step' = "attempting"
      /\ last_job' = answer.job /\ tried' = tried \cup {answer.job}
      /\ UNCHANGED <<relay_vars, requests, answer>>
  BY DEF StartAttempt, AcceptableOffer
<1>2. answer.job # NoJob
  BY <1>1, OtaAssumption DEF RInv, IInv, OfferIsStaged, TypeOK
<1>3. nvs'.job = answer.job
  BY DEF StartAttempt, SaveAttempt, Record
<1>4. LiveJobs' = LiveJobs
  BY <1>1 DEF LiveJobs, Held, relay_vars
<1> QED BY <1>1, <1>2, <1>3, <1>4 DEF RInv, AttemptsAreKnown

(* The installer works on the last job only. *)
LEMMA InstallerKnown ==
  ASSUME RInv,
         NEW from \in {"attempting", "authenticated", "verified", "activated"},
         NEW to \in {"waiting", "authenticated", "verified", "activated"},
         InstallerStep(from, to),
         answer' = answer \/ (answer' = NoOffer /\ to = "waiting"),
         nvs'.job = nvs.job \/ nvs'.job = answer.job
  PROVE  AttemptsAreKnown'
<1>1. step = from /\ step' = to
      /\ UNCHANGED <<relay_vars, requests, last_job, last_result, history_vars>>
  BY DEF InstallerStep
<1>2. LiveJobs' = LiveJobs
  BY <1>1 DEF LiveJobs, Held, relay_vars
<1>3. nvs'.job = last_job
  BY <1>1 DEF RInv, AttemptsAreKnown
<1> QED BY <1>1, <1>2, <1>3 DEF RInv, AttemptsAreKnown, history_vars

(* A reboot takes the last job from the record. *)
LEMMA BeginKnown == ASSUME RInv, Begin PROVE AttemptsAreKnown'
<1>1. LiveJobs' = LiveJobs
  BY DEF Begin, LiveJobs, Held, relay_vars
<1> QED BY <1>1 DEF Begin, RInv, AttemptsAreKnown

(* Every step of Next keeps the invariant of the refinement. *)
LEMMA StepKnown == ASSUME RInv, [Next]_vars PROVE AttemptsAreKnown'
<1>1. CASE Staging
  BY <1>1, StageKnown DEF Staging
<1>2. CASE Handling
  BY <1>2, HandleKnown DEF Handling
<1>3. CASE Tick \/ NextLoop
  <2>1. LiveJobs' = LiveJobs
    BY <1>3 DEF Tick, NextLoop, LiveJobs, Held, relay_vars
  <2>2. CASE Tick
    BY <2>1, <2>2 DEF Tick, RInv, AttemptsAreKnown, device_vars, history_vars
  <2>3. CASE NextLoop
    BY <2>1, <2>3 DEF NextLoop, RInv, AttemptsAreKnown, history_vars
  <2> QED BY <1>3, <2>2, <2>3
<1>4. CASE CheckIn
  BY <1>4, CheckInKnown
<1>5. CASE StartAttempt
  BY <1>5, StartKnown
<1>6. CASE Download
  BY <1>6, InstallerKnown DEF Download
<1>7. CASE SaveVerified
  BY <1>7, InstallerKnown DEF SaveVerified, SaveAttempt, Record
<1>8. CASE Activate
  BY <1>8, InstallerKnown DEF Activate
<1>9. CASE AttemptFails
  BY <1>9, InstallerKnown DEF AttemptFails, SaveAttempt, SaveFails, Record
<1>10. CASE RestartIntoImage \/ LosePower
  BY <1>10, BeginKnown DEF RestartIntoImage, LosePower
<1>11. CASE UNCHANGED vars
  BY <1>11 DEF RInv, AttemptsAreKnown, LiveJobs, Held, vars, relay_vars,
               device_vars, history_vars
<1> QED
  BY <1>1, <1>2, <1>3, <1>4, <1>5, <1>6, <1>7, <1>8, <1>9, <1>10, <1>11
     DEF Next, Installing

----------------------------------------------------------------------------
(* What an offer is worth *)

(***************************************************************************)
(* The relay forgets a job only after its time is up, so an offer that has *)
(* not expired is of a job the table still holds.                          *)
(***************************************************************************)
OfferStands ==
  answer # NoOffer /\ answer.expires_at >= clock =>
    /\ answer.job \in Held
    /\ firmware_jobs[answer.job].expires_at = answer.expires_at

(* Handling a check-in moves no expiry. *)
LEMMA ExpiryKept ==
  ASSUME TypeOK, NEW m \in requests, NEW repeated \in BOOLEAN,
         HandleCheckIn(m, repeated)
  PROVE  /\ Held' = Held
         /\ \A j \in Held : firmware_jobs'[j].expires_at = firmware_jobs[j].expires_at
<1>1. DOMAIN AfterReport(m) = Held
  BY AfterReportTable
<1>2. ASSUME NEW j \in Held
      PROVE  /\ AfterReport(m)[j].expires_at = firmware_jobs[j].expires_at
             /\ AfterReport(m)[j] \in [status : JobStatuses, expires_at : Nat]
  <2>1. firmware_jobs[j] \in [status : JobStatuses, expires_at : Nat]
    BY DEF TypeOK
  <2>2. AfterReport(m)[j] \in {firmware_jobs[j],
                               [firmware_jobs[j] EXCEPT !.status = m.result]}
    BY DEF AfterReport, Held
  <2> QED BY <2>1, <2>2, AfterReportTable
<1>3. CASE firmware_jobs' = AfterReport(m)
  BY <1>1, <1>2, <1>3 DEF Held
<1>4. ASSUME NEW j \in Jobs,
             firmware_jobs' = [AfterReport(m) EXCEPT ![j].status = "offered"],
             NEW k \in Held
      PROVE  firmware_jobs'[k].expires_at = firmware_jobs[k].expires_at
  <2>1. firmware_jobs'[k] \in {AfterReport(m)[k],
                               [AfterReport(m)[k] EXCEPT !.status = "offered"]}
    BY <1>1, <1>4
  <2> QED BY <1>2, <2>1
<1>5. \/ firmware_jobs' = AfterReport(m)
      \/ \E j \in Jobs :
           firmware_jobs' = [AfterReport(m) EXCEPT ![j].status = "offered"]
  BY DEF HandleCheckIn
<1> QED BY <1>3, <1>4, <1>5, HandledTable

(* Every step of Next leaves an unexpired offer standing. *)
LEMMA StepStands ==
  ASSUME TypeOK, OfferStands, [Next]_vars
  PROVE  OfferStands'
<1>1. ASSUME NEW j \in Jobs, NEW lifetime \in 1 .. MaxLifetime, Stage(j, lifetime)
      PROVE  OfferStands'
  <2>1. SUFFICES ASSUME answer # NoOffer, answer.expires_at >= clock
                 PROVE  /\ answer.job \in Held'
                        /\ firmware_jobs'[answer.job].expires_at = answer.expires_at
    BY <1>1 DEF Stage, OfferStands
  <2> DEFINE k == answer.job
  <2>2. k \in Held /\ firmware_jobs[k].expires_at = answer.expires_at /\ k # j
    BY <1>1, <2>1 DEF OfferStands, Stage, TypeOK
  <2>3. firmware_jobs[k].expires_at >= clock - JobRetention
    BY <2>1, <2>2, OtaAssumption DEF TypeOK
  <2>4. k \in Held' /\ firmware_jobs'[k] = Superseded(k)
    BY <1>1, <2>2, <2>3 DEF Stage, Held
  <2>5. Superseded(k).expires_at = firmware_jobs[k].expires_at
    <3>1. firmware_jobs[k] \in [status : JobStatuses, expires_at : Nat]
      BY <2>2 DEF TypeOK
    <3>2. Superseded(k) \in {firmware_jobs[k],
                            [firmware_jobs[k] EXCEPT !.status = "superseded"]}
      BY DEF Superseded
    <3> QED BY <3>1, <3>2
  <2> QED BY <2>2, <2>4, <2>5
<1>2. ASSUME NEW m \in requests, NEW repeated \in BOOLEAN,
             HandleCheckIn(m, repeated)
      PROVE  OfferStands'
  <2>1. /\ Held' = Held /\ clock' = clock
        /\ \A j \in Held : firmware_jobs'[j].expires_at = firmware_jobs[j].expires_at
    BY <1>2, ExpiryKept DEF HandleCheckIn
  <2>2. \/ answer' = answer
        \/ \E j \in Held : answer' = Offer(j, firmware_jobs[j].expires_at)
    BY <1>2 DEF HandleCheckIn, MayOffer, Servable, LiveJobs
  <2> QED BY <2>1, <2>2 DEF OfferStands, Offer
<1>3. CASE Tick
  BY <1>3 DEF Tick, OfferStands, TypeOK, Held
<1>4. CASE CheckIn \/ NextLoop \/ LosePower \/ RestartIntoImage
  BY <1>4 DEF CheckIn, NextLoop, LosePower, RestartIntoImage, Begin, OfferStands
<1>5. CASE StartAttempt
  BY <1>5 DEF StartAttempt, OfferStands, relay_vars, Held
<1>6. CASE Download \/ SaveVerified \/ Activate \/ AttemptFails
  BY <1>6 DEF Download, SaveVerified, Activate, AttemptFails, InstallerStep,
              OfferStands, relay_vars, Held
<1>7. CASE UNCHANGED vars
  BY <1>7 DEF vars, relay_vars, OfferStands, Held
<1> QED
  BY <1>1, <1>2, <1>3, <1>4, <1>5, <1>6, <1>7
     DEF Next, Staging, Handling, Installing

(***************************************************************************)
(* In every behaviour of Spec: what the device and the table know of       *)
(* attempts agrees, and an unexpired offer is of a job that is held.       *)
(***************************************************************************)
THEOREM AttemptsAgree == Spec => [](RInv /\ OfferStands)
<1>1. Init => RInv /\ OfferStands
  BY InitRInv DEF Init, OfferStands
<1>2. IInv /\ IInv' /\ RInv /\ OfferStands /\ [Next]_vars => (RInv /\ OfferStands)'
  BY StepKnown, StepStands DEF RInv, IInv
<1>3. Spec => []IInv
  BY TruthfulTable
<1> QED BY <1>1, <1>2, <1>3, PTL DEF Spec

----------------------------------------------------------------------------
(* The simulation *)

(* A step that changes neither a status nor the attempts is a stutter. *)
LEMMA StatusKept ==
  ASSUME UNCHANGED <<firmware_jobs, tried>>
  PROVE  UNCHANGED L!lifecycle_vars
  BY DEF L!lifecycle_vars, status, Held

(* Staging is staging; what the table drops is forgotten. *)
LEMMA StageSimulates ==
  ASSUME RInv, NEW j \in Jobs, NEW lifetime \in 1 .. MaxLifetime, Stage(j, lifetime)
  PROVE  L!LifecycleNext
<1> DEFINE kept == {k \in Held : firmware_jobs[k].expires_at >= clock - JobRetention}
<1> DEFINE forgotten == Held \ kept
<1>1. /\ Held' = kept \cup {j}
      /\ \A k \in kept \cup {j} :
           firmware_jobs'[k] = IF k = j THEN [status |-> "pending",
                                              expires_at |-> clock + lifetime]
                               ELSE Superseded(k)
      /\ tried' = tried
  BY DEF Stage, Held
<1>2. j \notin Held /\ j \notin tried /\ Held \subseteq Jobs
  BY DEF Stage, RInv, IInv, TypeOK
<1>3. status[j] = "absent"
  BY <1>2 DEF status
<1>4. ASSUME NEW k \in Jobs
      PROVE  status'[k] = IF k = j THEN "pending"
                          ELSE IF k \in forgotten THEN "absent"
                          ELSE IF status[k] \in L!Live THEN "superseded"
                          ELSE status[k]
  <2>1. CASE k = j
    BY <1>1, <2>1 DEF status
  <2>2. CASE k # j /\ k \notin kept
    BY <1>1, <2>2 DEF status, L!Live
  <2>3. CASE k # j /\ k \in kept
    <3>1. status[k] = firmware_jobs[k].status /\ k \notin forgotten
      BY <2>3 DEF status
    <3>2. status'[k] = Superseded(k).status
      BY <1>1, <2>3 DEF status
    <3>3. firmware_jobs[k] \in [status : JobStatuses, expires_at : Nat]
      BY <2>3 DEF RInv, IInv, TypeOK
    <3>4. CASE k \in LiveJobs
      <4>1. Superseded(k) = [firmware_jobs[k] EXCEPT !.status = "superseded"]
        BY <3>4 DEF Superseded
      <4>2. Superseded(k).status = "superseded"
        BY <3>3, <4>1
      <4> QED BY <2>3, <3>1, <3>2, <3>4, <4>2 DEF LiveJobs, LiveStatus, L!Live
    <3>5. CASE k \notin LiveJobs
      <4>1. Superseded(k) = firmware_jobs[k] /\ firmware_jobs[k].status \notin LiveStatus
        BY <2>3, <3>5 DEF Superseded, LiveJobs
      <4> QED BY <2>3, <3>1, <3>2, <4>1 DEF LiveStatus, L!Live
    <3> QED BY <3>4, <3>5
  <2> QED BY <2>1, <2>2, <2>3
<1>5. status' = [k \in Jobs |->
                   IF k = j THEN "pending"
                   ELSE IF k \in forgotten THEN "absent"
                   ELSE IF status[k] \in L!Live THEN "superseded"
                   ELSE status[k]]
  BY <1>4 DEF status
<1>6. forgotten \in SUBSET Jobs
  BY <1>2
<1>7. L!StageJob(j, forgotten)
  BY <1>1, <1>2, <1>3, <1>5 DEF L!StageJob
<1> QED BY <1>6, <1>7 DEF L!LifecycleNext

(***************************************************************************)
(* A check-in settles the reported job or offers the live one, never both: *)
(* there is one live job, and settling it leaves none to offer.            *)
(***************************************************************************)
LEMMA HandleSimulates ==
  ASSUME RInv, NEW m \in requests, NEW repeated \in BOOLEAN,
         HandleCheckIn(m, repeated)
  PROVE  L!LifecycleNext \/ UNCHANGED L!lifecycle_vars
<1>1. tried' = tried /\ Held' = Held
  BY HandledTable DEF HandleCheckIn, history_vars, RInv, IInv
<1>2. ASSUME NEW j \in Jobs, NEW to, j \in LiveJobs,
             firmware_jobs' = [firmware_jobs EXCEPT ![j].status = to]
      PROVE  /\ status[j] \in L!Live
             /\ status' = [status EXCEPT ![j] = to]
  <2>1. j \in Held /\ firmware_jobs[j].status \in LiveStatus
        /\ firmware_jobs[j] \in [status : JobStatuses, expires_at : Nat]
    BY <1>2 DEF LiveJobs, RInv, IInv, TypeOK
  <2>2. status[j] \in L!Live
    BY <2>1 DEF status, L!Live, LiveStatus
  <2>3. firmware_jobs'[j] = [firmware_jobs[j] EXCEPT !.status = to]
    BY <1>2, <2>1 DEF Held
  <2>4. firmware_jobs'[j].status = to
    BY <2>1, <2>3
  <2>5. \A k \in Held : k # j => firmware_jobs'[k] = firmware_jobs[k]
    BY <1>2 DEF Held
  <2>6. \A k \in Jobs : status'[k] = IF k = j THEN to ELSE status[k]
    BY <1>1, <2>1, <2>4, <2>5 DEF status
  <2> QED BY <2>2, <2>6 DEF status
<1>3. CASE ReportCounts(m)
  <2>1. m.job \in LiveJobs /\ m.result \in {"failed", "installed"}
    BY <1>3 DEF ReportCounts
  <2>2. m.job \in Jobs
    BY <2>1 DEF LiveJobs, RInv, IInv, TypeOK
  <2>3. AfterReport(m) = [firmware_jobs EXCEPT ![m.job].status = m.result]
    BY <1>3 DEF AfterReport
  <2>4. AfterReport(m)[m.job].status = m.result
    <3>1. firmware_jobs[m.job] \in [status : JobStatuses, expires_at : Nat]
          /\ m.job \in Held
      BY <2>1 DEF LiveJobs, RInv, IInv, TypeOK
    <3>2. AfterReport(m)[m.job] = [firmware_jobs[m.job] EXCEPT !.status = m.result]
      BY <2>3, <3>1 DEF Held
    <3> QED BY <3>1, <3>2
  <2>5. \A j \in Jobs : ~MayOffer(m, j)
    BY <2>1, <2>4 DEF MayOffer, Servable, LiveStatus, RInv, IInv, LiveIsOne
  <2>6. firmware_jobs' = AfterReport(m)
    BY <2>5 DEF HandleCheckIn
  <2>7. m.job \in tried
    BY <2>1 DEF RInv, AttemptsAreKnown
  <2>8. L!SettleJob(m.job, m.result)
    BY <1>1, <1>2, <2>1, <2>2, <2>3, <2>6, <2>7 DEF L!SettleJob
  <2> QED BY <2>1, <2>2, <2>8 DEF L!LifecycleNext
<1>4. CASE ~ReportCounts(m)
  <2>1. AfterReport(m) = firmware_jobs
    BY <1>4 DEF AfterReport
  <2>2. CASE firmware_jobs' = AfterReport(m)
    BY <1>1, <2>1, <2>2, StatusKept
  <2>3. ASSUME NEW j \in Jobs, MayOffer(m, j),
               firmware_jobs' = [AfterReport(m) EXCEPT ![j].status = "offered"]
        PROVE  L!LifecycleNext
    <3>1. j \in LiveJobs
      BY <2>3 DEF MayOffer, Servable
    <3>2. L!OfferJob(j)
      BY <1>1, <1>2, <2>1, <2>3, <3>1 DEF L!OfferJob
    <3> QED BY <3>2 DEF L!LifecycleNext
  <2> QED BY <2>2, <2>3 DEF HandleCheckIn
<1> QED BY <1>3, <1>4

(* An attempt is the first at its job, and the relay still holds it. *)
LEMMA StartSimulates ==
  ASSUME RInv, OfferStands, StartAttempt
  PROVE  L!LifecycleNext
<1>1. /\ answer # NoOffer /\ answer.job # last_job /\ answer.expires_at >= clock
      /\ tried' = tried \cup {answer.job} /\ firmware_jobs' = firmware_jobs
  BY DEF StartAttempt, AcceptableOffer, relay_vars
<1>2. answer.job \notin tried
  BY <1>1 DEF RInv, AttemptsAreKnown
<1>3. answer.job \in Held /\ answer.job \in Jobs
  BY <1>1 DEF OfferStands, RInv, IInv, TypeOK
<1>4. firmware_jobs[answer.job].status \in JobStatuses
  BY <1>3 DEF RInv, IInv, TypeOK
<1>5. status[answer.job] # "absent"
  BY <1>3, <1>4 DEF status, JobStatuses, LiveStatus
<1>6. status' = status
  BY <1>1 DEF status, Held
<1>7. L!TryJob(answer.job)
  BY <1>1, <1>2, <1>5, <1>6 DEF L!TryJob
<1> QED BY <1>3, <1>7 DEF L!LifecycleNext

(***************************************************************************)
(* The relay's table and the device keep what the operator is promised:    *)
(* the detailed specification implements UpdateLifecycle under the         *)
(* refinement mapping of Ota.  No job is tried a second time, none is      *)
(* settled without an attempt, and a settled status stays.                 *)
(***************************************************************************)
THEOREM LifecycleKept == Spec => Lifecycle
<1>1. Init => L!LifecycleInit
  BY DEF Init, L!LifecycleInit, status, Held
<1>2. RInv /\ OfferStands /\ [Next]_vars => [L!LifecycleNext]_(L!lifecycle_vars)
  <2> SUFFICES ASSUME RInv, OfferStands, [Next]_vars
               PROVE  L!LifecycleNext \/ UNCHANGED L!lifecycle_vars
    OBVIOUS
  <2>1. CASE Staging
    BY <2>1, StageSimulates DEF Staging
  <2>2. CASE Handling
    BY <2>2, HandleSimulates DEF Handling
  <2>3. CASE StartAttempt
    BY <2>3, StartSimulates
  <2>4. CASE Tick \/ CheckIn \/ NextLoop
    BY <2>4, StatusKept DEF Tick, CheckIn, NextLoop, relay_vars, history_vars
  <2>5. CASE Download \/ SaveVerified \/ Activate \/ AttemptFails
    BY <2>5, StatusKept
       DEF Download, SaveVerified, Activate, AttemptFails, InstallerStep,
           relay_vars, history_vars
  <2>6. CASE RestartIntoImage \/ LosePower
    BY <2>6, StatusKept DEF RestartIntoImage, LosePower, Begin, relay_vars
  <2>7. CASE UNCHANGED vars
    BY <2>7, StatusKept DEF vars, relay_vars, history_vars
  <2> QED BY <2>1, <2>2, <2>3, <2>4, <2>5, <2>6, <2>7 DEF Next, Installing
<1>3. Spec => [](RInv /\ OfferStands)
  BY AttemptsAgree
<1> QED BY <1>1, <1>2, <1>3, PTL DEF Spec, Lifecycle, L!LifecycleSpec
=============================================================================
