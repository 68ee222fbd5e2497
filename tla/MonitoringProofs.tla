-------------------------- MODULE MonitoringProofs --------------------------
(***************************************************************************)
(* Device and relay agree about the end of a load, for every setting in    *)
(* which they share their thresholds and the device's quiet time outlasts  *)
(* the relay's.                                                            *)
(***************************************************************************)
EXTENDS Monitoring, ListProofs

----------------------------------------------------------------------------
(* The inductive invariant *)

(* The monitor's memory, and of the device what the relay's answer rests on. *)
Memory ==
  /\ seen \in Nat
  /\ chunk \in Seq(Reading) /\ Len(chunk) <= SERVER_CLASSIFIER_SMOOTHING_SAMPLES - 1
  /\ active_time \in Nat
  /\ quiet_for \in Nat \cup {NotQuiet}
  /\ now \in D!Clock /\ quiet_started \in D!Clock
  /\ recent_windows = <<>>

MemoryOK == Memory /\ silence \in Nat

(* Nothing is armed, and no reading a later average can reach shows motion. *)
Settled == ~Armed /\ \A j \in 1 .. Len(chunk) : Calm(chunk[j])

(***************************************************************************)
(* The relay counts the quiet along with the device: it has received the   *)
(* c quiet windows of the device's quiet time so far, one every poll at    *)
(* least.                                                                  *)
(***************************************************************************)
QuietWindows(c) ==
  /\ D!Elapsed(now, quiet_started) <= (c - 1) * running_poll
  /\ seen >= UpTo(SERVER_CLASSIFIER_SMOOTHING_SAMPLES, c)
  /\ \A j \in 1 .. Len(chunk) : j > Len(chunk) - c => RawPhase(chunk[j]) = "quiet"

Counting ==
  /\ D!Elapsed(now, quiet_started) < SERVER_DONE_QUIET
  /\ D!Elapsed(now, quiet_started) <= quiet_for
  /\ \E c \in Nat \ {0} : QuietWindows(c)

MInv ==
  /\ MemoryOK
  /\ ~quiet_lost =>
       /\ state = "QuietCandidate" /\ quiet_started # 0
            => Settled \/ (Counting /\ silence = 0)
       /\ state = "DoneSent" => Settled

----------------------------------------------------------------------------
(* One window, as both sides read it *)

LEMMA SingleSum ==
  ASSUME NEW s \in Seq(Int), Len(s) = 1
  PROVE  SumOf(s) = s[1]
<1>1. PICK f \in [0 .. Len(s) -> Int] :
        /\ f[0] = 0 /\ \A i \in 1 .. Len(s) : f[i] = f[i - 1] + s[i]
        /\ SumOf(s) = f[Len(s)]
  BY SumsUp
<1>2. f[1] = f[0] + s[1] /\ s[1] \in Int
  <2>1. 1 \in 1 .. Len(s) /\ 1 - 1 = 0
    OBVIOUS
  <2>2. f[1] = f[1 - 1] + s[1]
    BY <1>1, <2>1
  <2> QED
    BY <2>1, <2>2
<1> QED
  BY <1>1, <1>2

(* The device does not smooth. *)
LEMMA WindowAlone ==
  ASSUME NEW w \in Windows, recent_windows = <<>>
  PROVE  /\ D!Smoothed(w) = [rms |-> w.rms, peak |-> w.peak, count |-> 1]
         /\ D!Remember(w) = <<>>
<1>1. w.rms \in Nat /\ w.peak \in Nat /\ w.seconds \in Nat
  BY DeviceAssumption
<1> DEFINE b == Append(recent_windows, w)
           u == [i \in 1 .. Len(b) |-> b[i].rms]
           v == [i \in 1 .. Len(b) |-> b[i].peak]
<1>2. Len(b) = 1 /\ b[1] = w
  OBVIOUS
<1>3. u \in Seq(Int) /\ Len(u) = 1 /\ u[1] = w.rms
  BY <1>1, <1>2
<1>4. v \in Seq(Int) /\ Len(v) = 1 /\ v[1] = w.peak
  BY <1>1, <1>2
<1>5. D!Smoothed(w) = [rms |-> SumOf(u), peak |-> SumOf(v), count |-> Len(b)]
  BY DEF D!Smoothed, D!Total, SumOf
<1>6. SumOf(u) = w.rms /\ SumOf(v) = w.peak
  <2> HIDE DEF u, v, b
  <2> QED
    BY <1>3, <1>4, SingleSum
<1>7. D!SmoothingCount - 1 = 0
  BY SharedThresholds DEF D!SmoothingCount, D!kMaxSmoothingSamples
<1>8. D!Remember(w) = SubSeq(b, 2, 1)
  BY <1>2, <1>7 DEF D!Remember, D!LastOnes
<1> QED
  BY <1>2, <1>5, <1>6, <1>8

(* What one side reads in a window tells what the other does. *)
LEMMA WindowPhases ==
  ASSUME NEW w \in Windows, recent_windows = <<>>
  PROVE  LET s == D!Smoothed(w)
             r == Posted(w)
         IN  /\ r \in Reading
             /\ ~D!IsActive(s) => Calm(r)
             /\ ~D!Valid(w) => NoEvidence(r)
             /\ RawPhase(r) = "quiet" <=> D!Valid(w) /\ D!IsQuiet(s) /\ ~D!IsActive(s)
<1> DEFINE s == D!Smoothed(w)
           r == Posted(w)
<1>1. w.rms \in Nat /\ w.peak \in Nat /\ w.seconds \in Nat
  BY DeviceAssumption
<1>2. s.rms = w.rms /\ s.peak = w.peak /\ s.count = 1
  BY WindowAlone
<1>3. r.rms = w.rms /\ r.peak = w.peak /\ r.valid = (w.seconds > 0) /\ r \in Reading
  BY <1>1 DEF Posted, Reading
<1> HIDE DEF s, r
<1>4. D!IsActive(s) <=> w.rms >= MOTION_ACTIVE_RMS_MG \/ w.peak >= MOTION_ACTIVE_PEAK_MG
  BY <1>2, SharedThresholds, ClassifierAssumption DEF D!IsActive
<1>5. D!IsQuiet(s) <=> w.rms <= MOTION_QUIET_RMS_MG
  BY <1>2, SharedThresholds, ClassifierAssumption DEF D!IsQuiet
<1>6. D!Valid(w) <=> MotionValuesValid(r)
  <2>1. r.valid <=> w.seconds > 0
    BY DEF Posted, r
  <2>2. D!Valid(w) <=> w.seconds > 0 /\ w.peak >= w.rms
    BY <1>1 DEF D!Valid
  <2> QED
    BY <1>3, <2>1, <2>2 DEF MotionValuesValid
<1>7. ~D!IsActive(s) => Calm(r)
  BY <1>1, <1>3, <1>4, ClassifierAssumption DEF Calm
<1>8. ~D!Valid(w) => NoEvidence(r)
  BY <1>6 DEF NoEvidence, RawPhase
<1>9. RawPhase(r) = "quiet" <=> D!Valid(w) /\ D!IsQuiet(s) /\ ~D!IsActive(s)
  <2>1. RawPhase(r) = IF D!Valid(w) THEN ClassifySums(w.rms, w.peak, 1) ELSE "invalid"
    BY <1>3, <1>6 DEF RawPhase
  <2>2. ClassifySums(w.rms, w.peak, 1) = "quiet" <=> D!IsQuiet(s) /\ ~D!IsActive(s)
    BY <1>1, <1>4, <1>5, ClassifierAssumption, SharedThresholds DEF ClassifySums
  <2> QED
    BY <2>1, <2>2
<1> QED
  BY <1>3, <1>7, <1>8, <1>9 DEF s, r

----------------------------------------------------------------------------
(* One sample received *)

LEMMA LastOfIs ==
  ASSUME NEW s \in Seq(Reading), NEW n \in Nat
  PROVE  LET t == LastOf(s, n)
         IN  /\ t \in Seq(Reading) /\ Len(t) <= n /\ Len(t) <= Len(s)
             /\ \A j \in 1 .. Len(t) : /\ Len(s) - Len(t) + j \in 1 .. Len(s)
                                       /\ t[j] = s[Len(s) - Len(t) + j]
<1>1. CASE Len(s) <= n
  BY <1>1 DEF LastOf
<1>2. CASE ~(Len(s) <= n)
  <2> DEFINE m == Len(s) - n + 1
  <2>1. m \in 1 .. Len(s) + 1 /\ Len(s) - m + 1 = n /\ Len(s) \in Nat
    BY <1>2
  <2>2. LastOf(s, n) = SubSeq(s, m, Len(s))
    BY <1>2 DEF LastOf
  <2> HIDE DEF m
  <2>3. LET t == SubSeq(s, m, Len(s))
        IN  t \in Seq(Reading) /\ Len(t) = n /\ \A j \in 1 .. n : t[j] = s[m + j - 1]
    BY <2>1
  <2>4. \A j \in 1 .. n : m + j - 1 = Len(s) - n + j /\ Len(s) - n + j \in 1 .. Len(s)
    BY <1>2 DEF m
  <2> DEFINE t == SubSeq(s, m, Len(s))
  <2>5. \A j \in 1 .. n : t[j] = s[Len(s) - n + j]
    BY <2>3, <2>4
  <2>6. t \in Seq(Reading) /\ Len(t) = n /\ n <= Len(s)
    BY <1>2, <2>1, <2>3
  <2> HIDE DEF t
  <2>7. LastOf(s, n) = t
    BY <2>2 DEF t
  <2> QED
    BY <2>4, <2>5, <2>6, <2>7
<1> QED
  BY <1>1, <1>2

Continues(same, step) == same /\ seen > 0 /\ 0 < step /\ step <= SERVER_MAX_SAMPLE_GAP

Averaged(same, step, r) == Append(IF Continues(same, step) THEN chunk ELSE <<>>, r)

(* What a sample does to the memory, apart from the detail of the runtime. *)
LEMMA SampleReceived ==
  ASSUME Memory, NEW same, NEW step \in Nat, NEW r \in Reading, Receive(same, step, r)
  PROVE  LET averaged == Averaged(same, step, r)
             phase    == IF NoEvidence(r) THEN RawPhase(r) ELSE ChunkPhase(averaged)
         IN  /\ averaged \in Seq(Reading) /\ averaged # <<>>
             /\ seen' = UpTo(SERVER_CLASSIFIER_SMOOTHING_SAMPLES,
                             IF Continues(same, step) THEN seen + 1 ELSE 1)
             /\ chunk' = IF NoEvidence(r) THEN <<>>
                         ELSE LastOf(averaged, SERVER_CLASSIFIER_SMOOTHING_SAMPLES - 1)
             /\ quiet_for' = IF RawPhase(r) # "quiet" THEN NotQuiet
                             ELSE IF Continues(same, step) /\ quiet_for # NotQuiet
                                  THEN UpTo(SERVER_DONE_QUIET, quiet_for + step)
                             ELSE 0
             /\ active_time' \in Nat
             /\ ~Continues(same, step) => active_time' = 0
             /\ phase # "active" => active_time' <= active_time
             /\ (/\ seen' = SERVER_CLASSIFIER_SMOOTHING_SAMPLES
                 /\ phase = "quiet"
                 /\ quiet_for' >= SERVER_DONE_QUIET) => active_time' < SERVER_MINIMUM_RUNTIME
             /\ alert' => quiet_for' >= SERVER_DONE_QUIET
<1> DEFINE continues == Continues(same, step)
           averaged  == Averaged(same, step, r)
           phase     == IF NoEvidence(r) THEN RawPhase(r) ELSE ChunkPhase(averaged)
           is_active == phase = "active"
           earned    == IF ~continues THEN 0
                        ELSE IF is_active /\ counted
                             THEN UpTo(SERVER_MINIMUM_RUNTIME, active_time + step)
                        ELSE active_time
           quiet     == IF RawPhase(r) # "quiet" THEN NotQuiet
                        ELSE IF continues /\ quiet_for # NotQuiet
                             THEN UpTo(SERVER_DONE_QUIET, quiet_for + step)
                        ELSE 0
           enough    == UpTo(SERVER_CLASSIFIER_SMOOTHING_SAMPLES,
                             IF continues THEN seen + 1 ELSE 1)
           stopped   == /\ enough = SERVER_CLASSIFIER_SMOOTHING_SAMPLES
                        /\ phase = "quiet"
                        /\ quiet >= SERVER_DONE_QUIET
                        /\ earned >= SERVER_MINIMUM_RUNTIME
<1>1. /\ seen' = enough
      /\ chunk' = IF NoEvidence(r) THEN <<>>
                  ELSE LastOf(averaged, SERVER_CLASSIFIER_SMOOTHING_SAMPLES - 1)
      /\ quiet_for' = quiet
      /\ alert' = stopped
      /\ active_time' = IF stopped THEN 0 ELSE earned
  BY DEF Receive, Continues, Averaged
<1>2. averaged \in Seq(Reading) /\ averaged # <<>>
  BY DEF Memory, Averaged
<1> HIDE DEF continues, averaged, phase
<1>3. earned \in Nat /\ (~continues => earned = 0) /\ (~is_active => earned <= active_time)
  BY MonitorAssumption DEF Memory, UpTo
<1>4. active_time' \in Nat /\ (~continues => active_time' = 0)
  BY <1>1, <1>3
<1>5. ~is_active => active_time' <= active_time
  BY <1>1, <1>3 DEF Memory
<1>6. enough = SERVER_CLASSIFIER_SMOOTHING_SAMPLES /\ phase = "quiet" /\ quiet >= SERVER_DONE_QUIET
        => active_time' < SERVER_MINIMUM_RUNTIME
  <2> HIDE DEF enough, quiet
  <2> QED
    BY <1>1, <1>3, MonitorAssumption
<1>7. alert' => quiet_for' >= SERVER_DONE_QUIET
  BY <1>1
<1> QED
  BY <1>1, <1>2, <1>4, <1>5, <1>6, <1>7 DEF continues, averaged, phase

(* The memory keeps its types, and its readings were averaged last. *)
LEMMA MemoryReceived ==
  ASSUME Memory, NEW same, NEW step \in Nat, NEW r \in Reading, Receive(same, step, r)
  PROVE  /\ seen' \in Nat /\ active_time' \in Nat /\ quiet_for' \in Nat \cup {NotQuiet}
         /\ chunk' \in Seq(Reading)
         /\ Len(chunk') <= SERVER_CLASSIFIER_SMOOTHING_SAMPLES - 1
         /\ LET averaged == Averaged(same, step, r)
            IN  \A j \in 1 .. Len(chunk') :
                  LET k == Len(averaged) - Len(chunk') + j
                  IN  ~NoEvidence(r) /\ k \in 1 .. Len(averaged) /\ chunk'[j] = averaged[k]
<1> DEFINE averaged == Averaged(same, step, r)
           n == SERVER_CLASSIFIER_SMOOTHING_SAMPLES - 1
<1>1. /\ averaged \in Seq(Reading)
      /\ seen' = UpTo(SERVER_CLASSIFIER_SMOOTHING_SAMPLES,
                      IF Continues(same, step) THEN seen + 1 ELSE 1)
      /\ chunk' = IF NoEvidence(r) THEN <<>> ELSE LastOf(averaged, n)
      /\ quiet_for' = IF RawPhase(r) # "quiet" THEN NotQuiet
                      ELSE IF Continues(same, step) /\ quiet_for # NotQuiet
                           THEN UpTo(SERVER_DONE_QUIET, quiet_for + step)
                      ELSE 0
      /\ active_time' \in Nat
  BY SampleReceived
<1>2. n \in Nat
  BY ClassifierAssumption
<1>3. seen' \in Nat
  BY <1>1, ClassifierAssumption DEF Memory, UpTo
<1>4. quiet_for' \in Nat \cup {NotQuiet}
  BY <1>1, MonitorAssumption DEF Memory, UpTo, NotQuiet
<1> HIDE DEF averaged, n
<1>5. CASE NoEvidence(r)
  BY <1>1, <1>2, <1>3, <1>4, <1>5 DEF averaged, n
<1>6. CASE ~NoEvidence(r)
  <2> DEFINE t == LastOf(averaged, n)
  <2>1. /\ t \in Seq(Reading) /\ Len(t) <= n /\ Len(t) <= Len(averaged)
        /\ \A j \in 1 .. Len(t) : /\ Len(averaged) - Len(t) + j \in 1 .. Len(averaged)
                                  /\ t[j] = averaged[Len(averaged) - Len(t) + j]
    BY <1>1, <1>2, LastOfIs
  <2>2. chunk' = t
    BY <1>1, <1>6
  <2> HIDE DEF t
  <2> QED
    BY <1>1, <1>3, <1>4, <1>6, <2>1, <2>2 DEF averaged, n
<1> QED
  BY <1>5, <1>6

(* A sample without motion leaves nothing armed if nothing was. *)
LEMMA CalmReceived ==
  ASSUME Memory, NEW same, NEW step \in Nat, NEW r \in Reading, Receive(same, step, r),
         NoEvidence(r) \/ Calm(r), Settled \/ ~Continues(same, step)
  PROVE  Settled'
<1> DEFINE averaged == Averaged(same, step, r)
           phase == IF NoEvidence(r) THEN RawPhase(r) ELSE ChunkPhase(averaged)
<1>1. /\ averaged \in Seq(Reading) /\ averaged # <<>> /\ active_time' \in Nat
      /\ ~Continues(same, step) => active_time' = 0
      /\ phase # "active" => active_time' <= active_time
  BY SampleReceived
<1>2. ~NoEvidence(r) => \A k \in 1 .. Len(averaged) : Calm(averaged[k])
  <2> SUFFICES ASSUME ~NoEvidence(r), NEW k \in 1 .. Len(averaged)
               PROVE  Calm(averaged[k])
    OBVIOUS
  <2>1. Calm(r)
    OBVIOUS
  <2>2. CASE Continues(same, step)
    <3>1. averaged = Append(chunk, r) /\ Settled
      BY <2>2 DEF Averaged
    <3>2. averaged[k] = r \/ (k \in 1 .. Len(chunk) /\ averaged[k] = chunk[k])
      BY <3>1 DEF Memory
    <3> QED
      BY <2>1, <3>1, <3>2 DEF Settled
  <2>3. CASE ~Continues(same, step)
    <3>1. averaged = <<r>>
      BY <2>3 DEF Averaged
    <3> QED
      BY <2>1, <3>1
  <2> QED
    BY <2>2, <2>3
<1>3. phase # "active"
  <2>1. NoEvidence(r) => phase # "active"
    BY DEF NoEvidence
  <2>2. ~NoEvidence(r) => phase # "active"
    <3> HIDE DEF averaged
    <3> QED
      BY <1>1, <1>2, CalmAverage
  <2> QED
    BY <2>1, <2>2
<1> HIDE DEF phase
<1>4. active_time' < SERVER_MINIMUM_RUNTIME
  BY <1>1, <1>3, MonitorAssumption DEF Settled, Armed, Memory
<1>5. \A j \in 1 .. Len(chunk') : Calm(chunk'[j])
  <2> HIDE DEF averaged
  <2>1. \A j \in 1 .. Len(chunk') :
          LET k == Len(averaged) - Len(chunk') + j
          IN  ~NoEvidence(r) /\ k \in 1 .. Len(averaged) /\ chunk'[j] = averaged[k]
    BY MemoryReceived DEF averaged
  <2> QED
    BY <1>2, <2>1
<1>6. ~Armed'
  BY <1>1, <1>4, MonitorAssumption DEF Armed
<1> QED
  BY <1>5, <1>6 DEF Settled

(* After a quiet sample the readings at the end of the memory are quiet. *)
LEMMA QuietTail ==
  ASSUME Memory, NEW same, NEW step \in Nat, NEW r \in Reading, Receive(same, step, r),
         RawPhase(r) = "quiet", NEW c \in Nat,
         c # 0 => /\ Continues(same, step)
                  /\ \A j \in 1 .. Len(chunk) : j > Len(chunk) - c => RawPhase(chunk[j]) = "quiet"
  PROVE  LET averaged == Averaged(same, step, r)
         IN  /\ \A k \in 1 .. Len(averaged) :
                  k > Len(averaged) - (c + 1) => RawPhase(averaged[k]) = "quiet"
             /\ \A j \in 1 .. Len(chunk') :
                  j > Len(chunk') - (c + 1) => RawPhase(chunk'[j]) = "quiet"
<1> DEFINE averaged == Averaged(same, step, r)
           old == IF Continues(same, step) THEN chunk ELSE <<>>
<1>1. averaged = Append(old, r) /\ old \in Seq(Reading)
  BY DEF Averaged, Memory
<1>2. c # 0 => old = chunk
  OBVIOUS
<1> HIDE DEF averaged, old
<1>3. Len(averaged) = Len(old) + 1 /\ Len(old) \in Nat
  BY <1>1
<1>4. \A k \in 1 .. Len(averaged) :
        k > Len(averaged) - (c + 1) => RawPhase(averaged[k]) = "quiet"
  <2> SUFFICES ASSUME NEW k \in 1 .. Len(averaged), k > Len(averaged) - (c + 1)
               PROVE  RawPhase(averaged[k]) = "quiet"
    OBVIOUS
  <2>1. CASE k = Len(old) + 1
    <3>1. averaged[k] = r
      BY <1>1, <2>1
    <3> QED
      BY <3>1
  <2>2. CASE k # Len(old) + 1
    <3>1. k \in 1 .. Len(old) /\ c # 0 /\ k > Len(old) - c
      BY <1>3, <2>2
    <3>2. averaged[k] = old[k]
      BY <1>1, <3>1
    <3> QED
      BY <1>2, <3>1, <3>2
  <2> QED
    BY <2>1, <2>2
<1>5. \A j \in 1 .. Len(chunk') :
        LET k == Len(averaged) - Len(chunk') + j
        IN  k \in 1 .. Len(averaged) /\ chunk'[j] = averaged[k]
  BY MemoryReceived DEF averaged
<1>6. Len(chunk') \in Nat
  <2>1. chunk' \in Seq(Reading)
    BY MemoryReceived
  <2> QED
    BY <2>1
<1>7. \A j \in 1 .. Len(chunk') :
        j > Len(chunk') - (c + 1) => RawPhase(chunk'[j]) = "quiet"
  <2> TAKE j \in 1 .. Len(chunk')
  <2> DEFINE k == Len(averaged) - Len(chunk') + j
  <2> HAVE j > Len(chunk') - (c + 1)
  <2>1. k \in 1 .. Len(averaged) /\ chunk'[j] = averaged[k]
    BY <1>5
  <2>2. k > Len(averaged) - (c + 1)
    BY <1>3, <1>6
  <2> HIDE DEF k
  <2> QED
    BY <1>4, <2>1, <2>2
<1> QED
  BY <1>4, <1>7 DEF averaged

----------------------------------------------------------------------------
(* A quiet window *)

(* Polls that cover the relay's quiet time fill one of its averages. *)
LEMMA PollsFillAverage ==
  ASSUME NEW c \in Nat, c * running_poll >= SERVER_DONE_QUIET
  PROVE  c >= SERVER_CLASSIFIER_SMOOTHING_SAMPLES - 1
<1> DEFINE n == SERVER_CLASSIFIER_SMOOTHING_SAMPLES - 1
           p == running_poll
           d == n - c
<1>1. n \in Nat /\ p \in Nat \ {0} /\ n * p <= SERVER_DONE_QUIET /\ SERVER_DONE_QUIET \in Nat
  BY ClassifierAssumption, MonitorAssumption, DeviceAssumption, DeviceOutlastsRelay
<1>2. c * p >= n * p
  <2> HIDE DEF n, p
  <2>1. n * p \in Int /\ running_poll = p
    BY <1>1 DEF p
  <2>2. c * p \in Int /\ c * p >= SERVER_DONE_QUIET
    BY <1>1, <2>1
  <2> QED
    BY <1>1, <2>1, <2>2
<1> HIDE DEF n, p
<1>3. SUFFICES ASSUME c < n PROVE FALSE
  BY <1>1 DEF n
<1>4. d \in Nat \ {0} /\ n = c + d
  BY <1>1, <1>3
<1> HIDE DEF d
<1>5. n * p = c * p + d * p
  BY <1>1, <1>4
<1>6. d * p \in Nat \ {0} /\ c * p \in Int
  BY <1>1, <1>4
<1> QED
  BY <1>2, <1>5, <1>6

(***************************************************************************)
(* A quiet sample is counted by the relay as the window was by the device; *)
(* once the relay has counted enough it has decided, and nothing is armed. *)
(***************************************************************************)
LEMMA QuietReceived ==
  ASSUME Memory, NEW same, NEW step \in Nat, NEW r \in Reading, Receive(same, step, r),
         RawPhase(r) = "quiet",
         D!Elapsed(now, quiet_started) \in Nat,
         D!Elapsed(now, quiet_started)' \in Nat,
         \/ D!Elapsed(now, quiet_started)' = 0
         \/ /\ Settled \/ (Counting /\ step <= running_poll)
            /\ D!Elapsed(now, quiet_started)' <= D!Elapsed(now, quiet_started) + step
  PROVE  (Settled \/ Counting)'
<1> DEFINE e == D!Elapsed(now, quiet_started)
           f == D!Elapsed(now, quiet_started)'
           n == SERVER_CLASSIFIER_SMOOTHING_SAMPLES
           averaged == Averaged(same, step, r)
           phase == IF NoEvidence(r) THEN RawPhase(r) ELSE ChunkPhase(averaged)
<1>1. Calm(r) /\ ~NoEvidence(r)
  BY QuietIsCalm DEF NoEvidence
<1>2. CASE Settled \/ ~Continues(same, step)
  BY <1>1, <1>2, CalmReceived
<1>3. CASE Continues(same, step) /\ \E c \in Nat : /\ f <= c * running_poll
                                                   /\ c # 0 => QuietWindows(c) /\ Counting /\ f <= e + step
  <2>1. PICK c \in Nat : /\ f <= c * running_poll
                         /\ c # 0 => QuietWindows(c) /\ Counting /\ f <= e + step
    BY <1>3
  <2>2. /\ n \in Nat \ {0} /\ SERVER_DONE_QUIET \in Nat \ {0} /\ running_poll \in Nat
        /\ seen \in Nat /\ quiet_for \in Nat \cup {NotQuiet} /\ e \in Nat /\ f \in Nat
    BY ClassifierAssumption, MonitorAssumption, DeviceAssumption, DeviceOutlastsRelay DEF Memory
  <2>3. seen' = UpTo(n, seen + 1) /\ averaged \in Seq(Reading) /\ averaged # <<>>
    BY <1>3, SampleReceived
  <2>4. c # 0 => seen >= UpTo(n, c)
    BY <2>1 DEF QuietWindows
  <2>5. seen' >= UpTo(n, c + 1) /\ seen' \in Nat
    <3> HIDE DEF n
    <3> QED
      BY <2>2, <2>3, <2>4 DEF UpTo
  <2>6. quiet_for' = IF quiet_for # NotQuiet THEN UpTo(SERVER_DONE_QUIET, quiet_for + step) ELSE 0
    BY <1>3, SampleReceived
  <2>7. c # 0 => e <= quiet_for /\ f <= e + step
    BY <2>1 DEF Counting
  <2>8. c = 0 => f = 0
    BY <2>1, <2>2
  <2> HIDE DEF e, f
  <2>9. f < SERVER_DONE_QUIET => f <= quiet_for'
    <3>1. CASE c = 0
      BY <2>2, <2>6, <2>8, <3>1 DEF UpTo, NotQuiet
    <3>2. CASE c # 0
      BY <2>2, <2>6, <2>7, <3>2 DEF UpTo, NotQuiet
    <3> QED
      BY <3>1, <3>2
  <2>10. f >= SERVER_DONE_QUIET => quiet_for' >= SERVER_DONE_QUIET
    BY <2>2, <2>6, <2>7, <2>8 DEF UpTo, NotQuiet
  <2>11. c # 0 => \A j \in 1 .. Len(chunk) : j > Len(chunk) - c => RawPhase(chunk[j]) = "quiet"
    BY <2>1 DEF QuietWindows
  <2>12. /\ \A k \in 1 .. Len(averaged) :
              k > Len(averaged) - (c + 1) => RawPhase(averaged[k]) = "quiet"
         /\ \A j \in 1 .. Len(chunk') :
              j > Len(chunk') - (c + 1) => RawPhase(chunk'[j]) = "quiet"
    BY <1>3, <2>11, QuietTail
  <2>13. CASE f < SERVER_DONE_QUIET
    <3>1. c + 1 \in Nat \ {0} /\ c + 1 - 1 = c
      BY <2>2
    <3>2. QuietWindows(c + 1)'
      BY <2>1, <2>5, <2>12, <3>1 DEF QuietWindows, f, n
    <3>3. Counting'
      BY <2>9, <2>13, <3>1, <3>2 DEF Counting, f
    <3> QED
      BY <3>3
  <2>14. CASE f >= SERVER_DONE_QUIET
    <3>1. c >= n - 1
      <4>1. c * running_poll >= SERVER_DONE_QUIET
        <5>1. c * running_poll \in Int
          BY <2>2
        <5> QED
          BY <2>1, <2>2, <2>14, <5>1
      <4> QED
        BY <4>1, PollsFillAverage
    <3>2. seen' = n
      <4> HIDE DEF n
      <4> QED
        BY <2>2, <2>3, <2>5, <3>1 DEF UpTo
    <3>3. Len(averaged) <= n /\ Len(averaged) \in Nat
      BY <1>3, <2>2 DEF Averaged, Memory
    <3>4. \A k \in 1 .. Len(averaged) : RawPhase(averaged[k]) = "quiet"
      <4> TAKE k \in 1 .. Len(averaged)
      <4> HIDE DEF averaged, n
      <4>1. k > Len(averaged) - (c + 1)
        BY <2>2, <3>1, <3>3
      <4> QED
        BY <2>12, <4>1
    <3>5. phase = "quiet"
      <4> HIDE DEF averaged
      <4> QED
        BY <1>1, <2>3, <3>4, QuietAverage
    <3>6. active_time' < SERVER_MINIMUM_RUNTIME /\ active_time' \in Nat
      BY <2>10, <2>14, <3>2, <3>5, SampleReceived
    <3>7. \A j \in 1 .. Len(chunk') : Calm(chunk'[j])
      <4>1. \A j \in 1 .. Len(chunk') :
              LET k == Len(averaged) - Len(chunk') + j
              IN  k \in 1 .. Len(averaged) /\ chunk'[j] = averaged[k]
        BY MemoryReceived
      <4> HIDE DEF averaged
      <4>2. \A k \in 1 .. Len(averaged) : Calm(averaged[k])
        BY <2>3, <3>4, QuietIsCalm
      <4> QED
        BY <4>1, <4>2
    <3>8. ~Armed'
      BY <3>6, MonitorAssumption DEF Armed
    <3> QED
      BY <3>7, <3>8 DEF Settled
  <2> QED
    BY <2>2, <2>13, <2>14
<1>4. CASE Continues(same, step) /\ ~Settled
  <2>1. CASE f = 0
    <3>1. f <= 0 * running_poll
      BY <2>1, DeviceAssumption
    <3> QED
      BY <1>3, <1>4, <3>1
  <2>2. CASE Counting /\ step <= running_poll /\ f <= e + step
    <3>1. PICK c \in Nat \ {0} : QuietWindows(c)
      BY <2>2 DEF Counting
    <3>2. e <= (c - 1) * running_poll
      BY <3>1 DEF QuietWindows
    <3>3. f <= c * running_poll
      <4>1. (c - 1) * running_poll = c * running_poll - running_poll /\ c * running_poll \in Int
        BY DeviceAssumption
      <4> QED
        BY <2>2, <3>2, <4>1, DeviceAssumption
    <3> QED
      BY <1>3, <1>4, <2>2, <3>1, <3>3
  <2> QED
    BY <1>4, <2>1, <2>2
<1> QED
  BY <1>2, <1>4

----------------------------------------------------------------------------
(* One window observed *)

(* While a cycle is watched, windows come at least every running_poll. *)
LEMMA NapIsShort ==
  ASSUME now \in D!Clock, NEW gap \in Naps
  PROVE  gap \in 1 .. ClockSize - 1 /\ (~Resting(state) => gap <= running_poll)
<1> DEFINE poll == TelemetryPoll(now, state)
<1>1. poll \in 1 .. ClockSize - 1 /\ (~Resting(state) => poll = running_poll)
  BY DeviceAssumption DEF TelemetryPoll
<1>2. gap = poll \/ gap = poll - (now % poll)
  BY DEF Naps, AlignedNap
<1> HIDE DEF poll
<1>3. now % poll \in 0 .. poll - 1
  BY <1>1, DeviceAssumption DEF D!Clock
<1>4. poll \in Int /\ ClockSize \in Int /\ now % poll \in Int
  BY <1>1, <1>3, DeviceAssumption
<1>5. gap \in 1 .. poll
  <2> DEFINE m == now % poll
  <2>1. m \in 0 .. poll - 1 /\ (gap = poll \/ gap = poll - m)
    BY <1>2, <1>3
  <2> HIDE DEF m
  <2> QED
    BY <1>4, <2>1
<1> QED
  BY <1>1, <1>4, <1>5

LEMMA ClockStep ==
  ASSUME NEW t \in D!Clock, NEW then \in D!Clock, NEW gap \in 1 .. ClockSize - 1
  PROVE  /\ D!Later(t, gap) \in D!Clock
         /\ D!Elapsed(t, then) \in Nat
         /\ D!Elapsed(D!Later(t, gap), then) \in Nat
         /\ D!Elapsed(D!Later(t, gap), then) <= D!Elapsed(t, then) + gap
         /\ D!Elapsed(t, t) = 0
  BY DeviceAssumption DEF D!Clock, D!Later, D!Elapsed

(***************************************************************************)
(* What a window does to the device: a quiet time is counted only by quiet *)
(* windows, from the first of them, and it ends a load only when it is     *)
(* over.  A resting device stays so while nothing moves.                   *)
(***************************************************************************)
CountsQuiet(r) ==
  /\ RawPhase(r) = "quiet" /\ ~Resting(state)
  /\ \/ quiet_started' = now'
     \/ state = "QuietCandidate" /\ quiet_started # 0 /\ quiet_started' = quiet_started

Effect(r) ==
  /\ recent_windows' = <<>>
  /\ quiet_started' \in {0, now', quiet_started}
  /\ state' = "QuietCandidate" /\ quiet_started' # 0 => CountsQuiet(r)
  /\ state' = "DoneSent"
       => \/ state = "DoneSent" /\ (NoEvidence(r) \/ Calm(r))
          \/ CountsQuiet(r) /\ D!Elapsed(now, quiet_started)' >= done_quiet
  /\ RawPhase(r) = "quiet" => state' \in {"Idle", "QuietCandidate", "DoneSent"}

LEMMA WindowObserved ==
  ASSUME Memory, NEW w \in Windows, NEW gap \in 1 .. ClockSize - 1, D!Observe(w, gap)
  PROVE  now' = D!Later(now, gap) /\ Effect(Posted(w))
<1> DEFINE r == Posted(w)
           at == D!Later(now, gap)
           s == D!Smoothed(w)
<1>1. now' = at /\ D!ObserveAfterStartupSettle(w, at)
  BY DEF D!Observe
<1>2. recent_windows = <<>> /\ D!Remember(w) = <<>>
  BY WindowAlone DEF Memory
<1>3. /\ ~D!IsActive(s) => Calm(r)
      /\ ~D!Valid(w) => NoEvidence(r)
      /\ RawPhase(r) = "quiet" <=> D!Valid(w) /\ D!IsQuiet(s) /\ ~D!IsActive(s)
  BY <1>2, WindowPhases
<1> SUFFICES Effect(r)
  BY <1>1
<1> HIDE DEF r, at, s
<1>4. CASE D!Settle(at)
  BY <1>1, <1>4 DEF D!Settle, D!Reset, Effect, CountsQuiet
<1>5. CASE D!ObserveInvalid(w)
  <2>1. ~D!Valid(w) /\ NoEvidence(r) /\ RawPhase(r) # "quiet"
    BY <1>3, <1>5 DEF D!ObserveInvalid
  <2>2. CASE state = "MotionConfirming"
    BY <1>1, <1>5, <2>1, <2>2 DEF D!ObserveInvalid, D!Reset, Effect, CountsQuiet
  <2>3. CASE state # "MotionConfirming"
    BY <1>1, <1>5, <2>1, <2>3 DEF D!ObserveInvalid, Effect, CountsQuiet
  <2> QED
    BY <2>2, <2>3
<1>6. CASE D!ObserveValid(w, at)
  <2>0. D!Valid(w)
    BY <1>6 DEF D!ObserveValid
  <2>1. CASE D!RejectMotion(s)
    BY <1>1, <2>1 DEF D!RejectMotion, D!Reset, Effect, CountsQuiet
  <2>2. CASE recent_windows' = <<>> /\ D!WaitForMotion(s, at)
    <3>1. CASE D!IsActive(s)
      BY <1>1, <1>3, <2>2, <3>1 DEF D!WaitForMotion, D!StartCycle, Effect, CountsQuiet
    <3>2. CASE ~D!IsActive(s)
      BY <1>1, <1>3, <2>2, <3>2 DEF D!WaitForMotion, D!KeepTimers, Effect, CountsQuiet
    <3> QED
      BY <3>1, <3>2
  <2>3. CASE recent_windows' = <<>> /\ D!ConfirmMotion(s, at)
    BY <1>1, <1>3, <2>3 DEF D!ConfirmMotion, D!KeepTimers, Effect, CountsQuiet
  <2>4. CASE recent_windows' = <<>> /\ D!KeepRunning(s)
    BY <1>1, <1>3, <2>4 DEF D!KeepRunning, D!KeepTimers, Effect, CountsQuiet
  <2>5. CASE recent_windows' = <<>> /\ D!SuspectDone(s, at)
    BY <1>1, <1>3, <2>0, <2>5 DEF D!SuspectDone, Resting, Effect, CountsQuiet
  <2>6. CASE recent_windows' = <<>> /\ D!MoveAgain(s, at)
    BY <1>1, <1>3, <2>6, DeviceOutlastsRelay DEF D!MoveAgain, Effect, CountsQuiet
  <2>7. CASE recent_windows' = <<>> /\ D!DoubtQuiet(s)
    BY <1>1, <1>3, <2>7, DeviceOutlastsRelay DEF D!DoubtQuiet, Effect, CountsQuiet
  <2>8. CASE recent_windows' = <<>> /\ D!StayQuiet(s, at)
    <3>1. /\ RawPhase(r) = "quiet" /\ state = "QuietCandidate" /\ ~Resting(state)
          /\ quiet_started' = D!QuietFrom(at)
      BY <1>3, <2>0, <2>8 DEF D!StayQuiet, Resting
    <3>2. \/ quiet_started' = now'
          \/ quiet_started # 0 /\ quiet_started' = quiet_started
      BY <1>1, <3>1 DEF D!QuietFrom
    <3>3. CASE D!QuietLongEnough(at)
      <4>1. state' = "DoneSent"
        BY <2>8, <3>3 DEF D!StayQuiet
      <4>2. D!Elapsed(now', quiet_started') >= done_quiet
        BY <1>1, <3>1, <3>3 DEF D!QuietLongEnough
      <4> QED
        BY <1>1, <2>8, <3>1, <3>2, <4>1, <4>2 DEF Effect, CountsQuiet
    <3>4. CASE ~D!QuietLongEnough(at)
      <4>1. state' = "QuietCandidate"
        BY <2>8, <3>1, <3>4 DEF D!StayQuiet
      <4> QED
        BY <1>1, <2>8, <3>1, <3>2, <4>1 DEF Effect, CountsQuiet
    <3> QED
      BY <3>3, <3>4
  <2> QED
    BY <1>2, <1>6, <2>1, <2>2, <2>3, <2>4, <2>5, <2>6, <2>7, <2>8 DEF D!ObserveValid, s
<1> QED
  BY <1>1, <1>4, <1>5, <1>6 DEF D!ObserveAfterStartupSettle

----------------------------------------------------------------------------
(* The memory *)

LEMMA MemoryInit == Init => MemoryOK
<1>1. 0 \in D!Clock
  BY DeviceAssumption DEF D!Clock
<1>2. <<>> \in Seq(Reading) /\ Len(<<>>) = 0
  OBVIOUS
<1> QED
  BY <1>1, <1>2, ClassifierAssumption DEF Init, D!Init, MonitorInit, MemoryOK, Memory

LEMMA MemoryRestart == MemoryOK /\ Restart => MemoryOK'
<1>1. 0 \in D!Clock
  BY DeviceAssumption DEF D!Clock
<1> QED
  BY <1>1 DEF Restart, D!Boot, MemoryOK, Memory

LEMMA MemoryLoop ==
  ASSUME MemoryOK, NEW w \in Windows, NEW gap \in Naps, NEW uploaded,
         Loop(w, gap, uploaded)
  PROVE  MemoryOK'
<1>1. /\ gap \in 1 .. ClockSize - 1 /\ now \in D!Clock /\ quiet_started \in D!Clock
      /\ ClockSize \in Nat /\ gap \in Nat /\ silence \in Nat /\ silence + gap \in Nat
  BY NapIsShort, DeviceAssumption DEF MemoryOK, Memory
<1>2. now' = D!Later(now, gap) /\ Effect(Posted(w))
  BY <1>1, WindowObserved DEF Loop, MemoryOK
<1>3. now' \in D!Clock /\ quiet_started' \in D!Clock /\ recent_windows' = <<>>
  <2>1. D!Later(now, gap) \in D!Clock /\ 0 \in D!Clock
    BY <1>1, ClockStep DEF D!Clock
  <2> QED
    BY <1>1, <1>2, <2>1 DEF Effect
<1>4. CASE uploaded
  <2>1. /\ Receive(same_boot /\ now' >= now, silence + gap, Posted(w))
        /\ silence' = 0
    BY <1>4 DEF Loop, Upload
  <2>2. Posted(w) \in Reading
    BY WindowPhases DEF MemoryOK, Memory
  <2>3. /\ seen' \in Nat /\ active_time' \in Nat /\ quiet_for' \in Nat \cup {NotQuiet}
        /\ chunk' \in Seq(Reading)
        /\ Len(chunk') <= SERVER_CLASSIFIER_SMOOTHING_SAMPLES - 1
    BY <1>1, <2>1, <2>2, MemoryReceived DEF MemoryOK
  <2> QED
    BY <1>3, <2>1, <2>3 DEF MemoryOK, Memory
<1>5. CASE ~uploaded
  <2>1. LoseSample(gap)
    BY <1>5 DEF Loop
  <2>2. silence' \in Nat
    BY <1>1, <2>1, MonitorAssumption DEF LoseSample, UpTo
  <2> QED
    BY <1>3, <2>1, <2>2 DEF LoseSample, MemoryOK, Memory
<1> QED
  BY <1>4, <1>5

----------------------------------------------------------------------------
(* The two classifiers *)

AInv == MemoryOK /\ AlertFindsDeviceQuiet

LEMMA AlertStep == AInv /\ [Next]_vars => AInv'
<1> SUFFICES ASSUME AInv, [Next]_vars PROVE AInv'
  OBVIOUS
<1>1. ASSUME NEW w \in Windows, NEW gap \in Naps, NEW uploaded \in Uploads,
             Loop(w, gap, uploaded)
      PROVE  AInv'
  <2>1. MemoryOK'
    BY <1>1, MemoryLoop DEF AInv
  <2>2. gap \in 1 .. ClockSize - 1 /\ silence + gap \in Nat
    BY NapIsShort, DeviceAssumption DEF AInv, MemoryOK, Memory
  <2>3. Effect(Posted(w))
    BY <1>1, <2>2, WindowObserved DEF Loop, AInv, MemoryOK
  <2>4. alert' => RawPhase(Posted(w)) = "quiet"
    <3>1. CASE uploaded
      <4>1. Receive(same_boot /\ now' >= now, silence + gap, Posted(w))
        BY <1>1, <3>1 DEF Loop, Upload
      <4>2. Posted(w) \in Reading
        BY WindowPhases DEF AInv, MemoryOK, Memory
      <4>3. /\ alert' => quiet_for' >= SERVER_DONE_QUIET
            /\ RawPhase(Posted(w)) # "quiet" => quiet_for' = NotQuiet
        BY <2>2, <4>1, <4>2, SampleReceived DEF AInv, MemoryOK
      <4> QED
        BY <4>3, MonitorAssumption DEF NotQuiet
    <3>2. CASE ~uploaded
      BY <1>1, <3>2 DEF Loop, LoseSample
    <3> QED
      BY <3>1, <3>2
  <2> QED
    BY <2>1, <2>3, <2>4 DEF AInv, AlertFindsDeviceQuiet, Effect
<1>2. CASE Restart
  BY <1>2, MemoryRestart DEF AInv, AlertFindsDeviceQuiet, Restart, D!Boot
<1>3. CASE UNCHANGED vars
  BY <1>3 DEF vars, device_vars, monitor_vars, AInv, AlertFindsDeviceQuiet, MemoryOK, Memory
<1> QED
  BY <1>1, <1>2, <1>3 DEF Next

(***************************************************************************)
(* _classify_server_event and the device's detector never disagree about   *)
(* the end of a load, whatever is lost on the way, at every restart and    *)
(* wrap of the clock: the sample that completes it was a quiet window for  *)
(* the device too.                                                         *)
(***************************************************************************)
THEOREM AlertsFindQuiet == Spec => []AlertFindsDeviceQuiet
<1>1. Init => AInv
  BY MemoryInit DEF AInv, AlertFindsDeviceQuiet, Init, MonitorInit
<1>2. AInv /\ [Next]_vars => AInv'
  BY AlertStep
<1>3. AInv => AlertFindsDeviceQuiet
  BY DEF AInv
<1> QED
  BY <1>1, <1>2, <1>3, PTL DEF Spec

----------------------------------------------------------------------------
(* The order of the two decisions *)

(***************************************************************************)
(* A sample that arrives keeps the relay's count abreast of the device's.  *)
(***************************************************************************)
LEMMA MInvUpload ==
  ASSUME MInv, NEW w \in Windows, NEW gap \in Naps, Loop(w, gap, TRUE), ~quiet_lost'
  PROVE  /\ state' = "QuietCandidate" /\ quiet_started' # 0 => (Settled \/ Counting)'
         /\ state' = "DoneSent" => Settled'
         /\ silence' = 0
<1> DEFINE r == Posted(w)
           same == same_boot /\ now' >= now
           step == silence + gap
<1>1. /\ gap \in 1 .. ClockSize - 1 /\ gap \in Nat /\ step \in Nat
      /\ silence = 0 => step = gap
      /\ now \in D!Clock /\ quiet_started \in D!Clock
      /\ ~Resting(state) => gap <= running_poll
  BY NapIsShort, DeviceAssumption DEF MInv, MemoryOK, Memory
<1>2. now' = D!Later(now, gap) /\ Effect(r)
  BY <1>1, WindowObserved DEF Loop, MInv, MemoryOK
<1>3. Receive(same, step, r) /\ silence' = 0 /\ r \in Reading
  BY WindowPhases DEF Loop, Upload, MInv, MemoryOK, Memory
<1>4. Memory /\ Memory'
  BY MemoryLoop DEF MInv, MemoryOK
<1>5. state' \in {"QuietCandidate", "DoneSent"} => ~quiet_lost
  BY DEF Loop
<1> HIDE DEF r, same, step
<1>6. CountsQuiet(r) /\ ~quiet_lost => (Settled \/ Counting)'
  <2> SUFFICES ASSUME CountsQuiet(r), ~quiet_lost PROVE (Settled \/ Counting)'
    OBVIOUS
  <2>1. RawPhase(r) = "quiet" /\ gap <= running_poll
    BY <1>1 DEF CountsQuiet
  <2>2. /\ D!Elapsed(now, quiet_started) \in Nat
        /\ D!Elapsed(now', quiet_started) \in Nat
        /\ D!Elapsed(now', quiet_started) <= D!Elapsed(now, quiet_started) + gap
        /\ D!Elapsed(now', now') = 0
    BY <1>1, <1>2, ClockStep
  <2>3. CASE quiet_started' = now'
    <3>1. D!Elapsed(now, quiet_started)' = 0
      BY <2>2, <2>3
    <3> QED
      BY <1>1, <1>3, <1>4, <2>1, <2>2, <3>1, QuietReceived
  <2>4. CASE state = "QuietCandidate" /\ quiet_started # 0 /\ quiet_started' = quiet_started
    <3>1. D!Elapsed(now, quiet_started)' = D!Elapsed(now', quiet_started)
      BY <2>4
    <3>2. Settled \/ (Counting /\ silence = 0)
      BY <2>4 DEF MInv
    <3>3. /\ Settled \/ (Counting /\ step <= running_poll)
          /\ D!Elapsed(now, quiet_started)' <= D!Elapsed(now, quiet_started) + step
      <4>1. gap <= step
        BY <1>1 DEF step, MInv, MemoryOK
      <4> QED
        BY <1>1, <2>1, <2>2, <3>1, <3>2, <4>1
    <3> QED
      BY <1>1, <1>3, <1>4, <2>1, <2>2, <3>1, <3>3, QuietReceived
  <2> QED
    BY <2>3, <2>4 DEF CountsQuiet
<1>7. state' = "QuietCandidate" /\ quiet_started' # 0 => (Settled \/ Counting)'
  BY <1>2, <1>5, <1>6 DEF Effect
<1>8. state' = "DoneSent" => Settled'
  <2>1. CASE state = "DoneSent" /\ ~quiet_lost /\ (NoEvidence(r) \/ Calm(r))
    BY <1>1, <1>3, <1>4, <2>1, CalmReceived DEF MInv
  <2>2. CASE CountsQuiet(r) /\ ~quiet_lost /\ D!Elapsed(now, quiet_started)' >= done_quiet
    <3>1. D!Elapsed(now, quiet_started)' \in Int
      <4>1. quiet_started' \in D!Clock /\ now' \in D!Clock
        BY <1>4 DEF Memory
      <4> QED
        BY <4>1, DeviceAssumption DEF D!Elapsed, D!Clock
    <3>2. ~Counting'
      BY <2>2, <3>1, DeviceAssumption, DeviceOutlastsRelay, MonitorAssumption DEF Counting
    <3> QED
      BY <1>6, <2>2, <3>2
  <2> QED
    BY <1>2, <1>5, <2>1, <2>2 DEF Effect
<1> QED
  BY <1>3, <1>7, <1>8

LEMMA MInvStep ==
  ASSUME MInv, [Next]_vars
  PROVE  MInv'
<1>1. ASSUME NEW w \in Windows, NEW gap \in Naps, NEW uploaded \in Uploads,
             Loop(w, gap, uploaded)
      PROVE  MInv'
  <2>1. MemoryOK'
    BY <1>1, MemoryLoop DEF MInv
  <2>2. CASE uploaded
    <3>1. uploaded = TRUE
      BY <2>2, DeviceAssumption
    <3>2. Loop(w, gap, TRUE)
      BY <1>1, <3>1
    <3> QED
      BY <2>1, <3>2, MInvUpload DEF MInv
  <2>3. CASE ~uploaded
    <3>1. state' \in {"QuietCandidate", "DoneSent"} => quiet_lost'
      BY <1>1, <2>3 DEF Loop
    <3> QED
      BY <2>1, <3>1 DEF MInv
  <2> QED
    BY <2>2, <2>3
<1>2. CASE Restart
  BY <1>2, MemoryRestart DEF MInv, Restart, D!Boot
<1>3. CASE UNCHANGED vars
  BY <1>3 DEF vars, device_vars, monitor_vars, MInv, MemoryOK, Memory, Settled, Armed,
              Counting, QuietWindows
<1> QED
  BY <1>1, <1>2, <1>3 DEF Next

(***************************************************************************)
(* Unless a sample is lost while the device waits for the quiet to last,   *)
(* the relay has decided before the device takes its load for done and     *)
(* lets the power bank sleep, whatever the machine did, whatever was lost  *)
(* before and however the device restarted or its clock wrapped: the four  *)
(* minutes of the relay always end within the five of the device.          *)
(***************************************************************************)
THEOREM DecidesFirst == Spec => []DecidedBeforePowerOff
<1>1. Init => MInv
  BY MemoryInit DEF MInv, Init, D!Init
<1>2. MInv /\ [Next]_vars => MInv'
  BY MInvStep
<1>3. MInv => DecidedBeforePowerOff
  BY DEF MInv, DecidedBeforePowerOff, Settled
<1> QED
  BY <1>1, <1>2, <1>3, PTL DEF Spec
=============================================================================
