-------------------------- MODULE ServerClassifier --------------------------
(***************************************************************************)
(* The relay's reading of motion samples: the phase of one sample, and the *)
(* phase of a sample averaged with the ones before it.                     *)
(*                                                                         *)
(* Only sums and counts are kept: an average is compared with a threshold  *)
(* by comparing the sum with threshold * count.                            *)
(***************************************************************************)
EXTENDS Integers, Sequences, FiniteSetsExt

CONSTANTS
  MOTION_ACTIVE_RMS_MG,
  MOTION_ACTIVE_PEAK_MG,
  MOTION_QUIET_RMS_MG,
  HANDLING_RMS_MG,     \* above this a sample is no evidence at all: 120 mg
  HANDLING_PEAK_MG,    \* likewise for the peak: 300 mg
  SERVER_CLASSIFIER_SMOOTHING_SAMPLES

ASSUME ClassifierAssumption ==
  /\ MOTION_ACTIVE_RMS_MG \in Nat
  /\ MOTION_ACTIVE_PEAK_MG \in Nat
  /\ MOTION_QUIET_RMS_MG \in Nat
  /\ HANDLING_RMS_MG \in Nat
  /\ HANDLING_PEAK_MG \in Nat
  /\ SERVER_CLASSIFIER_SMOOTHING_SAMPLES \in Nat \ {0}

(***************************************************************************)
(* A reading: the sample_valid flag and the two motion values.             *)
(***************************************************************************)
Reading == [valid : BOOLEAN, rms : Nat, peak : Nat]

Phases == {"invalid", "handling", "active", "quiet", "settling"}

MotionValuesValid(r) == r.valid /\ r.peak >= r.rms

(* Mistake: a sample is active by its RMS alone. *)
ClassifyByRms(rms, peak, n) ==
  IF rms > HANDLING_RMS_MG * n THEN "handling"
  ELSE IF rms >= MOTION_ACTIVE_RMS_MG * n THEN "active"
  ELSE IF rms <= MOTION_QUIET_RMS_MG * n THEN "quiet"
  ELSE "settling"

ClassifySums(rms, peak, n) ==
  IF peak > HANDLING_PEAK_MG * n \/ rms > HANDLING_RMS_MG * n THEN "handling"
  ELSE IF rms >= MOTION_ACTIVE_RMS_MG * n \/ peak >= MOTION_ACTIVE_PEAK_MG * n
       THEN "active"
  ELSE IF rms <= MOTION_QUIET_RMS_MG * n THEN "quiet"
  ELSE "settling"

RawPhase(r) ==
  IF MotionValuesValid(r) THEN ClassifySums(r.rms, r.peak, 1) ELSE "invalid"

(* Readings that are kept out of every average and restart the smoothing. *)
NoEvidence(r) == RawPhase(r) \in {"invalid", "handling"}

SumOf(f) ==
  LET sum[i \in 0 .. Len(f)] == IF i = 0 THEN 0 ELSE sum[i - 1] + f[i]
  IN  sum[Len(f)]

(***************************************************************************)
(* The phase of the last reading of a chunk, averaged over the chunk.      *)
(***************************************************************************)
ChunkPhase(chunk) ==
  ClassifySums(SumOf([i \in 1 .. Len(chunk) |-> chunk[i].rms]),
               SumOf([i \in 1 .. Len(chunk) |-> chunk[i].peak]), Len(chunk))

(* Mistake: readings from before a jolt are averaged with those after it. *)
ChunkStartUnbroken(readings, i) == Max({1, i - SERVER_CLASSIFIER_SMOOTHING_SAMPLES + 1})

(***************************************************************************)
(* _smoothed_events: a chunk reaches back to the reading after the latest  *)
(* one that is no evidence, and at most the smoothing length.              *)
(***************************************************************************)
ChunkStart(readings, i) ==
  Max({1, i - SERVER_CLASSIFIER_SMOOTHING_SAMPLES + 1}
      \cup {j + 1 : j \in {k \in 1 .. i - 1 : NoEvidence(readings[k])}})

SmoothedPhase(readings, i) ==
  IF NoEvidence(readings[i]) THEN RawPhase(readings[i])
  ELSE ChunkPhase(SubSeq(readings, ChunkStart(readings, i), i))

SmoothedPhases(readings) ==
  [i \in 1 .. Len(readings) |-> SmoothedPhase(readings, i)]
=============================================================================
