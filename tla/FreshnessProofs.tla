--------------------------- MODULE FreshnessProofs ---------------------------
(***************************************************************************)
(* For all poll times, limits and bounds on lateness of CadenceAssumption, *)
(* the page of Freshness never takes a settled cadence for silence.        *)
(***************************************************************************)
EXTENDS Freshness, FiniteSetTheorems, WellFoundedInduction, TLAPS

----------------------------------------------------------------------------
(* The learned cadence *)

LEMMA HasSmallest ==
  ASSUME NEW T, T \subseteq Nat, T # {}
  PROVE  \E x \in T : \A y \in T : x <= y
<1>1. PICK x \in T : \A y \in T : ~(<<y, x>> \in OpToRel(<, Nat))
  BY NatLessThanWellFounded, WFMin
<1>2. \A y \in T : ~(y < x)
  BY <1>1 DEF OpToRel
<1> QED
  BY <1>2

(* The cadence is one of the gaps that count, if there are any. *)
LEMMA CadenceIsAGap ==
  ASSUME NEW deltas \in Seq(Nat)
  PROVE  \/ /\ \A i \in 1 .. Len(deltas) : ~Counted(deltas[i])
            /\ EstimateSampleCadence(deltas) = DEFAULT_PACKET_CADENCE
         \/ \E i \in 1 .. Len(deltas) : EstimateSampleCadence(deltas) = deltas[i]
<1> DEFINE counted == {i \in DOMAIN deltas : Counted(deltas[i])}
           UpTo(delta) == {i \in counted : deltas[i] <= delta}
           enough == {i \in counted : 2 * Cardinality(UpTo(deltas[i])) > Cardinality(counted)}
           T == {deltas[i] : i \in enough}
<1>1. EstimateSampleCadence(deltas)
        = IF counted = {} THEN DEFAULT_PACKET_CADENCE ELSE Min(T)
  BY DEF EstimateSampleCadence
<1>2. DOMAIN deltas = 1 .. Len(deltas) /\ Len(deltas) \in Nat
  OBVIOUS
<1>3. CASE counted = {}
  BY <1>1, <1>2, <1>3
<1>4. CASE counted # {}
  <2>1. IsFiniteSet(counted)
    <3>1. IsFiniteSet(1 .. Len(deltas))
      BY <1>2, FS_Interval
    <3> QED
      BY <1>2, <3>1, FS_Subset
  <2>2. \A i \in counted : deltas[i] \in Nat /\ deltas[i] <= MAX_DELTA /\ i \in 1 .. Len(deltas)
    BY <1>2 DEF Counted
  <2>3. PICK i \in counted : \A j \in counted : deltas[j] <= deltas[i]
    <3> DEFINE below == {MAX_DELTA - deltas[j] : j \in counted}
    <3>1. MAX_DELTA \in Nat
      BY FreshnessAssumption
    <3> HIDE DEF counted
    <3>2. below \subseteq Nat /\ below # {}
      BY <1>4, <2>2, <3>1
    <3>3. PICK x \in below : \A y \in below : x <= y
      <4> HIDE DEF below
      <4> QED
        BY <3>2, HasSmallest
    <3>4. PICK k \in counted : x = MAX_DELTA - deltas[k]
      BY <3>3
    <3>5. \A j \in counted : MAX_DELTA - deltas[k] <= MAX_DELTA - deltas[j]
      BY <3>3, <3>4
    <3>6. \A j \in counted : deltas[j] <= deltas[k]
      BY <2>2, <3>1, <3>4, <3>5
    <3> QED
      BY <3>4, <3>6
  <2>4. UpTo(deltas[i]) = counted
    BY <2>3
  <2>5. Cardinality(counted) \in Nat \ {0}
    <3>1. Cardinality(counted) \in Nat
      BY <2>1, FS_CardinalityType
    <3>2. Cardinality(counted) # 0
      BY <1>4, <2>1, FS_EmptySet
    <3> QED
      BY <3>1, <3>2
  <2>6. i \in enough
    <3>1. 2 * Cardinality(counted) > Cardinality(counted)
      BY <2>5
    <3> HIDE DEF counted
    <3> QED
      BY <2>3, <2>4, <3>1
  <2>7. T \subseteq Nat /\ T # {} /\ \A x \in T : \E j \in 1 .. Len(deltas) : x = deltas[j]
    <3>1. enough \subseteq counted
      OBVIOUS
    <3> HIDE DEF counted, enough
    <3> QED
      BY <2>2, <2>6, <3>1
  <2>8. Min(T) \in T
    <3> HIDE DEF T
    <3>1. \E x \in T : \A y \in T : x <= y
      BY <2>7, HasSmallest
    <3> QED
      BY <3>1 DEF Min
  <2> HIDE DEF T
  <2> QED
    BY <1>1, <1>4, <2>7, <2>8
<1> QED
  BY <1>3, <1>4

LEMMA CadenceType ==
  ASSUME NEW deltas \in Seq(Nat)
  PROVE  EstimateSampleCadence(deltas) \in Nat
<1>1. \A i \in 1 .. Len(deltas) : deltas[i] \in Nat
  OBVIOUS
<1> QED
  BY <1>1, CadenceIsAGap, FreshnessAssumption

----------------------------------------------------------------------------
(* The gaps *)

KeptGaps(old, new) ==
  LET all == Append(old, new)
  IN  SubSeq(all, AtLeast(1, Len(all) - RECENT + 2), Len(all))

(* All but the last of t are those of old, d places further on. *)
TakenFrom(old, t, d) ==
  /\ d \in Int
  /\ \A j \in 1 .. Len(t) - 1 : j + d \in 1 .. Len(old) /\ t[j] = old[j + d]

(* The gaps kept are the newest, counted from the end. *)
LEMMA KeptFromTheEnd ==
  ASSUME NEW old \in Seq(Nat), NEW new \in Nat, Len(old) <= RECENT - 1,
         NEW t, t = KeptGaps(old, new)
  PROVE  /\ t \in Seq(Nat) /\ Len(t) \in Nat
         /\ Len(t) = AtMost(Len(old) + 1, RECENT - 1)
         /\ Len(t) > 0 => t[Len(t)] = new
         /\ TakenFrom(old, t, Len(old) + 1 - Len(t))
<1> DEFINE all == Append(old, new)
           from == AtLeast(1, Len(all) - RECENT + 2)
<1>1. /\ all \in Seq(Nat) /\ Len(all) = Len(old) + 1 /\ Len(old) \in Nat
      /\ \A j \in 1 .. Len(old) : all[j] = old[j]
      /\ all[Len(old) + 1] = new
  OBVIOUS
<1> HIDE DEF all
<1>2. RECENT \in Nat \ {0}
  BY FreshnessAssumption
<1>3. /\ from \in 1 .. Len(all) + 1
      /\ Len(all) - from + 1 = AtMost(Len(old) + 1, RECENT - 1)
  <2> DEFINE n == Len(all)
  <2>1. n \in Nat \ {0} /\ n = Len(old) + 1
    BY <1>1
  <2>2. from = IF 1 >= n - RECENT + 2 THEN 1 ELSE n - RECENT + 2
    BY DEF AtLeast
  <2> HIDE DEF n, from
  <2>3. from \in 1 .. n + 1
    BY <1>2, <2>1, <2>2
  <2>4. n - from + 1 = IF n <= RECENT - 1 THEN n ELSE RECENT - 1
    <3>1. CASE n <= RECENT - 1
      <4>1. from = 1
        BY <1>2, <2>1, <2>2, <3>1
      <4> QED
        BY <2>1, <3>1, <4>1
    <3>2. CASE ~(n <= RECENT - 1)
      <4>1. from = n - RECENT + 2
        BY <1>2, <2>1, <2>2, <3>2
      <4> QED
        BY <1>2, <2>1, <3>2, <4>1
    <3> QED
      BY <3>1, <3>2
  <2> QED
    BY <2>1, <2>3, <2>4 DEF n, AtMost
<1> HIDE DEF from
<1>4. t = SubSeq(all, from, Len(all))
  BY DEF KeptGaps, from, all
<1>5. /\ t \in Seq(Nat) /\ Len(t) = Len(all) - from + 1
      /\ \A j \in 1 .. Len(t) : t[j] = all[from + j - 1]
  BY <1>1, <1>3, <1>4
<1>6. Len(t) > 0 => t[Len(t)] = new
  <2>1. Len(t) > 0 => Len(t) \in 1 .. Len(t) /\ from + Len(t) - 1 = Len(old) + 1
    BY <1>1, <1>3, <1>5
  <2> QED
    BY <1>1, <1>5, <2>1
<1>7. PICK d \in Int : d = Len(old) + 1 - Len(t)
  BY <1>1, <1>3, <1>5
<1>8. ASSUME NEW j \in 1 .. Len(t) - 1
      PROVE  j + d \in 1 .. Len(old) /\ t[j] = old[j + d]
  <2>1. t[j] = all[from + j - 1] /\ from + j - 1 = j + d
    BY <1>1, <1>3, <1>5, <1>7
  <2>2. j + d \in 1 .. Len(old)
    BY <1>1, <1>3, <1>5, <1>7
  <2> QED
    BY <1>1, <2>1, <2>2
<1> QED
  BY <1>1, <1>3, <1>5, <1>6, <1>8, <1>7 DEF TakenFrom

----------------------------------------------------------------------------
(* The inductive invariant *)

WakeStates == {"No recent packets", "Packet fresh", "Waiting for next packet"}

Types ==
  /\ poll \in Polls /\ late \in 0 .. MaxLateness /\ wait \in Int
  /\ off \in BOOLEAN /\ online \in BOOLEAN /\ missed \in BOOLEAN
  /\ age \in Nat \cup {Never}
  /\ gaps \in Seq(Nat) /\ Len(gaps) <= RECENT - 1
  /\ steady \in 0 .. RECENT
  /\ page \in [cadence : Nat, age : Nat \cup {Never}, wake : WakeStates]

(* Each of the last k packets was later than the one before. *)
LaterEach(k) == \A j \in 1 .. Len(gaps) : j > Len(gaps) - k => gaps[j] > poll

(***************************************************************************)
(* The last packet was received `was' ticks late, so the next is due in    *)
(* time, and packets that are each later than the one before use up the    *)
(* lateness there is.                                                      *)
(***************************************************************************)
OnTime(was) ==
  /\ age + wait = poll + late - was
  /\ Telling(poll) => \A k \in 1 .. steady - 1 : LaterEach(k) => k <= was

(* The gaps at the present poll time are not short. *)
GapsTell ==
  Telling(poll) => \A j \in 1 .. Len(gaps) :
                     j > Len(gaps) - (steady - 1) => gaps[j] >= poll - MaxLateness

FInv ==
  /\ Types
  /\ steady > 0 => age # Never /\ steady - 1 <= Len(gaps)
  /\ missed /\ steady > 0 => off
  /\ off => missed
  /\ GapsTell
  /\ steady > 0 /\ ~missed /\ online => \E was \in 0 .. MaxLateness : OnTime(was)
  /\ online => page = Updated(gaps, age)
  /\ StaleMeansMissedOnceSettled

(* All that is known of the constants, for arithmetic. *)
LEMMA Numbers ==
  /\ {MaxLateness, MIN_DELTA, MAX_DELTA, DEFAULT_PACKET_CADENCE, MIN_PACKET_STALE,
      MIN_PACKET_FRESH} \subseteq Nat
  /\ RECENT \in Nat \ {0}
  /\ \A p \in Polls : p \in Nat \ {0} /\ MaxLateness < p
  BY FreshnessAssumption

LEMMA PageType ==
  ASSUME NEW deltas \in Seq(Nat), NEW ticks \in Nat \cup {Never}
  PROVE  Updated(deltas, ticks) \in [cadence : Nat, age : Nat \cup {Never}, wake : WakeStates]
<1>1. EstimateSampleCadence(deltas) \in Nat
  BY CadenceType
<1>2. WakeState(EstimateSampleCadence(deltas), ticks) \in WakeStates
  BY DEF WakeState, WakeStates
<1> QED
  BY <1>1, <1>2 DEF Updated

(* A packet that is not overdue is not taken for missing. *)
LEMMA NotStale ==
  ASSUME NEW p \in Polls, NEW deltas \in Seq(Nat), NEW ticks \in Nat,
         ticks <= p + MaxLateness,
         Telling(p) => /\ \A j \in 1 .. Len(deltas) : deltas[j] >= p - MaxLateness
                       /\ \E j \in 1 .. Len(deltas) : deltas[j] <= p
  PROVE  WakeState(EstimateSampleCadence(deltas), ticks) # "No recent packets"
<1> DEFINE cadence == EstimateSampleCadence(deltas)
<1>1. cadence \in Nat
  BY CadenceType
<1>2. /\ p \in Nat /\ MaxLateness \in Nat /\ MIN_PACKET_STALE \in Nat /\ MIN_DELTA \in Nat
      /\ MAX_DELTA \in Nat
  BY Numbers
<1>3. FreshnessLimit(cadence) \in Nat /\ p + MaxLateness <= FreshnessLimit(cadence)
  <2>1. CASE p + MaxLateness <= MIN_PACKET_STALE
    <3> HIDE DEF cadence
    <3> QED
      BY <1>1, <1>2, <2>1 DEF FreshnessLimit, AtLeast
  <2>2. CASE Telling(p)
    <3>1. PICK j \in 1 .. Len(deltas) : deltas[j] <= p
      BY <2>2
    <3>2. deltas[j] \in Nat /\ deltas[j] >= p - MaxLateness
      BY <2>2
    <3>3. Counted(deltas[j])
      BY <1>2, <2>2, <3>1, <3>2 DEF Counted, Telling
    <3>4. PICK i \in 1 .. Len(deltas) : cadence = deltas[i]
      BY <3>3, CadenceIsAGap
    <3>5. cadence >= p - MaxLateness
      BY <2>2, <3>4
    <3> HIDE DEF cadence
    <3> QED
      BY <1>1, <1>2, <2>2, <3>5 DEF Telling, FreshnessLimit, AtLeast
  <2> QED
    BY <2>1, <2>2, CadenceAssumption
<1>4. ~(ticks = Never \/ ticks > FreshnessLimit(cadence))
  <2> HIDE DEF cadence
  <2> QED
    BY <1>2, <1>3 DEF Never
<1> HIDE DEF cadence
<1>5. WakeState(cadence, ticks) # "No recent packets"
  BY <1>4 DEF WakeState
<1> QED
  BY <1>5 DEF cadence

(* A packet that has just come is not stale. *)
LEMMA FreshAtOnce ==
  ASSUME NEW deltas \in Seq(Nat)
  PROVE  Updated(deltas, 0).wake # "No recent packets"
<1> DEFINE cadence == EstimateSampleCadence(deltas)
<1>1. cadence \in Nat /\ MIN_PACKET_STALE \in Nat
  BY CadenceType, Numbers
<1> HIDE DEF cadence
<1>2. ~(0 = Never \/ 0 > FreshnessLimit(cadence))
  BY <1>1 DEF FreshnessLimit, AtLeast, Never
<1>3. WakeState(cadence, 0) # "No recent packets"
  BY <1>2 DEF WakeState
<1> QED
  BY <1>3 DEF Updated, cadence

(* An age is cut off only when it is past every limit. *)
LEMMA AgeIsExact ==
  ASSUME NEW p \in Polls, NEW ticks \in Nat, ticks < p + MaxLateness
  PROVE  Older(ticks) = ticks + 1
<1>1. p \in Nat /\ MaxLateness \in Nat /\ MIN_PACKET_STALE \in Nat /\ MAX_DELTA \in Nat
  BY Numbers
<1>2. p + MaxLateness < AgeBound
  BY <1>1, CadenceAssumption DEF Telling, AgeBound, AtLeast
<1>3. AgeBound \in Nat
  BY <1>1 DEF AgeBound, AtLeast
<1> QED
  BY <1>1, <1>2, <1>3 DEF Older, Never, AtMost

LEMMA OlderType == ASSUME NEW ticks \in Nat \cup {Never} PROVE Older(ticks) \in Nat \cup {Never}
<1>1. AgeBound \in Nat
  BY Numbers DEF AgeBound, AtLeast
<1> QED
  BY <1>1 DEF Older, Never, AtMost

LEMMA FInit == Init => FInv
<1> SUFFICES ASSUME Init PROVE FInv
  OBVIOUS
<1>1. /\ gaps = <<>> /\ age = Never /\ steady = 0 /\ missed = FALSE /\ off = FALSE
      /\ page = Updated(gaps, age)
  BY DEF Init
<1>2. <<>> \in Seq(Nat) /\ Len(<<>>) = 0
  OBVIOUS
<1>3. page \in [cadence : Nat, age : Nat \cup {Never}, wake : WakeStates]
  BY <1>1, <1>2, PageType
<1>4. Types
  <2>1. gaps \in Seq(Nat) /\ Len(gaps) <= RECENT - 1
    BY <1>1, <1>2, Numbers
  <2>2. poll \in Polls /\ poll \in Nat /\ wait = poll /\ late = 0 /\ MaxLateness \in Nat
    BY Numbers DEF Init
  <2>3. late \in 0 .. MaxLateness /\ wait \in Int /\ steady \in 0 .. RECENT
    BY <1>1, <2>2, Numbers
  <2> QED
    BY <1>1, <1>3, <2>1, <2>2, <2>3 DEF Init, Types
<1>5. GapsTell
  BY <1>1, <1>2 DEF GapsTell
<1>6. StaleMeansMissedOnceSettled
  BY <1>1, Numbers DEF StaleMeansMissedOnceSettled
<1> QED
  BY <1>1, <1>4, <1>5, <1>6 DEF FInv

----------------------------------------------------------------------------
(* Steps *)

(* Once settled, a packet on time is not stale. *)
LEMMA SettledIsNotStale ==
  ASSUME Types, GapsTell, steady = RECENT, Len(gaps) = RECENT - 1,
         NEW was \in 0 .. MaxLateness, OnTime(was), NEW ticks \in Nat,
         ticks <= poll + MaxLateness
  PROVE  Updated(gaps, ticks).wake # "No recent packets"
<1>1. RECENT \in Nat \ {0} /\ MaxLateness \in Nat
  BY Numbers
<1>2. ASSUME Telling(poll)
      PROVE  /\ \A j \in 1 .. Len(gaps) : gaps[j] >= poll - MaxLateness
             /\ \E j \in 1 .. Len(gaps) : gaps[j] <= poll
  <2>1. \A j \in 1 .. Len(gaps) : j > Len(gaps) - (steady - 1)
    BY <1>1
  <2>2. \A j \in 1 .. Len(gaps) : gaps[j] >= poll - MaxLateness
    BY <1>2, <2>1 DEF GapsTell
  <2>3. SUFFICES ASSUME ~\E j \in 1 .. Len(gaps) : gaps[j] <= poll PROVE FALSE
    BY <2>2
  <2>4. \A j \in 1 .. Len(gaps) : gaps[j] \in Nat /\ poll \in Nat
    BY Numbers DEF Types
  <2>5. LaterEach(steady - 1)
    BY <2>3, <2>4 DEF LaterEach
  <2>6. steady - 1 \in 1 .. steady - 1 /\ ~(steady - 1 <= was)
    BY <1>1, <1>2 DEF Telling
  <2> QED
    BY <1>2, <2>5, <2>6 DEF OnTime
<1>3. WakeState(EstimateSampleCadence(gaps), ticks) # "No recent packets"
  BY <1>2, NotStale DEF Types
<1> QED
  BY <1>3 DEF Updated

LEMMA TickKeeps == ASSUME FInv, Tick PROVE FInv'
<1>1. RECENT > 0
  <2>1. RECENT \in Nat \ {0}
    BY Numbers
  <2> QED
    BY <2>1
<1>2. /\ Types /\ poll \in Nat /\ MaxLateness \in Nat /\ wait \in Int
      /\ late \in 0 .. MaxLateness
  BY Numbers DEF FInv, Types
<1>3. UNCHANGED <<poll, late, off, gaps, online, missed, steady>> /\ age' = Older(age)
  BY DEF Tick, history_vars
<1>4. age' \in Nat \cup {Never} /\ (age # Never => age' # Never)
  <2>1. age # Never => age' # Never
    BY <1>2, <1>3, Numbers DEF Older, AtMost, AgeBound, AtLeast, Never, Types
  <2> QED
    BY <1>2, <1>3, <2>1, OlderType DEF Types
<1>5. page' \in [cadence : Nat, age : Nat \cup {Never}, wake : WakeStates]
  <2>1. CASE online
    BY <1>2, <1>3, <1>4, <2>1, PageType DEF Tick, Types
  <2>2. CASE ~online
    <3>1. page' = [page EXCEPT !.age = Older(page.age)]
      BY <2>2 DEF Tick, OlderOffline
    <3>2. Older(page.age) \in Nat \cup {Never}
      BY <1>2, OlderType DEF Types
    <3> QED
      BY <1>2, <3>1, <3>2 DEF Types
  <2> QED
    BY <2>1, <2>2
<1>6. Types'
  <2>1. wait' \in Int
    BY <1>2 DEF Tick
  <2> QED
    BY <1>2, <1>3, <1>4, <1>5, <2>1 DEF Types
<1>7. GapsTell'
  BY <1>3 DEF FInv, GapsTell
<1>8. ASSUME steady > 0, ~missed, online, NEW was \in 0 .. MaxLateness, OnTime(was)
      PROVE  OnTime(was)' /\ age' \in Nat /\ age' <= poll + MaxLateness
  <2>1. age \in Nat /\ wait > 0 /\ wait' = wait - 1
    BY <1>2, <1>8 DEF FInv, Tick, Types
  <2>2. age + wait = poll + late - was
    BY <1>8 DEF OnTime
  <2>3. age < poll + MaxLateness
    BY <1>2, <2>1, <2>2
  <2>4. age' = age + 1
    BY <1>2, <1>3, <2>1, <2>3, AgeIsExact DEF Types
  <2>5. age' + wait' = poll' + late' - was
    BY <1>2, <1>3, <2>1, <2>2, <2>4
  <2>6. OnTime(was)'
    BY <1>3, <1>8, <2>5 DEF OnTime, LaterEach
  <2> QED
    BY <1>2, <2>1, <2>3, <2>4, <2>6
<1>9. steady' > 0 /\ ~missed' /\ online' => \E was \in 0 .. MaxLateness : OnTime(was)'
  BY <1>3, <1>8 DEF FInv
<1>10. online' => page' = Updated(gaps', age')
  BY <1>3 DEF Tick
<1>11. StaleMeansMissedOnceSettled'
  <2> SUFFICES ASSUME steady' = RECENT, Len(gaps') = RECENT - 1, ~missed',
                      page'.wake = "No recent packets"
               PROVE  FALSE
    BY DEF StaleMeansMissedOnceSettled, StaleMeansMissed
  <2>1. steady = RECENT /\ Len(gaps) = RECENT - 1 /\ ~missed /\ steady > 0
    <3>1. steady = RECENT /\ Len(gaps) = RECENT - 1 /\ ~missed
      BY <1>3
    <3> QED
      BY <1>1, <3>1
  <2>2. CASE online
    <3>1. PICK was \in 0 .. MaxLateness : OnTime(was)
      BY <2>1, <2>2 DEF FInv
    <3>2. age' \in Nat /\ age' <= poll + MaxLateness
      BY <1>8, <2>1, <2>2, <3>1
    <3>3. page' = Updated(gaps, age')
      BY <2>2 DEF Tick
    <3> QED
      BY <1>2, <2>1, <3>1, <3>2, <3>3, SettledIsNotStale DEF FInv
  <2>3. CASE ~online
    <3>1. page'.wake = page.wake
      BY <1>2, <2>3 DEF Tick, OlderOffline, Types
    <3> QED
      BY <2>1, <3>1 DEF FInv, StaleMeansMissedOnceSettled, StaleMeansMissed
  <2> QED
    BY <2>2, <2>3
<1> QED
  BY <1>3, <1>4, <1>6, <1>7, <1>9, <1>10, <1>11 DEF FInv

LEMMA ScheduleType ==
  ASSUME Types, wait = 0, Schedule
  PROVE  /\ poll' \in Polls /\ late' \in 0 .. MaxLateness /\ wait' \in Int
         /\ poll' = poll => wait' = poll + late' - late
<1>1. PICK nap \in 1 .. poll' : (poll' = poll => nap = poll) /\ wait' = nap + late' - late
  BY DEF Schedule
<1>2. poll' \in Polls /\ late' \in 0 .. MaxLateness
  BY DEF Schedule
<1>3. poll' \in Nat /\ MaxLateness \in Nat /\ late \in Nat
  BY <1>2, Numbers DEF Types
<1> QED
  BY <1>1, <1>2, <1>3, Numbers

(***************************************************************************)
(* A packet received at the poll time of the one before tells as much as   *)
(* the gaps before it did, and is late if its gap is longer than the poll  *)
(* time.                                                                   *)
(***************************************************************************)
LEMMA NextGapTells ==
  ASSUME Types, GapsTell, NEW was \in 0 .. MaxLateness, OnTime(was), wait = 0,
         age \in Nat, steady \in 1 .. RECENT, steady - 1 <= Len(gaps), Telling(poll),
         NEW t \in Seq(Nat), t = KeptGaps(gaps, AtMost(age, GapBound)),
         NEW next, next = IF steady < RECENT THEN steady + 1 ELSE steady
  PROVE  /\ next - 1 <= Len(t)
         /\ \A j \in 1 .. Len(t) : j > Len(t) - (next - 1) => t[j] >= poll - MaxLateness
         /\ \A k \in 1 .. next - 1 :
              (\A j \in 1 .. Len(t) : j > Len(t) - k => t[j] > poll) => k <= late
<1> DEFINE new == AtMost(age, GapBound)
<1>1. /\ poll \in Nat \ {0} /\ MaxLateness \in Nat /\ RECENT \in Nat \ {0} /\ MAX_DELTA \in Nat
      /\ late \in 0 .. MaxLateness /\ gaps \in Seq(Nat) /\ Len(gaps) \in Nat
      /\ Len(gaps) <= RECENT - 1 /\ MaxLateness < poll
  BY Numbers DEF Types
<1>2. age = poll + late - was /\ poll <= MAX_DELTA
  <2>1. age + wait = poll + late - was
    BY DEF OnTime
  <2> QED
    BY <1>1, <2>1 DEF Telling
<1>3. new \in Nat /\ new <= age /\ new >= poll - MaxLateness
  BY <1>1, <1>2 DEF AtMost, GapBound
<1>4. t = KeptGaps(gaps, new)
  OBVIOUS
<1> HIDE DEF new
<1>5. /\ Len(t) \in Nat
      /\ Len(t) = AtMost(Len(gaps) + 1, RECENT - 1)
  BY <1>1, <1>3, <1>4, KeptFromTheEnd
<1>6. Len(t) > 0 => t[Len(t)] = new
  BY <1>1, <1>3, <1>4, KeptFromTheEnd
<1>7. PICK d \in Int : d = Len(gaps) + 1 - Len(t) /\ TakenFrom(gaps, t, d)
  <2>1. TakenFrom(gaps, t, Len(gaps) + 1 - Len(t))
    BY <1>1, <1>3, <1>4, KeptFromTheEnd
  <2>2. Len(gaps) + 1 - Len(t) \in Int
    BY <2>1 DEF TakenFrom
  <2> QED
    BY <2>1, <2>2
<1>8. /\ Len(t) <= Len(gaps) + 1 /\ Len(t) <= RECENT - 1
      /\ Len(gaps) + 1 <= RECENT - 1 => Len(t) = Len(gaps) + 1
      /\ Len(gaps) = RECENT - 1 => Len(t) = RECENT - 1
  BY <1>1, <1>5 DEF AtMost
<1>9. next \in Nat /\ next - 1 <= steady /\ next - 1 <= Len(t)
  BY <1>1, <1>5, <1>8
<1>10. ASSUME NEW j \in 1 .. Len(t), j > Len(t) - (next - 1) PROVE t[j] >= poll - MaxLateness
  <2>1. CASE j = Len(t)
    BY <1>3, <1>5, <1>6, <2>1
  <2>2. CASE j # Len(t)
    <3>1. PICK i \in 1 .. Len(gaps) : i = j + d /\ t[j] = gaps[i]
      <4>1. j \in 1 .. Len(t) - 1
        BY <1>5, <2>2
      <4> QED
        BY <1>7, <4>1 DEF TakenFrom
    <3>2. i > Len(gaps) - (steady - 1)
      BY <1>1, <1>5, <1>9, <1>10, <1>7, <3>1
    <3> QED
      BY <3>1, <3>2 DEF GapsTell
  <2> QED
    BY <2>1, <2>2
<1>11. ASSUME NEW k \in 1 .. next - 1, \A j \in 1 .. Len(t) : j > Len(t) - k => t[j] > poll
      PROVE  k <= late
  <2>1. k \in Nat /\ k >= 1 /\ k <= Len(t) /\ k <= steady /\ Len(t) \in 1 .. Len(t)
    BY <1>5, <1>9
  <2>2. late > was
    <3>1. t[Len(t)] > poll
      BY <1>11, <2>1
    <3>2. t[Len(t)] = new
      BY <1>6, <2>1
    <3> QED
      BY <1>1, <1>2, <1>3, <3>1, <3>2
  <2>3. CASE k = 1
    BY <1>1, <2>2, <2>3
  <2>4. CASE k > 1
    <3>1. ASSUME NEW i \in 1 .. Len(gaps), i > Len(gaps) - (k - 1) PROVE gaps[i] > poll
      <4>1. i \in Int /\ d \in Int
        OBVIOUS
      <4>2. PICK j \in Int : j = i - d
        BY <4>1
      <4>3. j \in 1 .. Len(t) - 1 /\ j > Len(t) - k /\ j + d = i
        <5>1. d = Len(gaps) + 1 - Len(t) /\ Len(gaps) \in Int /\ Len(t) \in Int /\ k \in Int
          BY <1>1, <1>5, <1>7, <2>1
        <5>2. i <= Len(gaps) /\ i > Len(gaps) - (k - 1) /\ k <= Len(t)
          BY <2>1, <3>1
        <5> QED
          BY <4>1, <4>2, <5>1, <5>2
      <4>4. t[j] = gaps[i] /\ j \in 1 .. Len(t)
        BY <1>5, <1>7, <4>3 DEF TakenFrom
      <4> QED
        BY <1>11, <4>3, <4>4
    <3>2. LaterEach(k - 1)
      BY <3>1 DEF LaterEach
    <3>3. k - 1 \in 1 .. steady - 1
      BY <2>1, <2>4
    <3>4. k - 1 <= was
      BY <3>2, <3>3 DEF OnTime
    <3> QED
      BY <1>1, <2>1, <2>2, <3>4
  <2> QED
    BY <2>1, <2>3, <2>4
<1> QED
  BY <1>9, <1>10, <1>11

LEMMA PacketSchedule ==
  ASSUME Types, Packet, steady' > 0
  PROVE  age' + wait' = poll' + late' - late
<1>1. wait = 0 /\ Schedule /\ age' = 0
  BY DEF Packet, Due
<1>2. poll' = poll
  BY DEF Packet
<1>3. wait' = poll' + late' - late /\ wait' \in Int
  BY <1>1, <1>2, ScheduleType
<1> QED
  BY <1>1, <1>3

(* The first case: the packet is the first listed, and has no gap. *)
LEMMA FirstPacketKeeps == ASSUME FInv, Packet, age = Never PROVE FInv'
<1>1. /\ Types /\ poll \in Nat /\ MaxLateness \in Nat /\ RECENT \in Nat \ {0}
      /\ late \in 0 .. MaxLateness /\ steady \in 0 .. RECENT
  BY Numbers DEF FInv, Types
<1>2. wait = 0 /\ ~off /\ online /\ Schedule
  BY DEF Packet, Due
<1>3. /\ poll' \in Polls /\ late' \in 0 .. MaxLateness /\ wait' \in Int
      /\ poll' = poll => wait' = poll + late' - late
  BY <1>1, <1>2, ScheduleType
<1>4. /\ age' = 0 /\ missed' = FALSE /\ off' = off /\ online' = online
      /\ page' = Updated(gaps', age')
      /\ steady' = IF poll' # poll THEN 0 ELSE IF steady < RECENT THEN steady + 1 ELSE steady
  BY DEF Packet
<1>5. steady = 0 /\ gaps' = <<>>
  BY <1>1 DEF FInv, Packet
<1>6. gaps' \in Seq(Nat) /\ Len(gaps') = 0
  BY <1>5
<1>7. steady' = 0 \/ steady' = 1
  BY <1>4, <1>5
<1>8. age' \in Nat \cup {Never} /\ age' \in Nat /\ age' # Never
  BY <1>4 DEF Never
<1>9. page' \in [cadence : Nat, age : Nat \cup {Never}, wake : WakeStates]
  BY <1>4, <1>6, <1>8, PageType
<1>10. Types'
  <2>1. steady' \in 0 .. RECENT
    BY <1>1, <1>7
  <2>2. Len(gaps') <= RECENT - 1
    BY <1>1, <1>6
  <2> QED
    BY <1>1, <1>2, <1>3, <1>4, <1>6, <1>8, <1>9, <2>1, <2>2 DEF Types
<1>11. GapsTell'
  BY <1>6 DEF GapsTell
<1>12. steady' > 0 => age' + wait' = poll' + late' - late
  BY <1>1, PacketSchedule
<1>13. steady' > 0 => \E was \in 0 .. MaxLateness : OnTime(was)'
  <2>1. PICK was \in 0 .. MaxLateness : was = late
    BY <1>1
  <2>2. steady' > 0 => age' + wait' = poll' + late' - was
    BY <1>12, <2>1
  <2>3. steady' > 0 => \A k \in 1 .. steady' - 1 : FALSE
    BY <1>7
  <2>4. steady' > 0 => OnTime(was)'
    BY <2>2, <2>3 DEF OnTime
  <2> QED
    BY <2>4
<1>14. StaleMeansMissedOnceSettled'
  <2>1. page'.wake # "No recent packets"
    BY <1>4, <1>6, FreshAtOnce
  <2> QED
    BY <2>1 DEF StaleMeansMissedOnceSettled, StaleMeansMissed
<1>15. steady' > 0 => age' # Never /\ steady' - 1 <= Len(gaps')
  <2>1. steady' - 1 <= Len(gaps')
    <3>1. Len(gaps') = 0
      BY <1>6
    <3> QED
      BY <1>7, <3>1
  <2> QED
    BY <1>8, <2>1
<1> QED
  BY <1>2, <1>4, <1>10, <1>11, <1>13, <1>14, <1>15 DEF FInv

(* A packet is received, its gap is listed, and the next is scheduled. *)
LEMMA PacketKeeps == ASSUME FInv, Packet PROVE FInv'
<1>1. /\ Types /\ poll \in Nat /\ MaxLateness \in Nat /\ RECENT \in Nat \ {0}
      /\ late \in 0 .. MaxLateness /\ steady \in 0 .. RECENT /\ MAX_DELTA \in Nat
      /\ gaps \in Seq(Nat) /\ Len(gaps) \in Nat /\ Len(gaps) <= RECENT - 1
  BY Numbers DEF FInv, Types
<1>2. wait = 0 /\ ~off /\ online /\ Schedule
  BY DEF Packet, Due
<1>3. /\ poll' \in Polls /\ late' \in 0 .. MaxLateness /\ wait' \in Int
      /\ poll' = poll => wait' = poll + late' - late
  BY <1>1, <1>2, ScheduleType
<1>4. /\ age' = 0 /\ missed' = FALSE /\ off' = off /\ online' = online
      /\ page' = Updated(gaps', age')
      /\ steady' = IF poll' # poll THEN 0 ELSE IF steady < RECENT THEN steady + 1 ELSE steady
  BY DEF Packet
<1>5. steady > 0 => /\ ~missed /\ age \in Nat /\ steady - 1 <= Len(gaps)
                    /\ \E was \in 0 .. MaxLateness : OnTime(was)
  BY <1>1, <1>2 DEF FInv, Types
<1>6. CASE age = Never
  BY <1>6, FirstPacketKeeps
<1>7. CASE age # Never
  <2>1. age \in Nat /\ AtMost(age, GapBound) \in Nat
    BY <1>1, <1>7 DEF Types, AtMost, GapBound
  <2>2. gaps' = KeptGaps(gaps, AtMost(age, GapBound))
    BY <1>7 DEF Packet, KeptGaps
  <2>3. /\ gaps' \in Seq(Nat) /\ Len(gaps') \in Nat
        /\ Len(gaps') = AtMost(Len(gaps) + 1, RECENT - 1)
    BY <1>1, <2>1, <2>2, KeptFromTheEnd
  <2>4. age' \in Nat \cup {Never} /\ age' \in Nat /\ age' # Never
    BY <1>4 DEF Never
  <2>5. page' \in [cadence : Nat, age : Nat \cup {Never}, wake : WakeStates]
    BY <1>4, <2>3, <2>4, PageType
  <2>6. steady' \in 0 .. RECENT
    BY <1>1, <1>4
  <2>7. Types'
    <3>1. Len(gaps') <= RECENT - 1
      BY <1>1, <2>3 DEF AtMost
    <3> QED
      <4>1. off' \in BOOLEAN /\ online' \in BOOLEAN /\ missed' \in BOOLEAN
        BY <1>1, <1>4 DEF Types
      <4> QED
        BY <1>3, <2>3, <2>4, <2>5, <2>6, <3>1, <4>1 DEF Types
  <2>8. steady' > 0 => age' # Never /\ steady' - 1 <= Len(gaps')
    <3>1. CASE steady = 0
      BY <1>1, <1>4, <2>3, <2>4, <3>1
    <3>2. CASE steady > 0
      BY <1>1, <1>4, <1>5, <2>3, <2>4, <3>2 DEF AtMost
    <3> QED
      BY <1>1, <3>1, <3>2
  <2>9. steady' = 0 \/ steady' = 1 \/
        (/\ steady > 0 /\ poll' = poll
         /\ steady' = IF steady < RECENT THEN steady + 1 ELSE steady)
    BY <1>1, <1>4
  <2>10. GapsTell'
    <3>1. CASE steady' = 0 \/ steady' = 1
      BY <2>3, <3>1 DEF GapsTell
    <3>2. CASE steady > 0 /\ poll' = poll
               /\ steady' = IF steady < RECENT THEN steady + 1 ELSE steady
      <4>1. PICK was \in 0 .. MaxLateness : OnTime(was)
        BY <1>5, <3>2
      <4>2. steady \in 1 .. RECENT /\ GapsTell
        BY <1>1, <3>2 DEF FInv
      <4>3. Telling(poll) => \A j \in 1 .. Len(gaps') :
              j > Len(gaps') - (steady' - 1) => gaps'[j] >= poll - MaxLateness
        BY <1>1, <1>2, <1>5, <2>1, <2>2, <2>3, <3>2, <4>1, <4>2, NextGapTells
      <4> QED
        BY <3>2, <4>3 DEF GapsTell
    <3> QED
      BY <2>9, <3>1, <3>2
  <2>11. steady' > 0 => \E was \in 0 .. MaxLateness : OnTime(was)'
    <3>1. PICK was0 \in 0 .. MaxLateness : was0 = late
      BY <1>1
    <3>2. steady' > 0 => age' + wait' = poll' + late' - was0
      BY <1>1, <1>2, <3>1, PacketSchedule
    <3>3. steady' > 0 /\ Telling(poll')
            => \A k \in 1 .. steady' - 1 :
                 (\A j \in 1 .. Len(gaps') : j > Len(gaps') - k => gaps'[j] > poll') => k <= was0
      <4>1. CASE steady' = 0 \/ steady' = 1
        BY <4>1
      <4>2. CASE steady > 0 /\ poll' = poll
                 /\ steady' = IF steady < RECENT THEN steady + 1 ELSE steady
        <5>1. PICK was \in 0 .. MaxLateness : OnTime(was)
          BY <1>5, <4>2
        <5>2. steady \in 1 .. RECENT /\ GapsTell
          BY <1>1, <4>2 DEF FInv
        <5>3. Telling(poll) => \A k \in 1 .. steady' - 1 :
                (\A j \in 1 .. Len(gaps') : j > Len(gaps') - k => gaps'[j] > poll) => k <= late
          BY <1>1, <1>2, <1>5, <2>1, <2>2, <2>3, <4>2, <5>1, <5>2, NextGapTells
        <5> QED
          BY <3>1, <4>2, <5>3
      <4> QED
        BY <2>9, <4>1, <4>2
    <3>4. steady' > 0 => OnTime(was0)'
      BY <3>2, <3>3 DEF OnTime, LaterEach
    <3> QED
      BY <3>4
  <2>12. StaleMeansMissedOnceSettled'
    <3>1. page'.wake # "No recent packets"
      BY <1>4, <2>3, FreshAtOnce
    <3> QED
      BY <3>1 DEF StaleMeansMissedOnceSettled, StaleMeansMissed
  <2> QED
    BY <1>2, <1>4, <2>7, <2>8, <2>10, <2>11, <2>12 DEF FInv
<1> QED
  BY <1>6, <1>7

LEMMA LostKeeps == ASSUME FInv, Lost PROVE FInv'
<1>1. Types /\ wait = 0 /\ ~off /\ online /\ Schedule
  BY DEF FInv, Lost, Due
<1>2. UNCHANGED <<off, gaps, age, online, page>> /\ missed' = TRUE /\ steady' = 0
  BY DEF Lost, relay_vars
<1>3. RECENT \in Nat \ {0} /\ gaps \in Seq(Nat) /\ Len(gaps) \in Nat
  BY <1>1, Numbers DEF Types
<1>4. Types'
  <2>1. steady' \in 0 .. RECENT
    BY <1>2, <1>3
  <2> QED
    BY <1>1, <1>2, <2>1, ScheduleType DEF Types
<1>5. GapsTell'
  BY <1>2, <1>3 DEF GapsTell
<1>6. StaleMeansMissedOnceSettled'
  BY <1>2 DEF StaleMeansMissedOnceSettled, StaleMeansMissed
<1> QED
  BY <1>1, <1>2, <1>4, <1>5, <1>6 DEF FInv

(* The device falls silent, or the page loses the relay. *)
LEMMA StopsKeep == ASSUME FInv, TurnsOff \/ Disconnects PROVE FInv'
<1>1. UNCHANGED <<poll, late, wait, gaps, age, page, steady>>
  BY DEF TurnsOff, Disconnects, device_vars, relay_vars, history_vars
<1>2. \/ off' = TRUE /\ missed' = TRUE /\ online' = online
      \/ off' = off /\ missed' = missed /\ online' = FALSE
  BY DEF TurnsOff, Disconnects, device_vars, history_vars
<1>3. Types' /\ GapsTell'
  BY <1>1, <1>2 DEF FInv, Types, GapsTell
<1>4. StaleMeansMissedOnceSettled'
  BY <1>1, <1>2 DEF FInv, StaleMeansMissedOnceSettled, StaleMeansMissed
<1> QED
  BY <1>1, <1>2, <1>3, <1>4 DEF FInv

LEMMA FStep == ASSUME FInv, [Next]_vars PROVE FInv'
<1>1. CASE Next
  BY <1>1, TickKeeps, PacketKeeps, LostKeeps, StopsKeep DEF Next
<1>2. CASE UNCHANGED vars
  <2>1. UNCHANGED <<poll, late, wait, off, gaps, age, online, page, missed, steady>>
    BY <1>2 DEF vars, device_vars, relay_vars, history_vars
  <2> QED
    BY <2>1 DEF FInv, Types, GapsTell, OnTime, LaterEach, StaleMeansMissedOnceSettled,
                StaleMeansMissed
<1> QED
  BY <1>1, <1>2

----------------------------------------------------------------------------
(***************************************************************************)
(* Once all the packets the cadence is learned from came at one poll time, *)
(* however late within bounds each of them was, the page shows "No recent  *)
(* packets" only if a packet that was due did not come.                    *)
(***************************************************************************)
THEOREM SettledIsNotSilence == Spec => []StaleMeansMissedOnceSettled
<1>1. FInv => StaleMeansMissedOnceSettled
  BY DEF FInv
<1> QED
  BY <1>1, FInit, FStep, PTL DEF Spec
=============================================================================
