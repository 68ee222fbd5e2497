------------------------------ MODULE Freshness -----------------------------
(***************************************************************************)
(* What the live page says of the link to the device: it learns the usual  *)
(* gap between packets from the last few it lists and calls the device     *)
(* silent once a packet is overdue by far.                                 *)
(*                                                                         *)
(* The device samples at one of several cadences, aligned to its clock, so *)
(* that a packet may be late but delays do not add up.  The page refreshes *)
(* itself within a tick, unless it has lost the relay; its countdown runs  *)
(* on a timer of its own either way.                                       *)
(***************************************************************************)
EXTENDS Integers, Sequences, FiniteSetsExt

CONSTANTS                 \* durations in ticks
  Polls,                  \* the device's poll times
  MaxLateness,            \* a packet may take so long to be received
  RECENT,                 \* packets the cadence is learned from
  MIN_DELTA, MAX_DELTA,   \* only gaps from the one to the other count
  DEFAULT_PACKET_CADENCE, \* what it is taken for before
  MIN_PACKET_STALE,       \* the age up to which a packet is never stale
  MIN_PACKET_FRESH,       \* and up to which it is always fresh
  MayLose                 \* may packets be lost?

ASSUME FreshnessAssumption ==
  /\ Polls \subseteq Nat \ {0} /\ \A poll \in Polls : MaxLateness < poll
  /\ RECENT \in Nat \ {0}
  /\ {MaxLateness, MIN_DELTA, MAX_DELTA, DEFAULT_PACKET_CADENCE,
      MIN_PACKET_STALE, MIN_PACKET_FRESH} \subseteq Nat
  /\ MayLose \in BOOLEAN

(***************************************************************************)
(* Packets at a short poll time are never old enough to be stale.  At a    *)
(* long one, gaps on time count, they tell the poll time well enough, and  *)
(* RECENT packets cannot each be later than the one before.                *)
(***************************************************************************)
Telling(p) ==
  /\ MIN_DELTA + MaxLateness <= p /\ p <= MAX_DELTA
  /\ p + MaxLateness <= 4 * (p - MaxLateness)
  /\ MaxLateness < RECENT - 1

ASSUME CadenceAssumption ==
  \A p \in Polls : p + MaxLateness <= MIN_PACKET_STALE \/ Telling(p)

VARIABLES
  poll,     \* the device's present poll time
  late,     \* how late its last packet was
  wait,     \* ticks until the next one
  off,      \* has it been switched off?
  gaps,     \* the gaps between the packets received last, newest last
  age,      \* ticks since the last one, or Never
  online,   \* does the page reach the relay?
  page      \* what it shows: the cadence, the age of the newest packet, and
            \* the state of the wake node

(* What happened, for the properties only. *)
VARIABLES
  missed,   \* has a packet not come since the last one received?
  steady    \* packets in a row received at the present poll time

device_vars == <<poll, late, wait, off>>
relay_vars == <<gaps, age>>
history_vars == <<missed, steady>>
vars == <<device_vars, relay_vars, online, page, history_vars>>

Never == -1

AtLeast(a, b) == IF a >= b THEN a ELSE b
AtMost(a, b) == IF a <= b THEN a ELSE b

(* A gap or an age beyond these bounds is like any longer one. *)
GapBound == MAX_DELTA + 1
AgeBound == AtLeast(MIN_PACKET_STALE, 4 * MAX_DELTA) + 1

----------------------------------------------------------------------------
(* The page's estimates *)

(* Mistake: a gap of exactly the longest poll time does not count. *)
CountedBelowLimit(delta) == delta >= MIN_DELTA /\ delta < MAX_DELTA

Counted(delta) == delta >= MIN_DELTA /\ delta <= MAX_DELTA

(* The upper median of the gaps that count: more than half are up to it. *)
EstimateSampleCadence(deltas) ==
  LET counted == {i \in DOMAIN deltas : Counted(deltas[i])}
      UpTo(delta) == {i \in counted : deltas[i] <= delta}
      enough == {i \in counted : 2 * Cardinality(UpTo(deltas[i])) > Cardinality(counted)}
  IN  IF counted = {} THEN DEFAULT_PACKET_CADENCE ELSE Min({deltas[i] : i \in enough})

FreshnessLimit(cadence) == AtLeast(MIN_PACKET_STALE, 4 * cadence)

(* updateConnectionIndicators, of the wake node; the link node goes with it. *)
WakeState(cadence, ticks) ==
  CASE ticks = Never \/ ticks > FreshnessLimit(cadence)       -> "No recent packets"
    [] 2 * ticks <= AtLeast(2 * MIN_PACKET_FRESH, 3 * cadence) -> "Packet fresh"
    [] OTHER                                                   -> "Waiting for next packet"

Updated(deltas, ticks) ==
  LET cadence == EstimateSampleCadence(deltas)
  IN  [cadence |-> cadence, age |-> ticks, wake |-> WakeState(cadence, ticks)]

(* updatePingCountdown *)
Countdown ==
  CASE page.age = Never                          -> "No packets"
    [] page.age > FreshnessLimit(page.cadence)   -> "No recent packets"
    [] page.age < page.cadence                   -> "Next expected"
    [] OTHER                                     -> "Due now"

----------------------------------------------------------------------------
Older(ticks) == IF ticks = Never THEN Never ELSE AtMost(ticks + 1, AgeBound)

(* Mistake: without the relay the age stays what the last answer made it. *)
OlderWhenOnline == page

(* Without the relay only the countdown goes on. *)
OlderOffline == [page EXCEPT !.age = Older(page.age)]

Tick ==
  /\ wait > 0 \/ off \/ ~online
  /\ wait' = IF wait > 0 THEN wait - 1 ELSE 0
  /\ age' = Older(age)
  /\ page' = IF online THEN Updated(gaps, age') ELSE OlderOffline
  /\ UNCHANGED <<poll, late, off, gaps, online, history_vars>>

(* The next sample: at the next multiple of the poll time, old or new. *)
Schedule ==
  /\ poll' \in Polls
  /\ late' \in 0 .. MaxLateness
  /\ \E nap \in {n \in 1 .. poll' : n % AtMost(poll, poll') = 0} :
       /\ poll' = poll => nap = poll
       /\ wait' = nap + late' - late

Due == wait = 0 /\ ~off /\ online

(* A sample the page lists is received. *)
Packet ==
  /\ Due /\ Schedule
  /\ gaps' = IF age = Never THEN <<>>
             ELSE LET all == Append(gaps, AtMost(age, GapBound))
                  IN  SubSeq(all, AtLeast(1, Len(all) - RECENT + 2), Len(all))
  /\ age' = 0
  /\ page' = Updated(gaps', age')
  /\ missed' = FALSE
  /\ steady' = IF poll' # poll THEN 0 ELSE IF steady < RECENT THEN steady + 1 ELSE steady
  /\ UNCHANGED <<off, online>>

(* A sample is lost on its way. *)
Lost ==
  /\ MayLose
  /\ Due /\ Schedule
  /\ missed' = TRUE
  /\ steady' = 0
  /\ UNCHANGED <<off, relay_vars, online, page>>

(* The device loses its power bank or its Wi-Fi and stays silent. *)
TurnsOff ==
  /\ MayLose
  /\ Due
  /\ off' = TRUE
  /\ missed' = TRUE
  /\ UNCHANGED <<poll, late, wait, relay_vars, online, page, steady>>

(***************************************************************************)
(* The page loses the relay, for good here: what it shows in an outage     *)
(* that ends is what it shows until then, and packets received meanwhile   *)
(* make no difference to it.  It loses it as a packet is due: earlier, the *)
(* newest packet would come to the same age with nothing else changed.     *)
(***************************************************************************)
Disconnects ==
  /\ Due
  /\ online' = FALSE
  /\ UNCHANGED <<device_vars, relay_vars, page, history_vars>>

Init ==
  /\ poll \in Polls /\ late = 0 /\ wait = poll /\ off = FALSE
  /\ gaps = <<>> /\ age = Never
  /\ online = TRUE /\ page = Updated(gaps, age)
  /\ missed = FALSE /\ steady = 0

Next == Tick \/ Packet \/ Lost \/ TurnsOff \/ Disconnects

(* Time passes, and the page's timers with it. *)
Spec == Init /\ [][Next]_vars /\ WF_vars(Tick)

----------------------------------------------------------------------------
(* Properties *)

(***************************************************************************)
(* "If the dashboard says there are no recent packets, check the device's  *)
(* power bank and Wi-Fi" (README.md): once as many packets are listed as   *)
(* the cadence is learned from, the page says so only if a packet that was *)
(* due did not come.                                                       *)
(***************************************************************************)
StaleMeansMissed ==
  Len(gaps) = RECENT - 1 /\ page.wake = "No recent packets" => missed

(***************************************************************************)
(* It is so at least once all the packets the cadence is learned from have *)
(* come at the present poll time, whichever that is and however late       *)
(* within bounds each of them was.                                         *)
(***************************************************************************)
StaleMeansMissedOnceSettled == steady = RECENT => StaleMeansMissed

(***************************************************************************)
(* A device that is silent for good, or a relay that is out of reach for   *)
(* good, shows in the countdown, whatever cadence was learned before.      *)
(***************************************************************************)
SilenceIsShown ==
  <>[](off \/ ~online) => <>[](Countdown \in {"No recent packets", "No packets"})
=============================================================================
