----------------------------- MODULE RelayProofs ----------------------------
(***************************************************************************)
(* For every device, network and failure that Relay allows, and any number *)
(* of events, boots and requests under way: no message is pushed twice,    *)
(* the completions of one boot of older firmware lead to one message at    *)
(* most, and the variables keep their types.  How the relay decides about  *)
(* its own completions plays no part in these.  The last parts are about   *)
(* that decision: an alert rests on quiet, it is about new motion unless   *)
(* older motion has been averaged with samples since for long enough, and  *)
(* while the clocks are close to each other their difference withholds     *)
(* none.                                                                   *)
(***************************************************************************)
EXTENDS Relay, ListProofs

----------------------------------------------------------------------------
(* The inductive invariant *)

DeviceEvents ==
  [origin : {"device"}, cycle_id : Nat, n : Nat,
   state : NOTIFICATION_STATES \cup {"calibration_sample"},
   reading : Reading, uptime : Int, device_time : Int]

ServerEvents ==
  [origin : {"server"}, cycle_id : Nat, n : Nat, state : {"done_sent"},
   reading : {NoReading}, uptime : Int, device_time : {NoTime}]

Typed ==
  /\ clock \in Nat /\ skew \in Int /\ boot \in Nat /\ booted \in Nat
  /\ synced \in BOOLEAN /\ counter \in Nat
  /\ net \subseteq [event : DeviceEvents, sent : Nat]
  /\ \A row \in db : row.received_at \in Nat
  /\ pushed \in [DOMAIN pushed -> Nat]

(* No request is older than the network lets it become, nor from the future. *)
Recent ==
  \A m \in net : m.sent <= clock /\ clock - m.sent <= MaxDelay /\ m.event.n <= counter

(* The ids under which a request may lead to a message. *)
MessageIds(e) == {<<"device", e.cycle_id, e.n>>, <<"server", e.cycle_id, e.n>>}

PushedWereSent ==
  \A id \in DOMAIN pushed : \E e \in DeviceEvents : e.n <= counter /\ id \in MessageIds(e)

StoredSince(m) ==
  \E row \in db : EventId(row.event) = EventId(m.event) /\ row.received_at >= m.sent

(***************************************************************************)
(* A request of which a copy is still under way is remembered, if it led   *)
(* to a message: its event was stored after it was sent.                   *)
(***************************************************************************)
PushedIsStored ==
  \A m \in net : (\E id \in MessageIds(m.event) : id \in DOMAIN pushed) => StoredSince(m)

(* OneDeviceDonePerBoot without counting. *)
DeviceDonePushed(row) ==
  /\ row.event.origin = "device" /\ row.event.state = "done_sent"
  /\ EventId(row.event) \in DOMAIN pushed

DeviceDoneIsOne ==
  \A r, s \in db :
    DeviceDonePushed(r) /\ DeviceDonePushed(s) /\ r.event.cycle_id = s.event.cycle_id => r = s

IInv ==
  /\ Typed /\ Recent /\ PushedWereSent /\ PushedIsStored
  /\ PushedAtMostOnce /\ DeviceDoneIsOne

----------------------------------------------------------------------------
(* One request *)

(* A row that is younger than a request under way has not expired. *)
LEMMA YoungRowsStay ==
  ASSUME Typed, Recent, NEW m \in net, NEW row \in db, row.received_at >= m.sent
  PROVE  row \in Unexpired(db)
<1>1. m.sent \in Nat /\ row.received_at \in Nat /\ clock \in Nat
  BY DEF Typed
<1>2. clock - row.received_at <= EVENT_RETENTION
  BY <1>1, RelayAssumption, DelayAssumption DEF Recent
<1> QED
  BY <1>2 DEF Unexpired

(* A request that already led to a message is a duplicate. *)
LEMMA PushedIsDuplicate ==
  ASSUME IInv, NEW m \in net, EventId(m.event) \notin StoredIds(Unexpired(db))
  PROVE  \A id \in MessageIds(m.event) : id \notin DOMAIN pushed
<1> SUFFICES ASSUME \E id \in MessageIds(m.event) : id \in DOMAIN pushed
             PROVE  FALSE
  OBVIOUS
<1>1. PICK row \in db : EventId(row.event) = EventId(m.event) /\ row.received_at >= m.sent
  BY DEF IInv, PushedIsStored, StoredSince
<1>2. row \in Unexpired(db)
  BY <1>1, YoungRowsStay DEF IInv
<1> QED
  BY <1>1, <1>2 DEF StoredIds

(***************************************************************************)
(* What a request does to the table and to the pushes, whatever the relay  *)
(* decides about it and however its step ends.                             *)
(***************************************************************************)
Effect(m, ids) ==
  /\ net' \subseteq net /\ UNCHANGED <<clock, device_vars>>
  /\ Unexpired(db) \subseteq db'
  /\ \A row \in db' \ Unexpired(db) :
       /\ row.received_at = clock
       /\ \/ row.event = m.event /\ row = [event |-> m.event, received_at |-> clock]
          \/ row.event \in ServerEvents
       /\ EventId(m.event) \notin StoredIds(Unexpired(db))
  /\ CountPush(ids)
  /\ ids \subseteq MessageIds(m.event)
  /\ ids # {} =>
       /\ EventId(m.event) \notin StoredIds(Unexpired(db))
       /\ [event |-> m.event, received_at |-> clock] \in db'
  /\ EventId(m.event) \in ids =>
       ~DoneSentForCycleExists(db, m.event) /\ m.event.state \in NOTIFICATION_STATES

LEMMA RequestEffect ==
  ASSUME Typed, NEW m \in net, NEW kept, NEW outcome, ReceiveEvent(m, kept, outcome)
  PROVE  \E ids : Effect(m, ids)
<1> DEFINE e         == m.event
           rows      == Unexpired(db)
           duplicate == EventId(e) \in StoredIds(rows)
           with_e    == IF duplicate THEN rows ELSE rows \cup {Stored(e, clock)}
           decides   == /\ ~duplicate /\ e.state = "calibration_sample"
                        /\ outcome # "dies"
                        /\ ServerDone(with_e, e)
                        /\ EventId(ServerDoneEvent(e)) \notin StoredIds(with_e)
           announces == /\ ~duplicate /\ ~DoneSentForCycleExists(db, e)
                        /\ e.state \in NOTIFICATION_STATES
           messages  == (IF decides THEN {EventId(ServerDoneEvent(e))} ELSE {})
                        \cup (IF announces THEN {EventId(e)} ELSE {})
           ids       == IF outcome = "ok" THEN messages ELSE {}
<1>1. /\ net' = IF kept THEN net ELSE net \ {m}
      /\ db' = with_e \cup (IF decides THEN {Stored(ServerDoneEvent(e), clock)} ELSE {})
      /\ CountPush(ids)
      /\ UNCHANGED <<clock, device_vars>>
  BY DEF ReceiveEvent
<1>2. e \in DeviceEvents
  BY DEF Typed
<1>3. /\ EventId(e) = <<"device", e.cycle_id, e.n>>
      /\ EventId(ServerDoneEvent(e)) = <<"server", e.cycle_id, e.n>>
      /\ ServerDoneEvent(e) \in ServerEvents
  BY <1>2 DEF EventId, ServerDoneEvent, DeviceEvents, ServerEvents
<1>4. Stored(e, clock) = [event |-> e, received_at |-> clock]
  BY DEF Stored
<1>5. /\ Stored(ServerDoneEvent(e), clock).received_at = clock
      /\ Stored(ServerDoneEvent(e), clock).event \in ServerEvents
  BY <1>3 DEF Stored
<1> HIDE DEF e, rows
<1>6. /\ rows \subseteq db'
      /\ \A row \in db' \ rows :
           /\ row = Stored(e, clock) \/ row = Stored(ServerDoneEvent(e), clock)
           /\ ~duplicate
  BY <1>1
<1>7. \A row \in db' \ rows :
        /\ row.received_at = clock
        /\ \/ row.event = e /\ row = [event |-> e, received_at |-> clock]
           \/ row.event \in ServerEvents
        /\ ~duplicate
  BY <1>4, <1>5, <1>6
<1>8. /\ ids \subseteq MessageIds(e)
      /\ ids # {} => ~duplicate /\ [event |-> e, received_at |-> clock] \in db'
  BY <1>1, <1>3, <1>4 DEF MessageIds
<1>9. EventId(e) \in ids =>
        ~DoneSentForCycleExists(db, e) /\ e.state \in NOTIFICATION_STATES
  BY <1>3
<1> QED
  BY <1>1, <1>7, <1>6, <1>8, <1>9 DEF Effect, e, rows

----------------------------------------------------------------------------
(* The invariant is kept *)

LEMMA RequestKeepsInvariant ==
  ASSUME IInv, NEW m \in net, NEW kept, NEW outcome, ReceiveEvent(m, kept, outcome)
  PROVE  IInv'
<1>1. PICK ids : Effect(m, ids)
  BY RequestEffect DEF IInv
<1> DEFINE e == m.event
           fresh == EventId(e) \notin StoredIds(Unexpired(db))
<1>2. /\ e \in DeviceEvents /\ clock \in Nat /\ m.sent \in Nat
      /\ EventId(e) = <<"device", e.cycle_id, e.n>> /\ e.n <= counter /\ m.sent <= clock
  BY DEF IInv, Typed, Recent, DeviceEvents, EventId
<1>3. fresh => MessageIds(e) \cap DOMAIN pushed = {}
  BY PushedIsDuplicate
<1>4. /\ DOMAIN pushed' = DOMAIN pushed \cup ids
      /\ \A id \in DOMAIN pushed' :
           pushed'[id] = (IF id \in DOMAIN pushed THEN pushed[id] ELSE 0)
                         + (IF id \in ids THEN 1 ELSE 0)
      /\ pushed' = [id \in DOMAIN pushed' |-> pushed'[id]]
  BY <1>1 DEF Effect, CountPush
<1>5. ids \cap DOMAIN pushed = {} /\ ids \subseteq MessageIds(e)
  BY <1>1, <1>3 DEF Effect
<1>6. Typed'
  <2>1. \A row \in db' : row.received_at \in Nat
    BY <1>1, <1>2 DEF Effect, IInv, Typed, Unexpired
  <2>2. \A id \in DOMAIN pushed' : pushed'[id] \in Nat
    BY <1>4 DEF IInv, Typed
  <2> QED
    BY <1>1, <1>4, <2>1, <2>2 DEF Effect, IInv, Typed, device_vars
<1>7. Recent'
  BY <1>1 DEF Effect, IInv, Recent, device_vars
<1>8. PushedWereSent'
  BY <1>1, <1>2, <1>4, <1>5 DEF Effect, IInv, PushedWereSent, device_vars
<1>9. PushedIsStored'
  <2> SUFFICES ASSUME NEW q \in net', NEW id \in MessageIds(q.event), id \in DOMAIN pushed'
               PROVE  StoredSince(q)'
    BY DEF PushedIsStored
  <2>1. q \in net /\ q.event \in DeviceEvents /\ q.sent \in Nat /\ q.sent <= clock
    BY <1>1 DEF Effect, IInv, Typed, Recent
  <2>2. CASE id \in DOMAIN pushed
    <3>1. PICK row \in db : EventId(row.event) = EventId(q.event) /\ row.received_at >= q.sent
      BY <2>1, <2>2 DEF IInv, PushedIsStored, StoredSince
    <3>2. row \in db'
      BY <1>1, <2>1, <3>1, YoungRowsStay DEF Effect, IInv
    <3> QED
      BY <3>1, <3>2 DEF StoredSince
  <2>3. CASE id \in ids
    <3>1. [event |-> e, received_at |-> clock] \in db'
      BY <1>1, <2>3 DEF Effect
    <3>2. q.event.cycle_id = e.cycle_id /\ q.event.n = e.n /\ q.event.origin = e.origin
      BY <1>2, <1>5, <2>1, <2>3 DEF MessageIds, DeviceEvents
    <3>3. EventId(e) = EventId(q.event)
      BY <3>2 DEF EventId
    <3> QED
      BY <1>2, <2>1, <3>1, <3>3 DEF StoredSince
  <2> QED
    BY <1>4, <2>2, <2>3
<1>10. PushedAtMostOnce'
  BY <1>4, <1>5 DEF IInv, PushedAtMostOnce, Typed
<1>11. DeviceDoneIsOne'
  <2> SUFFICES ASSUME NEW r \in db', NEW s \in db',
                      DeviceDonePushed(r)', DeviceDonePushed(s)',
                      r.event.cycle_id = s.event.cycle_id
               PROVE  r = s
    BY DEF DeviceDoneIsOne
  <2>1. ASSUME NEW t \in Unexpired(db), DeviceDonePushed(t)'
        PROVE  t \in db /\ DeviceDonePushed(t)
    <3>1. t \in db
      BY DEF Unexpired
    <3>2. EventId(t.event) \notin ids
      <4> SUFFICES ASSUME EventId(t.event) \in ids
                   PROVE  FALSE
        OBVIOUS
      <4>1. EventId(t.event) = EventId(e)
        BY <1>2, <1>5, <2>1 DEF MessageIds, DeviceDonePushed, EventId
      <4> QED
        BY <1>1, <4>1 DEF Effect, StoredIds
    <3> QED
      BY <1>4, <2>1, <3>1, <3>2 DEF DeviceDonePushed
  <2>2. ASSUME NEW t \in db' \ Unexpired(db), DeviceDonePushed(t)'
        PROVE  /\ t = [event |-> e, received_at |-> clock] /\ t.event = e
               /\ \A u \in db : ~(u.event.state = "done_sent" /\ u.event.cycle_id = e.cycle_id)
    <3>1. t = [event |-> e, received_at |-> clock] /\ t.event = e /\ fresh
      BY <1>1, <2>2 DEF Effect, DeviceDonePushed, ServerEvents
    <3>2. EventId(e) \in ids
      BY <1>2, <1>3, <1>4, <2>2, <3>1 DEF DeviceDonePushed, MessageIds
    <3> QED
      BY <1>1, <2>2, <3>1, <3>2 DEF Effect, DoneSentForCycleExists, DeviceDonePushed
  <2>3. CASE r \in Unexpired(db) /\ s \in Unexpired(db)
    BY <2>1, <2>3 DEF IInv, DeviceDoneIsOne
  <2>4. CASE r \notin Unexpired(db) /\ s \notin Unexpired(db)
    BY <2>2, <2>4
  <2>5. CASE r \notin Unexpired(db) /\ s \in Unexpired(db)
    BY <2>1, <2>2, <2>5 DEF DeviceDonePushed
  <2>6. CASE r \in Unexpired(db) /\ s \notin Unexpired(db)
    BY <2>1, <2>2, <2>6 DEF DeviceDonePushed
  <2> QED
    BY <2>3, <2>4, <2>5, <2>6
<1> QED
  BY <1>6, <1>7, <1>8, <1>9, <1>10, <1>11 DEF IInv

(* An event the device sends has a number of its own. *)
LEMMA SendKeepsInvariant ==
  ASSUME IInv, NEW st \in NOTIFICATION_STATES \cup {"calibration_sample"},
         NEW r \in Reading, NEW at \in Nat, at >= clock, clock' = at,
         Send(Event(st, r, at), at), synced' \in BOOLEAN,
         UNCHANGED <<skew, boot, booted, db, pushed>>
  PROVE  IInv'
<1> DEFINE e == Event(st, r, at)
<1>1. e \in DeviceEvents /\ e.n = counter + 1
  <2>1. at - booted \in Int /\ at - skew \in Int /\ NoTime \in Int /\ counter + 1 \in Nat
    BY DEF IInv, Typed, NoTime
  <2> QED
    BY <2>1 DEF IInv, Typed, Event, DeviceEvents
<1>2. counter' = counter + 1 /\ net' = UnderWay(at) \cup {[event |-> e, sent |-> at]}
  BY DEF Send
<1>3. \A m \in UnderWay(at) : m \in net /\ m.sent \in Nat /\ at - m.sent <= MaxDelay
  BY DEF UnderWay, IInv, Typed
<1>4. Typed'
  BY <1>1, <1>2, <1>3 DEF IInv, Typed
<1>5. Recent'
  <2> SUFFICES ASSUME NEW m \in net'
               PROVE  m.sent <= at /\ at - m.sent <= MaxDelay /\ m.event.n <= counter + 1
    BY <1>2 DEF Recent
  <2>1. CASE m \in UnderWay(at)
    <3>1. m.event.n \in Nat /\ m.event.n <= counter /\ m.sent <= clock
      BY <1>3, <2>1 DEF IInv, Typed, Recent, DeviceEvents
    <3> QED
      BY <1>3, <2>1, <3>1 DEF IInv, Typed
  <2>2. CASE m = [event |-> e, sent |-> at]
    BY <1>1, <2>2, RelayAssumption DEF IInv, Typed
  <2> QED
    BY <1>2, <2>1, <2>2
<1>6. PushedWereSent'
  <2> SUFFICES ASSUME NEW id \in DOMAIN pushed
               PROVE  \E q \in DeviceEvents : q.n <= counter + 1 /\ id \in MessageIds(q)
    BY <1>2 DEF PushedWereSent
  <2>1. PICK q \in DeviceEvents : q.n <= counter /\ id \in MessageIds(q)
    BY DEF IInv, PushedWereSent
  <2>2. q.n <= counter + 1
    BY <2>1 DEF IInv, Typed, DeviceEvents
  <2> QED
    BY <2>1, <2>2
<1>7. PushedIsStored'
  <2> SUFFICES ASSUME NEW m \in net', NEW id \in MessageIds(m.event), id \in DOMAIN pushed
               PROVE  StoredSince(m)'
    BY DEF PushedIsStored
  <2>1. CASE m \in UnderWay(at)
    BY <1>3, <2>1 DEF IInv, PushedIsStored, StoredSince
  <2>2. m # [event |-> e, sent |-> at]
    <3> SUFFICES ASSUME m.event = e
                 PROVE  FALSE
      OBVIOUS
    <3>1. PICK q \in DeviceEvents : q.n <= counter /\ id \in MessageIds(q)
      BY DEF IInv, PushedWereSent
    <3>2. q.n = e.n
      BY <3>1 DEF MessageIds
    <3> QED
      BY <1>1, <3>1, <3>2 DEF IInv, Typed
  <2> QED
    BY <1>2, <2>1, <2>2
<1>8. PushedAtMostOnce' /\ DeviceDoneIsOne'
  BY DEF IInv, PushedAtMostOnce, DeviceDoneIsOne, DeviceDonePushed
<1> QED
  BY <1>4, <1>5, <1>6, <1>7, <1>8 DEF IInv

(* A listing deletes expired rows only. *)
LEMMA ListingKeepsInvariant ==
  ASSUME IInv, ListEvents
  PROVE  IInv'
<1>1. /\ db' = Unexpired(db) /\ Unexpired(db) \subseteq db
      /\ UNCHANGED <<clock, device_vars, net, pushed>>
  BY DEF ListEvents, Unexpired
<1>2. Typed' /\ Recent' /\ PushedWereSent' /\ PushedAtMostOnce' /\ DeviceDoneIsOne'
  BY <1>1 DEF IInv, Typed, Recent, PushedWereSent, PushedAtMostOnce, DeviceDoneIsOne,
              DeviceDonePushed, device_vars
<1>3. PushedIsStored'
  <2> SUFFICES ASSUME NEW m \in net, NEW id \in MessageIds(m.event), id \in DOMAIN pushed
               PROVE  StoredSince(m)'
    BY <1>1 DEF PushedIsStored
  <2>1. PICK row \in db : EventId(row.event) = EventId(m.event) /\ row.received_at >= m.sent
    BY DEF IInv, PushedIsStored, StoredSince
  <2> QED
    BY <1>1, <2>1, YoungRowsStay DEF IInv, StoredSince
<1> QED
  BY <1>2, <1>3 DEF IInv

LEMMA InitInvariant == Init => IInv
<1> SUFFICES ASSUME Init
             PROVE  IInv
  OBVIOUS
<1>1. skew \in Int /\ clock \in Nat
  <2>1. skew \in Int
    BY RelayAssumption DEF Init
  <2>2. PICK x \in {0, skew} : \A y \in {0, skew} : x >= y
    BY <2>1
  <2>3. clock \in {0, skew} /\ \A y \in {0, skew} : clock >= y
    BY <2>2 DEF Init, Max
  <2> QED
    BY <2>1, <2>3
<1>2. Typed
  <2>1. pushed \in [DOMAIN pushed -> Nat]
    <3>1. pushed \in Seq(Nat) /\ DOMAIN pushed = 1 .. Len(pushed)
      BY DEF Init
    <3> QED
      BY <3>1
  <2>2. /\ boot \in Nat /\ booted \in Nat /\ synced \in BOOLEAN /\ counter \in Nat
        /\ net = {} /\ db = {}
    BY <1>1 DEF Init
  <2> QED
    BY <1>1, <2>1, <2>2 DEF Typed
<1>3. Recent /\ PushedWereSent /\ PushedIsStored /\ PushedAtMostOnce /\ DeviceDoneIsOne
  BY DEF Init, Recent, PushedWereSent, PushedIsStored, PushedAtMostOnce, DeviceDoneIsOne
<1> QED
  BY <1>2, <1>3 DEF IInv

LEMMA StepKeepsInvariant == IInv /\ [Next]_vars => IInv'
<1> SUFFICES ASSUME IInv, [Next]_vars
             PROVE  IInv'
  OBVIOUS
<1>1. CASE TakeSample
  <2>1. PICK r \in Readings, gap \in SampleGaps :
          /\ clock' = clock + gap
          /\ Send(Event("calibration_sample", r, clock + gap), clock + gap)
          /\ synced' \in (IF NtpMayFail THEN {synced, TRUE} ELSE {TRUE})
          /\ UNCHANGED <<skew, boot, booted, db, pushed>>
    BY <1>1 DEF TakeSample
  <2>2. r \in Reading /\ clock + gap \in Nat /\ clock + gap >= clock
    BY <2>1, RelayAssumption DEF IInv, Typed
  <2>3. synced \in BOOLEAN /\ (synced' = synced \/ synced' = TRUE)
    BY <2>1 DEF IInv, Typed
  <2>4. synced' \in BOOLEAN
    BY <2>3
  <2> QED
    BY <2>1, <2>2, <2>4, SendKeepsInvariant
<1>2. CASE SendOther
  <2>1. PICK st \in OtherEvents :
          /\ Send(Event(st, NoReading, clock), clock)
          /\ UNCHANGED <<clock, skew, boot, booted, synced, db, pushed>>
    BY <1>2 DEF SendOther
  <2>2. /\ st \in NOTIFICATION_STATES /\ NoReading \in Reading
        /\ clock \in Nat /\ clock >= clock /\ synced' \in BOOLEAN
    BY <2>1, RelayAssumption DEF IInv, Typed, NOTIFICATION_STATES, NoReading, Reading
  <2> QED
    BY <2>1, <2>2, SendKeepsInvariant
<1>3. CASE Restart
  <2>1. /\ boot' = boot + 1 /\ booted' = clock /\ synced' = FALSE
        /\ UNCHANGED <<clock, skew, counter, net, db, pushed>>
    BY <1>3 DEF Restart
  <2>2. boot' \in Nat
    BY <2>1 DEF IInv, Typed
  <2>3. Typed'
    <3>1. synced' \in BOOLEAN
      BY <2>1
    <3> QED
      BY <2>1, <2>2, <3>1 DEF IInv, Typed
  <2>4. Recent' /\ PushedWereSent' /\ PushedIsStored' /\ PushedAtMostOnce' /\ DeviceDoneIsOne'
    BY <2>1 DEF IInv, Recent, PushedWereSent, PushedIsStored, StoredSince,
                PushedAtMostOnce, DeviceDoneIsOne, DeviceDonePushed
  <2> QED
    BY <2>3, <2>4 DEF IInv
<1>4. CASE Receive
  BY <1>4, RequestKeepsInvariant DEF Receive
<1>5. CASE ListEvents
  BY <1>5, ListingKeepsInvariant
<1>6. CASE UNCHANGED vars
  BY <1>6 DEF vars, device_vars, IInv, Typed, Recent, PushedWereSent, PushedIsStored,
              StoredSince, PushedAtMostOnce, DeviceDoneIsOne, DeviceDonePushed
<1> QED
  BY <1>1, <1>2, <1>3, <1>4, <1>5, <1>6 DEF Next

----------------------------------------------------------------------------
(* The theorems *)

(***************************************************************************)
(* The inductive invariant: an event that led to a message and of which a  *)
(* request is still under way is in the events table, so that receive_event*)
(* takes the request for a duplicate.                                      *)
(***************************************************************************)
THEOREM MessagesRemembered == Spec => []IInv
<1> QED
  BY InitInvariant, StepKeepsInvariant, PTL DEF Spec

(***************************************************************************)
(* receive_event and _maybe_send_server_done push no message twice.        *)
(***************************************************************************)
THEOREM NoMessageTwice == Spec => []PushedAtMostOnce
<1>1. IInv => PushedAtMostOnce
  BY DEF IInv
<1> QED
  BY <1>1, MessagesRemembered, PTL

(***************************************************************************)
(* _done_sent_for_cycle_exists lets one completion of a boot through, at   *)
(* most, whatever becomes of the pushes and of the rows.                   *)
(***************************************************************************)
THEOREM OneMessagePerBoot == Spec => []OneDeviceDonePerBoot
<1>1. IInv => OneDeviceDonePerBoot
  <2> SUFFICES ASSUME IInv, NEW b \in 1 .. MaxBoots
               PROVE  Cardinality({row \in db : /\ row.event.origin = "device"
                                                /\ row.event.state = "done_sent"
                                                /\ row.event.cycle_id = b
                                                /\ EventId(row.event) \in DOMAIN pushed}) <= 1
    BY DEF OneDeviceDonePerBoot
  <2> DEFINE S == {row \in db : /\ row.event.origin = "device"
                                /\ row.event.state = "done_sent"
                                /\ row.event.cycle_id = b
                                /\ EventId(row.event) \in DOMAIN pushed}
  <2>1. \A r, s \in S : r = s
    BY DEF IInv, DeviceDoneIsOne, DeviceDonePushed
  <2> SUFFICES Cardinality(S) <= 1
    OBVIOUS
  <2> HIDE DEF S
  <2>2. CASE S = {}
    BY <2>2, FS_EmptySet
  <2>3. CASE S # {}
    <3>1. PICK r : S = {r}
      BY <2>1, <2>3
    <3>2. Cardinality({r}) = 1
      BY FS_Singleton
    <3> QED
      BY <3>1, <3>2
  <2> QED
    BY <2>2, <2>3
<1> QED
  BY <1>1, MessagesRemembered, PTL
----------------------------------------------------------------------------
(* Types, and the events table's primary key *)

UniqueIds(rows) ==
  \A r, s \in rows : EventId(r.event) = EventId(s.event) => r = s

Rows == [event : DeviceEvents \cup ServerEvents, received_at : Nat]

RowsTyped ==
  /\ IsFiniteSet(db)
  /\ \A row \in db : row \in Rows /\ row.received_at <= clock

Bounded ==
  /\ skew \in ClockSkews /\ boot \in 1 .. MaxBoots
  /\ booted \in 0 .. clock /\ counter \in 0 .. MaxEvents

(* IInv and what TypeOK needs besides; uniqueness without counting. *)
TInv == IInv /\ Bounded /\ RowsTyped /\ UniqueIds(db)

LEMMA NewIdIsUnique ==
  ASSUME NEW rows, NEW row, UniqueIds(rows), EventId(row.event) \notin StoredIds(rows)
  PROVE  UniqueIds(rows \cup {row})
BY DEF UniqueIds, StoredIds

LEMMA UniqueIdsCount ==
  ASSUME NEW rows, IsFiniteSet(rows), UniqueIds(rows)
  PROVE  Cardinality(StoredIds(rows)) = Cardinality(rows)
<1> DEFINE f == [row \in rows |-> EventId(row.event)]
<1>1. f \in Bijection(rows, StoredIds(rows))
  <2>1. f \in [rows -> StoredIds(rows)]
    BY DEF StoredIds
  <2>2. \A r, s \in rows : f[r] = f[s] => r = s
    BY DEF UniqueIds
  <2>3. \A id \in StoredIds(rows) : \E r \in rows : f[r] = id
    BY DEF StoredIds
  <2> QED
    BY <2>1, <2>2, <2>3, Fun_IsBij
<1>2. ExistsBijection(rows, StoredIds(rows))
  BY <1>1 DEF ExistsBijection
<1> QED
  BY <1>2, FS_Bijection

(* A request adds rows that are new, received now and of known readings. *)
LEMMA RequestAddsNewRows ==
  ASSUME TInv, NEW m \in net, NEW kept, NEW outcome, ReceiveEvent(m, kept, outcome)
  PROVE  RowsTyped' /\ UniqueIds(db)'
<1> DEFINE e         == m.event
           rows      == Unexpired(db)
           duplicate == EventId(e) \in StoredIds(rows)
           with_e    == IF duplicate THEN rows ELSE rows \cup {Stored(e, clock)}
           done      == Stored(ServerDoneEvent(e), clock)
<1>1. /\ clock' = clock /\ clock \in Nat
      /\ e \in DeviceEvents
  BY DEF ReceiveEvent, TInv, IInv, Typed, device_vars
<1>2. \/ db' = with_e
      \/ db' = with_e \cup {done} /\ EventId(ServerDoneEvent(e)) \notin StoredIds(with_e)
  BY DEF ReceiveEvent
<1>3. /\ Stored(e, clock) = [event |-> e, received_at |-> clock]
      /\ done = [event |-> ServerDoneEvent(e), received_at |-> clock]
  BY DEF Stored
<1>4. ServerDoneEvent(e) \in ServerEvents
  BY <1>1 DEF ServerDoneEvent, DeviceEvents, ServerEvents
<1>5. /\ Stored(e, clock) \in Rows /\ Stored(e, clock).received_at <= clock
      /\ done \in Rows /\ done.received_at <= clock
  BY <1>1, <1>3, <1>4 DEF Rows
<1>6. rows \subseteq db
  BY DEF Unexpired
<1>7. IsFiniteSet(rows) /\ UniqueIds(rows)
  BY <1>6, FS_Subset DEF TInv, RowsTyped, UniqueIds
<1>8. /\ IsFiniteSet(with_e) /\ UniqueIds(with_e)
      /\ \A row \in with_e : row \in Rows /\ row.received_at <= clock
  <2>1. CASE duplicate
    BY <2>1, <1>6, <1>7 DEF TInv, RowsTyped
  <2>2. CASE ~duplicate
    <3>1. IsFiniteSet(rows \cup {Stored(e, clock)})
      BY <1>7, FS_AddElement
    <3>2. UniqueIds(rows \cup {Stored(e, clock)})
      BY <1>3, <1>7, <2>2, NewIdIsUnique
    <3>3. \A row \in rows \cup {Stored(e, clock)} :
            row \in Rows /\ row.received_at <= clock
      BY <1>5, <1>6 DEF TInv, RowsTyped
    <3> QED
      BY <2>2, <3>1, <3>2, <3>3
  <2> QED
    BY <2>1, <2>2
<1> HIDE DEF with_e, done, e
<1>9. CASE db' = with_e
  BY <1>1, <1>8, <1>9 DEF RowsTyped, UniqueIds
<1>10. CASE db' = with_e \cup {done} /\ EventId(ServerDoneEvent(e)) \notin StoredIds(with_e)
  <2>1. IsFiniteSet(with_e \cup {done})
    BY <1>8, FS_AddElement
  <2>2. UniqueIds(with_e \cup {done})
    BY <1>3, <1>8, <1>10, NewIdIsUnique
  <2>3. \A row \in with_e \cup {done} :
          row \in Rows /\ row.received_at <= clock
    BY <1>5, <1>8
  <2> QED
    BY <1>1, <1>10, <2>1, <2>2, <2>3 DEF RowsTyped, UniqueIds
<1> QED
  BY <1>2, <1>9, <1>10

LEMMA TypesInit == Init => TInv
<1> SUFFICES ASSUME Init
             PROVE  TInv
  OBVIOUS
<1>1. IInv /\ clock \in Nat
  BY InitInvariant DEF IInv, Typed
<1>2. Bounded
  BY <1>1, RelayAssumption DEF Init, Bounded
<1>3. RowsTyped /\ UniqueIds(db)
  BY FS_EmptySet DEF Init, RowsTyped, UniqueIds
<1> QED
  BY <1>1, <1>2, <1>3 DEF TInv

LEMMA TypesStep == TInv /\ [Next]_vars => TInv'
<1> SUFFICES ASSUME TInv, [Next]_vars
             PROVE  TInv'
  OBVIOUS
<1>1. IInv'
  BY StepKeepsInvariant DEF TInv
<1>2. /\ clock \in Nat /\ clock' \in Nat /\ counter \in Nat
      /\ boot \in Nat /\ booted \in Nat
  BY <1>1 DEF TInv, IInv, Typed
<1>3. ASSUME NEW at \in Nat, at >= clock, clock' = at, counter < MaxEvents,
             counter' = counter + 1, UNCHANGED <<skew, boot, booted, db>>
      PROVE  TInv'
  <2>1. Bounded'
    BY <1>2, <1>3, RelayAssumption DEF TInv, Bounded
  <2>2. \A row \in db : row \in Rows /\ row.received_at \in Nat /\ row.received_at <= clock
    BY DEF TInv, RowsTyped, Rows
  <2>3. \A row \in db : row.received_at <= at
    BY <1>2, <1>3, <2>2
  <2>4. RowsTyped' /\ UniqueIds(db)'
    BY <1>3, <2>2, <2>3 DEF TInv, RowsTyped, UniqueIds
  <2> QED
    BY <1>1, <2>1, <2>4 DEF TInv
<1>4. CASE TakeSample
  <2>1. PICK r \in Readings, gap \in SampleGaps :
          /\ clock' = clock + gap
          /\ Send(Event("calibration_sample", r, clock + gap), clock + gap)
          /\ UNCHANGED <<skew, boot, booted, db, pushed>>
    BY <1>4 DEF TakeSample
  <2>2. clock + gap \in Nat /\ clock + gap >= clock
    BY <1>2, <2>1, RelayAssumption
  <2> QED
    BY <1>3, <2>1, <2>2 DEF Send
<1>5. CASE SendOther
  BY <1>2, <1>3, <1>5 DEF SendOther, Send
<1>6. CASE Restart
  <2>1. Bounded'
    BY <1>2, <1>6, RelayAssumption DEF Restart, TInv, Bounded
  <2>2. RowsTyped' /\ UniqueIds(db)'
    BY <1>6 DEF Restart, TInv, RowsTyped, UniqueIds
  <2> QED
    BY <1>1, <2>1, <2>2 DEF TInv
<1>7. CASE Receive
  <2>1. PICK m \in net, kept \in (IF Faults THEN BOOLEAN ELSE {FALSE}), outcome \in Outcomes :
          ReceiveEvent(m, kept, outcome)
    BY <1>7 DEF Receive
  <2>2. RowsTyped' /\ UniqueIds(db)'
    BY <2>1, RequestAddsNewRows
  <2>3. Bounded'
    BY <2>1 DEF ReceiveEvent, device_vars, TInv, Bounded
  <2> QED
    BY <1>1, <2>2, <2>3 DEF TInv
<1>8. CASE ListEvents
  <2>1. /\ db' = Unexpired(db) /\ Unexpired(db) \subseteq db
        /\ UNCHANGED <<clock, device_vars>>
    BY <1>8 DEF ListEvents, Unexpired
  <2>2. IsFiniteSet(db')
    BY <2>1, FS_Subset DEF TInv, RowsTyped
  <2>3. RowsTyped' /\ UniqueIds(db)' /\ Bounded'
    BY <2>1, <2>2 DEF TInv, RowsTyped, UniqueIds, Bounded, device_vars
  <2> QED
    BY <1>1, <2>3 DEF TInv
<1>9. CASE UNCHANGED vars
  BY <1>1, <1>9 DEF vars, device_vars, TInv, Bounded, RowsTyped, UniqueIds
<1> QED
  BY <1>4, <1>5, <1>6, <1>7, <1>8, <1>9 DEF Next

(***************************************************************************)
(* init_db and receive_event: the variables keep their types, no row is    *)
(* dated in the future and no event id, the table's primary key, is stored *)
(* twice, the relay's own completions included.                            *)
(***************************************************************************)
THEOREM TypeCorrect == Spec => []TypeOK
<1>1. TInv => TypeOK
  <2> SUFFICES ASSUME TInv
               PROVE  TypeOK
    OBVIOUS
  <2>1. Cardinality(StoredIds(db)) = Cardinality(db)
    BY UniqueIdsCount DEF TInv, RowsTyped
  <2>2. \A m \in net : m.event.origin = "device" /\ m.event.reading \in Reading
    BY DEF TInv, IInv, Typed, DeviceEvents
  <2>3. \A id \in DOMAIN pushed : pushed[id] \in Nat
    BY DEF TInv, IInv, Typed
  <2>4. clock \in Nat /\ synced \in BOOLEAN
    BY DEF TInv, IInv, Typed
  <2>5. /\ skew \in ClockSkews /\ boot \in 1 .. MaxBoots
        /\ booted \in 0 .. clock /\ counter \in 0 .. MaxEvents
    BY DEF TInv, Bounded
  <2>6. ASSUME NEW row \in db
        PROVE  row.received_at \in 0 .. clock /\ row.event.reading \in Reading
    <3>1. /\ row.received_at \in Nat /\ row.received_at <= clock /\ clock \in Nat
          /\ row.event \in DeviceEvents \/ row.event \in ServerEvents
      BY <2>4 DEF TInv, RowsTyped, Rows
    <3>2. NoReading \in Reading
      BY DEF NoReading, Reading
    <3>3. row.event \in DeviceEvents => row.event.reading \in Reading
      BY DEF DeviceEvents
    <3>4. row.event \in ServerEvents => row.event.reading = NoReading
      BY DEF ServerEvents
    <3> QED
      BY <3>1, <3>2, <3>3, <3>4
  <2> QED
    BY <2>1, <2>2, <2>3, <2>4, <2>5, <2>6 DEF TypeOK
<1> QED
  BY <1>1, TypesInit, TypesStep, PTL DEF Spec

----------------------------------------------------------------------------
(* What is pushed *)

EventsDiffer ==
  \A l, m \in net : EventId(l.event) = EventId(m.event) => l.event = m.event

KnownEvents == {m.event : m \in net} \cup {row.event : row \in db}

PushedAreNotifications ==
  \A e \in KnownEvents : EventId(e) \in DOMAIN pushed => e.state \in NOTIFICATION_STATES

(* TInv, and a sample is never pushed under its own id. *)
MInv == TInv /\ EventsDiffer /\ PushedAreNotifications

LEMMA MessagesInit == Init => MInv
<1>1. Init => EventsDiffer /\ PushedAreNotifications
  BY DEF Init, EventsDiffer, PushedAreNotifications, KnownEvents
<1> QED
  BY <1>1, TypesInit DEF MInv

(* A request that is pushed is a notification, and nothing else has its id. *)
LEMMA RequestPushesNotification ==
  ASSUME MInv, NEW m \in net, NEW ids, Effect(m, ids)
  PROVE  EventsDiffer' /\ PushedAreNotifications'
<1> DEFINE e == m.event
<1>1. /\ net' \subseteq net /\ ids \subseteq MessageIds(e)
      /\ e \in DeviceEvents /\ EventId(e) = <<"device", e.cycle_id, e.n>>
      /\ DOMAIN pushed' = DOMAIN pushed \cup ids
  BY DEF Effect, CountPush, MInv, TInv, IInv, Typed, DeviceEvents, EventId
<1>2. EventsDiffer'
  BY <1>1 DEF MInv, EventsDiffer
<1>3. ASSUME NEW d \in DeviceEvents, EventId(d) \in ids
      PROVE  EventId(d) = EventId(e) /\ e.state \in NOTIFICATION_STATES
  <2>1. EventId(d) = <<"device", d.cycle_id, d.n>>
    BY DEF DeviceEvents, EventId
  <2>2. EventId(d) = EventId(e)
    BY <1>1, <1>3, <2>1 DEF MessageIds
  <2> QED
    BY <1>3, <2>2 DEF Effect
<1>4. ASSUME NEW q \in net', EventId(q.event) \in DOMAIN pushed'
      PROVE  q.event.state \in NOTIFICATION_STATES
  <2>1. q \in net /\ q.event \in DeviceEvents
    BY <1>1 DEF MInv, TInv, IInv, Typed
  <2>2. CASE EventId(q.event) \in DOMAIN pushed
    BY <2>1, <2>2 DEF MInv, PushedAreNotifications, KnownEvents
  <2>3. CASE EventId(q.event) \in ids
    <3>1. EventId(q.event) = EventId(e) /\ e.state \in NOTIFICATION_STATES
      BY <1>3, <2>1, <2>3
    <3>2. q.event = e
      BY <2>1, <3>1 DEF MInv, EventsDiffer
    <3> QED
      BY <3>1, <3>2
  <2> QED
    BY <1>1, <1>4, <2>2, <2>3
<1>5. ASSUME NEW row \in db', EventId(row.event) \in DOMAIN pushed'
      PROVE  row.event.state \in NOTIFICATION_STATES
  <2>1. CASE row.event \in ServerEvents
    BY <2>1 DEF ServerEvents, NOTIFICATION_STATES
  <2>2. CASE row \in Unexpired(db) /\ row.event \notin ServerEvents
    <3>1. row \in db /\ row.event \in DeviceEvents
      BY <2>2 DEF Unexpired, MInv, TInv, RowsTyped, Rows
    <3>2. EventId(row.event) \notin ids
      <4> SUFFICES ASSUME EventId(row.event) \in ids
                   PROVE  FALSE
        OBVIOUS
      <4>1. EventId(row.event) = EventId(e)
        BY <1>3, <3>1
      <4> QED
        BY <2>2, <4>1 DEF Effect, StoredIds
    <3> QED
      BY <1>1, <1>5, <3>1, <3>2 DEF MInv, PushedAreNotifications, KnownEvents
  <2>3. CASE row \notin Unexpired(db) /\ row.event \notin ServerEvents
    <3>1. row.event = e
      BY <2>3 DEF Effect
    <3>2. CASE EventId(e) \in DOMAIN pushed
      BY <3>1, <3>2 DEF MInv, PushedAreNotifications, KnownEvents
    <3>3. CASE EventId(e) \in ids
      BY <1>1, <1>3, <3>1, <3>3
    <3> QED
      BY <1>1, <1>5, <3>1, <3>2, <3>3
  <2> QED
    BY <2>1, <2>2, <2>3
<1>6. PushedAreNotifications'
  BY <1>4, <1>5 DEF PushedAreNotifications, KnownEvents
<1> QED
  BY <1>2, <1>6

(* No message has the number of an event that is only now made. *)
LEMMA NewEventIsUnknown ==
  ASSUME MInv, NEW st, NEW r, NEW at, Send(Event(st, r, at), at), UNCHANGED <<db, pushed>>
  PROVE  EventsDiffer' /\ PushedAreNotifications'
<1> DEFINE e == Event(st, r, at)
<1>1. /\ net' \subseteq net \cup {[event |-> e, sent |-> at]}
      /\ EventId(e) = <<"device", boot, counter + 1>> /\ counter \in Nat
  BY DEF Send, UnderWay, Event, EventId, MInv, TInv, IInv, Typed
<1>2. \A m \in net : EventId(m.event)[3] <= counter /\ EventId(m.event)[3] \in Nat
  BY DEF EventId, MInv, TInv, IInv, Typed, Recent, DeviceEvents
<1>3. \A id \in DOMAIN pushed : id[3] <= counter /\ id[3] \in Nat
  BY DEF MInv, TInv, IInv, PushedWereSent, MessageIds, DeviceEvents
<1>4. EventId(e)[3] = counter + 1 /\ ~(counter + 1 <= counter)
  BY <1>1
<1> HIDE DEF e
<1>5. EventId(e) \notin DOMAIN pushed /\ \A m \in net : EventId(m.event) # EventId(e)
  BY <1>2, <1>3, <1>4
<1>6. EventsDiffer'
  BY <1>1, <1>5 DEF MInv, EventsDiffer
<1>7. PushedAreNotifications'
  BY <1>1, <1>5 DEF MInv, PushedAreNotifications, KnownEvents
<1> QED
  BY <1>6, <1>7

LEMMA MessagesStep == MInv /\ [Next]_vars => MInv'
<1> SUFFICES ASSUME MInv, [Next]_vars
             PROVE  EventsDiffer' /\ PushedAreNotifications'
  BY TypesStep DEF MInv
<1>1. CASE TakeSample
  BY <1>1, NewEventIsUnknown DEF TakeSample
<1>2. CASE SendOther
  BY <1>2, NewEventIsUnknown DEF SendOther
<1>3. CASE Receive
  <2>1. PICK m \in net : \E ids : Effect(m, ids)
    BY <1>3, RequestEffect DEF Receive, MInv, TInv, IInv
  <2>2. PICK ids : Effect(m, ids)
    BY <2>1
  <2> QED
    BY <2>2, RequestPushesNotification
<1>4. CASE ListEvents
  BY <1>4 DEF ListEvents, Unexpired, MInv, EventsDiffer, PushedAreNotifications, KnownEvents
<1>5. CASE Restart \/ UNCHANGED vars
  BY <1>5 DEF Restart, vars, MInv, EventsDiffer, PushedAreNotifications, KnownEvents
<1> QED
  BY <1>1, <1>2, <1>3, <1>4, <1>5 DEF Next

----------------------------------------------------------------------------
(* Samples in the order of their timestamps *)

SampleEvents == {e \in DeviceEvents : e.state = "calibration_sample"}

Samples == [event : SampleEvents, received_at : Nat]

(* Samples of one device: no two of them have the same id. *)
SampleList(rows) == rows \subseteq Samples /\ IsFiniteSet(rows) /\ UniqueIds(rows)

InTime(rows) == {p \in rows \X rows : Precedes(p[1], p[2])}

LEMMA LessOfFour ==
  ASSUME NEW a, NEW b, NEW c, NEW d, NEW u, NEW v, NEW w, NEW x
  PROVE  Less(<<a, b, c, d>>, <<u, v, w, x>>) <=>
           \/ a < u \/ (a = u /\ b < v) \/ (a = u /\ b = v /\ c < w)
           \/ (a = u /\ b = v /\ c = w /\ d < x)
<1> DEFINE k == <<a, b, c, d>>
           l == <<u, v, w, x>>
           P(i) == k[i] < l[i] /\ \A j \in 1 .. i - 1 : k[j] = l[j]
<1>1. DOMAIN k = {1, 2, 3, 4}
  OBVIOUS
<1>2. P(1) <=> a < u
  OBVIOUS
<1>3. P(2) <=> a = u /\ b < v
  OBVIOUS
<1>4. P(3) <=> a = u /\ b = v /\ c < w
  OBVIOUS
<1>5. P(4) <=> a = u /\ b = v /\ c = w /\ d < x
  OBVIOUS
<1>6. Less(k, l) <=> \E i \in DOMAIN k : P(i)
  BY DEF Less
<1> HIDE DEF P
<1> QED
  BY <1>1, <1>2, <1>3, <1>4, <1>5, <1>6

LEMMA InTimeIsStrict ==
  ASSUME NEW rows, SampleList(rows)
  PROVE  /\ StrictOrder(InTime(rows), rows)
         /\ \A x, y \in rows : <<x, y>> \in InTime(rows) => EventTimestamp(x) <= EventTimestamp(y)
         /\ \A x \in rows : EventTimestamp(x) \in Int
<1> DEFINE t(x) == EventTimestamp(x)
           P(x, y) ==
             \/ t(x) < t(y)
             \/ t(x) = t(y) /\ x.received_at < y.received_at
             \/ /\ t(x) = t(y) /\ x.received_at = y.received_at
                /\ x.event.cycle_id < y.event.cycle_id
             \/ /\ t(x) = t(y) /\ x.received_at = y.received_at
                /\ x.event.cycle_id = y.event.cycle_id /\ x.event.n < y.event.n
<1>1. \A x, y \in rows : <<x, y>> \in InTime(rows) <=> P(x, y)
  BY LessOfFour DEF InTime, Precedes, SortKey
<1>2. \A x \in rows : /\ x.received_at \in Int /\ x.event.cycle_id \in Int
                      /\ x.event.n \in Int /\ x.event.origin = "device" /\ t(x) \in Int
  BY DEF SampleList, Samples, SampleEvents, DeviceEvents, EventTimestamp
<1>3. \A x, y \in rows :
        x.event.cycle_id = y.event.cycle_id /\ x.event.n = y.event.n => x = y
  BY <1>2 DEF SampleList, UniqueIds, EventId
<1> HIDE DEF t
<1>4. \A x \in rows : ~P(x, x)
  BY <1>2
<1>5. \A x, y \in rows : x # y => P(x, y) \/ P(y, x)
  BY <1>2, <1>3
<1>6. \A x, y, z \in rows : P(x, y) /\ P(y, z) => P(x, z)
  BY <1>2
<1>7. \A x, y \in rows : P(x, y) => t(x) <= t(y)
  BY <1>2
<1> HIDE DEF P
<1> QED
  BY <1>1, <1>2, <1>4, <1>5, <1>6, <1>7 DEF StrictOrder, t

(* _calibration_events_for_device: every sample once, in the order of their timestamps. *)
LEMMA SamplesInTime ==
  ASSUME NEW rows, SampleList(rows)
  PROVE  /\ Cardinality(rows) \in Nat
         /\ InOrder(rows, Precedes) \in [1 .. Cardinality(rows) -> rows]
         /\ \A row \in rows : \E i \in 1 .. Cardinality(rows) : InOrder(rows, Precedes)[i] = row
         /\ \A i, j \in 1 .. Cardinality(rows) :
              i < j => EventTimestamp(InOrder(rows, Precedes)[i])
                         <= EventTimestamp(InOrder(rows, Precedes)[j])
<1> DEFINE n == Cardinality(rows)
           R == InTime(rows)
           s == Ranked(R, rows)
<1>1. InOrder(rows, Precedes) = s
  <2>1. InOrder(rows, Precedes) =
          [i \in 1 .. n |-> CHOOSE x \in rows :
                              Cardinality({y \in rows : Precedes(y, x)}) = i - 1]
    BY DEF InOrder
  <2>2. \A x \in rows : {y \in rows : Precedes(y, x)} = Below(R, rows, x)
    BY DEF Below, InTime
  <2> QED
    BY <2>1, <2>2 DEF Ranked
<1>2. IsFiniteSet(rows) /\ StrictOrder(R, rows)
  BY InTimeIsStrict DEF SampleList
<1>3. /\ n \in Nat /\ s \in [1 .. n -> rows]
      /\ \A x \in rows : \E i \in 1 .. n : s[i] = x
      /\ \A i, j \in 1 .. n : <<s[i], s[j]>> \in R <=> i < j
  BY <1>2, RankedInOrder
<1>4. \A x, y \in rows : <<x, y>> \in R => EventTimestamp(x) <= EventTimestamp(y)
  BY InTimeIsStrict
<1> HIDE DEF n, R, s
<1>5. \A i, j \in 1 .. n : i < j => EventTimestamp(s[i]) <= EventTimestamp(s[j])
  BY <1>3, <1>4
<1> QED
  BY <1>1, <1>3, <1>5 DEF n, R, s

----------------------------------------------------------------------------
(* What an alert of the relay rests on *)

(***************************************************************************)
(* _current_observation_segment returns the end of the list from some      *)
(* sample on, and every later one continues the one before it.             *)
(***************************************************************************)
LEMMA SegmentIsTheEnd ==
  ASSUME NEW R, NEW n \in Nat \ {0}, NEW s \in [1 .. n -> R]
  PROVE  \E start \in 1 .. n :
           /\ CurrentObservationSegment(s) = SubSeq(s, start, n)
           /\ \A i \in start + 1 .. n : Continues(s[i - 1], s[i])
<1> DEFINE starts == {1} \cup {i \in 2 .. n : ~Continues(s[i - 1], s[i])}
           start == CHOOSE x \in starts : \A t \in starts : t <= x
<1>1. Len(s) = n
  OBVIOUS
<1>2. CurrentObservationSegment(s) = SubSeq(s, start, n)
  BY <1>1 DEF CurrentObservationSegment
<1>3. starts # {} /\ starts \subseteq 1 .. n /\ starts \subseteq Int
  OBVIOUS
<1>4. IsFiniteSet(starts)
  <2>1. IsFiniteSet(1 .. n)
    BY FS_Interval
  <2> QED
    BY <1>3, <2>1, FS_Subset
<1>5. \A i \in 2 .. n : i \notin starts => Continues(s[i - 1], s[i])
  OBVIOUS
<1> HIDE DEF starts
<1>6. \E x \in starts : \A t \in starts : t <= x
  BY <1>3, <1>4, NumbersAreOrdered
<1>7. start \in starts /\ \A t \in starts : t <= start
  BY <1>6
<1> HIDE DEF start
<1>8. start \in 1 .. n /\ start \in Int
  BY <1>3, <1>7
<1>9. \A i \in start + 1 .. n : Continues(s[i - 1], s[i])
  <2> TAKE i \in start + 1 .. n
  <2>1. i \in 2 .. n /\ ~(i <= start)
    BY <1>8
  <2>2. i \notin starts
    BY <1>7, <2>1
  <2> QED
    BY <1>5, <2>1, <2>2
<1> QED
  BY <1>2, <1>8, <1>9

(* The last segment of a list: one boot, later and later. *)
LEMMA LastSegment ==
  ASSUME NEW R, SampleList(R), R # {},
         NEW seg, seg = CurrentObservationSegment(InOrder(R, Precedes))
  PROVE  /\ Len(seg) \in Nat \ {0} /\ DOMAIN seg = 1 .. Len(seg)
         /\ \A i \in 1 .. Len(seg) :
              /\ seg[i] \in R /\ EventTimestamp(seg[i]) \in Int
              /\ seg[i].event.cycle_id = seg[Len(seg)].event.cycle_id
         /\ \A i, j \in 1 .. Len(seg) :
              i < j => EventTimestamp(seg[i]) < EventTimestamp(seg[j])
<1> DEFINE n == Cardinality(R)
           all == InOrder(R, Precedes)
           last == Len(seg)
<1>1. /\ n \in Nat \ {0} /\ all \in [1 .. n -> R]
      /\ \A i, j \in 1 .. n : i < j => EventTimestamp(all[i]) <= EventTimestamp(all[j])
  <2>1. Cardinality(R) # 0
    BY FS_EmptySet DEF SampleList
  <2> QED
    BY <2>1, SamplesInTime
<1>2. \A row \in R : EventTimestamp(row) \in Int
  BY InTimeIsStrict
<1>3. seg = CurrentObservationSegment(all)
  OBVIOUS
<1> HIDE DEF n, all
<1>4. PICK start \in 1 .. n :
        /\ seg = SubSeq(all, start, n)
        /\ \A i \in start + 1 .. n : Continues(all[i - 1], all[i])
  BY <1>1, <1>3, SegmentIsTheEnd
<1>5. /\ last = n - start + 1 /\ last \in Nat \ {0} /\ DOMAIN seg = 1 .. last
      /\ \A i \in 1 .. last : seg[i] = all[start + i - 1]
  <2>1. all \in Seq(R) /\ Len(all) = n
    BY <1>1
  <2> QED
    BY <1>1, <1>4, <2>1
<1>6. \A i \in 1 .. last : start + i - 1 \in 1 .. n /\ seg[i] \in R
  <2> TAKE i \in 1 .. last
  <2>1. start + i - 1 \in 1 .. n
    BY <1>1, <1>4, <1>5
  <2> QED
    BY <1>1, <1>5, <2>1
<1> HIDE DEF last
<1>7. ASSUME NEW j \in 2 .. last
      PROVE  /\ j - 1 \in 1 .. last
             /\ seg[j - 1].event.cycle_id = seg[j].event.cycle_id
             /\ EventTimestamp(seg[j - 1]) < EventTimestamp(seg[j])
  <2>1. /\ j \in 1 .. last /\ j - 1 \in 1 .. last
        /\ start + j - 1 \in start + 1 .. n
        /\ start + (j - 1) - 1 = (start + j - 1) - 1
    BY <1>1, <1>4, <1>5
  <2>2. Continues(seg[j - 1], seg[j])
    BY <1>4, <1>5, <2>1
  <2>3. EventTimestamp(seg[j]) \in Int /\ EventTimestamp(seg[j - 1]) \in Int
    BY <1>2, <1>6, <2>1
  <2> QED
    BY <2>1, <2>2, <2>3 DEF Continues
<1>8. ASSUME NEW i \in 1 .. last, NEW j \in 1 .. last, i < j
      PROVE  EventTimestamp(seg[i]) < EventTimestamp(seg[j])
  <2>1. j \in 2 .. last /\ (i = j - 1 \/ i < j - 1)
    BY <1>5, <1>8
  <2>2. j - 1 \in 1 .. last /\ EventTimestamp(seg[j - 1]) < EventTimestamp(seg[j])
    BY <1>7, <2>1
  <2>3. CASE i < j - 1
    <3>1. start + i - 1 < start + (j - 1) - 1
      BY <1>4, <1>5, <2>1, <2>3
    <3>2. EventTimestamp(seg[i]) <= EventTimestamp(seg[j - 1])
      BY <1>1, <1>5, <1>6, <2>2, <3>1
    <3>3. EventTimestamp(seg[i]) \in Int /\ EventTimestamp(seg[j - 1]) \in Int
          /\ EventTimestamp(seg[j]) \in Int
      BY <1>2, <1>6, <2>2
    <3> QED
      BY <2>2, <3>2, <3>3
  <2> QED
    BY <2>1, <2>2, <2>3
<1> DEFINE S == {m \in Nat : m < last =>
                   seg[last - m].event.cycle_id = seg[last].event.cycle_id}
<1>9. 0 \in S
  BY <1>5
<1>10. ASSUME NEW m \in Nat, m \in S
       PROVE  m + 1 \in S
  <2> SUFFICES ASSUME m + 1 < last
               PROVE  seg[last - (m + 1)].event.cycle_id = seg[last].event.cycle_id
    OBVIOUS
  <2>1. last - m \in 2 .. last /\ m < last /\ (last - m) - 1 = last - (m + 1)
    BY <1>5
  <2> QED
    BY <1>7, <1>10, <2>1
<1>11. \A m \in Nat : m \in S
  <2> HIDE DEF S
  <2> QED
    BY <1>9, <1>10, Induction
<1>12. ASSUME NEW i \in 1 .. last
       PROVE  seg[i].event.cycle_id = seg[last].event.cycle_id
  <2>1. last - i \in Nat /\ last - i < last /\ last - (last - i) = i
    BY <1>5
  <2> QED
    BY <1>11, <2>1
<1> QED
  BY <1>2, <1>5, <1>6, <1>8, <1>12 DEF last

(* Time between neighbouring active samples is no more than from the first to the last. *)
LEMMA ActiveTimeWithin ==
  ASSUME NEW n \in Nat, NEW seg, Len(seg) = n, NEW t \in [1 .. n -> Int],
         \A i \in 1 .. n : t[i] = EventTimestamp(seg[i]),
         \A i, j \in 1 .. n : i < j => t[i] <= t[j],
         NEW active \in SUBSET (1 .. n), active # {}
  PROVE  /\ Min(active) \in active /\ Max(active) \in active
         /\ ActiveTime(seg, active) <= t[Max(active)] - t[Min(active)]
         /\ ActiveTime(seg, active) \in Int
<1> DEFINE s == [i \in 1 .. n |-> IF {i - 1, i} \subseteq active THEN t[i] - t[i - 1] ELSE 0]
<1>1. ActiveTime(seg, active) = SumOf(s)
  <2>1. \A i \in 1 .. n :
          (IF {i - 1, i} \subseteq active
           THEN EventTimestamp(seg[i]) - EventTimestamp(seg[i - 1]) ELSE 0)
          = (IF {i - 1, i} \subseteq active THEN t[i] - t[i - 1] ELSE 0)
    OBVIOUS
  <2>2. [i \in 1 .. n |->
           IF {i - 1, i} \subseteq active
           THEN EventTimestamp(seg[i]) - EventTimestamp(seg[i - 1]) ELSE 0] = s
    BY <2>1
  <2> HIDE DEF s
  <2> QED
    BY <2>2 DEF ActiveTime
<1>2. /\ Min(active) \in active /\ Max(active) \in active
      /\ SumOf(s) <= t[Max(active)] - t[Min(active)]
  BY StepsWithinSpan
<1>3. SumOf(s) \in Int
  <2>1. \A i \in 1 .. n :
          (IF {i - 1, i} \subseteq active THEN t[i] - t[i - 1] ELSE 0) \in Int
    OBVIOUS
  <2>2. s \in Seq(Int)
    BY <2>1
  <2> HIDE DEF s
  <2> QED
    BY <2>2, SumsCompare
<1> HIDE DEF s
<1> QED
  BY <1>1, <1>2, <1>3

(* QuietStart, when the last reading is quiet and an earlier one is not. *)
LEMMA QuietStartsLater ==
  ASSUME NEW n \in Nat \ {0}, NEW raw \in [1 .. n -> Phases], raw[n] = "quiet",
         NEW j \in 1 .. n, raw[j] # "quiet"
  PROVE  QuietStart(raw) \in 2 .. n /\ \A i \in QuietStart(raw) .. n : raw[i] = "quiet"
<1> DEFINE T == {i \in 1 .. n : raw[i] # "quiet"}
           P(x) == /\ \A i \in x .. n : raw[i] = "quiet"
                   /\ x > 1 => raw[x - 1] # "quiet"
           q == QuietStart(raw)
<1>1. q = CHOOSE x \in 1 .. n : P(x)
  <2>1. Len(raw) = n
    OBVIOUS
  <2> QED
    BY <2>1 DEF QuietStart
<1>2. T # {} /\ T \subseteq 1 .. n /\ T \subseteq Int /\ n \notin T
  OBVIOUS
<1>3. IsFiniteSet(T)
  <2>1. IsFiniteSet(1 .. n)
    BY FS_Interval
  <2> QED
    BY <1>2, <2>1, FS_Subset
<1>4. \A i \in 1 .. n : i \in T <=> raw[i] # "quiet"
  OBVIOUS
<1> HIDE DEF T
<1>5. PICK m \in T : \A x \in T : x <= m
  BY <1>2, <1>3, NumbersAreOrdered
<1>6. m \in 1 .. n - 1 /\ m + 1 \in 1 .. n
  BY <1>2, <1>5
<1>7. P(m + 1)
  <2>1. ASSUME NEW i \in m + 1 .. n
        PROVE  raw[i] = "quiet"
    <3>1. i \in 1 .. n /\ ~(i <= m)
      BY <1>6
    <3> QED
      BY <1>4, <1>5, <3>1
  <2>2. (m + 1) - 1 = m /\ m \in 1 .. n
    BY <1>6
  <2> QED
    BY <1>4, <1>5, <2>1, <2>2
<1> HIDE DEF P
<1>8. \E x \in 1 .. n : P(x)
  BY <1>6, <1>7
<1>9. q \in 1 .. n /\ P(q)
  BY <1>1, <1>8
<1>10. q # 1
  BY <1>9 DEF P
<1> HIDE DEF q
<1>11. q \in 2 .. n
  BY <1>9, <1>10
<1> QED
  BY <1>9, <1>11 DEF P, q

(***************************************************************************)
(* Samples that continue one another to the end of the list, and are quiet *)
(* from one of them on, are all the samples of that time.                  *)
(***************************************************************************)
LEMMA QuietIsUnbroken ==
  ASSUME NEW rows, SampleList(rows), NEW n, n = Cardinality(rows), NEW p \in 2 .. n,
         NEW s, s = InOrder(rows, Precedes),
         \A i \in p .. n : RawPhase(s[i].event.reading) = "quiet",
         \A i \in p .. n : Continues(s[i - 1], s[i])
  PROVE  /\ s[p] \in rows /\ s[n] \in rows
         /\ UnbrokenQuiet(rows, s[p], s[n])
<1> DEFINE t(i) == EventTimestamp(s[i])
           span == {row \in rows : /\ EventTimestamp(row) >= t(p)
                                   /\ EventTimestamp(row) <= t(n)}
<1>1. /\ n \in Nat /\ s \in [1 .. n -> rows]
      /\ \A row \in rows : \E i \in 1 .. n : s[i] = row
      /\ \A i, j \in 1 .. n : i < j => t(i) <= t(j)
  BY SamplesInTime
<1>2. \A i \in 1 .. n : s[i] \in rows /\ t(i) \in Int
  BY <1>1, InTimeIsStrict
<1>3. p \in 1 .. n /\ n \in 1 .. n /\ p - 1 \in 1 .. n
  BY <1>1
<1>4. \A i \in p .. n : /\ i \in 1 .. n /\ i - 1 \in 1 .. n
                        /\ s[i].event.cycle_id = s[i - 1].event.cycle_id
                        /\ t(i - 1) < t(i) /\ t(i) - t(i - 1) <= SERVER_MAX_SAMPLE_GAP
  <2> TAKE i \in p .. n
  <2>1. i \in 1 .. n /\ i - 1 \in 1 .. n
    BY <1>1
  <2>2. /\ s[i].event.cycle_id = s[i - 1].event.cycle_id
        /\ 0 < t(i) - t(i - 1) /\ t(i) - t(i - 1) <= SERVER_MAX_SAMPLE_GAP
    BY DEF Continues
  <2>3. t(i) \in Int /\ t(i - 1) \in Int
    BY <1>2, <2>1
  <2> HIDE DEF t
  <2> QED
    BY <2>1, <2>2, <2>3
<1> HIDE DEF t
<1>5. \A i \in p .. n : s[i].event.cycle_id = s[n].event.cycle_id
  <2> DEFINE S == {d \in Nat : n - d \in p .. n =>
                                  s[n - d].event.cycle_id = s[n].event.cycle_id}
  <2>1. 0 \in S
    BY <1>1
  <2>2. ASSUME NEW d \in Nat, d \in S
        PROVE  d + 1 \in S
    <3> SUFFICES ASSUME n - (d + 1) \in p .. n
                 PROVE  s[n - (d + 1)].event.cycle_id = s[n].event.cycle_id
      OBVIOUS
    <3>1. n - d \in p .. n /\ (n - d) - 1 = n - (d + 1)
      BY <1>1
    <3>2. s[n - d].event.cycle_id = s[n].event.cycle_id
      BY <2>2, <3>1
    <3>3. s[n - d].event.cycle_id = s[(n - d) - 1].event.cycle_id
      BY <1>4, <3>1
    <3> QED
      BY <3>1, <3>2, <3>3
  <2> HIDE DEF S
  <2>3. Nat \subseteq S
    BY <2>1, <2>2, Induction
  <2> TAKE i \in p .. n
  <2>4. n - i \in Nat /\ n - (n - i) = i
    BY <1>1
  <2>5. n - i \in S
    BY <2>3, <2>4
  <2> QED
    BY <2>4, <2>5 DEF S
<1>6. ASSUME NEW row \in span
      PROVE  \E k \in p .. n : s[k] = row
  <2>1. PICK k \in 1 .. n : s[k] = row
    BY <1>1
  <2>2. t(k) >= t(p)
    BY <2>1 DEF t
  <2>3. ~(k < p)
    <3> SUFFICES ASSUME k < p
                 PROVE  FALSE
      OBVIOUS
    <3>1. k < p - 1 \/ k = p - 1
      BY <1>1
    <3>2. t(k) <= t(p - 1)
      <4>1. k < p - 1 => t(k) <= t(p - 1)
        BY <1>1, <1>3
      <4>2. t(k) \in Int
        BY <1>2
      <4> QED
        BY <3>1, <4>1, <4>2
    <3>3. t(p - 1) < t(p)
      BY <1>3, <1>4
    <3> QED
      BY <1>2, <1>3, <2>2, <3>2, <3>3
  <2> QED
    BY <2>1, <2>3
<1>7. ASSUME NEW row \in span
      PROVE  /\ RawPhase(row.event.reading) = "quiet"
             /\ row.event.cycle_id = s[n].event.cycle_id
  BY <1>5, <1>6
<1>8. ASSUME NEW row \in span \ {s[n]}
      PROVE  \E next \in span :
               /\ EventTimestamp(next) > EventTimestamp(row)
               /\ EventTimestamp(next) - EventTimestamp(row) <= SERVER_MAX_SAMPLE_GAP
  <2>1. PICK k \in p .. n : s[k] = row
    BY <1>6
  <2>2. k + 1 \in p .. n /\ (k + 1) - 1 = k /\ k \in 1 .. n
    BY <1>1, <2>1
  <2>3. t(k) < t(k + 1) /\ t(k + 1) - t(k) <= SERVER_MAX_SAMPLE_GAP
    BY <1>4, <2>2
  <2>4. t(k) >= t(p) /\ t(k + 1) \in Int /\ t(k) \in Int /\ t(p) \in Int /\ t(n) \in Int
    <3>1. EventTimestamp(row) = t(k)
      BY <2>1 DEF t
    <3>2. k + 1 \in 1 .. n
      BY <1>4, <2>2
    <3> QED
      BY <1>2, <1>3, <2>2, <3>1, <3>2
  <2>5. t(k + 1) <= t(n)
    <3>1. k + 1 \in Int /\ n \in Int /\ k + 1 <= n
      BY <1>1, <2>2
    <3>2. k + 1 = n \/ k + 1 < n
      BY <3>1
    <3>3. k + 1 \in 1 .. n
      BY <1>4, <2>2
    <3>4. k + 1 < n => t(k + 1) <= t(n)
      BY <1>1, <1>3, <3>3
    <3> QED
      BY <2>4, <3>2, <3>4
  <2>6. s[k + 1] \in rows /\ t(k + 1) >= t(p)
    BY <1>2, <1>4, <2>2, <2>3, <2>4
  <2>7. s[k + 1] \in span
    BY <2>5, <2>6 DEF t
  <2> QED
    BY <2>1, <2>3, <2>4, <2>7 DEF t
<1>9. span = {row \in rows : /\ EventTimestamp(row) >= EventTimestamp(s[p])
                             /\ EventTimestamp(row) <= EventTimestamp(s[n])}
  BY DEF t
<1> HIDE DEF span
<1>10. UnbrokenQuiet(rows, s[p], s[n])
  BY <1>7, <1>8, <1>9 DEF UnbrokenQuiet
<1> QED
  BY <1>2, <1>3, <1>10

(***************************************************************************)
(* A list of samples on which _maybe_send_server_done decides for an alert *)
(* ends in unbroken quiet, from the QuietStart of its last segment on.     *)
(***************************************************************************)
LEMMA DecisionIsQuiet ==
  ASSUME NEW rows, SampleList(SampleRows(rows)), SampleRows(rows) # {}, NEW e,
         LoadCompleted(Evidence(rows), e)
  PROVE  \E first, last \in SampleRows(rows) :
           /\ EventId(last.event) = EventId(e)
           /\ EventTimestamp(last) - EventTimestamp(first) >= SERVER_DONE_QUIET
           /\ UnbrokenQuiet(SampleRows(rows), first, last)
<1> DEFINE R == SampleRows(rows)
           n == Cardinality(R)
           all == InOrder(R, Precedes)
           seg == CurrentObservationSegment(all)
           readings == [i \in 1 .. Len(seg) |-> seg[i].event.reading]
           raw == [i \in 1 .. Len(seg) |-> RawPhase(readings[i])]
           phases == SmoothedPhases(readings)
           active == ActiveIndexes(seg, phases, DoneRows(rows))
           last == Len(seg)
           q == QuietStart(raw)
<1>1. /\ EventId(seg[last].event) = EventId(e)
      /\ raw[last] = "quiet" /\ active # {}
      /\ EventTimestamp(seg[last]) - EventTimestamp(seg[q]) >= SERVER_DONE_QUIET
  BY DEF LoadCompleted, Evidence
<1>2. /\ n \in Nat \ {0} /\ all \in [1 .. n -> R]
  <2>1. IsFiniteSet(R) /\ R # {}
    BY DEF SampleList
  <2>2. Cardinality(R) # 0
    BY <2>1, FS_EmptySet
  <2> QED
    BY <2>2, SamplesInTime
<1>3. \A row \in R : row.event.reading \in Reading
  BY DEF SampleList, Samples, SampleEvents, DeviceEvents
<1>4. active \subseteq {i \in 1 .. Len(seg) : phases[i] = "active"}
  BY DEF ActiveIndexes
<1>5. phases = [i \in 1 .. Len(readings) |-> SmoothedPhase(readings, i)]
  BY DEF SmoothedPhases
<1>6. SampleList(R)
  OBVIOUS
<1> HIDE DEF R, n, all, active, phases
<1>7. PICK start \in 1 .. n :
        /\ seg = SubSeq(all, start, n)
        /\ \A i \in start + 1 .. n : Continues(all[i - 1], all[i])
  BY <1>2, SegmentIsTheEnd
<1>8. last = n - start + 1 /\ \A i \in 1 .. last : seg[i] = all[start + i - 1]
  <2>1. all \in Seq(R) /\ Len(all) = n
    BY <1>2
  <2> HIDE DEF seg
  <2> QED
    BY <1>2, <1>7, <2>1
<1>9. last \in Nat \ {0}
  BY <1>2, <1>7, <1>8
<1>10. \A i \in 1 .. last : start + i - 1 \in 1 .. n /\ seg[i] \in R
  <2> TAKE i \in 1 .. last
  <2>1. start + i - 1 \in 1 .. n
    BY <1>2, <1>7, <1>8
  <2> QED
    BY <1>2, <1>8, <2>1
<1> HIDE DEF seg
<1>11. readings \in Seq(Reading) /\ Len(readings) = last
  BY <1>3, <1>9, <1>10
<1>12. raw \in [1 .. last -> Phases] /\ \A i \in 1 .. last : raw[i] = RawPhase(readings[i])
  BY DEF RawPhase, ClassifySums, Phases
<1>13. \A i \in 1 .. last : readings[i] = seg[i].event.reading
  OBVIOUS
<1> HIDE DEF readings, raw
<1>14. PICK j \in 1 .. last : raw[j] # "quiet"
  <2>1. PICK i \in 1 .. last : phases[i] = "active"
    BY <1>1, <1>4
  <2>2. SmoothedPhase(readings, i) = "active"
    BY <1>5, <1>11, <2>1
  <2>3. ~(\A k \in 1 .. Len(readings) : RawPhase(readings[k]) = "quiet")
    BY <1>11, <2>1, <2>2, QuietIsNotActive
  <2> QED
    BY <1>11, <1>12, <2>3
<1> HIDE DEF last
<1>15. q \in 2 .. last /\ \A i \in q .. last : raw[i] = "quiet"
  BY <1>1, <1>9, <1>12, <1>14, QuietStartsLater
<1> HIDE DEF q
<1> DEFINE p == start + q - 1
<1>16. /\ p \in 2 .. n /\ p \in start + 1 .. n /\ q \in 1 .. last /\ last \in 1 .. last
       /\ seg[q] = all[p] /\ seg[last] = all[n]
  <2>1. /\ p \in 2 .. n /\ p \in start + 1 .. n /\ q \in 1 .. last /\ last \in 1 .. last
        /\ start + last - 1 = n
    BY <1>2, <1>7, <1>8, <1>9, <1>15
  <2> QED
    BY <1>8, <2>1
<1> HIDE DEF p
<1>17. \A i \in p .. n : RawPhase(all[i].event.reading) = "quiet"
  <2> TAKE i \in p .. n
  <2>1. (i - start) + 1 \in q .. last /\ (i - start) + 1 \in 1 .. last
        /\ start + ((i - start) + 1) - 1 = i
    BY <1>2, <1>7, <1>8, <1>9, <1>15, <1>16 DEF p
  <2> QED
    BY <1>8, <1>12, <1>13, <1>15, <2>1
<1>18. \A i \in p .. n : Continues(all[i - 1], all[i])
  <2> TAKE i \in p .. n
  <2>1. i \in start + 1 .. n
    BY <1>2, <1>7, <1>16
  <2> QED
    BY <1>7, <2>1
<1>19. all[p] \in R /\ all[n] \in R /\ UnbrokenQuiet(R, all[p], all[n])
  <2>1. n = Cardinality(R) /\ all = InOrder(R, Precedes)
    BY DEF n, all
  <2> QED
    BY <1>6, <1>16, <1>17, <1>18, <2>1, QuietIsUnbroken
<1> QED
  BY <1>1, <1>16, <1>19 DEF R

(* receive_event adds a completion of its own only if the samples complete a load. *)
LEMMA AlertIsDecided ==
  ASSUME TInv, NEW m \in net, NEW kept, NEW outcome, ReceiveEvent(m, kept, outcome),
         NEW alert \in NewAlerts
  PROVE  \E rows :
           /\ LoadCompleted(Evidence(rows), m.event)
           /\ SampleRows(rows) = {row \in db' : row.event.state = "calibration_sample"}
           /\ SampleRows(rows) # {}
           /\ alert.event = ServerDoneEvent(m.event)
           /\ Unexpired(db) \subseteq rows /\ Unexpired(rows) = rows
           /\ rows \subseteq db'
<1> DEFINE e         == m.event
           rows      == Unexpired(db)
           duplicate == EventId(e) \in StoredIds(rows)
           with_e    == IF duplicate THEN rows ELSE rows \cup {Stored(e, clock)}
           decides   == /\ ~duplicate /\ e.state = "calibration_sample"
                        /\ outcome # "dies"
                        /\ ServerDone(with_e, e)
                        /\ EventId(ServerDoneEvent(e)) \notin StoredIds(with_e)
           done      == Stored(ServerDoneEvent(e), clock)
<1>1. db' = with_e \cup (IF decides THEN {done} ELSE {})
  BY DEF ReceiveEvent
<1>2. /\ e \in DeviceEvents /\ clock \in Nat
      /\ Stored(e, clock) = [event |-> e, received_at |-> clock]
      /\ done.event = ServerDoneEvent(e)
      /\ ServerDoneEvent(e).state = "done_sent"
  BY DEF TInv, IInv, Typed, Stored, ServerDoneEvent, DeviceEvents
<1>3. alert \in db' /\ alert \notin db /\ alert.event.origin = "server"
  BY DEF NewAlerts
<1>4. rows \subseteq db /\ \A row \in rows : clock - row.received_at <= EVENT_RETENTION
  BY DEF Unexpired
<1>5. alert \notin with_e
  BY <1>2, <1>3, <1>4 DEF DeviceEvents
<1>6. decides /\ alert = done
  BY <1>1, <1>3, <1>5
<1> HIDE DEF rows, duplicate, done
<1>7. with_e = rows \cup {Stored(e, clock)} /\ e.state = "calibration_sample"
  BY <1>6
<1> HIDE DEF with_e
<1>8. LoadCompleted(Evidence(with_e), e)
  BY <1>6 DEF ServerDone
<1>9. \A row \in with_e : clock - row.received_at <= EVENT_RETENTION
  BY <1>2, <1>4, <1>7, RelayAssumption
<1>10. Unexpired(with_e) = with_e /\ Unexpired(db) \subseteq with_e /\ with_e \subseteq db'
  BY <1>1, <1>7, <1>9 DEF Unexpired, rows
<1>11. SampleRows(with_e) = {row \in db' : row.event.state = "calibration_sample"}
  <2>1. done.event.state # "calibration_sample" /\ db' = with_e \cup {done}
    BY <1>1, <1>2, <1>6
  <2> QED
    BY <1>10, <2>1 DEF SampleRows
<1>12. Stored(e, clock) \in SampleRows(with_e)
  <2>1. Stored(e, clock) \in db' /\ Stored(e, clock).event = e
    BY <1>1, <1>2, <1>7
  <2> QED
    BY <1>7, <1>11, <2>1
<1> QED
  BY <1>2, <1>6, <1>8, <1>10, <1>11, <1>12

(* The samples of a table are a list without repetition. *)
LEMMA TableSamples ==
  ASSUME NEW table, IsFiniteSet(table), table \subseteq Rows, UniqueIds(table)
  PROVE  SampleList({row \in table : row.event.state = "calibration_sample"})
<1> DEFINE S == {row \in table : row.event.state = "calibration_sample"}
<1>1. IsFiniteSet(S)
  BY FS_Subset
<1>2. S \subseteq Samples
  BY DEF Rows, Samples, SampleEvents, ServerEvents
<1> QED
  BY <1>1, <1>2 DEF SampleList, UniqueIds

(***************************************************************************)
(* _maybe_send_server_done: whatever was lost, delayed, repeated or        *)
(* deleted, an alert rests on unbroken quiet of SERVER_DONE_QUIET ticks in *)
(* the samples the table then holds.                                       *)
(***************************************************************************)
THEOREM AlertsNeedQuiet == Spec => AlertNeedsQuiet
<1>1. TInv /\ [Next]_vars =>
        \A alert \in NewAlerts :
          LET rows == {row \in db' : row.event.state = "calibration_sample"}
          IN  \E first, last \in rows :
                /\ last.event.n = alert.event.n /\ last.event.cycle_id = alert.event.cycle_id
                /\ EventTimestamp(last) - EventTimestamp(first) >= SERVER_DONE_QUIET
                /\ UnbrokenQuiet(rows, first, last)
  <2> SUFFICES ASSUME TInv, [Next]_vars, NEW alert \in NewAlerts
               PROVE  LET rows == {row \in db' : row.event.state = "calibration_sample"}
                      IN  \E first, last \in rows :
                            /\ last.event.n = alert.event.n
                            /\ last.event.cycle_id = alert.event.cycle_id
                            /\ EventTimestamp(last) - EventTimestamp(first)
                                 >= SERVER_DONE_QUIET
                            /\ UnbrokenQuiet(rows, first, last)
    OBVIOUS
  <2>1. db' = db \/ ListEvents => FALSE
    BY DEF NewAlerts, ListEvents, Unexpired
  <2>2. Receive
    BY <2>1 DEF Next, TakeSample, SendOther, Restart, vars
  <2>3. PICK m \in net, kept \in (IF Faults THEN BOOLEAN ELSE {FALSE}), outcome \in Outcomes :
          ReceiveEvent(m, kept, outcome)
    BY <2>2 DEF Receive
  <2>4. PICK rows :
          /\ LoadCompleted(Evidence(rows), m.event)
          /\ SampleRows(rows) = {row \in db' : row.event.state = "calibration_sample"}
          /\ SampleRows(rows) # {}
          /\ alert.event = ServerDoneEvent(m.event)
    BY <2>3, AlertIsDecided
  <2>5. IsFiniteSet(db') /\ db' \subseteq Rows /\ UniqueIds(db')
    BY TypesStep DEF TInv, RowsTyped, UniqueIds
  <2>6. SampleList({row \in db' : row.event.state = "calibration_sample"})
    BY <2>5, TableSamples
  <2>7. SampleList(SampleRows(rows))
    BY <2>4, <2>6
  <2>8. PICK first \in SampleRows(rows), last \in SampleRows(rows) :
          /\ EventId(last.event) = EventId(m.event)
          /\ EventTimestamp(last) - EventTimestamp(first) >= SERVER_DONE_QUIET
          /\ UnbrokenQuiet(SampleRows(rows), first, last)
    BY <2>4, <2>7, DecisionIsQuiet
  <2>9. last.event.n = alert.event.n /\ last.event.cycle_id = alert.event.cycle_id
    BY <2>4, <2>8 DEF EventId, ServerDoneEvent, TInv, IInv, Typed, DeviceEvents
  <2> QED
    BY <2>4, <2>8, <2>9
<1> QED
  BY <1>1, TypesInit, TypesStep, PTL DEF AlertNeedsQuiet, Spec

----------------------------------------------------------------------------
(* What an alert is about *)

(***************************************************************************)
(* Samples that complete a load hold motion that was received after every  *)
(* completion: if all of it had been announced, every sample active since  *)
(* would be so by an average that reaches back to it, and the first and    *)
(* the last of these would be the minimum runtime apart.                   *)
(***************************************************************************)
LEMMA DecisionIsAboutNewMotion ==
  ASSUME NEW rows, NEW R, R = SampleRows(rows), SampleList(R), R # {},
         \A d \in DoneRows(rows) : d.received_at \in Int,
         ReceivedAsDated(R),
         NEW e, LoadCompleted(Evidence(rows), e)
  PROVE  LET v     == Evidence(rows)
             seg   == v.samples
             moved == {k \in 1 .. Len(seg) : RawPhase(seg[k].event.reading) = "active"}
             new   == {i \in 1 .. Len(seg) : ReceivedAfter(seg[i], DoneRows(rows))}
         IN  \/ moved \cap new # {}
             \/ \E k \in moved, i \in new :
                  /\ v.phases[i] = "active"
                  /\ k < i /\ i < k + SERVER_CLASSIFIER_SMOOTHING_SAMPLES
                  /\ EventTimestamp(seg[i]) - EventTimestamp(seg[k + 1])
                       >= SERVER_MINIMUM_RUNTIME
<1> DEFINE seg == CurrentObservationSegment(InOrder(R, Precedes))
           n == Len(seg)
           done == DoneRows(rows)
           readings == [i \in 1 .. Len(seg) |-> seg[i].event.reading]
           phases == SmoothedPhases(readings)
           active == ActiveIndexes(seg, phases, done)
           t == [i \in 1 .. n |-> EventTimestamp(seg[i])]
           moved == {i \in 1 .. n : RawPhase(seg[i].event.reading) = "active"}
           new == {i \in 1 .. n : ReceivedAfter(seg[i], done)}
<1>1. /\ Evidence(rows).samples = seg /\ Evidence(rows).phases = phases
      /\ active # {} /\ ActiveTime(seg, active) >= SERVER_MINIMUM_RUNTIME
  BY DEF LoadCompleted, Evidence
<1>2. \A a, b \in R : EventTimestamp(a) < EventTimestamp(b) => a.received_at <= b.received_at
  BY DEF ReceivedAsDated, SampleRows
<1>3. /\ n \in Nat \ {0}
      /\ \A i \in 1 .. n : seg[i] \in R /\ EventTimestamp(seg[i]) \in Int
      /\ \A i, j \in 1 .. n : i < j => EventTimestamp(seg[i]) < EventTimestamp(seg[j])
  BY LastSegment
<1>4. \A row \in R : row.event.reading \in Reading /\ row.received_at \in Nat
  BY DEF SampleList, Samples, SampleEvents, DeviceEvents
<1>5. /\ active \subseteq new /\ new \subseteq 1 .. n
      /\ \A i \in active : phases[i] = "active" /\ SmoothedPhase(readings, i) = "active"
  <2>1. Len(readings) = n
    BY <1>3
  <2> QED
    BY <2>1 DEF ActiveIndexes, SmoothedPhases
<1>6. \A i \in new, d \in done : seg[i].received_at > d.received_at
  BY DEF ReceivedAfter
<1> SUFFICES ASSUME moved \cap new = {},
                    \A k \in moved, i \in new :
                      /\ phases[i] = "active"
                      /\ k < i /\ i < k + SERVER_CLASSIFIER_SMOOTHING_SAMPLES
                      => ~(EventTimestamp(seg[i]) - EventTimestamp(seg[k + 1])
                             >= SERVER_MINIMUM_RUNTIME)
             PROVE  FALSE
  BY <1>1
<1>7. \A k \in moved : \E d \in done : ~(seg[k].received_at > d.received_at)
  BY DEF ReceivedAfter
<1> HIDE DEF seg, done
<1>8. /\ readings \in Seq(Reading) /\ Len(readings) = n
      /\ \A i \in 1 .. n : readings[i] = seg[i].event.reading
  BY <1>3, <1>4
<1> HIDE DEF active, phases, readings, new
<1>9. ASSUME NEW i \in active
      PROVE  \E k \in moved : k <= i /\ i < k + SERVER_CLASSIFIER_SMOOTHING_SAMPLES
  <2>1. i \in 1 .. Len(readings)
    BY <1>5, <1>8
  <2>2. PICK k \in 1 .. i : /\ i < k + SERVER_CLASSIFIER_SMOOTHING_SAMPLES
                            /\ RawPhase(readings[k]) = "active"
    BY <1>5, <1>8, <2>1, ActiveAverage
  <2>3. k \in 1 .. n /\ k <= i
    BY <1>3, <1>8, <2>1
  <2> QED
    BY <1>8, <2>2, <2>3
<1> DEFINE k == Max(moved)
<1>10. k \in moved /\ \A j \in moved : j <= k
  <2>1. moved # {}
    BY <1>1, <1>9
  <2>2. IsFiniteSet(moved) /\ moved \subseteq Int
    <3>1. IsFiniteSet(1 .. n) /\ moved \subseteq 1 .. n
      BY <1>3, FS_Interval
    <3> QED
      BY <1>3, <3>1, FS_Subset
  <2> HIDE DEF moved
  <2> QED
    BY <2>1, <2>2, MaxAndMin
<1> HIDE DEF k
<1>11. k \in 1 .. n
  BY <1>10
<1>12. PICK d \in done : ~(seg[k].received_at > d.received_at)
  BY <1>7, <1>10
<1>13. d.received_at \in Int /\ \A i \in 1 .. n : seg[i].received_at \in Nat
  BY <1>3, <1>4 DEF done
<1>14. ASSUME NEW i \in active
       PROVE  i \in 1 .. n /\ k < i /\ i < k + SERVER_CLASSIFIER_SMOOTHING_SAMPLES
  <2>1. i \in 1 .. n /\ seg[i].received_at > d.received_at
    BY <1>5, <1>6
  <2>2. ~(seg[i].received_at <= seg[k].received_at)
    BY <1>11, <1>12, <1>13, <2>1
  <2>3. ~(i < k) /\ i # k
    <3>1. i = k => seg[i].received_at <= seg[k].received_at
      BY <1>11, <1>13
    <3>2. i < k => seg[i].received_at <= seg[k].received_at
      BY <1>2, <1>3, <1>11, <2>1
    <3> QED
      BY <2>2, <3>1, <3>2
  <2>4. PICK j \in moved : j <= i /\ i < j + SERVER_CLASSIFIER_SMOOTHING_SAMPLES
    BY <1>9
  <2>5. j <= k /\ j \in Int
    BY <1>10, <1>3, <2>4 DEF moved
  <2> QED
    BY <1>3, <1>11, <2>1, <2>3, <2>4, <2>5, ClassifierAssumption
<1>15. t \in [1 .. n -> Int] /\ \A i \in 1 .. n : t[i] = EventTimestamp(seg[i])
  BY <1>3
<1>16. \A i \in active : ~(t[i] - t[k + 1] >= SERVER_MINIMUM_RUNTIME)
  <2> TAKE i \in active
  <2>1. i \in 1 .. n /\ k < i /\ i < k + SERVER_CLASSIFIER_SMOOTHING_SAMPLES
    BY <1>14
  <2>2. k + 1 \in 1 .. n
    BY <1>3, <1>11, <2>1
  <2>3. ~(EventTimestamp(seg[i]) - EventTimestamp(seg[k + 1]) >= SERVER_MINIMUM_RUNTIME)
    <3> HIDE DEF moved
    <3> QED
      BY <1>5, <1>10, <2>1
  <2> QED
    BY <1>15, <2>1, <2>2, <2>3
<1>17. \A i, j \in 1 .. n : i < j => t[i] <= t[j]
  BY <1>3, <1>15
<1>18. /\ Min(active) \in active /\ Max(active) \in active
       /\ ActiveTime(seg, active) <= t[Max(active)] - t[Min(active)]
       /\ ActiveTime(seg, active) \in Int
  BY <1>1, <1>3, <1>5, <1>15, <1>17, ActiveTimeWithin
<1>19. /\ Min(active) \in 1 .. n /\ Max(active) \in 1 .. n /\ k + 1 \in 1 .. n
       /\ k + 1 = Min(active) \/ k + 1 < Min(active)
  <2>1. Min(active) \in 1 .. n /\ k < Min(active) /\ Max(active) \in 1 .. n
    BY <1>14, <1>18
  <2> QED
    BY <1>3, <1>11, <2>1
<1>20. t[Max(active)] \in Int /\ t[Min(active)] \in Int /\ t[k + 1] \in Int
  BY <1>15, <1>19
<1>21. t[k + 1] <= t[Min(active)]
  <2> HIDE DEF t
  <2> QED
    BY <1>17, <1>19, <1>20
<1>22. ~(t[Max(active)] - t[k + 1] >= SERVER_MINIMUM_RUNTIME)
  BY <1>16, <1>18
<1> HIDE DEF t
<1> QED
  BY <1>1, <1>18, <1>20, <1>21, <1>22, RelayAssumption

(***************************************************************************)
(* _maybe_send_server_done: an alert is about motion received after every  *)
(* completion, the device's own included, or else samples received since   *)
(* have been active by an average with older motion for the minimum        *)
(* runtime; whatever the network and the failures, as long as the samples  *)
(* in the table were received in the order they are dated in.              *)
(***************************************************************************)
THEOREM OldMotionLasts == Spec => OldMotionMustLast
<1> DEFINE Kept ==
      \A alert \in NewAlerts :
        LET v     == Evidence(db')
            seg   == v.samples
            done  == {d \in db : d.event.state = "done_sent"}
            moved == {k \in 1 .. Len(seg) : RawPhase(seg[k].event.reading) = "active"}
            new   == {i \in 1 .. Len(seg) : ReceivedAfter(seg[i], done)}
        IN  ReceivedAsDated(db') =>
              \/ moved \cap new # {}
              \/ \E k \in moved, i \in new :
                   /\ v.phases[i] = "active"
                   /\ k < i /\ i < k + SERVER_CLASSIFIER_SMOOTHING_SAMPLES
                   /\ EventTimestamp(seg[i]) - EventTimestamp(seg[k + 1])
                        >= SERVER_MINIMUM_RUNTIME
<1>1. TInv /\ [Next]_vars => Kept
  <2> SUFFICES ASSUME TInv, [Next]_vars, NEW alert \in NewAlerts, ReceivedAsDated(db')
               PROVE  LET v     == Evidence(db')
                          seg   == v.samples
                          done  == {d \in db : d.event.state = "done_sent"}
                          moved == {k \in 1 .. Len(seg) :
                                      RawPhase(seg[k].event.reading) = "active"}
                          new   == {i \in 1 .. Len(seg) : ReceivedAfter(seg[i], done)}
                      IN  \/ moved \cap new # {}
                          \/ \E k \in moved, i \in new :
                               /\ v.phases[i] = "active"
                               /\ k < i /\ i < k + SERVER_CLASSIFIER_SMOOTHING_SAMPLES
                               /\ EventTimestamp(seg[i]) - EventTimestamp(seg[k + 1])
                                    >= SERVER_MINIMUM_RUNTIME
    OBVIOUS
  <2>1. db' = db \/ ListEvents => FALSE
    BY DEF NewAlerts, ListEvents, Unexpired
  <2>2. Receive
    BY <2>1 DEF Next, TakeSample, SendOther, Restart, vars
  <2>3. PICK m \in net, kept \in (IF Faults THEN BOOLEAN ELSE {FALSE}), outcome \in Outcomes :
          ReceiveEvent(m, kept, outcome)
    BY <2>2 DEF Receive
  <2>4. PICK rows :
          /\ LoadCompleted(Evidence(rows), m.event)
          /\ SampleRows(rows) = {row \in db' : row.event.state = "calibration_sample"}
          /\ SampleRows(rows) # {}
          /\ Unexpired(db) \subseteq rows /\ Unexpired(rows) = rows
          /\ rows \subseteq db'
    BY <2>3, AlertIsDecided
  <2> DEFINE R == SampleRows(rows)
             seg == Evidence(rows).samples
             done == {d \in db : d.event.state = "done_sent"}
  <2>5. IsFiniteSet(db') /\ db' \subseteq Rows /\ UniqueIds(db')
    BY TypesStep DEF TInv, RowsTyped, UniqueIds
  <2>6. SampleList(R) /\ R # {}
    BY <2>4, <2>5, TableSamples
  <2>7. ReceivedAsDated(R)
    BY <2>4 DEF ReceivedAsDated
  <2>8. \A d \in DoneRows(rows) : d.received_at \in Int
    BY <2>4, <2>5 DEF DoneRows, Unexpired, Rows
  <2>9. SampleRows(db') = R
    BY <2>4 DEF SampleRows, Unexpired
  <2>10. Evidence(db').samples = seg /\ Evidence(db').phases = Evidence(rows).phases
    BY <2>9 DEF Evidence
  <2>11. Len(seg) \in Nat /\ \A i \in 1 .. Len(seg) : seg[i] \in R
    <3>1. seg = CurrentObservationSegment(InOrder(R, Precedes))
      BY DEF Evidence
    <3> HIDE DEF R, seg
    <3> QED
      BY <2>6, <3>1, LastSegment
  <2>12. ASSUME NEW row \in R, ReceivedAfter(row, DoneRows(rows))
         PROVE  ReceivedAfter(row, done)
    <3> SUFFICES ASSUME NEW d \in db, d.event.state = "done_sent"
                 PROVE  row.received_at > d.received_at
      BY DEF ReceivedAfter
    <3>1. row \in rows /\ row \in db'
      BY <2>4 DEF SampleRows, Unexpired
    <3>2. CASE d \in Unexpired(db)
      <4>1. d \in DoneRows(rows)
        BY <2>4, <3>2 DEF DoneRows
      <4> QED
        BY <2>12, <4>1 DEF ReceivedAfter
    <3>3. CASE d \notin Unexpired(db)
      <4>1. /\ ~(clock - d.received_at <= EVENT_RETENTION)
            /\ clock - row.received_at <= EVENT_RETENTION
        BY <2>4, <3>1, <3>3 DEF Unexpired
      <4>2. /\ clock \in Nat /\ d.received_at \in Nat /\ row.received_at \in Nat
            /\ EVENT_RETENTION \in Nat
        BY <2>5, <3>1, RelayAssumption DEF TInv, RowsTyped, IInv, Typed, Rows
      <4> QED
        BY <4>1, <4>2
    <3> QED
      BY <3>2, <3>3
  <2> DEFINE moved == {k \in 1 .. Len(seg) : RawPhase(seg[k].event.reading) = "active"}
             decided == {i \in 1 .. Len(seg) : ReceivedAfter(seg[i], DoneRows(rows))}
             new == {i \in 1 .. Len(seg) : ReceivedAfter(seg[i], done)}
  <2>13. \/ moved \cap decided # {}
         \/ \E k \in moved, i \in decided :
              /\ Evidence(rows).phases[i] = "active"
              /\ k < i /\ i < k + SERVER_CLASSIFIER_SMOOTHING_SAMPLES
              /\ EventTimestamp(seg[i]) - EventTimestamp(seg[k + 1])
                   >= SERVER_MINIMUM_RUNTIME
    BY <2>4, <2>6, <2>7, <2>8, DecisionIsAboutNewMotion
  <2>14. decided \subseteq new
    BY <2>11, <2>12
  <2> HIDE DEF R
  <2> QED
    BY <2>10, <2>13, <2>14
<1> QED
  BY <1>1, TypesInit, TypesStep, PTL DEF OldMotionMustLast, Spec

----------------------------------------------------------------------------
(* Two clocks *)

(***************************************************************************)
(* The clocks, and how long a request may be under way, are no farther     *)
(* apart than the shortest motion that an alert is about.                  *)
(***************************************************************************)
SkewWithinRuntime ==
  \A k \in ClockSkews : MaxDelay + k <= SERVER_MINIMUM_RUNTIME
                        /\ MaxDelay - k <= SERVER_MINIMUM_RUNTIME

SentWhenDated(m) ==
  m.event.device_time = NoTime \/ m.event.device_time + skew = m.sent

ReceivedSoonAfter(row) ==
  \/ row.event.device_time = NoTime
  \/ /\ row.event.device_time + skew <= row.received_at
     /\ row.received_at <= row.event.device_time + skew + MaxDelay

(* An event that carries a time was sent then, by the device's clock. *)
DatesAreTrue ==
  /\ \A m \in net : SentWhenDated(m)
  /\ \A row \in db : ReceivedSoonAfter(row)

CInv == TInv /\ DatesAreTrue

LEMMA DatesInit == Init => CInv
<1>1. Init => DatesAreTrue
  BY DEF Init, DatesAreTrue
<1> QED
  BY <1>1, TypesInit DEF CInv

LEMMA DatesStep == CInv /\ [Next]_vars => CInv'
<1> SUFFICES ASSUME CInv, [Next]_vars
             PROVE  DatesAreTrue'
  BY TypesStep DEF CInv
<1>1. /\ clock \in Nat /\ skew \in Int /\ MaxDelay \in Nat
      /\ \A m \in net : /\ m.event \in DeviceEvents /\ m.sent \in Nat
                       /\ m.sent <= clock /\ clock - m.sent <= MaxDelay
  BY RelayAssumption DEF CInv, TInv, IInv, Typed, Recent
<1>2. ASSUME NEW st, NEW r, NEW at \in Int, Send(Event(st, r, at), at), UNCHANGED <<skew, db>>
      PROVE  DatesAreTrue'
  <2> DEFINE new == [event |-> Event(st, r, at), sent |-> at]
  <2>1. net' \subseteq net \cup {new}
    BY <1>2 DEF Send, UnderWay
  <2>2. SentWhenDated(new)
    BY <1>1 DEF SentWhenDated, Event
  <2> HIDE DEF new
  <2> QED
    BY <1>2, <2>1, <2>2 DEF CInv, DatesAreTrue, SentWhenDated, ReceivedSoonAfter
<1>3. CASE TakeSample
  <2>1. PICK r \in Readings, gap \in SampleGaps :
          /\ Send(Event("calibration_sample", r, clock + gap), clock + gap)
          /\ UNCHANGED <<skew, db>>
    BY <1>3 DEF TakeSample
  <2>2. clock + gap \in Int
    BY <1>1, RelayAssumption
  <2> QED
    BY <1>2, <2>1, <2>2
<1>4. CASE SendOther
  BY <1>1, <1>2, <1>4 DEF SendOther
<1>5. CASE Receive
  <2>1. PICK m \in net : \E ids : Effect(m, ids)
    BY <1>5, RequestEffect DEF Receive, CInv, TInv, IInv
  <2>2. /\ net' \subseteq net /\ skew' = skew
        /\ \A row \in db' \ Unexpired(db) :
             /\ row.received_at = clock
             /\ row.event = m.event \/ row.event \in ServerEvents
    BY <2>1 DEF Effect, device_vars
  <2>3. ASSUME NEW row \in db'
        PROVE  ReceivedSoonAfter(row)
    <3>1. CASE row \in Unexpired(db)
      BY <3>1 DEF Unexpired, CInv, DatesAreTrue
    <3>2. CASE row.event \in ServerEvents
      BY <3>2 DEF ServerEvents, ReceivedSoonAfter
    <3>3. CASE row.event = m.event /\ row.received_at = clock
      <4>1. SentWhenDated(m) /\ m.event.device_time \in Int
        BY <1>1 DEF CInv, DatesAreTrue, DeviceEvents
      <4> QED
        BY <1>1, <3>3, <4>1 DEF SentWhenDated, ReceivedSoonAfter
    <3> QED
      BY <2>2, <3>1, <3>2, <3>3
  <2> QED
    BY <2>2, <2>3 DEF CInv, DatesAreTrue, SentWhenDated, ReceivedSoonAfter
<1>6. CASE ListEvents
  BY <1>6 DEF ListEvents, Unexpired, device_vars, CInv, DatesAreTrue, SentWhenDated,
              ReceivedSoonAfter
<1>7. CASE Restart \/ UNCHANGED vars
  BY <1>7 DEF Restart, vars, device_vars, CInv, DatesAreTrue, SentWhenDated,
              ReceivedSoonAfter
<1> QED
  BY <1>3, <1>4, <1>5, <1>6, <1>7 DEF Next

(***************************************************************************)
(* Motion that was received after every completion and lasted for the      *)
(* minimum runtime is dated after every completion too.                    *)
(***************************************************************************)
LEMMA NewMotionIsDatedLater ==
  ASSUME SkewWithinRuntime, skew \in ClockSkews,
         NEW rows, rows \subseteq Rows, \A row \in rows : ReceivedSoonAfter(row),
         SampleList(SampleRows(rows)), SampleRows(rows) # {},
         NEW e, LoadCompleted(Evidence(rows), e)
  PROVE  ~AnnouncedSince(rows, Evidence(rows))
<1> DEFINE R == SampleRows(rows)
           seg == CurrentObservationSegment(InOrder(R, Precedes))
           n == Len(seg)
           done == DoneRows(rows)
           readings == [i \in 1 .. Len(seg) |-> seg[i].event.reading]
           phases == SmoothedPhases(readings)
           active == ActiveIndexes(seg, phases, done)
           t == [i \in 1 .. n |-> EventTimestamp(seg[i])]
           latest == Max(active)
           first == Min(active)
<1>1. /\ Evidence(rows).samples = seg /\ Evidence(rows).active = active
      /\ active # {} /\ ActiveTime(seg, active) >= SERVER_MINIMUM_RUNTIME
  BY DEF LoadCompleted, Evidence
<1>2. /\ active \subseteq 1 .. n
      /\ \A i \in active, d \in done : seg[i].received_at > d.received_at
  BY DEF ActiveIndexes, ReceivedAfter
<1>3. AnnouncedSince(rows, Evidence(rows)) <=>
        \E d \in done : EventTimestamp(d) >= EventTimestamp(seg[latest])
  BY <1>1 DEF AnnouncedSince, HasNotificationAfter
<1>4. done \subseteq rows /\ R \subseteq rows
  BY DEF DoneRows, SampleRows, Unexpired
<1> HIDE DEF done, active
<1>5. /\ n \in Nat
      /\ \A i \in 1 .. n : seg[i] \in R /\ EventTimestamp(seg[i]) \in Int
      /\ \A i, j \in 1 .. n : i < j => EventTimestamp(seg[i]) < EventTimestamp(seg[j])
  BY LastSegment
<1> HIDE DEF seg, R
<1>6. t \in [1 .. n -> Int] /\ \A i \in 1 .. n : t[i] = EventTimestamp(seg[i])
  BY <1>5
<1>7. \A i, j \in 1 .. n : i < j => t[i] <= t[j]
  BY <1>5, <1>6
<1> HIDE DEF t
<1>8. /\ first \in active /\ latest \in active
      /\ ActiveTime(seg, active) <= t[latest] - t[first]
      /\ ActiveTime(seg, active) \in Int
  BY <1>1, <1>2, <1>5, <1>6, <1>7, ActiveTimeWithin
<1> HIDE DEF first, latest
<1>9. /\ t[first] = EventTimestamp(seg[first]) /\ t[latest] = EventTimestamp(seg[latest])
      /\ t[first] \in Int /\ t[latest] \in Int
      /\ seg[first] \in rows
  BY <1>2, <1>4, <1>5, <1>6, <1>8
<1>10. /\ skew \in Int /\ MaxDelay \in Nat /\ SERVER_MINIMUM_RUNTIME \in Nat
       /\ MaxDelay + skew <= SERVER_MINIMUM_RUNTIME
       /\ MaxDelay - skew <= SERVER_MINIMUM_RUNTIME
  BY RelayAssumption DEF SkewWithinRuntime
<1>11. SERVER_MINIMUM_RUNTIME <= t[latest] - t[first]
  BY <1>1, <1>8, <1>9, <1>10
<1>12. ASSUME NEW d \in done
       PROVE  EventTimestamp(d) < EventTimestamp(seg[latest])
  <2> DEFINE x == seg[first].received_at
             y == d.received_at
             u == seg[first].event.device_time
             v == d.event.device_time
  <2>1. y < x /\ x \in Int /\ y \in Int /\ u \in Int /\ v \in Int
    BY <1>2, <1>4, <1>8, <1>9 DEF Rows, DeviceEvents, ServerEvents, NoTime
  <2>2. t[first] = IF u = NoTime THEN x ELSE u
    BY <1>9 DEF EventTimestamp
  <2>3. EventTimestamp(d) = IF v = NoTime THEN y ELSE v
    BY DEF EventTimestamp
  <2>4. u = NoTime \/ (u + skew <= x /\ x <= u + skew + MaxDelay)
    BY <1>9 DEF ReceivedSoonAfter
  <2>5. v = NoTime \/ (v + skew <= y /\ y <= v + skew + MaxDelay)
    BY <1>4 DEF ReceivedSoonAfter
  <2> HIDE DEF x, y, u, v
  <2>6. EventTimestamp(d) < t[latest]
    BY <1>9, <1>10, <1>11, <2>1, <2>2, <2>3, <2>4, <2>5
  <2> QED
    BY <1>9, <2>6
<1>13. \A d \in done : EventTimestamp(d) \in Int /\ EventTimestamp(seg[latest]) \in Int
  BY <1>4, <1>9 DEF EventTimestamp, Rows, DeviceEvents, ServerEvents, NoTime
<1> QED
  BY <1>3, <1>12, <1>13

(***************************************************************************)
(* _maybe_send_server_done dates its own completions by the relay's clock  *)
(* and motion by the device's.  While the clocks and the requests differ   *)
(* by less than the minimum runtime, that withholds no alert that is due.  *)
(***************************************************************************)
THEOREM SkewHidesNoAlert ==
  ASSUME SkewWithinRuntime
  PROVE  Spec => ClockSkewHidesNoAlert
<1>1. CInv /\ [Next]_vars =>
        \A row \in db' \ db :
          LET rows == db' \ NewAlerts
              v    == Evidence(rows)
          IN  row.event.state = "calibration_sample" /\ LoadCompleted(v, row.event)
                => ~AnnouncedSince(rows, v)
  <2> SUFFICES ASSUME CInv, [Next]_vars, NEW row \in db' \ db,
                      row.event.state = "calibration_sample",
                      LoadCompleted(Evidence(db' \ NewAlerts), row.event)
               PROVE  ~AnnouncedSince(db' \ NewAlerts, Evidence(db' \ NewAlerts))
    OBVIOUS
  <2> DEFINE rows == db' \ NewAlerts
  <2>1. db' # db /\ ~ListEvents
    BY DEF ListEvents, Unexpired
  <2>2. Receive
    BY <2>1 DEF Next, TakeSample, SendOther, Restart, vars
  <2>3. PICK m \in net, kept \in (IF Faults THEN BOOLEAN ELSE {FALSE}), outcome \in Outcomes :
          ReceiveEvent(m, kept, outcome)
    BY <2>2 DEF Receive
  <2>4. skew' = skew /\ clock' = clock
    BY <2>3 DEF ReceiveEvent, device_vars
  <2>5. CInv'
    BY DatesStep
  <2>6. /\ IsFiniteSet(db') /\ db' \subseteq Rows /\ UniqueIds(db')
        /\ \A r \in db' : ReceivedSoonAfter(r)
        /\ skew \in ClockSkews
    BY <2>4, <2>5 DEF CInv, TInv, Bounded, RowsTyped, UniqueIds, DatesAreTrue, ReceivedSoonAfter
  <2>7. IsFiniteSet(rows) /\ rows \subseteq Rows /\ UniqueIds(rows)
    BY <2>6, FS_Subset DEF UniqueIds
  <2>8. \A r \in rows : ReceivedSoonAfter(r)
    BY <2>6
  <2>9. row \in rows
    BY <2>6 DEF NewAlerts, Rows, DeviceEvents, ServerEvents
  <2>10. row.received_at = clock
    <3>1. \E ids : Effect(m, ids)
      BY <2>3, RequestEffect DEF CInv, TInv, IInv
    <3> QED
      BY <3>1 DEF Effect, Unexpired
  <2> HIDE DEF rows
  <2>11. row \in SampleRows(rows)
    BY <2>9, <2>10, RelayAssumption DEF SampleRows, Unexpired, CInv, TInv, IInv, Typed
  <2>12. SampleList(SampleRows(rows))
    <3> DEFINE table == Unexpired(rows)
    <3>1. IsFiniteSet(table) /\ table \subseteq Rows /\ UniqueIds(table)
      BY <2>7, FS_Subset DEF Unexpired, UniqueIds
    <3> HIDE DEF table
    <3>2. SampleList({r \in table : r.event.state = "calibration_sample"})
      BY <3>1, TableSamples
    <3> QED
      BY <3>2 DEF table, SampleRows
  <2>13. ~AnnouncedSince(rows, Evidence(rows))
    <3>1. LoadCompleted(Evidence(rows), row.event) /\ SampleRows(rows) # {}
      BY <2>11 DEF rows
    <3> QED
      BY <2>6, <2>7, <2>8, <2>12, <3>1, NewMotionIsDatedLater
  <2> QED
    BY <2>13 DEF rows
<1> QED
  BY <1>1, DatesInit, DatesStep, PTL DEF ClockSkewHidesNoAlert, Spec

----------------------------------------------------------------------------
(* One sample more *)

(* Where the samples that continue their predecessors begin. *)
SegmentStartsAt(s, start) ==
  /\ start \in 1 .. Len(s)
  /\ start > 1 => ~Continues(s[start - 1], s[start])
  /\ \A i \in start + 1 .. Len(s) : Continues(s[i - 1], s[i])

(* Where _current_observation_segment begins. *)
LEMMA SegmentStart ==
  ASSUME NEW R, NEW s \in Seq(R), s # <<>>
  PROVE  /\ \E start : SegmentStartsAt(s, start)
         /\ \A start : SegmentStartsAt(s, start)
              => CurrentObservationSegment(s) = SubSeq(s, start, Len(s))
<1> DEFINE n == Len(s)
           starts == {1} \cup {i \in 2 .. n : ~Continues(s[i - 1], s[i])}
           chosen_start == CHOOSE x \in starts : \A t \in starts : t <= x
<1>1. n \in Nat \ {0}
  OBVIOUS
<1>2. CurrentObservationSegment(s) = SubSeq(s, chosen_start, n)
  BY DEF CurrentObservationSegment
<1>3. starts # {} /\ starts \subseteq 1 .. n /\ starts \subseteq Int
  BY <1>1
<1>4. IsFiniteSet(starts)
  <2>1. IsFiniteSet(1 .. n)
    BY FS_Interval
  <2> QED
    BY <1>3, <2>1, FS_Subset
<1>5. \A i \in 2 .. n : i \notin starts <=> Continues(s[i - 1], s[i])
  OBVIOUS
<1>6. 1 \in starts
  OBVIOUS
<1> HIDE DEF starts
<1>7. \E x \in starts : \A t \in starts : t <= x
  BY <1>3, <1>4, NumbersAreOrdered
<1>8. chosen_start \in starts /\ \A t \in starts : t <= chosen_start
  BY <1>7
<1> HIDE DEF chosen_start, n
<1>9. SegmentStartsAt(s, chosen_start)
  <2>1. chosen_start \in 1 .. n
    BY <1>3, <1>8
  <2>2. chosen_start > 1 => chosen_start \in 2 .. n
    BY <1>1, <2>1
  <2>3. \A i \in chosen_start + 1 .. n : i \in 2 .. n /\ i \notin starts
    BY <1>1, <1>8, <2>1
  <2> QED
    BY <1>5, <1>8, <2>1, <2>2, <2>3 DEF SegmentStartsAt, n
<1>10. ASSUME NEW start, SegmentStartsAt(s, start)
       PROVE  start = chosen_start
  <2>1. /\ start \in 1 .. n
        /\ start > 1 => start \in 2 .. n
    BY <1>1, <1>10 DEF SegmentStartsAt, n
  <2>2. start \in 2 .. n => start \in starts
    BY <1>1, <1>5, <1>10 DEF SegmentStartsAt, n
  <2>3. start \in starts
    BY <1>1, <1>6, <2>1, <2>2
  <2>4. start <= chosen_start
    BY <1>8, <2>3
  <2>5. ~(start < chosen_start)
    <3> SUFFICES ASSUME start < chosen_start
                 PROVE  FALSE
      OBVIOUS
    <3>1. chosen_start \in start + 1 .. n /\ chosen_start \in 2 .. n
      BY <1>1, <1>3, <1>8, <2>1
    <3>2. Continues(s[chosen_start - 1], s[chosen_start])
      BY <1>10, <3>1 DEF SegmentStartsAt, n
    <3> QED
      BY <1>5, <1>8, <3>1, <3>2
  <2> QED
    BY <1>3, <1>8, <2>1, <2>4, <2>5
<1> QED
  BY <1>2, <1>9, <1>10 DEF n

(* The segment goes on with a sample that continues it, and begins anew with any other. *)
LEMMA SegmentGrows ==
  ASSUME NEW R, NEW s \in Seq(R), NEW x \in R
  PROVE  LET n   == Len(s)
             seg == CurrentObservationSegment(s)
         IN  /\ seg \in Seq(R) /\ (n = 0 <=> Len(seg) = 0)
             /\ n > 0 => seg[Len(seg)] = s[n]
             /\ \A i \in 1 .. Len(seg) : seg[i] = s[n - Len(seg) + i]
             /\ Len(seg) <= n
             /\ CurrentObservationSegment(Append(s, x)) =
                  IF n > 0 /\ Continues(s[n], x) THEN Append(seg, x) ELSE <<x>>
<1> DEFINE n == Len(s)
           seg == CurrentObservationSegment(s)
           new == Append(s, x)
<1>1. /\ n \in Nat /\ new \in Seq(R) /\ Len(new) = n + 1 /\ new[n + 1] = x
      /\ \A i \in 1 .. n : new[i] = s[i] /\ s[i] \in R
  OBVIOUS
<1>2. s = <<>> <=> n = 0
  OBVIOUS
<1>3. n = 0 => seg = <<>>
  <2> SUFFICES ASSUME n = 0
               PROVE  seg = <<>>
    OBVIOUS
  <2>1. s = <<>> /\ Len(s) = 0
    OBVIOUS
  <2>2. {1} \cup {i \in 2 .. 0 : ~Continues(s[i - 1], s[i])} = {1}
    OBVIOUS
  <2>3. (CHOOSE x_ \in {1} : \A t \in {1} : t <= x_) = 1
    OBVIOUS
  <2>4. seg = SubSeq(s, 1, 0)
    BY <2>1, <2>2, <2>3 DEF CurrentObservationSegment
  <2> QED
    BY <2>4, SubSeqEmpty
<1>4. new # <<>>
  BY <1>1
<1> HIDE DEF new, n
<1>5. \A start : SegmentStartsAt(new, start)
        => CurrentObservationSegment(new) = SubSeq(new, start, n + 1)
  BY <1>1, <1>4, SegmentStart
<1>6. SegmentStartsAt(new, n + 1) => CurrentObservationSegment(new) = <<x>>
  <2> SUFFICES ASSUME SegmentStartsAt(new, n + 1)
               PROVE  CurrentObservationSegment(new) = <<x>>
    OBVIOUS
  <2>1. CurrentObservationSegment(new) = SubSeq(new, n + 1, n + 1)
    BY <1>5
  <2> DEFINE k == n + 1
             one == SubSeq(new, k, k)
  <2>2. k \in Int /\ new[k] = x /\ new[k] \in R
    BY <1>1
  <2> HIDE DEF k
  <2>3. \A i \in k .. k : new[i] \in R
    BY <2>2
  <2>4. /\ one \in Seq(R) /\ Len(one) = k - k + 1
        /\ \A i \in 1 .. k - k + 1 : one[i] = new[k + i - 1]
    BY <2>2, <2>3, SubSeqProperties
  <2> HIDE DEF one
  <2>5. one \in Seq(R) /\ Len(one) = 1 /\ one[1] = x
    <3>1. k - k + 1 = 1 /\ 1 \in 1 .. 1 /\ k + 1 - 1 = k
      BY <2>2
    <3> QED
      BY <2>2, <2>4, <3>1
  <2>6. <<x>> \in Seq(R) /\ Len(<<x>>) = 1 /\ <<x>>[1] = x
    OBVIOUS
  <2>7. one = <<x>>
    BY <2>5, <2>6, SeqEqual
  <2> QED
    BY <2>1, <2>7 DEF one, k
<1>7. ~(n > 0 /\ Continues(s[n], x)) => SegmentStartsAt(new, n + 1)
  <2> SUFFICES ASSUME ~(n > 0 /\ Continues(s[n], x))
               PROVE  SegmentStartsAt(new, n + 1)
    OBVIOUS
  <2>1. n + 1 > 1 => n > 0 /\ n \in 1 .. n /\ (n + 1) - 1 = n
    BY <1>1
  <2>2. (n + 1) + 1 .. n + 1 = {} /\ n + 1 \in 1 .. n + 1
    BY <1>1
  <2>3. n + 1 > 1 => new[n] = s[n]
    BY <1>1, <2>1
  <2> QED
    BY <1>1, <2>1, <2>2, <2>3 DEF SegmentStartsAt
<1>8. CASE n = 0
  <2>1. seg = <<>> /\ Len(seg) = 0 /\ seg \in Seq(R) /\ 1 .. Len(seg) = {}
    BY <1>3, <1>8
  <2>2. CurrentObservationSegment(new) = <<x>>
    BY <1>6, <1>7, <1>8
  <2> HIDE DEF seg
  <2> QED
    BY <1>8, <2>1, <2>2 DEF n, new, seg
<1>9. CASE n > 0
  <2>1. PICK start : SegmentStartsAt(s, start) /\ seg = SubSeq(s, start, n)
    BY <1>2, <1>9, SegmentStart DEF n
  <2>2. start \in 1 .. n
    BY <2>1 DEF SegmentStartsAt, n
  <2>3. /\ start \in Int /\ n \in Int /\ start <= n /\ \A i \in start .. n : s[i] \in R
    BY <1>1, <2>2
  <2>4. /\ seg \in Seq(R) /\ Len(seg) = n - start + 1
        /\ \A i \in 1 .. n - start + 1 : seg[i] = s[start + i - 1]
    <3> HIDE DEF seg
    <3> QED
      BY <2>1, <2>3, SubSeqProperties
  <2> HIDE DEF seg
  <2>5. /\ Len(seg) \in 1 .. n
        /\ \A i \in 1 .. Len(seg) : seg[i] = s[n - Len(seg) + i]
    <3>1. \A i \in 1 .. n - start + 1 : start + i - 1 = n - (n - start + 1) + i
      BY <1>1, <2>2
    <3>2. n - start + 1 \in 1 .. n
      BY <1>1, <2>2
    <3> QED
      BY <2>4, <3>1, <3>2
  <2>6. seg[Len(seg)] = s[n]
    <3>1. Len(seg) \in 1 .. Len(seg) /\ n - Len(seg) + Len(seg) = n
      BY <1>1, <2>5
    <3> QED
      BY <2>5, <3>1
  <2>7. ASSUME Continues(s[n], x)
        PROVE  CurrentObservationSegment(new) = Append(seg, x)
    <3>1. SegmentStartsAt(new, start)
      <4>1. start \in 1 .. n + 1 /\ (start > 1 => start - 1 \in 1 .. n)
        BY <1>1, <2>2
      <4>2. \A i \in start + 1 .. n + 1 :
              i - 1 \in 1 .. n /\ (i = n + 1 \/ (i \in start + 1 .. n /\ i \in 1 .. n))
        BY <1>1, <2>2
      <4>3. start > 1 => ~Continues(new[start - 1], new[start])
        BY <1>1, <2>1, <2>2, <4>1 DEF SegmentStartsAt
      <4>4. Continues(new[(n + 1) - 1], new[n + 1])
        <5>1. (n + 1) - 1 = n /\ n \in 1 .. n
          BY <1>1, <1>9
        <5> QED
          BY <1>1, <2>7, <5>1
      <4>5. \A i \in start + 1 .. n + 1 : Continues(new[i - 1], new[i])
        <5> TAKE i \in start + 1 .. n + 1
        <5>1. CASE i = n + 1
          BY <4>4, <5>1
        <5>2. CASE i # n + 1
          <6>1. i \in start + 1 .. Len(s) /\ new[i] = s[i] /\ new[i - 1] = s[i - 1]
            BY <1>1, <4>2, <5>2 DEF n
          <6> QED
            BY <2>1, <6>1 DEF SegmentStartsAt
        <5> QED
          BY <5>1, <5>2
      <4> QED
        BY <1>1, <4>1, <4>3, <4>5 DEF SegmentStartsAt
    <3>2. CurrentObservationSegment(new) = SubSeq(new, start, n + 1)
      BY <1>5, <3>1
    <3>3. n + 1 \in Int /\ start <= n + 1 /\ \A i \in start .. n + 1 : new[i] \in R
      BY <1>1, <2>2
    <3> DEFINE left == SubSeq(new, start, n + 1)
               right == Append(seg, x)
               m == Len(seg)
    <3>4. /\ left \in Seq(R) /\ Len(left) = (n + 1) - start + 1
          /\ \A i \in 1 .. (n + 1) - start + 1 : left[i] = new[start + i - 1]
      BY <2>3, <3>3, SubSeqProperties
    <3>5. /\ right \in Seq(R) /\ Len(right) = m + 1 /\ right[m + 1] = x
          /\ \A i \in 1 .. m : right[i] = seg[i]
      BY <2>4
    <3> HIDE DEF left, right
    <3>6. (n + 1) - start + 1 = m + 1 /\ m = n - start + 1 /\ m \in Nat
      BY <1>1, <2>2, <2>4
    <3>7. \A i \in 1 .. m + 1 : left[i] = right[i]
      <4> TAKE i \in 1 .. m + 1
      <4>1. left[i] = new[start + i - 1]
        BY <3>4, <3>6
      <4>2. CASE i = m + 1
        <5>1. start + i - 1 = n + 1
          BY <1>1, <2>2, <3>6, <4>2
        <5> QED
          BY <1>1, <3>5, <4>1, <4>2, <5>1
      <4>3. CASE i # m + 1
        <5>1. i \in 1 .. m /\ start + i - 1 \in 1 .. n
          BY <1>1, <2>2, <3>6, <4>3
        <5>2. seg[i] = s[start + i - 1]
          BY <2>4, <3>6, <5>1
        <5> QED
          BY <1>1, <3>5, <4>1, <5>1, <5>2
      <4> QED
        BY <4>2, <4>3
    <3>8. left = right
      BY <3>4, <3>5, <3>6, <3>7, SeqEqual
    <3> QED
      BY <3>2, <3>8 DEF left, right
  <2>8. ~Continues(s[n], x) => CurrentObservationSegment(new) = <<x>>
    BY <1>6, <1>7
  <2>9. Len(seg) # 0 /\ n # 0 /\ Len(seg) <= n
    BY <1>1, <1>9, <2>5
  <2> QED
    BY <1>9, <2>4, <2>5, <2>6, <2>7, <2>8, <2>9 DEF n, new, seg
<1> QED
  BY <1>1, <1>8, <1>9

(* A sample dated after all others comes last. *)
LEMMA LatestIsLast ==
  ASSUME NEW rows, NEW x, x \notin rows, SampleList(rows \cup {x}),
         \A row \in rows : EventTimestamp(row) < EventTimestamp(x)
  PROVE  /\ SampleList(rows)
         /\ InOrder(rows \cup {x}, Precedes) = Append(InOrder(rows, Precedes), x)
<1> DEFINE T == rows \cup {x}
           Q == InTime(T)
<1>1. SampleList(rows)
  BY FS_Subset DEF SampleList, UniqueIds
<1>2. StrictOrder(Q, T) /\ IsFiniteSet(rows)
  BY <1>1, InTimeIsStrict DEF SampleList
<1>3. ASSUME NEW S \in SUBSET T
      PROVE  InOrder(S, Precedes) = Ranked(Q, S)
  <2>1. InOrder(S, Precedes) =
          [i \in 1 .. Cardinality(S) |-> CHOOSE z \in S :
                              Cardinality({y \in S : Precedes(y, z)}) = i - 1]
    BY DEF InOrder
  <2>2. \A z \in S : {y \in S : Precedes(y, z)} = Below(Q, S, z)
    BY DEF Below, InTime
  <2> QED
    BY <2>1, <2>2 DEF Ranked
<1>4. \A row \in rows : <<row, x>> \in Q
  <2> TAKE row \in rows
  <2>1. Precedes(row, x)
    BY LessOfFour DEF Precedes, SortKey
  <2> QED
    BY <2>1 DEF InTime
<1>5. Ranked(Q, T) = Append(Ranked(Q, rows), x)
  <2> HIDE DEF Q
  <2> QED
    BY <1>2, <1>4, GreatestIsLast
<1>6. rows \in SUBSET T /\ T \in SUBSET T
  OBVIOUS
<1> QED
  BY <1>1, <1>3, <1>5, <1>6

(* Of no samples there is no segment. *)
LEMMA NoSegment == CurrentObservationSegment(<<>>) = <<>>
<1> DEFINE none == {1} \cup {i \in 2 .. Len(<<>>) : ~Continues(<<>>[i - 1], <<>>[i])}
           c == CHOOSE x \in none : \A t \in none : t <= x
<1>1. c = 1
  <2>1. none = {1}
    OBVIOUS
  <2> QED
    BY <2>1
<1>2. CurrentObservationSegment(<<>>) = SubSeq(<<>>, c, Len(<<>>))
  BY DEF CurrentObservationSegment
<1> HIDE DEF c
<1> QED
  BY <1>1, <1>2

(* ActiveTime, when the list grows by a sample. *)
LEMMA ActiveTimeGrows ==
  ASSUME NEW R, \A row \in R : EventTimestamp(row) \in Int,
         NEW seg \in Seq(R), NEW x \in R,
         NEW active \in SUBSET (1 .. Len(seg)), NEW on \in BOOLEAN
  PROVE  /\ ActiveTime(seg, active) \in Int
         /\ ActiveTime(Append(seg, x), active \cup (IF on THEN {Len(seg) + 1} ELSE {})) =
              ActiveTime(seg, active)
              + (IF on /\ Len(seg) \in active
                 THEN EventTimestamp(x) - EventTimestamp(seg[Len(seg)]) ELSE 0)
<1> DEFINE n == Len(seg)
           new == Append(seg, x)
           act == active \cup (IF on THEN {n + 1} ELSE {})
           d == IF on /\ n \in active THEN EventTimestamp(x) - EventTimestamp(seg[n]) ELSE 0
           s == [i \in 1 .. n |-> IF {i - 1, i} \subseteq active
                                  THEN EventTimestamp(seg[i]) - EventTimestamp(seg[i - 1]) ELSE 0]
           t == [i \in 1 .. n + 1 |-> IF {i - 1, i} \subseteq act
                                  THEN EventTimestamp(new[i]) - EventTimestamp(new[i - 1]) ELSE 0]
<1>1. /\ n \in Nat /\ Len(new) = n + 1 /\ new[n + 1] = x
      /\ \A i \in 1 .. n : new[i] = seg[i] /\ EventTimestamp(seg[i]) \in Int
      /\ EventTimestamp(x) \in Int
  OBVIOUS
<1>2. ActiveTime(seg, active) = SumOf(s)
  BY DEF ActiveTime
<1>3. ActiveTime(new, act) = SumOf(t)
  <2>1. Len(new) = n + 1
    BY <1>1
  <2> HIDE DEF new, act, n
  <2> QED
    BY <2>1 DEF ActiveTime
<1> HIDE DEF new, n
<1>4. \A i \in 1 .. n : s[i] \in Int
  <2> TAKE i \in 1 .. n
  <2>1. {i - 1, i} \subseteq active => i - 1 \in 1 .. n /\ i \in 1 .. n
    BY DEF n
  <2>2. {i - 1, i} \subseteq active => EventTimestamp(seg[i]) - EventTimestamp(seg[i - 1]) \in Int
    BY <1>1, <2>1
  <2> QED
    BY <2>2
<1>5. s \in Seq(Int) /\ Len(s) = n
  <2>1. s = [i \in 1 .. n |-> s[i]]
    OBVIOUS
  <2> HIDE DEF s
  <2> QED
    BY <1>1, <1>4, <2>1
<1>6. d \in Int
  <2>1. n \in active => n \in 1 .. n
    BY DEF n
  <2> QED
    BY <1>1, <2>1
<1>7. t = Append(s, d)
  <2>1. \A i \in 1 .. n : t[i] = s[i]
    <3> TAKE i \in 1 .. n
    <3>1. i \in 1 .. n + 1 /\ i # n + 1 /\ i - 1 # n + 1
      BY <1>1
    <3>2. {i - 1, i} \subseteq act <=> {i - 1, i} \subseteq active
      BY <3>1
    <3>3. {i - 1, i} \subseteq active => i - 1 \in 1 .. n
      BY DEF n
    <3>4. {i - 1, i} \subseteq active => new[i] = seg[i] /\ new[i - 1] = seg[i - 1]
      BY <1>1, <3>3
    <3> HIDE DEF act
    <3> QED
      BY <3>1, <3>2, <3>4
  <2>2. t[n + 1] = d
    <3>1. n + 1 \in 1 .. n + 1 /\ (n + 1) - 1 = n /\ n # n + 1
      BY <1>1
    <3>2. n + 1 \notin active
      BY <1>1 DEF n
    <3>3. {n, n + 1} \subseteq act <=> on /\ n \in active
      BY <3>1, <3>2
    <3>4. n \in active => new[n] = seg[n]
      BY <1>1 DEF n
    <3>5. t[n + 1] = IF {(n + 1) - 1, n + 1} \subseteq act
                     THEN EventTimestamp(new[n + 1]) - EventTimestamp(new[(n + 1) - 1]) ELSE 0
      BY <3>1
    <3>6. t[n + 1] = IF on /\ n \in active
                     THEN EventTimestamp(new[n + 1]) - EventTimestamp(new[n]) ELSE 0
      BY <3>1, <3>3, <3>5
    <3> QED
      BY <1>1, <3>4, <3>6
  <2>3. t = [i \in 1 .. n + 1 |-> t[i]]
    OBVIOUS
  <2> HIDE DEF s, t, d
  <2>4. \A i \in 1 .. n + 1 : i \in 1 .. n \/ i = n + 1
    BY <1>1
  <2>5. /\ Append(s, d) \in Seq(Int) /\ Len(Append(s, d)) = n + 1 /\ Append(s, d)[n + 1] = d
        /\ \A i \in 1 .. n : Append(s, d)[i] = s[i]
    BY <1>5, <1>6
  <2>6. \A i \in 1 .. n + 1 : t[i] = Append(s, d)[i] /\ t[i] \in Int
    BY <1>4, <1>6, <2>1, <2>2, <2>4, <2>5
  <2>7. t \in Seq(Int) /\ Len(t) = n + 1
    BY <1>1, <2>3, <2>6
  <2> QED
    BY <2>5, <2>6, <2>7, SeqEqual
<1> HIDE DEF s, t, d, act
<1>8. SumOf(s) \in Int /\ SumOf(t) = SumOf(s) + d
  BY <1>5, <1>6, <1>7, SumGrows
<1> QED
  BY <1>2, <1>3, <1>8 DEF new, n, act, d

(* The quiet at the end of a list has one first reading. *)
LEMMA QuietStartIs ==
  ASSUME NEW n \in Nat \ {0}, NEW raw, DOMAIN raw = 1 .. n, Len(raw) = n, raw[n] = "quiet"
  PROVE  /\ QuietStart(raw) \in 1 .. n
         /\ \A i \in QuietStart(raw) .. n : raw[i] = "quiet"
         /\ QuietStart(raw) > 1 => raw[QuietStart(raw) - 1] # "quiet"
         /\ \A q \in 1 .. n : (/\ \A i \in q .. n : raw[i] = "quiet"
                               /\ q > 1 => raw[q - 1] # "quiet") => q = QuietStart(raw)
<1> DEFINE P(q) == /\ \A i \in q .. n : raw[i] = "quiet"
                   /\ q > 1 => raw[q - 1] # "quiet"
           T == {i \in 1 .. n : raw[i] # "quiet"}
<1>1. QuietStart(raw) = CHOOSE q \in 1 .. n : P(q)
  BY DEF QuietStart
<1>2. \E q \in 1 .. n : P(q)
  <2>1. CASE T = {}
    <3>1. P(1) /\ 1 \in 1 .. n
      BY <2>1
    <3> QED
      BY <3>1
  <2>2. CASE T # {}
    <3>1. IsFiniteSet(T) /\ T \subseteq Int
      <4>1. IsFiniteSet(1 .. n)
        BY FS_Interval
      <4> QED
        BY <4>1, FS_Subset
    <3>2. PICK m \in T : \A i \in T : i <= m
      BY <2>2, <3>1, NumbersAreOrdered
    <3>3. m \in 1 .. n /\ m # n /\ m + 1 \in 1 .. n /\ (m + 1) - 1 = m
      BY <3>2
    <3>4. \A i \in m + 1 .. n : i \in 1 .. n /\ i \notin T
      BY <3>2, <3>3
    <3>5. P(m + 1)
      BY <3>2, <3>3, <3>4
    <3> QED
      BY <3>3, <3>5
  <2> QED
    BY <2>1, <2>2
<1>3. \A p, q \in 1 .. n : P(p) /\ P(q) => ~(p < q)
  <2> TAKE p \in 1 .. n, q \in 1 .. n
  <2> SUFFICES ASSUME P(p), P(q), p < q
               PROVE  FALSE
    OBVIOUS
  <2>1. q > 1 /\ q - 1 \in p .. n
    OBVIOUS
  <2> QED
    BY <2>1
<1> HIDE DEF P
<1>4. QuietStart(raw) \in 1 .. n /\ P(QuietStart(raw))
  BY <1>1, <1>2
<1>5. \A q \in 1 .. n : P(q) => q = QuietStart(raw)
  <2> TAKE q \in 1 .. n
  <2> SUFFICES ASSUME P(q)
               PROVE  q = QuietStart(raw)
    OBVIOUS
  <2>1. ~(q < QuietStart(raw)) /\ ~(QuietStart(raw) < q)
    BY <1>3, <1>4
  <2>2. q \in Int /\ QuietStart(raw) \in Int
    BY <1>4
  <2> HIDE DEF T
  <2> QED
    BY <2>1, <2>2
<1> QED
  BY <1>4, <1>5 DEF P
=============================================================================
