--------------------------- MODULE ObserverProofs ---------------------------
(***************************************************************************)
(* What stands beside the relay: the live page, which asks it for its      *)
(* list, and the one-pass monitor, which is shown what it stores.          *)
(*                                                                         *)
(* For every table, page and order of answers that Dashboard allows: a     *)
(* message that was pushed is marked among the samples around it, a sample *)
(* is drawn with its own phase, the page classifies as the relay does, and *)
(* a sample that ended a load is listed as quiet.                          *)
(*                                                                         *)
(* The last parts are about RelayOnePass: while requests come one at a     *)
(* time and nothing expires, the relay's decision from its whole table is  *)
(* that of the monitor.                                                    *)
(***************************************************************************)
EXTENDS Dashboard, RelayOnePass, RelayProofs

----------------------------------------------------------------------------
(* The order of the list *)

Received(rows) == {p \in rows \X rows : ReceivedBefore(p[1], p[2])}

LEMMA LessOfThree ==
  ASSUME NEW a, NEW b, NEW c, NEW u, NEW v, NEW w
  PROVE  Less(<<a, b, c>>, <<u, v, w>>) <=>
           a < u \/ (a = u /\ b < v) \/ (a = u /\ b = v /\ c < w)
<1> DEFINE k == <<a, b, c>>
           l == <<u, v, w>>
           P(i) == k[i] < l[i] /\ \A j \in 1 .. i - 1 : k[j] = l[j]
<1>1. DOMAIN k = {1, 2, 3}
  OBVIOUS
<1>2. P(1) <=> a < u
  OBVIOUS
<1>3. P(2) <=> a = u /\ b < v
  OBVIOUS
<1>4. P(3) <=> a = u /\ b = v /\ c < w
  OBVIOUS
<1>5. Less(k, l) <=> \E i \in DOMAIN k : P(i)
  BY DEF Less
<1> HIDE DEF P
<1> QED
  BY <1>1, <1>2, <1>3, <1>4, <1>5

LEMMA ReceivedIsStrict ==
  ASSUME NEW rows, SampleList(rows)
  PROVE  StrictOrder(Received(rows), rows)
<1> DEFINE P(x, y) ==
             \/ x.received_at < y.received_at
             \/ x.received_at = y.received_at /\ x.event.cycle_id < y.event.cycle_id
             \/ /\ x.received_at = y.received_at /\ x.event.cycle_id = y.event.cycle_id
                /\ x.event.n < y.event.n
<1>1. \A x, y \in rows : <<x, y>> \in Received(rows) <=> P(x, y)
  BY LessOfThree DEF Received, ReceivedBefore
<1>2. \A x \in rows : /\ x.received_at \in Int /\ x.event.cycle_id \in Int
                      /\ x.event.n \in Int /\ x.event.origin = "device"
  BY DEF SampleList, Samples, SampleEvents, DeviceEvents
<1>3. \A x, y \in rows :
        x.event.cycle_id = y.event.cycle_id /\ x.event.n = y.event.n => x = y
  BY <1>2 DEF SampleList, UniqueIds, EventId
<1>4. \A x \in rows : ~P(x, x)
  BY <1>2
<1>5. \A x, y \in rows : x # y => P(x, y) \/ P(y, x)
  BY <1>2, <1>3
<1>6. \A x, y, z \in rows : P(x, y) /\ P(y, z) => P(x, z)
  BY <1>2
<1> HIDE DEF P
<1> QED
  BY <1>1, <1>4, <1>5, <1>6 DEF StrictOrder

(* The list has every row once, and the ones received before come first. *)
LEMMA ChronologicalOrder ==
  ASSUME NEW rows, SampleList(rows)
  PROVE  /\ Cardinality(rows) \in Nat
         /\ Chronological(rows) \in [1 .. Cardinality(rows) -> rows]
         /\ \A i \in 1 .. Cardinality(rows) :
              Cardinality(Below(Received(rows), rows, Chronological(rows)[i])) = i - 1
         /\ \A row \in rows : \E i \in 1 .. Cardinality(rows) : Chronological(rows)[i] = row
         /\ \A i, j \in 1 .. Cardinality(rows) :
              Chronological(rows)[i] = Chronological(rows)[j] => i = j
<1> DEFINE n == Cardinality(rows)
           R == Received(rows)
           s == Ranked(R, rows)
<1>1. Chronological(rows) = s
  <2>1. Chronological(rows) =
          [i \in 1 .. n |-> CHOOSE x \in rows :
                              Cardinality({y \in rows : ReceivedBefore(y, x)}) = i - 1]
    BY DEF Chronological, InOrder
  <2>2. \A x \in rows : {y \in rows : ReceivedBefore(y, x)} = Below(R, rows, x)
    BY DEF Below, Received
  <2> QED
    BY <2>1, <2>2 DEF Ranked
<1>2. IsFiniteSet(rows) /\ StrictOrder(R, rows)
  BY ReceivedIsStrict DEF SampleList
<1>3. /\ n \in Nat /\ s \in [1 .. n -> rows]
      /\ \A x \in rows : \E i \in 1 .. n : s[i] = x
      /\ \A i \in 1 .. n : Cardinality(Below(R, rows, s[i])) = i - 1
  BY <1>2, RankedInOrder
<1> HIDE DEF n, R, s
<1>4. ASSUME NEW i \in 1 .. n, NEW j \in 1 .. n, s[i] = s[j]
      PROVE  i = j
  <2>1. i - 1 = j - 1
    BY <1>3, <1>4
  <2> QED
    BY <1>3, <2>1
<1>5. \A i, j \in 1 .. n : s[i] = s[j] => i = j
  BY <1>4
<1> QED
  BY <1>1, <1>3, <1>5 DEF n, R, s

----------------------------------------------------------------------------
(* The inductive invariant *)

(***************************************************************************)
(* The table lost its rows by age only, and up to the last of them no      *)
(* sample of the table is missing, but for those too high to be listed.    *)
(***************************************************************************)
Gapless(rows) ==
  /\ Unexpired(rows) \subseteq db
  /\ \A r \in SampleRows(db), s \in rows :
       r.received_at < s.received_at /\ WithinPeakLimit(r) => r \in rows

(* Samples that were in the table when they were listed. *)
Listed(rows) ==
  /\ SampleList(rows) /\ \A row \in rows : row.received_at <= clock
  /\ Gapless(rows)

(* Of what was received before one of the samples, no notification is missing. *)
Complete(rows, marks) ==
  \A row \in db, s \in rows :
    row.event.state \in NOTIFICATION_STATES /\ row.received_at < s.received_at => row \in marks

Marks(rows) == rows \subseteq Rows /\ IsFiniteSet(rows)

Answers ==
  [stage : {"sent", "samples", "listed"}, samples : SUBSET Samples, notifications : SUBSET Rows]

AnswerHolds(f) ==
  /\ f \in Answers /\ Listed(f.samples) /\ Marks(f.notifications)
  /\ f.stage = "listed" => Complete(f.samples, f.notifications)

DInv ==
  /\ MInv
  /\ Listed(samples) /\ Marks(notifications) /\ Complete(samples, notifications)
  /\ fetches \in Seq(Answers) /\ \A i \in DOMAIN fetches : AnswerHolds(fetches[i])

(***************************************************************************)
(* A row that is stored now was received now: nothing listed is younger.   *)
(***************************************************************************)
LEMMA TableGrows ==
  ASSUME MInv, [Next]_vars
  PROVE  /\ clock \in Nat /\ clock' \in Nat /\ clock <= clock'
         /\ Unexpired(db) \subseteq db'
         /\ \A row \in db' : row \in db \/ row.received_at = clock
<1>1. clock \in Nat
  BY DEF MInv, TInv, IInv, Typed
<1>2. CASE TakeSample
  <2>1. PICK gap \in SampleGaps : clock' = clock + gap /\ db' = db
    BY <1>2 DEF TakeSample
  <2> QED
    BY <1>1, <2>1, RelayAssumption DEF Unexpired
<1>3. CASE SendOther \/ Restart \/ UNCHANGED vars
  BY <1>1, <1>3 DEF SendOther, Restart, vars, Unexpired
<1>4. CASE Receive
  <2>1. PICK m \in net : \E ids : Effect(m, ids)
    BY <1>4, RequestEffect DEF Receive, MInv, TInv, IInv
  <2>2. PICK ids : Effect(m, ids)
    BY <2>1
  <2> QED
    BY <1>1, <2>2 DEF Effect, Unexpired
<1>5. CASE ListEvents
  BY <1>1, <1>5 DEF ListEvents, Unexpired
<1> QED
  BY <1>2, <1>3, <1>4, <1>5 DEF Next

LEMMA ListsStay ==
  ASSUME MInv, [Next]_vars, NEW rows, NEW marks, Listed(rows)
  PROVE  Listed(rows)' /\ (Complete(rows, marks) => Complete(rows, marks)')
<1>1. \A s \in rows : s.received_at \in Nat /\ s.received_at <= clock
  BY DEF Listed, SampleList, Samples
<1>2. /\ clock \in Nat /\ clock' \in Nat /\ clock <= clock'
      /\ Unexpired(db) \subseteq db'
      /\ \A row \in db' : row \in db \/ row.received_at = clock
  BY TableGrows
<1>3. \A s \in rows : s.received_at <= clock' /\ ~(clock < s.received_at)
  BY <1>1, <1>2
<1>4. Gapless(rows)'
  <2>1. Unexpired(rows)' \subseteq db'
    <3> SUFFICES ASSUME NEW row \in rows, clock' - row.received_at <= EVENT_RETENTION
                 PROVE  row \in db'
      BY DEF Unexpired
    <3>1. clock - row.received_at <= EVENT_RETENTION
      BY <1>1, <1>2, RelayAssumption
    <3> QED
      BY <1>2, <3>1 DEF Listed, Gapless, Unexpired
  <2>2. ASSUME NEW r \in SampleRows(db)', NEW s \in rows,
               r.received_at < s.received_at, WithinPeakLimit(r)
        PROVE  r \in rows
    <3>1. r \in db' /\ clock' - r.received_at <= EVENT_RETENTION
          /\ r.event.state = "calibration_sample"
      BY DEF SampleRows, Unexpired
    <3>2. r \in db
      BY <1>2, <1>3, <2>2, <3>1
    <3>3. clock - r.received_at <= EVENT_RETENTION
      <4>1. r.received_at \in Nat
        BY <3>2 DEF MInv, TInv, IInv, Typed
      <4> QED
        BY <1>2, <3>1, <4>1, RelayAssumption
    <3>4. r \in SampleRows(db)
      BY <3>1, <3>2, <3>3 DEF SampleRows, Unexpired
    <3> QED
      BY <2>2, <3>4 DEF Listed, Gapless
  <2> QED
    BY <2>1, <2>2 DEF Gapless, WithinPeakLimit
<1>5. Listed(rows)'
  BY <1>3, <1>4 DEF Listed, SampleList
<1>6. ASSUME Complete(rows, marks)
      PROVE  Complete(rows, marks)'
  BY <1>2, <1>3, <1>6 DEF Complete
<1> QED
  BY <1>5, <1>6

LEMMA AnswersStay ==
  ASSUME MInv, [Next]_vars, NEW f, AnswerHolds(f)
  PROVE  AnswerHolds(f)'
BY ListsStay DEF AnswerHolds

(* What a listing returns, and what it leaves in the table. *)
LEMMA ListingIsComplete ==
  ASSUME MInv, ListEvents
  PROVE  /\ Listed(ListedSamples(db))
         /\ Marks(ListedNotifications(db))
         /\ \A row \in db' : row.event.state \in NOTIFICATION_STATES
                               => row \in ListedNotifications(db)
<1>1. /\ db' = Unexpired(db) /\ Unexpired(db) \subseteq db
      /\ ListedSamples(db) \subseteq db /\ ListedNotifications(db) \subseteq db
  BY DEF ListEvents, Unexpired, ListedSamples, SampleRows, ListedNotifications
<1>2. /\ IsFiniteSet(db) /\ UniqueIds(db)
      /\ \A row \in db : row \in Rows /\ row.received_at <= clock
  BY DEF MInv, TInv, RowsTyped
<1>3. IsFiniteSet(ListedSamples(db)) /\ IsFiniteSet(ListedNotifications(db))
  BY <1>1, <1>2, FS_Subset
<1>4. ListedSamples(db) \subseteq Samples
  BY <1>2 DEF ListedSamples, SampleRows, Unexpired, Rows, Samples, SampleEvents, ServerEvents
<1>5. Gapless(ListedSamples(db))
  BY <1>1 DEF Gapless, ListedSamples, SampleRows, Unexpired
<1>6. Listed(ListedSamples(db))
  BY <1>1, <1>2, <1>3, <1>4, <1>5 DEF Listed, SampleList, UniqueIds
<1> QED
  BY <1>1, <1>2, <1>3, <1>6 DEF Marks, ListedNotifications

LEMMA EmptyAnswer == AnswerHolds(NothingShown)
<1>1. IsFiniteSet({})
  BY FS_EmptySet
<1> QED
  BY <1>1 DEF AnswerHolds, NothingShown, Answers, Listed, Gapless, Unexpired, SampleList,
     UniqueIds, Marks

LEMMA PageInit == DashboardInit => DInv
<1> SUFFICES ASSUME DashboardInit
             PROVE  DInv
  OBVIOUS
<1>1. MInv
  BY MessagesInit DEF DashboardInit
<1>2. Listed(samples) /\ Marks(notifications) /\ Complete(samples, notifications)
  BY FS_EmptySet DEF DashboardInit, Listed, Gapless, Unexpired, SampleList, UniqueIds, Marks,
     Complete
<1>3. AnswerHolds(NothingShown) /\ NothingShown \in Answers /\ fetches = <<NothingShown>>
  BY EmptyAnswer DEF AnswerHolds, DashboardInit
<1>4. fetches \in Seq(Answers) /\ \A i \in DOMAIN fetches : fetches[i] = NothingShown
  BY <1>3
<1> QED
  BY <1>1, <1>2, <1>3, <1>4 DEF DInv

(* What is shown stays true, and so do the answers, but for a new one. *)
LEMMA ViewStays ==
  ASSUME DInv, [Next]_vars, UNCHANGED view
  PROVE  Listed(samples)' /\ Marks(notifications)' /\ Complete(samples, notifications)'
<1>1. Listed(samples)' /\ Complete(samples, notifications)'
  BY ListsStay DEF DInv, view, Listed, Complete
<1>2. Marks(notifications)'
  BY DEF DInv, view
<1> QED
  BY <1>1, <1>2

LEMMA AnswersChange ==
  ASSUME DInv, [Next]_vars, NEW f, AnswerHolds(f)', fetches' \in Seq(Answers),
         \A j \in DOMAIN fetches' :
           fetches'[j] = f \/ \E i \in DOMAIN fetches : fetches'[j] = fetches[i]
  PROVE  \A j \in DOMAIN fetches' : AnswerHolds(fetches[j])'
<1> SUFFICES ASSUME NEW j \in DOMAIN fetches'
             PROVE  AnswerHolds(fetches[j])'
  OBVIOUS
<1>1. \E g : g = fetches'[j] /\ AnswerHolds(g)'
  <2>1. CASE fetches'[j] = f
    BY <2>1
  <2>2. CASE \E i \in DOMAIN fetches : fetches'[j] = fetches[i]
    <3>1. PICK i \in DOMAIN fetches : fetches'[j] = fetches[i]
      BY <2>2
    <3>2. PICK g : g = fetches[i]
      OBVIOUS
    <3>3. AnswerHolds(g)
      BY <3>2 DEF DInv
    <3>4. AnswerHolds(g)'
      BY <3>3, AnswersStay DEF DInv
    <3> QED
      BY <3>1, <3>2, <3>4
  <2> QED
    BY <2>1, <2>2
<1>2. PICK g : g = fetches'[j] /\ AnswerHolds(g)'
  BY <1>1
<1> QED
  BY <1>2 DEF AnswerHolds, Listed, Complete

LEMMA RemovedAnswer ==
  ASSUME fetches \in Seq(Answers), NEW i \in DOMAIN fetches, fetches' = RemoveAt(fetches, i)
  PROVE  /\ fetches' \in Seq(Answers)
         /\ \A j \in DOMAIN fetches' : \E k \in DOMAIN fetches : fetches'[j] = fetches[k]
<1> DEFINE a == SubSeq(fetches, 1, i - 1)
           b == SubSeq(fetches, i + 1, Len(fetches))
<1>1. i \in 1 .. Len(fetches) /\ Len(fetches) \in Nat
  OBVIOUS
<1>2. /\ a \in Seq(Answers) /\ b \in Seq(Answers)
      /\ Len(a) = i - 1 /\ Len(b) = Len(fetches) - i
      /\ \A j \in 1 .. i - 1 : a[j] = fetches[j]
      /\ \A j \in 1 .. Len(fetches) - i : b[j] = fetches[i + j]
  BY <1>1
<1>3. fetches' = a \o b
  BY DEF RemoveAt
<1> HIDE DEF a, b
<1>4. fetches' \in Seq(Answers) /\ DOMAIN fetches' = 1 .. Len(a) + Len(b)
  BY <1>2, <1>3
<1>5. ASSUME NEW j \in DOMAIN fetches'
      PROVE  \E k \in DOMAIN fetches : fetches'[j] = fetches[k]
  <2>1. CASE j <= Len(a)
    <3>1. fetches'[j] = a[j] /\ j \in 1 .. i - 1 /\ j \in 1 .. Len(fetches)
      BY <1>1, <1>2, <1>3, <1>4, <2>1
    <3> QED
      BY <1>2, <3>1
  <2>2. CASE ~(j <= Len(a))
    <3>1. j \in Nat /\ i \in Nat /\ j <= (i - 1) + (Len(fetches) - i) /\ j > i - 1
      BY <1>1, <1>2, <1>4, <2>2
    <3>2. j - (i - 1) \in 1 .. Len(fetches) - i /\ i + (j - (i - 1)) \in 1 .. Len(fetches)
      BY <1>1, <3>1
    <3>3. fetches'[j] = b[j - (i - 1)]
      BY <1>2, <1>3, <1>4, <2>2
    <3> QED
      BY <1>2, <3>2, <3>3
  <2> QED
    BY <2>1, <2>2
<1> QED
  BY <1>4, <1>5

LEMMA PageStep == DInv /\ [DashboardNext]_dashboard_vars => DInv'
<1> SUFFICES ASSUME DInv, [DashboardNext]_dashboard_vars
             PROVE  DInv'
  OBVIOUS
<1>1. fetches \in Seq(Answers) /\ MInv
  BY DEF DInv
<1>2. AnswerHolds(NothingShown)' /\ NothingShown \in Answers
  <2>1. PICK g : g = NothingShown
    OBVIOUS
  <2>2. AnswerHolds(g)
    BY <2>1, EmptyAnswer
  <2> QED
    BY <2>1, <2>2, FS_EmptySet DEF AnswerHolds, NothingShown, Listed, Gapless, Unexpired,
       SampleList, UniqueIds, Marks
<1>3. ASSUME [Next]_vars, UNCHANGED view, fetches' \in Seq(Answers),
             \A j \in DOMAIN fetches' : AnswerHolds(fetches[j])'
      PROVE  DInv'
  <2>1. MInv'
    BY <1>1, <1>3, MessagesStep
  <2> QED
    BY <1>3, <2>1, ViewStays DEF DInv
<1>4. ASSUME [Next]_vars, UNCHANGED <<view, fetches>>
      PROVE  DInv'
  <2>1. \A j \in DOMAIN fetches' : AnswerHolds(fetches[j])'
    BY <1>1, <1>2, <1>4, AnswersChange
  <2> QED
    BY <1>1, <1>3, <1>4, <2>1
<1>5. ASSUME UNCHANGED <<vars, view>>, Fetch
      PROVE  DInv'
  <2>1. fetches' = Append(fetches, NothingShown)
    BY <1>5 DEF Fetch
  <2>2. /\ fetches' \in Seq(Answers)
        /\ \A j \in DOMAIN fetches' :
             fetches'[j] = NothingShown \/ \E i \in DOMAIN fetches : fetches'[j] = fetches[i]
    BY <1>1, <1>2, <2>1
  <2>3. \A j \in DOMAIN fetches' : AnswerHolds(fetches[j])'
    BY <1>2, <1>5, <2>2, AnswersChange
  <2> QED
    BY <1>3, <1>5, <2>2, <2>3
<1>6. CASE Monitored
  BY <1>4, <1>6 DEF Monitored, page_vars, view, Next
<1>7. CASE LoadSamples
  BY <1>5, <1>7 DEF LoadSamples
<1>8. CASE TogglePause
  BY <1>4, <1>5, <1>8 DEF TogglePause
<1>9. ASSUME NEW i \in DOMAIN fetches, ListSamples(i)
      PROVE  DInv'
  <2>1. /\ ListEvents /\ UNCHANGED view /\ AnswerHolds(fetches[i]) /\ fetches[i] \in Answers
        /\ fetches' = [fetches EXCEPT ![i].stage = "samples", ![i].samples = ListedSamples(db)]
    BY <1>9 DEF ListSamples, DInv, AnswerHolds
  <2>2. PICK f : f = [fetches[i] EXCEPT !.stage = "samples", !.samples = ListedSamples(db)]
    OBVIOUS
  <2>3. Listed(ListedSamples(db)) /\ [Next]_vars
    BY <1>1, <2>1, ListingIsComplete DEF Next
  <2>4. /\ f \in Answers /\ f.stage = "samples" /\ f.samples = ListedSamples(db)
        /\ f.notifications = fetches[i].notifications
    BY <2>1, <2>2, <2>3 DEF Answers, Listed, SampleList
  <2>5. AnswerHolds(f)
    BY <2>1, <2>3, <2>4 DEF AnswerHolds
  <2>6. AnswerHolds(f)'
    BY <1>1, <2>3, <2>5, AnswersStay
  <2>7. fetches' = [fetches EXCEPT ![i] = f]
    BY <1>1, <2>1, <2>2
  <2>8. /\ fetches' \in Seq(Answers)
        /\ \A j \in DOMAIN fetches' :
             fetches'[j] = f \/ \E k \in DOMAIN fetches : fetches'[j] = fetches[k]
    BY <1>1, <2>4, <2>7
  <2>9. \A j \in DOMAIN fetches' : AnswerHolds(fetches[j])'
    BY <2>3, <2>6, <2>8, AnswersChange
  <2> QED
    BY <1>3, <2>1, <2>3, <2>8, <2>9
<1>10. ASSUME NEW i \in DOMAIN fetches, ListNotifications(i)
      PROVE  DInv'
  <2>1. /\ ListEvents /\ UNCHANGED view /\ AnswerHolds(fetches[i]) /\ fetches[i] \in Answers
        /\ fetches' = [fetches EXCEPT ![i].stage = "listed",
                                     ![i].notifications = ListedNotifications(db)]
    BY <1>10 DEF ListNotifications, DInv, AnswerHolds
  <2>2. PICK f : f = [fetches[i] EXCEPT !.stage = "listed",
                                       !.notifications = ListedNotifications(db)]
    OBVIOUS
  <2>3. /\ [Next]_vars /\ Marks(ListedNotifications(db))
        /\ \A row \in db' : row.event.state \in NOTIFICATION_STATES
                              => row \in ListedNotifications(db)
    BY <1>1, <2>1, ListingIsComplete DEF Next
  <2>4. /\ f \in Answers /\ f.stage = "listed" /\ f.samples = fetches[i].samples
        /\ f.notifications = ListedNotifications(db)
    BY <2>1, <2>2, <2>3 DEF Answers, Marks
  <2>5. AnswerHolds(f)'
    <3>1. PICK list : list = fetches[i].samples
      OBVIOUS
    <3>2. Listed(list)
      BY <2>1, <3>1 DEF AnswerHolds
    <3>3. Listed(list)'
      BY <1>1, <2>3, <3>2, ListsStay
    <3>4. \A row \in db' : row.event.state \in NOTIFICATION_STATES => row \in f.notifications
      BY <2>3, <2>4
    <3>5. Marks(f.notifications) /\ f.samples = list
      BY <2>3, <2>4, <3>1
    <3> QED
      BY <2>4, <3>3, <3>4, <3>5 DEF AnswerHolds, Complete, Marks, Listed
  <2>6. fetches' = [fetches EXCEPT ![i] = f]
    BY <1>1, <2>1, <2>2
  <2>7. /\ fetches' \in Seq(Answers)
        /\ \A j \in DOMAIN fetches' :
             fetches'[j] = f \/ \E k \in DOMAIN fetches : fetches'[j] = fetches[k]
    BY <1>1, <2>4, <2>6
  <2>8. \A j \in DOMAIN fetches' : AnswerHolds(fetches[j])'
    BY <2>3, <2>5, <2>7, AnswersChange
  <2> QED
    BY <1>3, <2>1, <2>3, <2>7, <2>8
<1>11. ASSUME NEW i \in DOMAIN fetches, FetchDone(i)
      PROVE  DInv'
  <2>1. /\ UNCHANGED vars /\ fetches' = RemoveAt(fetches, i) /\ fetches[i].stage = "listed"
        /\ samples' = fetches[i].samples /\ notifications' = fetches[i].notifications
    BY <1>11 DEF FetchDone
  <2>2. /\ Listed(samples') /\ Marks(notifications') /\ Complete(samples', notifications')
    BY <2>1 DEF DInv, AnswerHolds
  <2>3. Listed(samples)' /\ Marks(notifications)' /\ Complete(samples, notifications)'
    BY <2>1, <2>2 DEF Listed, Gapless, Unexpired, SampleRows, Complete, Marks, vars
  <2>4. /\ fetches' \in Seq(Answers)
        /\ \A j \in DOMAIN fetches' : \E k \in DOMAIN fetches : fetches'[j] = fetches[k]
    BY <1>1, <2>1, RemovedAnswer
  <2>5. \A j \in DOMAIN fetches' : AnswerHolds(fetches[j])'
    BY <1>2, <2>1, <2>4, AnswersChange
  <2>6. MInv'
    BY <1>1, <2>1, MessagesStep
  <2> QED
    BY <2>3, <2>4, <2>5, <2>6 DEF DInv
<1>12. ASSUME NEW i \in DOMAIN fetches, FetchFails(i)
      PROVE  DInv'
  <2>1. [Next]_vars /\ UNCHANGED view /\ fetches' = RemoveAt(fetches, i)
    BY <1>12 DEF FetchFails
  <2>2. /\ fetches' \in Seq(Answers)
        /\ \A j \in DOMAIN fetches' : \E k \in DOMAIN fetches : fetches'[j] = fetches[k]
    BY <1>1, <2>1, RemovedAnswer
  <2>3. \A j \in DOMAIN fetches' : AnswerHolds(fetches[j])'
    BY <1>2, <2>1, <2>2, AnswersChange
  <2> QED
    BY <1>3, <2>1, <2>2, <2>3
<1>13. CASE UNCHANGED dashboard_vars
  BY <1>4, <1>13 DEF dashboard_vars, page_vars
<1> QED
  BY <1>6, <1>7, <1>8, <1>9, <1>10, <1>11, <1>12, <1>13 DEF DashboardNext, Page

(***************************************************************************)
(* The inductive invariant: answers may overtake each other, but each of   *)
(* them, and what the page shows, is complete in itself.                   *)
(***************************************************************************)
THEOREM AnswersAreComplete == DashboardSpec => []DInv
<1> QED
  BY PageInit, PageStep, PTL DEF DashboardSpec

----------------------------------------------------------------------------
(* Messages and their marks *)

LEMMA SampleTimes ==
  ASSUME DInv
  PROVE  /\ IsFiniteSet({EventTimestamp(row) : row \in samples})
         /\ IsFiniteSet({row.received_at : row \in samples})
         /\ IsFiniteSet({row.received_at : row \in notifications})
         /\ \A row \in samples : EventTimestamp(row) \in Int /\ row.received_at \in Nat
         /\ \A row \in notifications : row.received_at \in Nat
<1>1. /\ IsFiniteSet(samples) /\ samples \subseteq Samples
      /\ IsFiniteSet(notifications) /\ notifications \subseteq Rows
  BY DEF DInv, Listed, SampleList, Marks
<1> DEFINE dates == [row \in samples |-> EventTimestamp(row)]
           receipts == [row \in samples |-> row.received_at]
           marks == [row \in notifications |-> row.received_at]
<1>2. /\ IsFiniteSet({dates[row] : row \in samples})
      /\ IsFiniteSet({receipts[row] : row \in samples})
      /\ IsFiniteSet({marks[row] : row \in notifications})
  <2> HIDE DEF dates, receipts, marks
  <2>1. DOMAIN dates = samples /\ DOMAIN receipts = samples /\ DOMAIN marks = notifications
    BY DEF dates, receipts, marks
  <2> QED
    BY <1>1, <2>1, ImageIsFinite
<1>3. /\ {dates[row] : row \in samples} = {EventTimestamp(row) : row \in samples}
      /\ {receipts[row] : row \in samples} = {row.received_at : row \in samples}
      /\ {marks[row] : row \in notifications} = {row.received_at : row \in notifications}
  OBVIOUS
<1>4. \A row \in samples : EventTimestamp(row) \in Int /\ row.received_at \in Nat
  BY <1>1 DEF EventTimestamp, Samples, SampleEvents, DeviceEvents
<1>5. \A row \in notifications : row.received_at \in Nat
  BY <1>1 DEF Rows
<1> QED
  BY <1>2, <1>3, <1>4, <1>5

VisibleSet(window) == {row \in samples : InWindow(EventTimestamp(row), window)}

LEMMA Visible ==
  ASSUME DInv, NEW window
  PROVE  /\ VisibleSet(window) = {} /\ samples # {} =>
              VisibleSamples(window) = <<Chronological(samples)[Cardinality(samples)]>>
         /\ VisibleSet(window) # {} \/ samples = {} =>
              VisibleSamples(window) = Chronological(VisibleSet(window))
         /\ SampleList(VisibleSet(window)) /\ SampleList(samples)
         /\ ToSet(VisibleSamples(window)) \subseteq samples
         /\ Len(VisibleSamples(window)) \in Nat
<1> DEFINE all == Chronological(samples)
           n == Cardinality(samples)
           part == Chronological(VisibleSet(window))
<1>1. SampleList(samples)
  BY DEF DInv, Listed
<1>2. SampleList(VisibleSet(window)) /\ VisibleSet(window) \subseteq samples
  BY <1>1, FS_Subset DEF SampleList, UniqueIds, VisibleSet
<1>3. n \in Nat /\ all \in [1 .. n -> samples] /\ Len(all) = n
  <2>1. n \in Nat /\ all \in [1 .. n -> samples]
    BY <1>1, ChronologicalOrder
  <2> HIDE DEF n, all
  <2> QED
    BY <2>1
<1>4. /\ part \in [1 .. Cardinality(VisibleSet(window)) -> VisibleSet(window)]
      /\ Len(part) \in Nat
  <2>1. /\ part \in [1 .. Cardinality(VisibleSet(window)) -> VisibleSet(window)]
        /\ Cardinality(VisibleSet(window)) \in Nat
    BY <1>2, ChronologicalOrder
  <2> HIDE DEF part
  <2> QED
    BY <2>1
<1>5. VisibleSamples(window) =
        IF VisibleSet(window) = {} /\ samples # {} THEN <<all[Len(all)]>> ELSE part
  BY DEF VisibleSamples, VisibleSet
<1>6. ToSet(part) \subseteq samples
  <2> HIDE DEF part
  <2> QED
    BY <1>2, <1>4 DEF ToSet
<1>7. samples # {} => n \in 1 .. n
  BY <1>1, <1>3, FS_EmptySet DEF SampleList
<1>8. samples # {} => all[n] \in samples
  BY <1>3, <1>7
<1>9. samples # {} => ToSet(<<all[n]>>) \subseteq samples
  BY <1>8 DEF ToSet
<1>10. Len(<<all[n]>>) \in Nat
  OBVIOUS
<1> QED
  BY <1>1, <1>2, <1>3, <1>4, <1>5, <1>6, <1>9, <1>10

(* The samples and notifications drawn have first and last dates. *)
LEMMA TimeAxis ==
  ASSUME DInv, NEW window
  PROVE  IsFiniteSet(TimesDrawn(window)) /\ TimesDrawn(window) \subseteq Int
<1> DEFINE dates == {EventTimestamp(row) : row \in samples}
           marks == {row.received_at : row \in notifications}
<1>1. IsFiniteSet(dates \cup marks) /\ dates \cup marks \subseteq Int
  <2>1. IsFiniteSet(dates) /\ IsFiniteSet(marks) /\ dates \subseteq Int /\ marks \subseteq Int
    BY SampleTimes
  <2> HIDE DEF dates, marks
  <2> QED
    BY <2>1, FS_Union
<1>2. TimesDrawn(window) \in SUBSET (dates \cup marks)
  BY Visible DEF TimesDrawn, VisibleNotifications
<1> QED
  BY <1>1, <1>2, FS_Subset

(***************************************************************************)
(* The two queries of list_events, and update() and draw() of the page: a  *)
(* message that was pushed before the newest sample shown was received has *)
(* its mark, whatever is stored between the queries, deleted meanwhile, or *)
(* answered out of order.                                                  *)
(***************************************************************************)
THEOREM MessagesAreMarked == DashboardSpec => []PushedMessagesAreMarked
<1>1. DInv => PushedMessagesAreMarked
  <2> SUFFICES ASSUME DInv, NEW row \in db, EventId(row.event) \in DOMAIN pushed,
                      NEW window \in Windows,
                      row.received_at < ShownUpTo, InWindow(row.received_at, window),
                      Len(VisibleSamples(window)) >= 2, Cardinality(TimesDrawn(window)) >= 2
               PROVE  row \in Markers(window)
    BY DEF PushedMessagesAreMarked
  <2> DEFINE receipts == {0} \cup {s.received_at : s \in samples}
             times == TimesDrawn(window)
  <2>1. row.event.state \in NOTIFICATION_STATES /\ row.received_at \in Nat
    BY DEF DInv, MInv, PushedAreNotifications, KnownEvents, TInv, RowsTyped, Rows
  <2>2. PICK s \in samples : row.received_at < s.received_at
    <3>1. IsFiniteSet(receipts) /\ receipts # {} /\ receipts \subseteq Int
      <4> DEFINE R == {s.received_at : s \in samples}
      <4>1. IsFiniteSet(R) /\ R \subseteq Int
        BY SampleTimes
      <4>2. IsFiniteSet({0})
        BY FS_Singleton
      <4> HIDE DEF R
      <4>3. IsFiniteSet({0} \cup R)
        BY <4>1, <4>2, FS_Union
      <4> QED
        BY <4>1, <4>3 DEF R
    <3>2. Max(receipts) \in receipts /\ row.received_at < Max(receipts)
      <4>1. Max(receipts) \in receipts
        BY <3>1, MaxAndMin
      <4> QED
        BY <4>1 DEF ShownUpTo
    <3>3. Max(receipts) # 0
      BY <2>1, <3>2
    <3> QED
      BY <3>2, <3>3
  <2>3. row \in notifications
    BY <2>1, <2>2 DEF DInv, Complete
  <2>4. row.received_at \in times
    BY <2>3 DEF TimesDrawn, VisibleNotifications
  <2>5. IsFiniteSet(times) /\ times \subseteq Int
    BY TimeAxis
  <2> HIDE DEF times
  <2>6. Min(times) <= row.received_at /\ row.received_at <= Max(times)
    BY <2>4, <2>5, MaxAndMin
  <2>7. Len(VisibleSamples(window)) \in Nat /\ Cardinality(times) \in Nat
    BY <2>5, Visible, FS_CardinalityType
  <2> QED
    BY <2>3, <2>6, <2>7 DEF Markers, times
<1> QED
  BY <1>1, AnswersAreComplete, PTL

----------------------------------------------------------------------------
(* Samples and their phases *)

LEMMA PhasesOfList ==
  ASSUME NEW rows, SampleList(rows)
  PROVE  /\ ServerPhases(rows) \in Seq({ServerPhases(rows)[i] : i \in DOMAIN ServerPhases(rows)})
         /\ Len(ServerPhases(rows)) = Cardinality(rows)
<1> DEFINE n == Cardinality(rows)
           all == Chronological(rows)
           readings == ReadingsOf(rows)
           phases == ServerPhases(rows)
           P == {phases[i] : i \in DOMAIN phases}
<1>1. n \in Nat /\ DOMAIN all = 1 .. n
  BY ChronologicalOrder
<1>2. readings = [i \in 1 .. n |-> all[i].event.reading]
  BY <1>1 DEF ReadingsOf
<1>3. Len(readings) = n
  <2> HIDE DEF n, all, readings
  <2> QED
    BY <1>1, <1>2
<1>4. phases = [i \in 1 .. n |-> SmoothedPhase(readings, i)]
  BY <1>3 DEF ServerPhases, SmoothedPhases
<1>5. phases \in [1 .. n -> P]
  BY <1>4
<1> HIDE DEF n, phases, P
<1>6. phases \in Seq(P) /\ Len(phases) = n
  BY <1>1, <1>5
<1> QED
  BY <1>6 DEF phases, P, n

(* An element that everything left out is below keeps its place from the end. *)
LEMMA RankFromTheEnd ==
  ASSUME NEW S, IsFiniteSet(S), NEW V \in SUBSET S, NEW x \in V,
         \A y \in S \ V : ReceivedBefore(y, x)
  PROVE  /\ Cardinality(S) \in Nat /\ Cardinality(V) \in Nat
         /\ Cardinality(Below(Received(V), V, x)) \in Nat
         /\ Cardinality(Below(Received(S), S, x)) =
              Cardinality(S) - Cardinality(V) + Cardinality(Below(Received(V), V, x))
<1> DEFINE B == Below(Received(V), V, x)
           A == Below(Received(S), S, x)
<1>1. A = B \cup (S \ V) /\ B \cap (S \ V) = {} /\ B \in SUBSET V
  BY DEF Below, Received
<1> HIDE DEF A, B
<1>2. IsFiniteSet(V) /\ IsFiniteSet(B)
  BY <1>1, FS_Subset
<1>3. IsFiniteSet(S \ V) /\ Cardinality(S \ V) = Cardinality(S) - Cardinality(V)
  <2>1. S \cap V = V
    OBVIOUS
  <2>2. /\ IsFiniteSet(S \ V)
        /\ Cardinality(S \ V) = Cardinality(S) - Cardinality(S \cap V)
    BY FS_Difference
  <2> QED
    BY <2>1, <2>2
<1>4. Cardinality(A) = Cardinality(B) + Cardinality(S \ V) - Cardinality({})
  BY <1>1, <1>2, <1>3, FS_Union
<1>5. /\ Cardinality({}) = 0 /\ Cardinality(S) \in Nat
      /\ Cardinality(V) \in Nat /\ Cardinality(B) \in Nat
  BY <1>2, FS_EmptySet, FS_CardinalityType
<1>6. Cardinality(A) = Cardinality(S) - Cardinality(V) + Cardinality(B)
  <2> DEFINE rest == Cardinality(S \ V)
  <2>1. rest = Cardinality(S) - Cardinality(V)
    BY <1>3
  <2>2. Cardinality(A) = Cardinality(B) + rest - 0
    BY <1>4, <1>5
  <2> HIDE DEF rest
  <2> QED
    BY <1>5, <2>1, <2>2
<1> QED
  BY <1>5, <1>6 DEF A, B

LEMMA PartInOrder ==
  ASSUME NEW all, SampleList(all), NEW rows \in SUBSET all
  PROVE  SampleList(rows) /\ Chronological(rows) = Ranked(Received(all), rows)
<1>1. SampleList(rows)
  BY FS_Subset DEF SampleList, UniqueIds
<1>2. Chronological(rows) =
        [i \in 1 .. Cardinality(rows) |->
           CHOOSE x \in rows : Cardinality({y \in rows : ReceivedBefore(y, x)}) = i - 1]
  BY DEF Chronological, InOrder
<1>3. \A x \in rows : {y \in rows : ReceivedBefore(y, x)} = Below(Received(all), rows, x)
  BY DEF Below, Received
<1> QED
  BY <1>1, <1>2, <1>3 DEF Ranked

(* What comes before a row in the list, by its place there. *)
LEMMA EarlierInList ==
  ASSUME NEW rows, SampleList(rows), NEW y \in rows, NEW j \in 1 .. Cardinality(rows),
         \A k \in j .. Cardinality(rows) : Chronological(rows)[k] # y
  PROVE  ReceivedBefore(y, Chronological(rows)[j])
<1> DEFINE n == Cardinality(rows)
           R == Received(rows)
           s == Ranked(R, rows)
<1>1. StrictOrder(R, rows) /\ IsFiniteSet(rows) /\ Chronological(rows) = s
  BY ReceivedIsStrict, PartInOrder DEF SampleList
<1>2. \A k \in j .. n : s[k] # y
  BY <1>1
<1> HIDE DEF R
<1>3. /\ n \in Nat /\ \E k \in 1 .. n : s[k] = y
      /\ \A k, l \in 1 .. n : <<s[k], s[l]>> \in R <=> k < l
  BY <1>1, RankedInOrder
<1> HIDE DEF s, n
<1>4. PICK k \in 1 .. n : s[k] = y
  BY <1>3
<1>5. j \in 1 .. n
  BY DEF n
<1>6. k < j
  BY <1>2, <1>3, <1>4, <1>5
<1>7. <<y, s[j]>> \in R
  BY <1>3, <1>4, <1>5, <1>6
<1> QED
  BY <1>1, <1>7 DEF R, Received

(***************************************************************************)
(* draw() takes phases from the end of the list and samples from the       *)
(* window: in every window, for every list and in whatever order its       *)
(* samples were received, the phase drawn at a sample is its own if none   *)
(* that comes after it in the list is out of the window.                   *)
(***************************************************************************)
THEOREM PhasesAreOwn == DashboardSpec => []PhasesBelongToSamples
<1>1. DInv => PhasesBelongToSamples
  <2> SUFFICES ASSUME DInv, NEW window \in Windows,
                      NEW i \in DOMAIN VisibleSamples(window),
                      NEW j \in DOMAIN Chronological(samples),
                      VisibleSamples(window)[i] = Chronological(samples)[j],
                      \A k \in j + 1 .. Len(Chronological(samples)) :
                        Chronological(samples)[k] \in ToSet(VisibleSamples(window))
               PROVE  DrawnPhases(window)[i] = ServerPhases(samples)[j]
    BY DEF PhasesBelongToSamples
  <2> DEFINE all == Chronological(samples)
             part == VisibleSamples(window)
             phases == ServerPhases(samples)
             P == {phases[k] : k \in DOMAIN phases}
             n == Cardinality(samples)
             V == VisibleSet(window)
             m == Cardinality(V)
  <2>1. SampleList(samples) /\ SampleList(V) /\ IsFiniteSet(samples) /\ V \in SUBSET samples
    BY Visible DEF SampleList, VisibleSet
  <2>2. /\ n \in Nat /\ DOMAIN all = 1 .. n /\ j \in 1 .. n
        /\ \A k, l \in 1 .. n : all[k] = all[l] => k = l
    BY <2>1, ChronologicalOrder
  <2>3. phases \in Seq(P) /\ Len(phases) = n
    BY <2>1, PhasesOfList
  <2>4. DrawnPhases(window) = SubSeq(phases, n - Len(part) + 1, n)
    BY <2>3 DEF DrawnPhases
  <2>5. ASSUME Len(part) \in 1 .. n, i \in 1 .. Len(part), j = n - Len(part) + i
        PROVE  DrawnPhases(window)[i] = phases[j]
    <3> DEFINE k == Len(part)
    <3>1. k \in 1 .. n /\ i \in 1 .. k /\ j = n - k + i
      BY <2>5
    <3>2. DrawnPhases(window) = SubSeq(phases, n - k + 1, n)
      BY <2>4
    <3> HIDE DEF k, phases, P, n
    <3>3. i \in 1 .. n - (n - k + 1) + 1 /\ n - k + 1 \in 1 .. n + 1
      BY <2>2, <3>1
    <3>4. SubSeq(phases, n - k + 1, n)[i] = phases[n - k + 1 + i - 1]
      BY <2>2, <2>3, <3>1, <3>3
    <3>5. n - k + 1 + i - 1 = j
      BY <2>2, <3>1
    <3> QED
      BY <3>2, <3>4, <3>5
  <2>6. CASE V = {} /\ samples # {}
    <3>1. part = <<all[n]>>
      BY <2>6, Visible
    <3>2. n \in 1 .. n
      BY <2>1, <2>2
    <3>3. i = 1 /\ Len(part) = 1 /\ all[n] = all[j]
      BY <3>1
    <3>4. j = n
      BY <2>2, <3>2, <3>3
    <3> QED
      BY <2>2, <2>5, <3>2, <3>3, <3>4
  <2>7. CASE V # {} \/ samples = {}
    <3>1. part = Chronological(V)
      BY <2>7, Visible
    <3>2. /\ m \in Nat /\ part \in [1 .. m -> V]
          /\ \A k \in 1 .. m : Cardinality(Below(Received(V), V, part[k])) = k - 1
      BY <2>1, <3>1, ChronologicalOrder
    <3>3. /\ Cardinality(Below(Received(samples), samples, all[j])) = j - 1
      BY <2>1, <2>2, ChronologicalOrder
    <3>4. i \in 1 .. m /\ Len(part) = m
      <4>1. i \in DOMAIN part
        OBVIOUS
      <4> HIDE DEF m, part, V
      <4> QED
        BY <3>2, <4>1
    <3>5. part[i] \in V
      BY <3>2, <3>4
    <3>6. \A y \in samples \ V : ReceivedBefore(y, part[i])
      <4> SUFFICES ASSUME NEW y \in samples \ V
                   PROVE  ReceivedBefore(y, all[j])
        OBVIOUS
      <4>1. ToSet(part) \subseteq V
        <5> HIDE DEF m, part, V
        <5> QED
          BY <3>2 DEF ToSet
      <4>2. Len(all) = n
        <5>1. n \in Nat /\ all \in [1 .. n -> samples]
          BY <2>1, ChronologicalOrder
        <5> HIDE DEF n, all
        <5> QED
          BY <5>1
      <4>3. all[j] \in V
        BY <3>5
      <4>4. \A k \in j + 1 .. n : all[k] \in V
        BY <4>1, <4>2
      <4> HIDE DEF V
      <4>5. \A k \in j .. n : all[k] # y
        <5> SUFFICES ASSUME NEW k \in j .. n
                     PROVE  all[k] # y
          OBVIOUS
        <5>1. k = j \/ k \in j + 1 .. n
          BY <2>2
        <5> QED
          BY <4>3, <4>4, <5>1
      <4> QED
        BY <2>1, <2>2, <4>5, EarlierInList
    <3>7. Cardinality(Below(Received(samples), samples, part[i]))
            = n - m + Cardinality(Below(Received(V), V, part[i]))
      BY <2>1, <3>5, <3>6, RankFromTheEnd
    <3>8. m <= n
      BY <2>1, FS_Subset
    <3>9. j - 1 = n - m + (i - 1)
      BY <3>2, <3>3, <3>4, <3>7
    <3>10. j = n - m + i /\ m \in 1 .. n
      <4>1. n \in Nat /\ m \in Nat /\ i \in 1 .. m /\ j \in 1 .. n /\ m <= n
        BY <2>2, <3>2, <3>4, <3>8
      <4> HIDE DEF n, m
      <4> QED
        BY <3>9, <4>1
    <3> QED
      BY <2>5, <3>4, <3>10
  <2> QED
    BY <2>6, <2>7
<1> QED
  BY <1>1, AnswersAreComplete, PTL

----------------------------------------------------------------------------
(* The page's classifier and the relay's *)

(* Where the average of reading i may begin: after the latest one that is none. *)
StartsAt(readings, i, v) ==
  /\ v \in 1 .. i + 1
  /\ v = 1 \/ NoEvidence(readings[v - 1])
  /\ \A j \in v .. i : ~NoEvidence(readings[j])

LEMMA OwnPhase ==
  ASSUME NEW r \in Reading
  PROVE  /\ ClassifySample(r.valid, r.rms, r.peak, 1) = RawPhase(r)
         /\ ~NoEvidence(r) => r.valid /\ r.rms <= r.peak
<1>1. r.valid \in BOOLEAN /\ r.rms \in Nat /\ r.peak \in Nat
  BY DEF Reading
<1>2. MotionValuesValid(r) <=> ~(~r.valid \/ r.peak < r.rms)
  BY <1>1 DEF MotionValuesValid
<1>3. ClassifySample(r.valid, r.rms, r.peak, 1) = RawPhase(r)
  BY <1>2 DEF ClassifySample, RawPhase, ClassifySums
<1>4. ~MotionValuesValid(r) => NoEvidence(r)
  BY DEF NoEvidence, RawPhase
<1>5. MotionValuesValid(r) => r.valid /\ r.rms <= r.peak
  BY <1>1 DEF MotionValuesValid
<1> QED
  BY <1>3, <1>4, <1>5

(* The relay's chunk begins where the page's does. *)
LEMMA SameStart ==
  ASSUME NEW readings \in Seq(Reading), NEW i \in 1 .. Len(readings),
         ~NoEvidence(readings[i]), NEW v, StartsAt(readings, i, v)
  PROVE  /\ Max({v, i - SERVER_CLASSIFIER_SMOOTHING_SAMPLES + 1}) = ChunkStart(readings, i)
         /\ ChunkStart(readings, i) \in v .. i /\ v \in 1 .. i
<1> DEFINE w == i - SERVER_CLASSIFIER_SMOOTHING_SAMPLES + 1
           m == IF v < w THEN w ELSE v
           after == {j + 1 : j \in {k \in 1 .. i - 1 : NoEvidence(readings[k])}}
<1>1. /\ i \in Nat /\ v \in 1 .. i + 1 /\ w \in Int /\ w <= i
      /\ v # i + 1
  <2>1. SERVER_CLASSIFIER_SMOOTHING_SAMPLES \in Nat \ {0}
    BY ClassifierAssumption
  <2>2. v \in 1 .. i + 1 /\ (v = 1 \/ NoEvidence(readings[v - 1]))
    BY DEF StartsAt
  <2>3. v = i + 1 => v - 1 = i /\ v # 1
    BY <2>2
  <2> QED
    BY <2>1, <2>2, <2>3
<1> HIDE DEF w
<1>2. m \in Int /\ v <= m /\ w <= m /\ m \in v .. i /\ v \in 1 .. i
  BY <1>1
<1>3. Max({v, w}) = m
  <2>1. m \in {v, w} /\ {v, w} \subseteq Int /\ \A x \in {v, w} : x <= m
    BY <1>1, <1>2
  <2> HIDE DEF m
  <2> QED
    BY <2>1, MaxIs
<1>4. Max({1, w} \cup after) = m
  <2>1. {1, w} \cup after \subseteq Int
    BY <1>1
  <2>2. m \in {1, w} \cup after
    <3>1. v = 1 \/ v \in after
      <4> SUFFICES ASSUME v # 1
                   PROVE  v \in after
        OBVIOUS
      <4>1. v - 1 \in 1 .. i - 1 /\ NoEvidence(readings[v - 1]) /\ v = (v - 1) + 1
        BY <1>2 DEF StartsAt
      <4> QED
        BY <4>1
    <3> QED
      BY <3>1
  <2>3. ASSUME NEW x \in {1, w} \cup after
        PROVE  x <= m
    <3>1. x = 1 => x <= m
      BY <1>2
    <3>2. x = w => x <= m
      BY <1>2
    <3>3. CASE x \in after
      <4>1. PICK j \in 1 .. i - 1 : NoEvidence(readings[j]) /\ x = j + 1
        BY <3>3
      <4>2. j \notin v .. i
        BY <4>1 DEF StartsAt
      <4>3. j + 1 <= v
        BY <1>2, <4>2
      <4> QED
        BY <1>2, <4>1, <4>3
    <3> QED
      BY <2>3, <3>1, <3>2, <3>3
  <2> HIDE DEF m, after
  <2> QED
    BY <2>1, <2>2, <2>3, MaxIs
<1> QED
  BY <1>2, <1>3, <1>4 DEF ChunkStart, w

(* An average of readings that are evidence is classified alike by both. *)
LEMMA SameAverage ==
  ASSUME NEW c \in Seq(Reading), \A j \in 1 .. Len(c) : ~NoEvidence(c[j])
  PROVE  ClassifySample(TRUE, SumOf([j \in DOMAIN c |-> c[j].rms]),
                        SumOf([j \in DOMAIN c |-> c[j].peak]), Len(c)) = ChunkPhase(c)
<1> DEFINE r == [j \in 1 .. Len(c) |-> c[j].rms]
           p == [j \in 1 .. Len(c) |-> c[j].peak]
<1>1. Len(c) \in Nat /\ DOMAIN c = 1 .. Len(c) /\ \A j \in 1 .. Len(c) : c[j] \in Reading
  OBVIOUS
<1>2. \A j \in 1 .. Len(c) : c[j].rms \in Int /\ c[j].peak \in Int /\ c[j].rms <= c[j].peak
  BY <1>1, OwnPhase DEF Reading
<1>3. /\ r \in Seq(Int) /\ p \in Seq(Int) /\ Len(r) = Len(c) /\ Len(p) = Len(c)
      /\ \A j \in 1 .. Len(r) : r[j] <= p[j]
  BY <1>1, <1>2
<1>4. r = [j \in DOMAIN c |-> c[j].rms] /\ p = [j \in DOMAIN c |-> c[j].peak]
  BY <1>1
<1>5. ChunkPhase(c) = ClassifySums(SumOf(r), SumOf(p), Len(c))
  BY DEF ChunkPhase
<1> HIDE DEF r, p
<1>6. SumOf(r) \in Int /\ SumOf(p) \in Int /\ SumOf(r) <= SumOf(p)
  BY <1>3, SumsCompare
<1>7. ~(SumOf(p) < SumOf(r))
  BY <1>6
<1>8. ClassifySample(TRUE, SumOf(r), SumOf(p), Len(c)) = ClassifySums(SumOf(r), SumOf(p), Len(c))
  BY <1>7 DEF ClassifySample, ClassifySums
<1> QED
  BY <1>4, <1>5, <1>8

LEMMA ClientPhasesAreServers ==
  ASSUME NEW readings, readings \in Seq(Reading)
  PROVE  ClientPhases(readings) = SmoothedPhases(readings)
<1> DEFINE n == Len(readings)
           own(i) == ClassifySample(readings[i].valid, readings[i].rms, readings[i].peak, 1)
           Fits(h) == h = [i \in 0 .. n |-> IF i = 0 THEN 1
                                           ELSE IF RestartsAverage(own(i)) THEN i + 1
                                           ELSE h[i - 1]]
           start == CHOOSE h : Fits(h)
           reach(i) ==
             SubSeq(readings, Max({start[i], i - SERVER_CLASSIFIER_SMOOTHING_SAMPLES + 1}), i)
           averaged(c, i) ==
             ClassifySample(readings[i].valid, SumOf([j \in DOMAIN c |-> c[j].rms]),
                            SumOf([j \in DOMAIN c |-> c[j].peak]), Len(c))
<1>1. ClientPhases(readings) =
        [i \in 1 .. n |-> IF RestartsAverage(own(i)) THEN own(i) ELSE averaged(reach(i), i)]
  BY DEF ClientPhases
<1>2. /\ n \in Nat
      /\ \A i \in 1 .. n : readings[i] \in Reading /\ own(i) = RawPhase(readings[i])
  BY OwnPhase
<1>3. Fits(start)
  <2> DEFINE step == [i \in Nat |-> [v \in Int |-> IF RestartsAverage(own(i)) THEN i + 1 ELSE v]]
  <2>1. step \in [Nat -> [Int -> Int]] /\ 1 \in Int
    OBVIOUS
  <2>2. PICK f : Follows(f, n, Int, 1, step)
    <3> HIDE DEF step, n
    <3> QED
      BY <1>2, <2>1, StepByStep
  <2>3. f \in [0 .. n -> Int] /\ f[0] = 1 /\ \A i \in 1 .. n : f[i] = step[i][f[i - 1]]
    BY <2>2 DEF Follows
  <2> HIDE DEF own
  <2>4. \A i \in 1 .. n : f[i] = IF RestartsAverage(own(i)) THEN i + 1 ELSE f[i - 1]
    <3> TAKE i \in 1 .. n
    <3>1. i \in Nat /\ i - 1 \in 0 .. n /\ f[i - 1] \in Int
      BY <1>2, <2>3
    <3> QED
      BY <2>3, <3>1
  <2>5. \A i \in 0 .. n : f[i] = IF i = 0 THEN 1 ELSE IF RestartsAverage(own(i)) THEN i + 1
                                                      ELSE f[i - 1]
    <3> TAKE i \in 0 .. n
    <3>1. CASE i = 0
      BY <2>3, <3>1
    <3>2. CASE i # 0
      BY <1>2, <2>4, <3>2
    <3> QED
      BY <3>1, <3>2
  <2>6. Fits(f)
    <3>1. f = [i \in 0 .. n |-> f[i]]
      BY <2>3
    <3> QED
      BY <2>5, <3>1
  <2> HIDE DEF Fits
  <2> QED
    BY <2>6
<1> HIDE DEF start
<1>4. /\ start[0] = 1
      /\ \A i \in 1 .. n : start[i] = IF NoEvidence(readings[i]) THEN i + 1 ELSE start[i - 1]
  <2> HIDE DEF own
  <2>1. start[0] = 1
    BY <1>2, <1>3
  <2>2. ASSUME NEW i \in 1 .. n
        PROVE  start[i] = IF NoEvidence(readings[i]) THEN i + 1 ELSE start[i - 1]
    <3>1. i \in 0 .. n /\ i # 0
      BY <1>2
    <3>2. start[i] = IF RestartsAverage(own(i)) THEN i + 1 ELSE start[i - 1]
      BY <1>3, <3>1
    <3>3. RestartsAverage(own(i)) <=> NoEvidence(readings[i])
      BY <1>2 DEF RestartsAverage, NoEvidence
    <3> QED
      BY <3>2, <3>3
  <2> QED
    BY <2>1, <2>2
<1>5. \A i \in 0 .. n : StartsAt(readings, i, start[i])
  <2> DEFINE S == {i \in Nat : i \in 0 .. n => StartsAt(readings, i, start[i])}
  <2>1. 0 \in S
    BY <1>4 DEF StartsAt
  <2>2. ASSUME NEW i \in Nat, i \in S
        PROVE  i + 1 \in S
    <3> SUFFICES ASSUME i + 1 \in 0 .. n
                 PROVE  StartsAt(readings, i + 1, start[i + 1])
      OBVIOUS
    <3>1. i + 1 \in 1 .. n /\ i \in 0 .. n /\ (i + 1) - 1 = i
      BY <1>2
    <3>2. StartsAt(readings, i, start[i])
      BY <2>2, <3>1
    <3>3. CASE NoEvidence(readings[i + 1])
      <4>1. start[i + 1] = (i + 1) + 1
        BY <1>4, <3>1, <3>3
      <4>2. StartsAt(readings, i + 1, (i + 1) + 1)
        BY <3>3 DEF StartsAt
      <4> QED
        BY <4>1, <4>2
    <3>4. CASE ~NoEvidence(readings[i + 1])
      <4>1. start[i + 1] = start[i]
        BY <1>4, <3>1, <3>4
      <4>2. \A v : StartsAt(readings, i, v) => StartsAt(readings, i + 1, v)
        BY <3>4 DEF StartsAt
      <4> QED
        BY <3>2, <4>1, <4>2
    <3> QED
      BY <3>3, <3>4
  <2> HIDE DEF S
  <2>3. Nat \subseteq S
    BY <2>1, <2>2, Induction
  <2> QED
    BY <2>3 DEF S
<1>6. ASSUME NEW i \in 1 .. n, ~NoEvidence(readings[i])
      PROVE  averaged(reach(i), i) = ChunkPhase(SubSeq(readings, ChunkStart(readings, i), i))
  <2> DEFINE from == ChunkStart(readings, i)
             c == SubSeq(readings, from, i)
  <2>1. i \in 0 .. n
    BY <1>2
  <2>2. /\ Max({start[i], i - SERVER_CLASSIFIER_SMOOTHING_SAMPLES + 1}) = from
        /\ from \in start[i] .. i /\ start[i] \in 1 .. i
    BY <1>5, <1>6, <2>1, SameStart
  <2>3. reach(i) = c
    BY <2>2
  <2>4. \A j \in start[i] .. i : ~NoEvidence(readings[j])
    BY <1>5, <2>1 DEF StartsAt
  <2> HIDE DEF from
  <2>5. c \in Seq(Reading) /\ Len(c) = i - from + 1 /\ from \in 1 .. i
        /\ \A j \in 1 .. Len(c) : c[j] = readings[from + j - 1]
    BY <1>2, <2>2
  <2> HIDE DEF c
  <2>6. ASSUME NEW j \in 1 .. Len(c)
        PROVE  ~NoEvidence(c[j])
    <3>1. from + j - 1 \in start[i] .. i
      BY <1>2, <2>2, <2>5
    <3> QED
      BY <2>4, <2>5, <3>1
  <2>7. readings[i].valid = TRUE
    <3>1. readings[i] \in Reading /\ readings[i].valid
      BY <1>2, <1>6, OwnPhase
    <3> QED
      BY <3>1 DEF Reading
  <2>8. averaged(c, i) = ChunkPhase(c)
    BY <2>5, <2>6, <2>7, SameAverage
  <2> QED
    BY <2>3, <2>8 DEF c, from
<1>7. SmoothedPhases(readings) =
        [i \in 1 .. n |-> IF NoEvidence(readings[i]) THEN RawPhase(readings[i])
                         ELSE ChunkPhase(SubSeq(readings, ChunkStart(readings, i), i))]
  BY DEF SmoothedPhases, SmoothedPhase
<1>8. ASSUME NEW i \in 1 .. n
      PROVE  (IF RestartsAverage(own(i)) THEN own(i) ELSE averaged(reach(i), i)) =
             (IF NoEvidence(readings[i]) THEN RawPhase(readings[i])
              ELSE ChunkPhase(SubSeq(readings, ChunkStart(readings, i), i)))
  <2> HIDE DEF own
  <2>1. /\ own(i) = RawPhase(readings[i])
        /\ RestartsAverage(own(i)) <=> NoEvidence(readings[i])
    BY <1>2 DEF RestartsAverage, NoEvidence
  <2>2. CASE NoEvidence(readings[i])
    <3> HIDE DEF own, averaged, reach
    <3> QED
      BY <2>1, <2>2
  <2>3. CASE ~NoEvidence(readings[i])
    <3>1. averaged(reach(i), i) = ChunkPhase(SubSeq(readings, ChunkStart(readings, i), i))
      BY <1>6, <2>3
    <3> HIDE DEF own, averaged, reach
    <3> QED
      BY <2>1, <2>3, <3>1
  <2> QED
    BY <2>2, <2>3
<1> HIDE DEF own, averaged, reach
<1> QED
  BY <1>1, <1>7, <1>8

(***************************************************************************)
(* classifySamples of the page and _annotate_server_phases of the relay    *)
(* say the same of every list, however long, whatever its readings and     *)
(* whatever the thresholds (docs/architecture.md says they do).            *)
(***************************************************************************)
THEOREM ClassifiersAgree == DashboardSpec => []ClientRulesMatch
<1>1. DInv => ClientRulesMatch
  <2> SUFFICES ASSUME DInv
               PROVE  ClientPhases(ReadingsOf(samples)) = ServerPhases(samples)
    BY DEF ClientRulesMatch
  <2> DEFINE n == Cardinality(samples)
             all == Chronological(samples)
  <2>1. SampleList(samples)
    BY DEF DInv, Listed
  <2>2. n \in Nat /\ all \in [1 .. n -> samples]
    BY <2>1, ChronologicalOrder
  <2>3. \A row \in samples : row.event.reading \in Reading
    BY <2>1 DEF SampleList, Samples, SampleEvents, DeviceEvents
  <2>4. ReadingsOf(samples) = [i \in DOMAIN all |-> all[i].event.reading]
    BY DEF ReadingsOf
  <2> HIDE DEF n, all
  <2>5. ReadingsOf(samples) \in Seq(Reading)
    BY <2>2, <2>3, <2>4
  <2> QED
    BY <2>5, ClientPhasesAreServers DEF ServerPhases
<1> QED
  BY <1>1, AnswersAreComplete, PTL

----------------------------------------------------------------------------
(* An alerted sample and its phase *)

(* Does a message say that a load ended at this sample? *)
Alerted(row, ids) == EventId(ServerDoneEvent(row.event)) \in ids

SampledRows(rows) == {row \in rows : row.event.state = "calibration_sample"}

(* No two samples were received in one tick, and the later one is dated later. *)
InSequence(rows) ==
  \A a, b \in SampledRows(rows) : a # b =>
    /\ a.received_at # b.received_at
    /\ a.received_at < b.received_at => EventTimestamp(a) < EventTimestamp(b)

(* The samples that the relay averaged with an alerted one are all still listed. *)
AveragesAreKept(rows) ==
  \A i \in DOMAIN Chronological(rows) :
    Alerted(Chronological(rows)[i], DOMAIN pushed) => i >= SERVER_CLASSIFIER_SMOOTHING_SAMPLES

(* The alerted samples of a list are quiet in it, if it is long enough to tell. *)
AlertsLookQuiet(rows, ids) ==
  \A i \in SERVER_CLASSIFIER_SMOOTHING_SAMPLES .. Cardinality(rows) :
    Alerted(Chronological(rows)[i], ids) => ServerPhases(rows)[i] = "quiet"

LEMMA PhasesOfReadings ==
  ASSUME NEW rows, SampleList(rows)
  PROVE  /\ Cardinality(rows) \in Nat /\ DOMAIN Chronological(rows) = 1 .. Cardinality(rows)
         /\ ReadingsOf(rows) \in Seq(Reading) /\ Len(ReadingsOf(rows)) = Cardinality(rows)
         /\ \A i \in 1 .. Cardinality(rows) :
              /\ Chronological(rows)[i] \in rows
              /\ ReadingsOf(rows)[i] = Chronological(rows)[i].event.reading
              /\ ServerPhases(rows)[i] = SmoothedPhase(ReadingsOf(rows), i)
<1> DEFINE n == Cardinality(rows)
           all == Chronological(rows)
           readings == ReadingsOf(rows)
<1>1. n \in Nat /\ all \in [1 .. n -> rows]
  BY ChronologicalOrder
<1>2. readings = [i \in DOMAIN all |-> all[i].event.reading]
  BY DEF ReadingsOf
<1>3. \A row \in rows : row.event.reading \in Reading
  BY DEF SampleList, Samples, SampleEvents, DeviceEvents
<1> HIDE DEF n, all, readings
<1>4. DOMAIN all = 1 .. n /\ readings \in Seq(Reading) /\ Len(readings) = n
      /\ \A i \in 1 .. n : all[i] \in rows /\ readings[i] = all[i].event.reading
  BY <1>1, <1>2, <1>3
<1>5. \A i \in 1 .. n : SmoothedPhases(readings)[i] = SmoothedPhase(readings, i)
  BY <1>4 DEF SmoothedPhases
<1> QED
  BY <1>1, <1>4, <1>5 DEF n, all, readings, ServerPhases

(* The list by receipt. *)
LEMMA ReceivedOneByOne ==
  ASSUME NEW rows, SampleList(rows)
  PROVE  \A p, q \in 1 .. Cardinality(rows) : p < q =>
           Chronological(rows)[p].received_at <= Chronological(rows)[q].received_at
<1> DEFINE R == Received(rows)
           s == Ranked(R, rows)
<1>1. StrictOrder(R, rows) /\ IsFiniteSet(rows) /\ Chronological(rows) = s
  BY ReceivedIsStrict, PartInOrder DEF SampleList
<1>2. \A r, q \in rows : <<r, q>> \in R => r.received_at <= q.received_at
  <2>1. \A r \in rows : r.received_at \in Nat
    BY DEF SampleList, Samples
  <2>2. \A r, q \in rows : ReceivedBefore(r, q) => r.received_at <= q.received_at
    BY <2>1, LessOfThree DEF ReceivedBefore
  <2> QED
    BY <2>2 DEF Received
<1> HIDE DEF R
<1>3. /\ s \in [1 .. Cardinality(rows) -> rows]
      /\ \A p, q \in 1 .. Cardinality(rows) : <<s[p], s[q]>> \in R <=> p < q
  BY <1>1, RankedInOrder
<1> HIDE DEF s
<1> QED
  BY <1>1, <1>2, <1>3

(***************************************************************************)
(* Two lists of samples show a sample alike if both have the samples       *)
(* averaged with it, and no others among them.                             *)
(***************************************************************************)
LEMMA ShownAlike ==
  ASSUME NEW all, SampleList(all), NEW S \in SUBSET all, NEW T \in SUBSET all,
         NEW i \in 1 .. Cardinality(S), NEW j \in 1 .. Cardinality(T),
         NEW x, x = Chronological(S)[i], x = Chronological(T)[j],
         SERVER_CLASSIFIER_SMOOTHING_SAMPLES <= i,
         NEW a, a = Chronological(S)[i - SERVER_CLASSIFIER_SMOOTHING_SAMPLES + 1], a \in T,
         \A r \in S \cup T :
           a.received_at <= r.received_at /\ r.received_at <= x.received_at /\ r # x
             => r \in S /\ r \in T
  PROVE  /\ SERVER_CLASSIFIER_SMOOTHING_SAMPLES <= j
         /\ ServerPhases(S)[i] = ServerPhases(T)[j]
<1> DEFINE K == SERVER_CLASSIFIER_SMOOTHING_SAMPLES
           R == Received(all)
           s == Ranked(R, S)
           t == Ranked(R, T)
           k == i - K + 1
<1>1. /\ SampleList(S) /\ Chronological(S) = s
      /\ SampleList(T) /\ Chronological(T) = t
  BY PartInOrder
<1>2. StrictOrder(R, all)
  BY ReceivedIsStrict
<1>3. StrictOrder(R, S) /\ StrictOrder(R, T) /\ IsFiniteSet(S) /\ IsFiniteSet(T)
  BY <1>1, <1>2 DEF StrictOrder, SampleList
<1>4. K \in Nat \ {0} /\ Cardinality(S) \in Nat /\ Cardinality(T) \in Nat
  BY <1>1, ClassifierAssumption, PhasesOfReadings
<1>5. k \in 1 .. i /\ i \in Nat /\ j \in Nat
  BY <1>4
<1>6. \A r, q \in all : <<r, q>> \in R =>
        r.received_at \in Nat /\ q.received_at \in Nat /\ r.received_at <= q.received_at /\ r # q
  <2>1. \A r \in all : r.received_at \in Nat
    BY DEF SampleList, Samples
  <2>2. \A r, q \in all : ReceivedBefore(r, q) => r.received_at <= q.received_at
    BY <2>1, LessOfThree DEF ReceivedBefore
  <2>3. \A r, q \in all : <<r, q>> \in R => ReceivedBefore(r, q) /\ r # q
    BY <1>2 DEF Received, StrictOrder
  <2> QED
    BY <2>1, <2>2, <2>3
<1>7. a \in all /\ x \in all /\ a.received_at \in Nat
  BY <1>1, PhasesOfReadings DEF SampleList, Samples
<1> HIDE DEF R, s, t
<1>8. s[k] = a /\ s[i] = x /\ t[j] = x
  BY <1>1
<1>9. ASSUME NEW r \in S \cup T, r = a \/ <<a, r>> \in R, <<r, x>> \in R
      PROVE  r \in S /\ r \in T
  <2>1. r \in all
    OBVIOUS
  <2>2. r.received_at <= x.received_at /\ r # x
    BY <1>6, <1>7, <1>9, <2>1
  <2>3. a.received_at <= r.received_at
    BY <1>6, <1>7, <1>9, <2>1
  <2> QED
    BY <2>2, <2>3
<1>10. \A m \in k .. i : j - (i - m) \in 1 .. Cardinality(T) /\ t[j - (i - m)] = s[m]
  <2>1. \A r \in S \cup T :
          (r = s[k] \/ <<s[k], r>> \in R) /\ <<r, s[i]>> \in R => r \in S /\ r \in T
    BY <1>8, <1>9
  <2> HIDE DEF k
  <2> QED
    BY <1>3, <1>5, <1>8, <2>1, SameNeighbours DEF s, t
<1>11. K <= j
  <2>1. k \in k .. i /\ i - k = K - 1
    BY <1>4, <1>5
  <2>2. j - (i - k) \in 1 .. Cardinality(T)
    BY <1>10, <2>1
  <2> HIDE DEF k
  <2> QED
    BY <1>4, <1>5, <2>1, <2>2
<1>12. ASSUME NEW m \in 0 .. K - 1
       PROVE  ReadingsOf(S)[i - m] = ReadingsOf(T)[j - m]
  <2>1. i - m \in k .. i /\ i - (i - m) = m /\ i - m \in 1 .. Cardinality(S)
    BY <1>4, <1>5
  <2>2. j - m \in 1 .. Cardinality(T) /\ t[j - m] = s[i - m]
    BY <1>10, <2>1
  <2> HIDE DEF k
  <2> QED
    BY <1>1, <2>1, <2>2, PhasesOfReadings
<1>13. /\ ReadingsOf(S) \in Seq(Reading) /\ i \in 1 .. Len(ReadingsOf(S))
       /\ ReadingsOf(T) \in Seq(Reading) /\ j \in 1 .. Len(ReadingsOf(T))
       /\ ServerPhases(S)[i] = SmoothedPhase(ReadingsOf(S), i)
       /\ ServerPhases(T)[j] = SmoothedPhase(ReadingsOf(T), j)
  BY <1>1, PhasesOfReadings
<1>14. SmoothedPhase(ReadingsOf(S), i) = SmoothedPhase(ReadingsOf(T), j)
  BY <1>11, <1>12, <1>13, PhaseOfLatest
<1> QED
  BY <1>11, <1>13, <1>14

(* What expires takes no sample from an average that is left whole. *)
LEMMA QuietAfterPruning ==
  ASSUME NEW all, SampleList(all), NEW rows \in SUBSET all, NEW ids,
         \A a \in rows, r \in all : a.received_at <= r.received_at => r \in rows,
         AlertsLookQuiet(all, ids)
  PROVE  AlertsLookQuiet(rows, ids)
<1> DEFINE K == SERVER_CLASSIFIER_SMOOTHING_SAMPLES
<1> SUFFICES ASSUME NEW i \in K .. Cardinality(rows), Alerted(Chronological(rows)[i], ids)
             PROVE  ServerPhases(rows)[i] = "quiet"
  BY DEF AlertsLookQuiet
<1>1. SampleList(rows) /\ Cardinality(rows) \in Nat /\ Cardinality(all) \in Nat
  BY PartInOrder, PhasesOfReadings
<1>2. K \in Nat \ {0}
  BY ClassifierAssumption
<1>3. i \in 1 .. Cardinality(rows) /\ K <= i /\ i - K + 1 \in 1 .. Cardinality(rows)
  BY <1>1, <1>2
<1>4. Chronological(rows)[i] \in rows /\ Chronological(rows)[i - K + 1] \in rows
  BY <1>1, <1>3, PhasesOfReadings
<1>5. PICK j \in 1 .. Cardinality(all) : Chronological(all)[j] = Chronological(rows)[i]
  BY <1>4, ChronologicalOrder
<1>6. \A r \in rows \cup all :
        Chronological(rows)[i - K + 1].received_at <= r.received_at => r \in rows /\ r \in all
  BY <1>4
<1>7. K <= j /\ ServerPhases(rows)[i] = ServerPhases(all)[j]
  BY <1>3, <1>4, <1>5, <1>6, ShownAlike
<1>8. j \in K .. Cardinality(all)
  BY <1>1, <1>2, <1>7
<1> QED
  BY <1>5, <1>7, <1>8 DEF AlertsLookQuiet

(* A sample received after all others is in none of their averages. *)
LEMMA QuietWithNext ==
  ASSUME NEW all, SampleList(all), NEW rows \in SUBSET all, NEW x \in all,
         \A r \in all : r \in rows \/ r = x,
         \A r \in rows : r.received_at < x.received_at,
         NEW ids, AlertsLookQuiet(rows, ids),
         \A i \in SERVER_CLASSIFIER_SMOOTHING_SAMPLES .. Cardinality(all) :
           Chronological(all)[i] = x /\ Alerted(x, ids) => ServerPhases(all)[i] = "quiet"
  PROVE  AlertsLookQuiet(all, ids)
<1> DEFINE K == SERVER_CLASSIFIER_SMOOTHING_SAMPLES
<1> SUFFICES ASSUME NEW i \in K .. Cardinality(all), Alerted(Chronological(all)[i], ids),
                    Chronological(all)[i] # x
             PROVE  ServerPhases(all)[i] = "quiet"
  BY DEF AlertsLookQuiet
<1> DEFINE y == Chronological(all)[i]
           a == Chronological(all)[i - K + 1]
<1>1. rows \in SUBSET all /\ SampleList(rows)
  BY PartInOrder
<1>2. Cardinality(rows) \in Nat /\ Cardinality(all) \in Nat /\ K \in Nat \ {0}
  BY <1>1, PhasesOfReadings, ClassifierAssumption
<1>3. i \in 1 .. Cardinality(all) /\ K <= i /\ i - K + 1 \in 1 .. Cardinality(all)
  BY <1>2
<1>4. y \in rows /\ a \in all
  BY <1>3, PhasesOfReadings
<1>5. \A r \in all : r.received_at \in Nat
  BY DEF SampleList, Samples
<1>6. ~(x.received_at <= y.received_at)
  <2>1. y.received_at < x.received_at
    BY <1>4
  <2>2. y.received_at \in Nat /\ x.received_at \in Nat
    BY <1>1, <1>4, <1>5
  <2> HIDE DEF y
  <2> QED
    BY <2>1, <2>2
<1>7. a.received_at <= y.received_at
  <2>1. i - K + 1 = i \/ i - K + 1 < i
    BY <1>2, <1>3
  <2>2. \A p, q \in 1 .. Cardinality(all) : p < q =>
          Chronological(all)[p].received_at <= Chronological(all)[q].received_at
    BY ReceivedOneByOne
  <2>3. a.received_at \in Nat
    BY <1>4, <1>5
  <2>4. CASE i - K + 1 = i
    <3>1. a = y
      BY <2>4
    <3> QED
      BY <2>3, <3>1
  <2>5. CASE i - K + 1 < i
    BY <1>3, <2>2, <2>5
  <2> QED
    BY <2>1, <2>4, <2>5
<1>8. a \in rows
  <2>1. a \in all /\ \A r \in all : r \in rows \/ r = x
    BY <1>4
  <2>2. a # x
    BY <1>6, <1>7
  <2> HIDE DEF a, y
  <2> QED
    BY <2>1, <2>2
<1>9. PICK j \in 1 .. Cardinality(rows) : Chronological(rows)[j] = y
  <2>1. SampleList(rows) /\ y \in rows
    BY <1>1, <1>4
  <2> HIDE DEF y
  <2> QED
    BY <2>1, ChronologicalOrder
<1>10. \A r \in all \cup rows : r.received_at <= y.received_at => r \in all /\ r \in rows
  BY <1>6
<1>11. ASSUME NEW list, list = all
       PROVE  K <= j /\ ServerPhases(list)[i] = ServerPhases(rows)[j]
  <2>1. SampleList(list) /\ rows \in SUBSET list /\ list \in SUBSET list
    BY <1>1, <1>11
  <2>2. y = Chronological(list)[i] /\ a = Chronological(list)[i - K + 1]
    BY <1>11
  <2>3. i \in 1 .. Cardinality(list)
    BY <1>3, <1>11
  <2>4. \A r \in list \cup rows : r.received_at <= y.received_at => r \in list /\ r \in rows
    BY <1>10, <1>11
  <2> HIDE DEF y, a
  <2> QED
    BY <1>3, <1>8, <1>9, <2>1, <2>2, <2>3, <2>4, ShownAlike
<1>12. j \in K .. Cardinality(rows) /\ Alerted(Chronological(rows)[j], ids)
  BY <1>2, <1>9, <1>11
<1> QED
  BY <1>11, <1>12 DEF AlertsLookQuiet

(***************************************************************************)
(* _maybe_send_server_done decides by the averages of a segment, and the   *)
(* list shows averages of everything: at the last sample they are the same.*)
(***************************************************************************)
LEMMA DecidedIsQuiet ==
  ASSUME NEW rows, NEW R, R = SampleRows(rows), SampleList(R), R # {}, InSequence(R),
         NEW e, LoadCompleted(Evidence(rows), e)
  PROVE  LET n == Cardinality(R)
         IN  /\ n \in Nat \ {0}
             /\ EventId(Chronological(R)[n].event) = EventId(e)
             /\ ServerPhases(R)[n] = "quiet"
<1> DEFINE K == SERVER_CLASSIFIER_SMOOTHING_SAMPLES
           n == Cardinality(R)
           all == Chronological(R)
           seg == CurrentObservationSegment(InOrder(R, Precedes))
           own == [i \in 1 .. Len(seg) |-> seg[i].event.reading]
<1>1. /\ Len(seg) >= K
      /\ EventId(seg[Len(seg)].event) = EventId(e)
      /\ SmoothedPhases(own)[Len(seg)] = "quiet"
  BY DEF LoadCompleted, EnoughSamples, Evidence
<1>2. InOrder(R, Precedes) = all
  <2>1. \A x, y \in R : Precedes(x, y) <=> ReceivedBefore(x, y)
    <3> SUFFICES ASSUME NEW x \in R, NEW y \in R
                 PROVE  Precedes(x, y) <=> ReceivedBefore(x, y)
      OBVIOUS
    <3>1. /\ x.received_at \in Nat /\ EventTimestamp(x) \in Int
          /\ y.received_at \in Nat /\ EventTimestamp(y) \in Int
      BY InTimeIsStrict DEF SampleList, Samples
    <3>2. /\ x # y => x.received_at # y.received_at
          /\ x # y /\ x.received_at < y.received_at => EventTimestamp(x) < EventTimestamp(y)
          /\ x # y /\ y.received_at < x.received_at => EventTimestamp(y) < EventTimestamp(x)
      BY DEF InSequence, SampledRows, SampleRows
    <3>3. Precedes(x, y) <=>
            \/ EventTimestamp(x) < EventTimestamp(y)
            \/ EventTimestamp(x) = EventTimestamp(y) /\ x.received_at < y.received_at
            \/ /\ EventTimestamp(x) = EventTimestamp(y) /\ x.received_at = y.received_at
               /\ x.event.cycle_id < y.event.cycle_id
            \/ /\ EventTimestamp(x) = EventTimestamp(y) /\ x.received_at = y.received_at
               /\ x.event.cycle_id = y.event.cycle_id /\ x.event.n < y.event.n
      BY LessOfFour DEF Precedes, SortKey
    <3>4. ReceivedBefore(x, y) <=>
            \/ x.received_at < y.received_at
            \/ x.received_at = y.received_at /\ x.event.cycle_id < y.event.cycle_id
            \/ /\ x.received_at = y.received_at /\ x.event.cycle_id = y.event.cycle_id
               /\ x.event.n < y.event.n
      BY LessOfThree DEF ReceivedBefore
    <3>5. CASE x = y
      BY <3>1, <3>3, <3>4, <3>5
    <3>6. CASE x # y
      BY <3>1, <3>2, <3>3, <3>4, <3>6
    <3> QED
      BY <3>5, <3>6
  <2>2. \A x \in R : {y \in R : Precedes(y, x)} = Below(Received(R), R, x)
    BY <2>1 DEF Below, Received
  <2>3. InOrder(R, Precedes) =
          [i \in 1 .. n |-> CHOOSE x \in R : Cardinality({y \in R : Precedes(y, x)}) = i - 1]
    BY DEF InOrder
  <2>4. InOrder(R, Precedes) = Ranked(Received(R), R)
    BY <2>2, <2>3 DEF Ranked
  <2> QED
    BY <2>4, PartInOrder
<1>3. n \in Nat \ {0} /\ all \in [1 .. n -> R]
  BY ChronologicalOrder, FS_EmptySet DEF SampleList
<1>4. PICK start \in 1 .. n : seg = SubSeq(all, start, n)
  <2> HIDE DEF all, n
  <2>1. \E start \in 1 .. n : CurrentObservationSegment(all) = SubSeq(all, start, n)
    BY <1>3, SegmentIsTheEnd
  <2> QED
    BY <1>2, <2>1
<1>5. /\ Len(seg) = n - start + 1 /\ n - start + 1 \in 1 .. n
      /\ \A i \in 1 .. n - start + 1 : seg[i] = all[start + i - 1] /\ start + i - 1 \in 1 .. n
  <2> HIDE DEF all, n, seg
  <2>1. n - start + 1 \in 1 .. n
    BY <1>3
  <2>2. \A i \in 1 .. n - start + 1 : start + i - 1 \in 1 .. n
    BY <1>3
  <2> QED
    BY <1>3, <1>4, <2>1, <2>2
<1>6. /\ ReadingsOf(R) \in Seq(Reading) /\ Len(ReadingsOf(R)) = n
      /\ \A i \in 1 .. n : ReadingsOf(R)[i] = all[i].event.reading
      /\ ServerPhases(R)[n] = SmoothedPhase(ReadingsOf(R), n)
  BY <1>3, PhasesOfReadings
<1>7. \A row \in R : row.event.reading \in Reading
  BY DEF SampleList, Samples, SampleEvents, DeviceEvents
<1> HIDE DEF all, n, seg
<1>8. /\ own \in Seq(Reading) /\ Len(own) = Len(seg)
      /\ \A i \in 1 .. Len(seg) : own[i] = seg[i].event.reading
  <2>1. \A i \in 1 .. Len(seg) : seg[i].event.reading \in Reading
    BY <1>3, <1>5, <1>7
  <2> QED
    BY <1>5, <2>1
<1> HIDE DEF own
<1>9. K \in Nat \ {0}
  BY ClassifierAssumption
<1>10. ASSUME NEW m \in 0 .. K - 1
       PROVE  own[Len(seg) - m] = ReadingsOf(R)[n - m]
  <2>1. /\ Len(seg) - m \in 1 .. Len(seg) /\ n - m \in 1 .. n
        /\ start + (Len(seg) - m) - 1 = n - m
    BY <1>1, <1>3, <1>5, <1>9
  <2> QED
    BY <1>5, <1>6, <1>8, <2>1
<1>11. SmoothedPhase(own, Len(seg)) = SmoothedPhase(ReadingsOf(R), n)
  <2>1. Len(seg) \in 1 .. Len(own) /\ n \in 1 .. Len(ReadingsOf(R)) /\ K <= Len(seg) /\ K <= n
    BY <1>1, <1>3, <1>5, <1>6, <1>8, <1>9
  <2> QED
    BY <1>6, <1>8, <1>10, <2>1, PhaseOfLatest
<1>12. SmoothedPhases(own)[Len(seg)] = SmoothedPhase(own, Len(seg))
  BY <1>3, <1>5, <1>8 DEF SmoothedPhases
<1>13. seg[Len(seg)] = all[n]
  BY <1>3, <1>5
<1> QED
  BY <1>1, <1>3, <1>6, <1>11, <1>12, <1>13 DEF n, all

(* A message that a load ended is pushed in the step that decides it, for a new sample. *)
LEMMA PushedWhenDecided ==
  ASSUME TInv, NEW m \in net, NEW kept, NEW outcome, ReceiveEvent(m, kept, outcome),
         NEW d \in DeviceEvents, EventId(ServerDoneEvent(d)) \in DOMAIN pushed',
         EventId(ServerDoneEvent(d)) \notin DOMAIN pushed
  PROVE  /\ EventId(d) = EventId(m.event)
         /\ EventId(m.event) \notin StoredIds(Unexpired(db))
         /\ \E announced : announced \in NewAlerts
<1> DEFINE e         == m.event
           rows      == Unexpired(db)
           duplicate == EventId(e) \in StoredIds(rows)
           with_e    == IF duplicate THEN rows ELSE rows \cup {Stored(e, clock)}
           decides   == /\ ~duplicate /\ e.state = "calibration_sample"
                        /\ outcome # "dies"
                        /\ ServerDone(with_e, e)
                        /\ EventId(ServerDoneEvent(e)) \notin StoredIds(with_e)
           announces == /\ ~duplicate /\ ~DoneSentForCycleExists(db, e)
                        /\ e.state \in NOTIFICATION_STATES
           messages  == (IF decides THEN {EventId(ServerDoneEvent(e))} ELSE {})
                        \cup (IF announces THEN {EventId(e)} ELSE {})
           ids       == IF outcome = "ok" THEN messages ELSE {}
           done      == Stored(ServerDoneEvent(e), clock)
<1>1. /\ db' = with_e \cup (IF decides THEN {done} ELSE {})
      /\ CountPush(ids)
  BY DEF ReceiveEvent
<1>2. e \in DeviceEvents /\ clock \in Nat
  BY DEF TInv, IInv, Typed
<1>3. /\ EventId(e) = <<"device", e.cycle_id, e.n>>
      /\ EventId(ServerDoneEvent(e)) = <<"server", e.cycle_id, e.n>>
      /\ EventId(d) = <<"device", d.cycle_id, d.n>>
      /\ EventId(ServerDoneEvent(d)) = <<"server", d.cycle_id, d.n>>
  BY <1>2 DEF EventId, ServerDoneEvent, DeviceEvents
<1>4. DOMAIN pushed' = DOMAIN pushed \cup ids
  <2> HIDE DEF ids
  <2> QED
    BY <1>1 DEF CountPush
<1>5. decides /\ EventId(ServerDoneEvent(d)) = EventId(ServerDoneEvent(e))
  <2>1. EventId(ServerDoneEvent(d)) \in messages
    BY <1>4
  <2>2. EventId(ServerDoneEvent(d)) # EventId(e)
    BY <1>3
  <2> HIDE DEF decides, announces
  <2> QED
    BY <2>1, <2>2
<1>6. done \in db' /\ done.event = ServerDoneEvent(e) /\ done.received_at = clock
  BY <1>1, <1>5 DEF Stored
<1>7. done \notin db
  <2>1. done \in db => done \in rows
    BY <1>2, <1>6, RelayAssumption DEF Unexpired
  <2>2. EventId(done.event) \notin StoredIds(with_e) /\ rows \subseteq with_e
    BY <1>5, <1>6
  <2> QED
    BY <2>1, <2>2 DEF StoredIds
<1>8. done.event.origin = "server"
  BY <1>2, <1>6 DEF ServerDoneEvent, DeviceEvents
<1>9. done \in NewAlerts
  BY <1>6, <1>7, <1>8 DEF NewAlerts
<1>10. EventId(d) = EventId(e) /\ ~duplicate
  BY <1>3, <1>5
<1> QED
  BY <1>9, <1>10

(* What is unexpired after a request: what was before it, and its sample. *)
LEMMA SamplesAfterRequest ==
  ASSUME MInv, NEW m \in net, NEW ids, Effect(m, ids)
  PROVE  LET S == SampleRows(db)
             x == [event |-> m.event, received_at |-> clock]
         IN  \/ SampleRows(db)' = S
             \/ /\ SampleRows(db)' = S \cup {x} /\ x \notin S
                /\ EventId(m.event) \notin StoredIds(Unexpired(db))
<1> DEFINE S == SampleRows(db)
           T == SampleRows(db)'
           x == [event |-> m.event, received_at |-> clock]
<1>1. T = {row \in db' : /\ clock - row.received_at <= EVENT_RETENTION
                         /\ row.event.state = "calibration_sample"}
  BY DEF Effect, SampleRows, Unexpired
<1>2. S = {row \in Unexpired(db) : row.event.state = "calibration_sample"}
  BY DEF SampleRows
<1>3. /\ Unexpired(db) \subseteq db'
      /\ \A row \in db' \ Unexpired(db) :
           /\ row = x \/ row.event \in ServerEvents
           /\ EventId(m.event) \notin StoredIds(Unexpired(db))
  BY DEF Effect
<1>4. S \subseteq T
  BY <1>1, <1>2, <1>3 DEF Unexpired
<1>5. ASSUME NEW row \in T, row \notin S
      PROVE  row = x /\ EventId(m.event) \notin StoredIds(Unexpired(db))
  <2>1. row \in db' /\ row \notin Unexpired(db)
    BY <1>1, <1>2, <1>5
  <2>2. row.event \notin ServerEvents
    BY <1>1 DEF ServerEvents
  <2> QED
    BY <1>3, <2>1, <2>2
<1> HIDE DEF S, T, x
<1>6. T = S \/ (T = S \cup {x} /\ x \notin S /\ EventId(m.event) \notin StoredIds(Unexpired(db)))
  BY <1>4, <1>5
<1> QED
  BY <1>6 DEF S, T, x

(* Every message that a load ended is about a sample that the list shows as quiet. *)
Explained == AlertsLookQuiet(SampleRows(db), DOMAIN pushed)

LEMMA TableOfSamples ==
  ASSUME MInv
  PROVE  SampleList(SampleRows(db)) /\ SampleRows(db) \subseteq db
<1>1. IsFiniteSet(db) /\ db \subseteq Rows /\ UniqueIds(db)
  BY DEF MInv, TInv, RowsTyped
<1>2. SampleList(SampledRows(db))
  BY <1>1, TableSamples DEF SampledRows
<1>3. SampleRows(db) \in SUBSET SampledRows(db) /\ SampleRows(db) \subseteq db
  BY DEF SampleRows, SampledRows, Unexpired
<1> QED
  BY <1>2, <1>3, PartInOrder

LEMMA RequestIsExplained ==
  ASSUME MInv, MInv', Explained, InSequence(db)', NEW m \in net,
         NEW kept, NEW outcome, ReceiveEvent(m, kept, outcome)
  PROVE  Explained'
<1> DEFINE S == SampleRows(db)
           T == SampleRows(db)'
           x == [event |-> m.event, received_at |-> clock]
           old == DOMAIN pushed
           new == DOMAIN pushed'
<1>1. PICK ids : Effect(m, ids)
  BY RequestEffect DEF MInv, TInv, IInv
<1>2. SampleList(S) /\ S \subseteq Unexpired(db) /\ AlertsLookQuiet(S, old)
  BY TableOfSamples DEF Explained, SampleRows
<1>3. SampleList(T) /\ T \subseteq db'
  <2>1. /\ IsFiniteSet(db') /\ db' \subseteq Rows /\ UniqueIds(db')
    BY DEF MInv, TInv, RowsTyped, UniqueIds
  <2>2. SampleList({row \in db' : row.event.state = "calibration_sample"})
    BY <2>1, TableSamples
  <2>3. T \in SUBSET {row \in db' : row.event.state = "calibration_sample"} /\ T \subseteq db'
    BY DEF SampleRows, Unexpired
  <2> QED
    BY <2>2, <2>3, PartInOrder
<1>4. ASSUME NEW row \in S, Alerted(row, new)
      PROVE  Alerted(row, old)
  <2>1. row.event \in DeviceEvents
    BY <1>2 DEF SampleList, Samples, SampleEvents
  <2>2. EventId(row.event) \in StoredIds(Unexpired(db))
    BY <1>2 DEF StoredIds
  <2> QED
    BY <1>4, <2>1, <2>2, PushedWhenDecided DEF Alerted, MInv
<1>5. AlertsLookQuiet(S, new)
  <2>1. ASSUME NEW i \in SERVER_CLASSIFIER_SMOOTHING_SAMPLES .. Cardinality(S)
        PROVE  Chronological(S)[i] \in S
    <3>1. i \in 1 .. Cardinality(S)
      BY <1>2, PhasesOfReadings, ClassifierAssumption
    <3> QED
      BY <1>2, <3>1, PhasesOfReadings
  <2> HIDE DEF S, old, new
  <2> QED
    BY <1>2, <1>4, <2>1 DEF AlertsLookQuiet
<1>6. CASE T = S
  <2> HIDE DEF S, T, new
  <2>1. AlertsLookQuiet(T, new)
    BY <1>5, <1>6
  <2> QED
    BY <2>1 DEF Explained, T, new
<1>7. CASE T = S \cup {x} /\ x \notin S /\ EventId(m.event) \notin StoredIds(Unexpired(db))
  <2>1. InSequence(T)
    <3>1. SampledRows(T) \subseteq SampledRows(db')
      BY <1>3 DEF SampledRows
    <3>2. \A a, b \in SampledRows(db') : a # b =>
            /\ a.received_at # b.received_at
            /\ a.received_at < b.received_at => EventTimestamp(a) < EventTimestamp(b)
      BY DEF InSequence, SampledRows, EventTimestamp
    <3> QED
      BY <3>1, <3>2 DEF InSequence
  <2>2. ASSUME NEW r \in S
        PROVE  r.received_at < x.received_at
    <3>1. r \in T /\ x \in T /\ r # x
      BY <1>7
    <3>2. r \in db /\ r.received_at \in Nat /\ r.received_at <= clock /\ clock \in Nat
      BY <1>2 DEF Unexpired, MInv, TInv, RowsTyped, IInv, Typed
    <3>3. T \subseteq SampledRows(T)
      BY <1>3 DEF SampledRows, SampleList, Samples, SampleEvents
    <3>4. r.received_at # x.received_at
      BY <2>1, <3>1, <3>3 DEF InSequence
    <3> QED
      BY <3>2, <3>4
  <2>3. ASSUME NEW i \in SERVER_CLASSIFIER_SMOOTHING_SAMPLES .. Cardinality(T),
               Chronological(T)[i] = x, Alerted(x, new)
        PROVE  ServerPhases(T)[i] = "quiet"
    <3>1. m.event \in DeviceEvents /\ x.event = m.event
      BY DEF MInv, TInv, IInv, Typed
    <3>2. EventId(ServerDoneEvent(m.event)) \in MessageIds(m.event)
      BY <3>1 DEF EventId, ServerDoneEvent, MessageIds, DeviceEvents
    <3>3. EventId(ServerDoneEvent(m.event)) \notin old
      BY <1>7, <3>2, PushedIsDuplicate DEF MInv, TInv
    <3>4. EventId(ServerDoneEvent(m.event)) \in new
      BY <2>3, <3>1 DEF Alerted
    <3>5. PICK announced : announced \in NewAlerts
      BY <3>1, <3>3, <3>4, PushedWhenDecided DEF MInv
    <3>6. PICK rows :
            /\ LoadCompleted(Evidence(rows), m.event)
            /\ SampleRows(rows) = {row \in db' : row.event.state = "calibration_sample"}
            /\ SampleRows(rows) # {} /\ Unexpired(rows) = rows
      BY <3>5, AlertIsDecided DEF MInv
    <3>7. SampleRows(rows) = T
      <4>1. \A row \in SampleRows(rows) : clock - row.received_at <= EVENT_RETENTION
        BY DEF SampleRows, Unexpired
      <4>2. T = {row \in db' : /\ clock - row.received_at <= EVENT_RETENTION
                               /\ row.event.state = "calibration_sample"}
        BY <1>1 DEF Effect, SampleRows, Unexpired
      <4> QED
        BY <3>6, <4>1, <4>2
    <3> HIDE DEF T
    <3>8. /\ Cardinality(T) \in Nat \ {0}
          /\ EventId(Chronological(T)[Cardinality(T)].event) = EventId(m.event)
          /\ ServerPhases(T)[Cardinality(T)] = "quiet"
      BY <1>3, <2>1, <3>6, <3>7, DecidedIsQuiet
    <3>9. Chronological(T)[Cardinality(T)] = x
      <4>1. Chronological(T)[Cardinality(T)] \in T /\ x \in T
        BY <1>3, <1>7, <3>8, PhasesOfReadings
      <4> QED
        BY <1>3, <3>1, <3>8, <4>1 DEF SampleList, UniqueIds
    <3>10. i \in 1 .. Cardinality(T) /\ Cardinality(T) \in 1 .. Cardinality(T)
      BY <3>8, ClassifierAssumption
    <3>11. i = Cardinality(T)
      BY <1>3, <2>3, <3>9, <3>10, ChronologicalOrder
    <3> QED
      BY <3>8, <3>11
  <2>4. \A i \in SERVER_CLASSIFIER_SMOOTHING_SAMPLES .. Cardinality(T) :
          Chronological(T)[i] = x /\ Alerted(x, new) => ServerPhases(T)[i] = "quiet"
    BY <2>3
  <2>5. AlertsLookQuiet(T, new)
    <3>1. /\ SampleList(T) /\ S \in SUBSET T /\ x \in T /\ \A r \in T : r \in S \/ r = x
          /\ AlertsLookQuiet(S, new)
      BY <1>3, <1>5, <1>7
    <3>2. \A r \in S : r.received_at < x.received_at
      BY <2>2
    <3> HIDE DEF S, T, x, new
    <3> QED
      BY <2>4, <3>1, <3>2, QuietWithNext
  <2> HIDE DEF S, T, x, new
  <2> QED
    BY <2>5 DEF Explained, T, new
<1> QED
  BY <1>1, <1>6, <1>7, SamplesAfterRequest

(* Samples expire oldest first, and every other step leaves list and messages alone. *)
LEMMA ExplainedStep ==
  ASSUME MInv, [Next]_vars, Explained, InSequence(db)'
  PROVE  Explained'
<1> DEFINE S == SampleRows(db)
           T == SampleRows(db)'
           ids == DOMAIN pushed
<1>1. MInv'
  BY MessagesStep
<1>2. CASE Receive
  BY <1>1, <1>2, RequestIsExplained DEF Receive
<1>3. ASSUME db' \subseteq db, pushed' = pushed
      PROVE  Explained'
  <2>1. clock \in Nat /\ clock' \in Nat /\ clock <= clock' /\ Unexpired(db) \subseteq db'
    BY TableGrows
  <2>2. SampleList(S) /\ AlertsLookQuiet(S, ids) /\ \A r \in S : r.received_at \in Nat
    BY TableOfSamples DEF Explained, SampleList, Samples
  <2>3. T = {row \in db' : /\ clock' - row.received_at <= EVENT_RETENTION
                           /\ row.event.state = "calibration_sample"}
    BY DEF SampleRows, Unexpired
  <2>4. S = {row \in db : /\ clock - row.received_at <= EVENT_RETENTION
                          /\ row.event.state = "calibration_sample"}
    BY DEF SampleRows, Unexpired
  <2>5. S \subseteq db'
    BY <2>1, <2>4 DEF Unexpired
  <2>6. \A row \in db : row.received_at \in Nat
    BY DEF MInv, TInv, IInv, Typed
  <2>7. EVENT_RETENTION \in Nat
    BY RelayAssumption
  <2>8. T \in SUBSET S
    <3> SUFFICES ASSUME NEW row \in T
                 PROVE  row \in S
      OBVIOUS
    <3>1. /\ row \in db /\ row.event.state = "calibration_sample"
          /\ clock' - row.received_at <= EVENT_RETENTION
      BY <1>3, <2>3
    <3>2. clock - row.received_at <= EVENT_RETENTION
      <4> HIDE DEF T
      <4> QED
        BY <2>1, <2>6, <2>7, <3>1
    <3> QED
      BY <2>4, <3>1, <3>2
  <2>9. ASSUME NEW a \in T, NEW r \in S, a.received_at <= r.received_at
        PROVE  r \in T
    <3>1. a.received_at \in Nat /\ r.received_at \in Nat
      BY <2>2, <2>8
    <3>2. clock' - a.received_at <= EVENT_RETENTION
      BY <2>3
    <3>3. clock' - r.received_at <= EVENT_RETENTION
      <4> HIDE DEF S, T
      <4> QED
        BY <2>1, <2>7, <2>9, <3>1, <3>2
    <3> QED
      BY <2>3, <2>4, <2>5, <3>3
  <2> HIDE DEF S, T, ids
  <2>10. AlertsLookQuiet(T, ids)
    BY <2>2, <2>8, <2>9, QuietAfterPruning
  <2>11. ids = DOMAIN pushed'
    BY <1>3 DEF ids
  <2> QED
    BY <2>10, <2>11 DEF Explained, T
<1>4. CASE TakeSample \/ SendOther \/ Restart \/ ListEvents \/ UNCHANGED vars
  <2>1. db' \subseteq db /\ pushed' = pushed
    BY <1>4 DEF TakeSample, SendOther, Restart, ListEvents, vars, Unexpired
  <2> QED
    BY <1>3, <2>1
<1> QED
  BY <1>2, <1>4 DEF Next

(* When no sample is too high for it, the list is the table's samples. *)
LEMMA AlertsAreQuiet ==
  ASSUME MInv, Explained, AveragesAreKept(ListedSamples(db))
  PROVE  AlertedSampleLooksQuiet
<1> DEFINE K == SERVER_CLASSIFIER_SMOOTHING_SAMPLES
           T == SampleRows(db)
<1> SUFFICES ASSUME \A row \in T : WithinPeakLimit(row),
                    NEW i \in DOMAIN Chronological(ListedSamples(db)),
                    Alerted(Chronological(ListedSamples(db))[i], DOMAIN pushed)
             PROVE  ServerPhases(ListedSamples(db))[i] = "quiet"
  BY DEF AlertedSampleLooksQuiet, Alerted
<1>1. ListedSamples(db) = T
  BY DEF ListedSamples
<1>2. SampleList(T) /\ AlertsLookQuiet(T, DOMAIN pushed)
  BY TableOfSamples DEF Explained
<1> HIDE DEF T
<1>3. i \in 1 .. Cardinality(T) /\ Cardinality(T) \in Nat
  BY <1>1, <1>2, PhasesOfReadings
<1>4. i >= K
  BY <1>1 DEF AveragesAreKept
<1>5. i \in K .. Cardinality(T)
  BY <1>3, <1>4, ClassifierAssumption
<1> QED
  BY <1>1, <1>2, <1>5 DEF AlertsLookQuiet

(***************************************************************************)
(* The list explains the alerts: while all samples are received one after  *)
(* the other in the order they are dated in, and as many samples as are    *)
(* averaged are still listed up to an alerted one (for two weeks), the     *)
(* list has it as quiet, whatever was lost, repeated, pruned or restarted. *)
(* The decision of _maybe_send_server_done and the phases of               *)
(* list_pending_completion_events come from different lists.               *)
(***************************************************************************)
THEOREM AlertsAreListedQuiet ==
  Spec /\ [](InSequence(db) /\ AveragesAreKept(ListedSamples(db))) => []AlertedSampleLooksQuiet
<1>1. Init => MInv /\ Explained
  <2> SUFFICES ASSUME Init
               PROVE  MInv /\ Explained
    OBVIOUS
  <2>1. SampleRows(db) = {}
    BY DEF Init, SampleRows, Unexpired
  <2>2. Cardinality(SampleRows(db)) = 0
    BY <2>1, FS_EmptySet
  <2> QED
    BY <2>2, MessagesInit, ClassifierAssumption DEF Explained, AlertsLookQuiet
<1>2. MInv /\ Explained /\ [Next]_vars /\ InSequence(db)' => MInv' /\ Explained'
  BY MessagesStep, ExplainedStep
<1>3. MInv /\ Explained /\ AveragesAreKept(ListedSamples(db)) => AlertedSampleLooksQuiet
  BY AlertsAreQuiet
<1> QED
  BY <1>1, <1>2, <1>3, PTL DEF Spec

----------------------------------------------------------------------------
(* When the monitor is shown every sample, in order *)

(***************************************************************************)
(* A device and a network that change the order of nothing: one            *)
(* request at a time, taken in the tick it was sent in or lost, and        *)
(* clocks that agree.                                                      *)
(***************************************************************************)
OneAtATime ==
  /\ ClockSkews = {0} /\ MaxDelay = 0 /\ MaxInFlight = 1 /\ ~Faults
  /\ SERVER_MINIMUM_RUNTIME > 0

(***************************************************************************)
(* Then a sample under way is younger than every row, and a completion of  *)
(* the relay stands beside its sample.                                     *)
(***************************************************************************)
InStep ==
  /\ \A l, m \in net : l = m
  /\ \A m \in net : m.event.state = "calibration_sample" =>
                      \A row \in db : row.received_at < clock
  /\ \A row \in db : row.event.origin = "server" =>
                      \E r \in db : EventId(r.event) =
                                      <<"device", row.event.cycle_id, row.event.n>>

----------------------------------------------------------------------------
(* What the monitor remembers of the samples of a segment *)

Completions(rows) == {row \in rows : row.event.state = "done_sent"}

ReadingsIn(seg) == [i \in 1 .. Len(seg) |-> seg[i].event.reading]

RawIn(seg) == [i \in 1 .. Len(seg) |-> RawPhase(seg[i].event.reading)]

ActiveIn(seg, done) == ActiveIndexes(seg, SmoothedPhases(ReadingsIn(seg)), done)

(* The readings that the next average reaches back to. *)
Reachable(readings) == SubSeq(readings, ChunkStart(readings, Len(readings) + 1), Len(readings))

QuietSince(raw, t) ==
  IF Len(raw) = 0 \/ raw[Len(raw)] # "quiet" THEN M!NotQuiet
  ELSE M!UpTo(SERVER_DONE_QUIET, t[Len(raw)] - t[QuietStart(raw)])

LastIn(seg) ==
  IF Len(seg) = 0 THEN NothingYet
  ELSE [cycle_id |-> seg[Len(seg)].event.cycle_id, uptime |-> seg[Len(seg)].event.uptime,
        at |-> EventTimestamp(seg[Len(seg)])]

TimesIn(seg) == [i \in 1 .. Len(seg) |-> EventTimestamp(seg[i])]

(* The monitor's memory is what there is to know of a segment. *)
Summarises(seg, active) ==
  /\ seen = M!UpTo(SERVER_CLASSIFIER_SMOOTHING_SAMPLES, Len(seg))
  /\ chunk = Reachable(ReadingsIn(seg))
  /\ counted \in BOOLEAN /\ (counted <=> Len(seg) \in active)
  /\ active_time = M!UpTo(SERVER_MINIMUM_RUNTIME, ActiveTime(seg, active))
  /\ quiet_for = QuietSince(RawIn(seg), TimesIn(seg))
  /\ last = LastIn(seg)

SegmentOf(rows) == CurrentObservationSegment(InOrder(SampledRows(rows), Precedes))

(* Of the last segment of the table, that is, and the motion in it that is not announced. *)
Remembers == Summarises(SegmentOf(db), ActiveIn(SegmentOf(db), Completions(db)))

----------------------------------------------------------------------------
(* One sample more *)

(* To cap a sum is to cap what is added to as well. *)
LEMMA CappedAdds ==
  ASSUME NEW bound \in Nat, NEW a \in Int, NEW d \in Nat
  PROVE  M!UpTo(bound, M!UpTo(bound, a) + d) = M!UpTo(bound, a + d)
BY DEF M!UpTo

(* What the next average reaches, and the phase it gives. *)
LEMMA ReachableGrows ==
  ASSUME NEW readings \in Seq(Reading), NEW r \in Reading
  PROVE  /\ Reachable(Append(readings, r)) =
              IF NoEvidence(r) THEN <<>>
              ELSE M!LastOf(Append(Reachable(readings), r),
                            SERVER_CLASSIFIER_SMOOTHING_SAMPLES - 1)
         /\ SmoothedPhase(Append(readings, r), Len(readings) + 1) =
              IF NoEvidence(r) THEN RawPhase(r)
              ELSE ChunkPhase(Append(Reachable(readings), r))
<1> DEFINE n == Len(readings)
           K == SERVER_CLASSIFIER_SMOOTHING_SAMPLES
           new == Append(readings, r)
           c == ChunkStart(readings, n + 1)
           w == n + 3 - K
           old == Reachable(readings)
           av == Append(old, r)
<1>1. n \in Nat /\ K \in Nat \ {0} /\ new \in Seq(Reading) /\ Len(new) = n + 1
      /\ new[n + 1] = r /\ \A k \in 1 .. n : new[k] = readings[k] /\ readings[k] \in Reading
  BY ClassifierAssumption
<1>2. c \in 1 .. n + 1 /\ n + 1 - c <= K - 1
  BY NextChunk
<1>3. ChunkStart(new, n + 2) = IF NoEvidence(r) THEN n + 2 ELSE IF c < w THEN w ELSE c
  BY ChunkAfterNext
<1>4. ChunkStart(new, n + 1) = c
  <2>1. (n + 1) - 1 = n
    BY <1>1
  <2>2. {k \in 1 .. (n + 1) - 1 : NoEvidence(new[k])}
          = {k \in 1 .. (n + 1) - 1 : NoEvidence(readings[k])}
    BY <1>1
  <2> QED
    BY <2>2 DEF ChunkStart
<1>5. old = SubSeq(readings, c, n)
  BY DEF Reachable
<1>6. Reachable(new) = SubSeq(new, ChunkStart(new, n + 2), n + 1)
  <2>1. Len(new) + 1 = n + 2 /\ Len(new) = n + 1
    BY <1>1
  <2> HIDE DEF new, n
  <2> QED
    BY <2>1 DEF Reachable
<1>7. new[n + 1] = r /\ SmoothedPhase(new, n + 1) =
        IF NoEvidence(r) THEN RawPhase(r) ELSE ChunkPhase(SubSeq(new, c, n + 1))
  BY <1>1, <1>4 DEF SmoothedPhase
<1> HIDE DEF n, K, new, c, old
<1>8. /\ old \in Seq(Reading) /\ Len(old) = n + 1 - c
      /\ \A i \in 1 .. n + 1 - c : old[i] = readings[c + i - 1]
  <2>1. n \in Int /\ c \in Int /\ \A i \in c .. n : readings[i] \in Reading
    BY <1>1, <1>2
  <2>2. /\ old \in Seq(Reading) /\ Len(old) = IF c <= n THEN n - c + 1 ELSE 0
        /\ \A i \in 1 .. n - c + 1 : old[i] = readings[c + i - 1]
    BY <1>5, <2>1, SubSeqProperties
  <2>3. n - c + 1 = n + 1 - c /\ (~(c <= n) => n + 1 - c = 0)
    BY <1>1, <1>2
  <2> QED
    BY <2>2, <2>3
<1>9. /\ av \in Seq(Reading) /\ Len(av) = n + 2 - c
      /\ \A i \in 1 .. n + 2 - c : av[i] = new[c + i - 1] /\ c + i - 1 \in 1 .. n + 1
  <2>1. /\ av \in Seq(Reading) /\ Len(av) = Len(old) + 1 /\ av[Len(old) + 1] = r
        /\ \A i \in 1 .. Len(old) : av[i] = old[i]
    BY <1>8
  <2>2. \A i \in 1 .. n + 2 - c : i = Len(old) + 1 \/ i \in 1 .. Len(old)
    BY <1>1, <1>2, <1>8
  <2>3. \A i \in 1 .. Len(old) : av[i] = new[c + i - 1] /\ c + i - 1 \in 1 .. n
    <3> TAKE i \in 1 .. Len(old)
    <3>1. i \in 1 .. n + 1 - c /\ c + i - 1 \in 1 .. n
      BY <1>1, <1>2, <1>8
    <3> QED
      BY <1>1, <1>8, <2>1, <3>1
  <2>4. c + (Len(old) + 1) - 1 = n + 1 /\ Len(old) + 1 = n + 2 - c
    BY <1>1, <1>2, <1>8
  <2>5. n + 1 \in 1 .. n + 1 /\ 1 .. n \subseteq 1 .. n + 1
    BY <1>1
  <2> HIDE DEF av
  <2> QED
    BY <1>1, <2>1, <2>2, <2>3, <2>4, <2>5
<1> HIDE DEF av
<1>10. SubSeq(new, c, n + 1) = av
  <2>1. n + 1 \in Int /\ c \in Int /\ c <= n + 1 /\ \A i \in c .. n + 1 : new[i] \in Reading
    BY <1>1, <1>2
  <2>2. /\ SubSeq(new, c, n + 1) \in Seq(Reading)
        /\ Len(SubSeq(new, c, n + 1)) = (n + 1) - c + 1
        /\ \A i \in 1 .. (n + 1) - c + 1 : SubSeq(new, c, n + 1)[i] = new[c + i - 1]
    BY <2>1, SubSeqProperties
  <2>3. (n + 1) - c + 1 = n + 2 - c
    BY <1>1, <1>2
  <2> QED
    BY <1>9, <2>2, <2>3, SeqEqual
<1>11. CASE NoEvidence(r)
  <2>1. Reachable(new) = SubSeq(new, n + 2, n + 1)
    BY <1>3, <1>6, <1>11
  <2>2. n + 2 \in Int /\ n + 1 \in Int /\ n + 1 < n + 2
    BY <1>1
  <2>3. Reachable(new) = <<>>
    BY <2>1, <2>2, SubSeqEmpty
  <2> QED
    BY <1>7, <1>11, <2>3 DEF n, new
<1>12. CASE ~NoEvidence(r)
  <2>1. Reachable(new) = SubSeq(new, IF c < w THEN w ELSE c, n + 1)
    BY <1>3, <1>6, <1>12
  <2>2. Len(av) <= K - 1 <=> ~(c < w)
    BY <1>1, <1>2, <1>9
  <2>3. ~(c < w) => Reachable(new) = M!LastOf(av, K - 1)
    BY <1>10, <2>1, <2>2 DEF M!LastOf
  <2>4. ASSUME c < w
        PROVE  Reachable(new) = M!LastOf(av, K - 1)
    <3>1. /\ w \in Int /\ c \in Int /\ n + 1 \in Int /\ 1 <= w
          /\ w <= n + 2 /\ (w <= n + 1 \/ w = n + 2)
      BY <1>1, <1>2, <2>4
    <3>2. M!LastOf(av, K - 1) = SubSeq(av, Len(av) - (K - 1) + 1, Len(av))
      BY <2>2, <2>4 DEF M!LastOf
    <3>3. Len(av) - (K - 1) + 1 = w - c + 1 /\ Len(av) = n + 2 - c
      BY <1>1, <1>2, <1>9
    <3>4. M!LastOf(av, K - 1) = SubSeq(av, w - c + 1, n + 2 - c)
      BY <3>2, <3>3
    <3>5. \A i \in w .. n + 1 : new[i] \in Reading
      BY <1>1, <3>1
    <3>6. \A i \in w - c + 1 .. n + 2 - c : av[i] \in Reading
      <4>1. \A i \in w - c + 1 .. n + 2 - c : i \in 1 .. Len(av)
        BY <1>9, <2>4, <3>1
      <4> QED
        BY <1>9, <4>1
    <3>7. /\ SubSeq(new, w, n + 1) \in Seq(Reading)
          /\ Len(SubSeq(new, w, n + 1)) = IF w <= n + 1 THEN (n + 1) - w + 1 ELSE 0
          /\ \A i \in 1 .. (n + 1) - w + 1 : SubSeq(new, w, n + 1)[i] = new[w + i - 1]
      BY <3>1, <3>5, SubSeqProperties
    <3>8. w - c + 1 \in Int /\ n + 2 - c \in Int
      BY <1>1, <3>1
    <3>9. /\ SubSeq(av, w - c + 1, n + 2 - c) \in Seq(Reading)
          /\ Len(SubSeq(av, w - c + 1, n + 2 - c))
               = IF w - c + 1 <= n + 2 - c THEN (n + 2 - c) - (w - c + 1) + 1 ELSE 0
          /\ \A i \in 1 .. (n + 2 - c) - (w - c + 1) + 1 :
               SubSeq(av, w - c + 1, n + 2 - c)[i] = av[(w - c + 1) + i - 1]
      BY <3>6, <3>8, SubSeqProperties
    <3>10. /\ (n + 2 - c) - (w - c + 1) + 1 = (n + 1) - w + 1
           /\ (w - c + 1 <= n + 2 - c <=> w <= n + 1)
           /\ \A i \in 1 .. (n + 1) - w + 1 :
                /\ c + ((w - c + 1) + i - 1) - 1 = w + i - 1
                /\ (w - c + 1) + i - 1 \in 1 .. n + 2 - c
      BY <1>1, <1>2, <2>4, <3>1
    <3>11. \A i \in 1 .. (n + 1) - w + 1 : av[(w - c + 1) + i - 1] = new[w + i - 1]
      BY <1>9, <3>10
    <3> DEFINE left == SubSeq(new, w, n + 1)
               right == SubSeq(av, w - c + 1, n + 2 - c)
    <3>12. /\ left \in Seq(Reading) /\ right \in Seq(Reading) /\ Len(left) = Len(right)
           /\ (Len(left) = (n + 1) - w + 1 \/ Len(left) = 0)
      BY <3>7, <3>9, <3>10
    <3>13. \A i \in 1 .. Len(left) : i \in 1 .. (n + 1) - w + 1
      BY <3>12
    <3>14. \A i \in 1 .. Len(left) : left[i] = right[i]
      BY <3>7, <3>9, <3>10, <3>11, <3>13
    <3> HIDE DEF left, right
    <3>15. left = right
      BY <3>12, <3>14, SeqEqual
    <3> QED
      BY <2>1, <2>4, <3>4, <3>15 DEF left, right
  <2> QED
    BY <1>7, <1>10, <1>12, <2>3, <2>4 DEF n, K, new, av, old
<1> QED
  BY <1>11, <1>12

(* The raw quiet so far, when the list grows by a sample. *)
LEMMA QuietGrows ==
  ASSUME NEW n \in Nat, NEW raw \in Seq(Phases), Len(raw) = n, NEW t \in Seq(Int), Len(t) = n,
         \A i, j \in 1 .. n : i < j => t[i] <= t[j],
         NEW p \in Phases, NEW u \in Int, n > 0 => t[n] <= u
  PROVE  QuietSince(Append(raw, p), Append(t, u)) =
           IF p # "quiet" THEN M!NotQuiet
           ELSE IF n > 0 /\ QuietSince(raw, t) # M!NotQuiet
                THEN M!UpTo(SERVER_DONE_QUIET, QuietSince(raw, t) + (u - t[n]))
           ELSE 0
<1> DEFINE r2 == Append(raw, p)
           t2 == Append(t, u)
           q == QuietStart(raw)
<1>1. /\ DOMAIN raw = 1 .. n /\ \A i \in 1 .. n : t[i] \in Int
      /\ Len(r2) = n + 1 /\ DOMAIN r2 = 1 .. n + 1 /\ r2[n + 1] = p
      /\ \A i \in 1 .. n : r2[i] = raw[i]
      /\ Len(t2) = n + 1 /\ t2[n + 1] = u
      /\ \A i \in 1 .. n : t2[i] = t[i]
      /\ SERVER_DONE_QUIET \in Nat
  BY RelayAssumption
<1>2. QuietSince(r2, t2) = IF p # "quiet" THEN M!NotQuiet
                           ELSE M!UpTo(SERVER_DONE_QUIET, u - t2[QuietStart(r2)])
  <2>1. n + 1 # 0
    OBVIOUS
  <2> HIDE DEF r2, t2
  <2> QED
    BY <1>1, <2>1 DEF QuietSince
<1> SUFFICES ASSUME p = "quiet"
             PROVE  M!UpTo(SERVER_DONE_QUIET, u - t2[QuietStart(r2)]) =
                      IF n > 0 /\ QuietSince(raw, t) # M!NotQuiet
                      THEN M!UpTo(SERVER_DONE_QUIET, QuietSince(raw, t) + (u - t[n]))
                      ELSE 0
  BY <1>2
<1> HIDE DEF r2, t2
<1>3. \A k \in 1 .. n + 1 : (/\ \A i \in k .. n + 1 : r2[i] = "quiet"
                             /\ k > 1 => r2[k - 1] # "quiet") => k = QuietStart(r2)
  <2> DEFINE m == n + 1
  <2>1. /\ m \in Nat \ {0} /\ DOMAIN r2 = 1 .. m /\ Len(r2) = m
        /\ r2[m] = "quiet"
    BY <1>1
  <2> HIDE DEF m
  <2>2. \A k \in 1 .. m : (/\ \A i \in k .. m : r2[i] = "quiet"
                           /\ k > 1 => r2[k - 1] # "quiet") => k = QuietStart(r2)
    BY <2>1, QuietStartIs
  <2> QED
    BY <2>2 DEF m
<1>4. CASE n > 0 /\ raw[n] = "quiet"
  <2>1. /\ q \in 1 .. n /\ \A i \in q .. n : raw[i] = "quiet"
        /\ q > 1 => raw[q - 1] # "quiet"
    <3>1. n \in Nat \ {0}
      BY <1>4
    <3> QED
      BY <1>1, <1>4, <3>1, QuietStartIs
  <2> HIDE DEF q
  <2>2. QuietStart(r2) = q
    <3>1. q \in 1 .. n + 1 /\ (q > 1 => q - 1 \in 1 .. n)
      BY <2>1
    <3>2. \A i \in q .. n + 1 : i = n + 1 \/ (i \in q .. n /\ i \in 1 .. n)
      BY <2>1
    <3>3. \A i \in q .. n + 1 : r2[i] = "quiet"
      BY <1>1, <2>1, <3>2
    <3>4. q > 1 => r2[q - 1] # "quiet"
      BY <1>1, <2>1, <3>1
    <3> QED
      BY <1>3, <3>1, <3>3, <3>4
  <2>3. QuietSince(raw, t) = M!UpTo(SERVER_DONE_QUIET, t[n] - t[q])
    BY <1>4 DEF QuietSince, q
  <2>4. t[n] \in Int /\ t[q] \in Int /\ t2[q] = t[q] /\ t[q] <= t[n] /\ t[n] <= u
    <3>1. n \in 1 .. n /\ (q = n \/ q < n)
      BY <1>4, <2>1
    <3>2. t[n] \in Int /\ t[q] \in Int
      BY <1>1, <2>1, <3>1
    <3>3. q < n => t[q] <= t[n]
      BY <2>1, <3>1
    <3> QED
      BY <1>1, <1>4, <2>1, <3>1, <3>2, <3>3
  <2>5. M!UpTo(SERVER_DONE_QUIET, M!UpTo(SERVER_DONE_QUIET, t[n] - t[q]) + (u - t[n]))
          = M!UpTo(SERVER_DONE_QUIET, (t[n] - t[q]) + (u - t[n]))
    <3>1. t[n] - t[q] \in Int /\ u - t[n] \in Nat
      BY <2>4
    <3> QED
      BY <1>1, <3>1, CappedAdds
  <2>6. (t[n] - t[q]) + (u - t[n]) = u - t[q]
    BY <2>4
  <2>7. QuietSince(raw, t) # M!NotQuiet
    <3>1. t[n] - t[q] \in Nat /\ M!NotQuiet = -1
      BY <2>4 DEF M!NotQuiet
    <3> QED
      BY <1>1, <2>3, <3>1 DEF M!UpTo
  <2> QED
    BY <1>4, <2>2, <2>3, <2>4, <2>5, <2>6, <2>7
<1>5. CASE ~(n > 0 /\ raw[n] = "quiet")
  <2>1. QuietSince(raw, t) = M!NotQuiet \/ ~(n > 0)
    BY <1>5 DEF QuietSince
  <2>2. QuietStart(r2) = n + 1
    <3>1. n + 1 \in 1 .. n + 1 /\ (n + 1 > 1 => n > 0 /\ (n + 1) - 1 = n /\ n \in 1 .. n)
      OBVIOUS
    <3>2. \A i \in n + 1 .. n + 1 : i = n + 1
      OBVIOUS
    <3>3. n + 1 > 1 => r2[(n + 1) - 1] # "quiet"
      BY <1>1, <1>5, <3>1
    <3> QED
      BY <1>1, <1>3, <3>1, <3>2, <3>3
  <2>3. M!UpTo(SERVER_DONE_QUIET, u - u) = 0
    BY <1>1 DEF M!UpTo
  <2> QED
    BY <1>1, <2>1, <2>2, <2>3
<1> QED
  BY <1>4, <1>5

(* Samples whose two dates agree. *)
PromptSamples ==
  {row \in Samples : EventTimestamp(row) = row.received_at /\ EventTimestamp(row) \in Nat}

(* The lists drawn from a segment grow with it. *)
LEMMA ListsGrow ==
  ASSUME NEW seg \in Seq(PromptSamples), NEW x \in PromptSamples
  PROVE  /\ ReadingsIn(seg) \in Seq(Reading) /\ Len(ReadingsIn(seg)) = Len(seg)
         /\ RawIn(seg) \in Seq(Phases) /\ Len(RawIn(seg)) = Len(seg)
         /\ TimesIn(seg) \in Seq(Int) /\ Len(TimesIn(seg)) = Len(seg)
         /\ RawPhase(x.event.reading) \in Phases /\ x.event.reading \in Reading
         /\ ReadingsIn(Append(seg, x)) = Append(ReadingsIn(seg), x.event.reading)
         /\ RawIn(Append(seg, x)) = Append(RawIn(seg), RawPhase(x.event.reading))
         /\ TimesIn(Append(seg, x)) = Append(TimesIn(seg), EventTimestamp(x))
<1> DEFINE n == Len(seg)
           new == Append(seg, x)
<1>1. \A row \in PromptSamples :
        /\ row.event.reading \in Reading /\ RawPhase(row.event.reading) \in Phases
        /\ EventTimestamp(row) \in Int
  <2> TAKE row \in PromptSamples
  <2>1. row.event \in DeviceEvents /\ EventTimestamp(row) \in Nat
    BY DEF PromptSamples, Samples, SampleEvents
  <2>2. row.event.reading \in Reading
    BY <2>1 DEF DeviceEvents
  <2>3. RawPhase(row.event.reading) \in Phases
    BY DEF RawPhase, ClassifySums, Phases
  <2> QED
    BY <2>1, <2>2, <2>3
<1>2. /\ n \in Nat /\ Len(new) = n + 1 /\ new[n + 1] = x
      /\ \A i \in 1 .. n : new[i] = seg[i] /\ seg[i] \in PromptSamples
  OBVIOUS
<1>3. \A i \in 1 .. n + 1 : i \in 1 .. n \/ i = n + 1
  BY <1>2
<1> HIDE DEF new, n
<1>4. /\ ReadingsIn(seg) = [i \in 1 .. n |-> seg[i].event.reading]
      /\ RawIn(seg) = [i \in 1 .. n |-> RawPhase(seg[i].event.reading)]
      /\ TimesIn(seg) = [i \in 1 .. n |-> EventTimestamp(seg[i])]
      /\ ReadingsIn(new) = [i \in 1 .. n + 1 |-> new[i].event.reading]
      /\ RawIn(new) = [i \in 1 .. n + 1 |-> RawPhase(new[i].event.reading)]
      /\ TimesIn(new) = [i \in 1 .. n + 1 |-> EventTimestamp(new[i])]
  BY <1>2 DEF n, ReadingsIn, RawIn, TimesIn
<1>5. /\ ReadingsIn(seg) \in Seq(Reading) /\ Len(ReadingsIn(seg)) = n
      /\ RawIn(seg) \in Seq(Phases) /\ Len(RawIn(seg)) = n
      /\ TimesIn(seg) \in Seq(Int) /\ Len(TimesIn(seg)) = n
  <2>1. \A i \in 1 .. n : /\ seg[i].event.reading \in Reading
                          /\ RawPhase(seg[i].event.reading) \in Phases
                          /\ EventTimestamp(seg[i]) \in Int
    BY <1>1, <1>2
  <2> QED
    BY <1>2, <1>4, <2>1
<1>6. ReadingsIn(new) = Append(ReadingsIn(seg), x.event.reading)
  BY <1>1, <1>2, <1>3, <1>4, <1>5
<1>7. RawIn(new) = Append(RawIn(seg), RawPhase(x.event.reading))
  BY <1>1, <1>2, <1>3, <1>4, <1>5
<1>8. TimesIn(new) = Append(TimesIn(seg), EventTimestamp(x))
  BY <1>1, <1>2, <1>3, <1>4, <1>5
<1> QED
  BY <1>1, <1>5, <1>6, <1>7, <1>8 DEF n, new

(* ActiveIndexes: a sample received after every completion adds itself, and nothing else changes. *)
LEMMA ActiveGrows ==
  ASSUME NEW seg \in Seq(PromptSamples), NEW x \in PromptSamples, NEW done, ReceivedAfter(x, done)
  PROVE  /\ ActiveIn(seg, done) \in SUBSET (1 .. Len(seg))
         /\ ActiveIn(Append(seg, x), done) =
              ActiveIn(seg, done)
              \cup (IF SmoothedPhase(ReadingsIn(Append(seg, x)), Len(seg) + 1) = "active"
                    THEN {Len(seg) + 1} ELSE {})
<1> DEFINE n == Len(seg)
           new == Append(seg, x)
           readings == ReadingsIn(seg)
           more == ReadingsIn(new)
           on == SmoothedPhase(more, n + 1) = "active"
<1>1. /\ n \in Nat /\ Len(new) = n + 1 /\ new[n + 1] = x
      /\ \A i \in 1 .. n : new[i] = seg[i]
  OBVIOUS
<1>2. /\ readings \in Seq(Reading) /\ Len(readings) = n /\ x.event.reading \in Reading
      /\ more = Append(readings, x.event.reading)
  BY ListsGrow
<1>3. Len(more) = n + 1
  <2> HIDE DEF readings, more
  <2> QED
    BY <1>2
<1>4. \A i \in 1 .. n : SmoothedPhase(more, i) = SmoothedPhase(readings, i)
  <2> HIDE DEF readings, more
  <2> QED
    BY <1>2, PhasesStay
<1>5. ActiveIn(seg, done) =
        {i \in 1 .. n : SmoothedPhase(readings, i) = "active" /\ ReceivedAfter(seg[i], done)}
  <2> HIDE DEF readings
  <2>1. SmoothedPhases(readings) = [i \in 1 .. n |-> SmoothedPhase(readings, i)]
    BY <1>2 DEF SmoothedPhases
  <2>2. ActiveIn(seg, done) = ActiveIndexes(seg, SmoothedPhases(readings), done)
    BY DEF ActiveIn, readings
  <2> QED
    BY <2>1, <2>2 DEF ActiveIndexes
<1>6. ActiveIn(new, done) =
        {i \in 1 .. n + 1 : SmoothedPhase(more, i) = "active" /\ ReceivedAfter(new[i], done)}
  <2> HIDE DEF more, new
  <2>1. SmoothedPhases(more) = [i \in 1 .. n + 1 |-> SmoothedPhase(more, i)]
    BY <1>3 DEF SmoothedPhases
  <2>2. ActiveIn(new, done) = ActiveIndexes(new, SmoothedPhases(more), done)
    BY DEF ActiveIn, more
  <2> QED
    BY <1>1, <2>1, <2>2 DEF ActiveIndexes
<1> HIDE DEF n, new, readings, more
<1>7. \A i \in 1 .. n + 1 : i \in 1 .. n \/ i = n + 1
  BY <1>1
<1>8. n + 1 \in 1 .. n + 1 /\ 1 .. n \subseteq 1 .. n + 1
  BY <1>1
<1>9. ActiveIn(new, done) = ActiveIn(seg, done) \cup (IF on THEN {n + 1} ELSE {})
  BY <1>1, <1>4, <1>5, <1>6, <1>7, <1>8
<1> QED
  BY <1>5, <1>9 DEF n, new, more

(* The conditions of LoadCompleted, the id of the sample left out. *)
Stopped(seg, active) ==
  LET n == Len(seg)
  IN  /\ n >= SERVER_CLASSIFIER_SMOOTHING_SAMPLES
      /\ SmoothedPhase(ReadingsIn(seg), n) = "quiet" /\ RawIn(seg)[n] = "quiet"
      /\ active # {}
      /\ TimesIn(seg)[n] - TimesIn(seg)[QuietStart(RawIn(seg))] >= SERVER_DONE_QUIET
      /\ ActiveTime(seg, active) >= SERVER_MINIMUM_RUNTIME

(* Without an active sample there is no active time. *)
LEMMA NothingActive ==
  ASSUME NEW seg \in Seq(PromptSamples)
  PROVE  ActiveTime(seg, {}) = 0
<1> DEFINE n == Len(seg)
           s == [i \in 1 .. n |-> 0]
<1>1. ActiveTime(seg, {}) = SumOf(s)
  BY DEF ActiveTime
<1>2. n \in Nat /\ s \in Seq(Int) /\ Len(s) = n
  OBVIOUS
<1>3. PICK f \in [0 .. n -> Int] :
        f[0] = 0 /\ (\A i \in 1 .. n : f[i] = f[i - 1] + s[i]) /\ SumOf(s) = f[n]
  <2> HIDE DEF s
  <2> QED
    BY <1>2, SumsUp
<1>4. \A i \in 1 .. n : f[i] = f[i - 1]
  <2> TAKE i \in 1 .. n
  <2>1. i - 1 \in 0 .. n /\ s[i] = 0
    OBVIOUS
  <2> QED
    BY <1>3, <2>1
<1> DEFINE S == {i \in Nat : i \in 0 .. n => f[i] = 0}
<1>5. 0 \in S
  BY <1>3
<1>6. ASSUME NEW i \in Nat, i \in S
      PROVE  i + 1 \in S
  <2> SUFFICES ASSUME i + 1 \in 0 .. n
               PROVE  f[i + 1] = 0
    OBVIOUS
  <2>1. i + 1 \in 1 .. n /\ i \in 0 .. n /\ (i + 1) - 1 = i
    BY <1>2
  <2> QED
    BY <1>4, <1>6, <2>1
<1> HIDE DEF S
<1>7. Nat \subseteq S
  BY <1>5, <1>6, Induction
<1>8. f[n] = 0
  BY <1>2, <1>7 DEF S
<1> QED
  BY <1>1, <1>3, <1>8

(* The monitor reads a sample as the relay does. *)
LEMMA SameClassifier ==
  /\ \A r : M!RawPhase(r) = RawPhase(r) /\ M!NoEvidence(r) = NoEvidence(r)
  /\ \A c : M!ChunkPhase(c) = ChunkPhase(c)
<1>1. \A a, b, n : M!ClassifySums(a, b, n) = ClassifySums(a, b, n)
  BY DEF M!ClassifySums, ClassifySums
<1>2. \A r : M!RawPhase(r) = RawPhase(r)
  BY <1>1 DEF M!RawPhase, RawPhase, M!MotionValuesValid, MotionValuesValid
<1>3. \A r : M!NoEvidence(r) = NoEvidence(r)
  BY <1>2 DEF M!NoEvidence, NoEvidence
<1>4. \A f : M!SumOf(f) = SumOf(f)
  BY DEF M!SumOf, SumOf
<1>5. \A c : M!ChunkPhase(c) = ChunkPhase(c)
  BY <1>1, <1>4 DEF M!ChunkPhase, ChunkPhase
<1> QED
  BY <1>2, <1>3, <1>5

(* What the monitor would remember of an empty segment. *)
LEMMA EmptySegment ==
  /\ M!UpTo(SERVER_CLASSIFIER_SMOOTHING_SAMPLES, Len(<<>>)) = 0
  /\ Reachable(ReadingsIn(<<>>)) = <<>>
  /\ QuietSince(RawIn(<<>>), TimesIn(<<>>)) = M!NotQuiet
  /\ SERVER_MINIMUM_RUNTIME > 0 => M!UpTo(SERVER_MINIMUM_RUNTIME, ActiveTime(<<>>, {})) = 0
<1>1. <<>> \in Seq(PromptSamples) /\ Len(<<>>) = 0
  OBVIOUS
<1>2. M!UpTo(SERVER_CLASSIFIER_SMOOTHING_SAMPLES, 0) = 0
  BY ClassifierAssumption DEF M!UpTo
<1>3. Reachable(ReadingsIn(<<>>)) = <<>>
  <2>1. ReadingsIn(<<>>) \in Seq(Reading) /\ Len(ReadingsIn(<<>>)) = 0
    BY <1>1 DEF ReadingsIn
  <2> DEFINE none == ReadingsIn(<<>>)
             c == ChunkStart(none, 0 + 1)
  <2> HIDE DEF none
  <2>2. c \in 1 .. 0 + 1
    BY <2>1, NextChunk DEF none
  <2>3. Reachable(none) = SubSeq(none, c, 0)
    BY <2>1 DEF Reachable, none
  <2> HIDE DEF c
  <2>4. c \in Int /\ 0 < c
    BY <2>2
  <2> QED
    BY <2>3, <2>4, SubSeqEmpty DEF none
<1>4. Len(RawIn(<<>>)) = 0
  BY <1>1 DEF RawIn
<1>5. QuietSince(RawIn(<<>>), TimesIn(<<>>)) = M!NotQuiet
  BY <1>4 DEF QuietSince
<1>6. SERVER_MINIMUM_RUNTIME > 0 => M!UpTo(SERVER_MINIMUM_RUNTIME, ActiveTime(<<>>, {})) = 0
  <2>1. ActiveTime(<<>>, {}) = 0
    BY <1>1, NothingActive
  <2> QED
    BY <2>1, RelayAssumption DEF M!UpTo
<1> QED
  BY <1>1, <1>2, <1>3, <1>5, <1>6

(* What a sample adds to the active time, as ActiveTimeGrows says. *)
TimeAdds(seg, x, active, on) ==
  /\ ActiveTime(seg, active) \in Int
  /\ ActiveTime(Append(seg, x), active \cup (IF on THEN {Len(seg) + 1} ELSE {})) =
       ActiveTime(seg, active)
       + (IF on /\ Len(seg) \in active
          THEN EventTimestamp(x) - EventTimestamp(seg[Len(seg)]) ELSE 0)

(* It holds of samples that were received when they were taken. *)
LEMMA ActivePromptTimeGrows ==
  ASSUME NEW seg \in Seq(PromptSamples), NEW x \in PromptSamples,
         NEW active \in SUBSET (1 .. Len(seg)), NEW on \in BOOLEAN
  PROVE  TimeAdds(seg, x, active, on)
<1>1. \A row \in PromptSamples : EventTimestamp(row) \in Int
  BY DEF PromptSamples
<1> QED
  BY <1>1, ActiveTimeGrows DEF TimeAdds

(* The segment and its active samples when sample x comes, in step or not. *)
Grown(seg, x, go) == Append(IF go THEN seg ELSE <<>>, x)

GrownActive(seg, active, x, go) ==
  (IF go THEN active ELSE {})
  \cup (IF SmoothedPhase(ReadingsIn(Grown(seg, x, go)), Len(Grown(seg, x, go))) = "active"
        THEN {Len(Grown(seg, x, go))} ELSE {})

(***************************************************************************)
(* What the monitor holds at a sample that ends a segment: the summary of  *)
(* it, the alert on which LoadCompleted decides, and after an alert        *)
(* nothing of the motion.                                                  *)
(***************************************************************************)
Reads(seg, acts) ==
  /\ seen' = M!UpTo(SERVER_CLASSIFIER_SMOOTHING_SAMPLES, Len(seg))
  /\ chunk' = Reachable(ReadingsIn(seg))
  /\ counted' \in BOOLEAN /\ (counted' <=> Len(seg) \in acts)
  /\ quiet_for' = QuietSince(RawIn(seg), TimesIn(seg))
  /\ last' = LastIn(seg)
  /\ alert' <=> Stopped(seg, acts)
  /\ active_time' = IF Stopped(seg, acts) THEN 0
                    ELSE M!UpTo(SERVER_MINIMUM_RUNTIME, ActiveTime(seg, acts))
  /\ Stopped(seg, acts) => ~counted'

LEMMA MonitorStep ==
  ASSUME SERVER_MINIMUM_RUNTIME > 0,
         NEW seg \in Seq(PromptSamples), NEW active \in SUBSET (1 .. Len(seg)),
         Summarises(seg, active),
         \A i, j \in 1 .. Len(seg) : i < j => EventTimestamp(seg[i]) <= EventTimestamp(seg[j]),
         NEW x \in PromptSamples,
         Len(seg) > 0 => EventTimestamp(seg[Len(seg)]) < EventTimestamp(x),
         ShowMonitor(x),
         NEW go \in BOOLEAN, go <=> Len(seg) > 0 /\ Continues(seg[Len(seg)], x)
  PROVE  Reads(Grown(seg, x, go), GrownActive(seg, active, x, go))
<1> DEFINE old == IF go THEN seg ELSE <<>>
           act == IF go THEN active ELSE {}
           new == Append(old, x)
<1>1. PICK on \in BOOLEAN : on <=> SmoothedPhase(ReadingsIn(new), Len(old) + 1) = "active"
  <2>1. CASE SmoothedPhase(ReadingsIn(new), Len(old) + 1) = "active"
    BY <2>1
  <2>2. CASE SmoothedPhase(ReadingsIn(new), Len(old) + 1) # "active"
    BY <2>2
  <2> QED
    BY <2>1, <2>2
<1> DEFINE acts == act \cup (IF on THEN {Len(old) + 1} ELSE {})
<1>2. /\ old = (IF go THEN seg ELSE <<>>) /\ act = (IF go THEN active ELSE {})
      /\ new = Append(old, x)
      /\ acts = act \cup (IF on THEN {Len(old) + 1} ELSE {})
  OBVIOUS
<1>3. Grown(seg, x, go) = new /\ GrownActive(seg, active, x, go) = acts
  <2>1. old \in Seq(PromptSamples)
    OBVIOUS
  <2> HIDE DEF old
  <2>2. Len(new) = Len(old) + 1
    BY <2>1
  <2>3. Grown(seg, x, go) = new
    BY DEF Grown, old
  <2> HIDE DEF new
  <2> QED
    BY <1>1, <2>2, <2>3 DEF GrownActive
<1> USE <1>1, <1>2
<1> HIDE DEF old, act, new, acts
<1> DEFINE K == SERVER_CLASSIFIER_SMOOTHING_SAMPLES
           MR == SERVER_MINIMUM_RUNTIME
           n == Len(seg)
           k == Len(old)
           at == EventTimestamp(x)
           r == x.event.reading
           same == /\ x.event.cycle_id = last.cycle_id
                   /\ x.event.uptime >= last.uptime
           step == at - last.at
           continues == same /\ seen > 0 /\ 0 < step /\ step <= SERVER_MAX_SAMPLE_GAP
           averaged == Append(IF continues THEN chunk ELSE <<>>, r)
           phase == IF NoEvidence(r) THEN RawPhase(r) ELSE ChunkPhase(averaged)
           is_active == phase = "active"
           earned == IF ~continues THEN 0
                     ELSE IF is_active /\ counted THEN M!UpTo(MR, active_time + step)
                     ELSE active_time
           quiet == IF RawPhase(r) # "quiet" THEN M!NotQuiet
                    ELSE IF continues /\ quiet_for # M!NotQuiet
                         THEN M!UpTo(SERVER_DONE_QUIET, quiet_for + step)
                    ELSE 0
           enough == M!UpTo(K, IF continues THEN seen + 1 ELSE 1)
           stopped == /\ enough = K /\ phase = "quiet"
                      /\ quiet >= SERVER_DONE_QUIET /\ earned >= MR
<1>4. /\ seen' = enough
      /\ chunk' = IF NoEvidence(r) THEN <<>> ELSE M!LastOf(averaged, K - 1)
      /\ quiet_for' = quiet
      /\ alert' <=> stopped
      /\ active_time' = IF stopped THEN 0 ELSE earned
      /\ counted' \in BOOLEAN /\ (counted' <=> is_active)
      /\ last' = [cycle_id |-> x.event.cycle_id, uptime |-> x.event.uptime, at |-> at]
  <2>1. /\ M!Receive(same, step, r)
        /\ last' = [cycle_id |-> x.event.cycle_id, uptime |-> x.event.uptime, at |-> at]
    BY DEF ShowMonitor
  <2> HIDE DEF same, step, r, K, MR
  <2>2. M!NoEvidence(r) = NoEvidence(r) /\ M!RawPhase(r) = RawPhase(r)
    BY SameClassifier
  <2>3. M!ChunkPhase(averaged) = ChunkPhase(averaged)
    BY SameClassifier
  <2> DEFINE phase_M == IF M!NoEvidence(r) THEN M!RawPhase(r) ELSE M!ChunkPhase(averaged)
             quiet_M == IF M!RawPhase(r) # "quiet" THEN M!NotQuiet
                        ELSE IF continues /\ quiet_for # M!NotQuiet
                             THEN M!UpTo(SERVER_DONE_QUIET, quiet_for + step)
                        ELSE 0
  <2>4. phase_M = phase /\ quiet_M = quiet
    BY <2>2, <2>3
  <2> DEFINE earned_M == IF ~continues THEN 0
                         ELSE IF phase_M = "active" /\ counted
                              THEN M!UpTo(MR, active_time + step)
                         ELSE active_time
             stopped_M == /\ enough = K /\ phase_M = "quiet"
                          /\ quiet_M >= SERVER_DONE_QUIET /\ earned_M >= MR
  <2>5. /\ seen' = enough
        /\ chunk' = IF M!NoEvidence(r) THEN <<>> ELSE M!LastOf(averaged, K - 1)
        /\ quiet_for' = quiet_M
        /\ alert' = stopped_M
        /\ active_time' = IF stopped_M THEN 0 ELSE earned_M
        /\ counted' = (phase_M = "active")
    BY <2>1 DEF M!Receive, K, MR
  <2> HIDE DEF phase_M, quiet_M, phase, quiet, averaged, enough
  <2>6. (alert' <=> stopped) /\ active_time' = (IF stopped THEN 0 ELSE earned)
    BY <2>4, <2>5
  <2>7. counted' \in BOOLEAN /\ (counted' <=> is_active)
    BY <2>4, <2>5
  <2> QED
    BY <2>1, <2>2, <2>4, <2>5, <2>6, <2>7
<1>5. /\ K \in Nat \ {0} /\ MR \in Nat /\ MR > 0 /\ SERVER_DONE_QUIET \in Nat
      /\ n \in Nat /\ at \in Nat
  BY ClassifierAssumption, RelayAssumption DEF PromptSamples
<1>6. /\ seen = M!UpTo(K, n)
      /\ chunk = Reachable(ReadingsIn(seg))
      /\ counted \in BOOLEAN /\ (counted <=> n \in active)
      /\ active_time = M!UpTo(MR, ActiveTime(seg, active))
      /\ quiet_for = QuietSince(RawIn(seg), TimesIn(seg))
      /\ last = LastIn(seg)
  BY DEF Summarises
<1>7. seen > 0 <=> n > 0
  BY <1>5, <1>6 DEF M!UpTo
<1>8. n > 0 => /\ seg[n] \in PromptSamples
               /\ last.at = EventTimestamp(seg[n]) /\ last.cycle_id = seg[n].event.cycle_id
               /\ last.uptime = seg[n].event.uptime
               /\ last.at \in Nat /\ last.at < at
  <2> SUFFICES ASSUME n > 0
               PROVE  /\ seg[n] \in PromptSamples
                      /\ last.at = EventTimestamp(seg[n])
                      /\ last.cycle_id = seg[n].event.cycle_id
                      /\ last.uptime = seg[n].event.uptime
                      /\ last.at \in Nat /\ last.at < at
    OBVIOUS
  <2>1. n \in 1 .. n /\ n # 0
    BY <1>5
  <2>2. seg[n] \in PromptSamples
    BY <2>1
  <2>3. last = [cycle_id |-> seg[n].event.cycle_id, uptime |-> seg[n].event.uptime,
                at |-> EventTimestamp(seg[n])]
    BY <1>6, <2>1 DEF LastIn
  <2>4. EventTimestamp(seg[n]) \in Nat
    BY <2>2 DEF PromptSamples
  <2> QED
    BY <2>2, <2>3, <2>4
<1>9. continues <=> go
  <2>1. n > 0 => (Continues(seg[n], x) <=>
                    /\ x.event.cycle_id = seg[n].event.cycle_id
                    /\ x.event.uptime >= seg[n].event.uptime
                    /\ 0 < at - EventTimestamp(seg[n])
                    /\ at - EventTimestamp(seg[n]) <= SERVER_MAX_SAMPLE_GAP)
    <3>1. x.received_at = at
      BY DEF PromptSamples
    <3>2. n > 0 => seg[n].received_at = EventTimestamp(seg[n])
      BY <1>8 DEF PromptSamples
    <3> QED
      BY <3>1, <3>2 DEF Continues
  <2> HIDE DEF at, n
  <2> QED
    BY <1>7, <1>8, <2>1 DEF n
<1>10. /\ old \in Seq(PromptSamples) /\ act \in SUBSET (1 .. k) /\ k \in Nat
       /\ k = (IF go THEN n ELSE 0)
  BY <1>5
<1>11. /\ (IF continues THEN seen ELSE 0) = M!UpTo(K, k)
       /\ (IF continues THEN chunk ELSE <<>>) = Reachable(ReadingsIn(old))
       /\ (continues /\ counted) <=> k \in act
       /\ (IF continues THEN active_time ELSE 0) = M!UpTo(MR, ActiveTime(old, act))
       /\ (IF continues THEN quiet_for ELSE M!NotQuiet) = QuietSince(RawIn(old), TimesIn(old))
  <2> HIDE DEF continues
  <2>1. CASE go
    BY <1>6, <1>9, <2>1
  <2>2. CASE ~go
    <3>1. old = <<>> /\ act = {} /\ ~continues
      BY <1>9, <2>2
    <3> QED
      BY <1>5, <3>1, EmptySegment
  <2> QED
    BY <2>1, <2>2
<1>12. k > 0 => continues /\ last.at = EventTimestamp(old[k]) /\ step \in Nat
  BY <1>5, <1>8, <1>9, <1>10
<1>13. /\ ReadingsIn(old) \in Seq(Reading) /\ Len(ReadingsIn(old)) = k
       /\ RawIn(old) \in Seq(Phases) /\ Len(RawIn(old)) = k
       /\ TimesIn(old) \in Seq(Int) /\ Len(TimesIn(old)) = k
       /\ RawPhase(r) \in Phases /\ r \in Reading
       /\ ReadingsIn(new) = Append(ReadingsIn(old), r)
       /\ RawIn(new) = Append(RawIn(old), RawPhase(r))
       /\ TimesIn(new) = Append(TimesIn(old), at)
  BY <1>10, ListsGrow
<1>14. Len(new) = k + 1 /\ new[k + 1] = x /\ k + 1 # 0
  BY <1>10
<1> HIDE DEF continues, K, MR, n, at, r, k, step
<1>15. averaged = Append(Reachable(ReadingsIn(old)), r)
  BY <1>11
<1>16. /\ Reachable(ReadingsIn(new)) = IF NoEvidence(r) THEN <<>> ELSE M!LastOf(averaged, K - 1)
       /\ SmoothedPhase(ReadingsIn(new), k + 1) = phase
  BY <1>13, <1>15, ReachableGrows DEF K
<1>17. is_active <=> on
  BY <1>16 DEF k
<1>18. acts = act \cup (IF on THEN {k + 1} ELSE {}) /\ on \in BOOLEAN /\ k + 1 \notin act
  BY <1>10 DEF k
<1>19. Len(new) \in acts <=> is_active
  <2>1. k + 1 \in acts <=> on
    <3> HIDE DEF is_active
    <3> QED
      BY <1>18
  <2> QED
    BY <1>14, <1>17, <2>1
<1>20. enough = M!UpTo(K, Len(new))
  <2>1. M!UpTo(K, k + 1) = M!UpTo(K, M!UpTo(K, k) + 1)
    <3>1. K \in Nat /\ k \in Int /\ 1 \in Nat
      BY <1>5, <1>10
    <3> QED
      BY <3>1, CappedAdds
  <2>2. (IF continues THEN seen + 1 ELSE 1) = (IF continues THEN seen ELSE 0) + 1
    OBVIOUS
  <2> QED
    BY <1>11, <1>14, <2>1, <2>2
<1> HIDE DEF averaged, phase
<1>21. earned = M!UpTo(MR, ActiveTime(new, acts))
  <2>1. /\ ActiveTime(old, act) \in Int
        /\ ActiveTime(new, acts) =
             ActiveTime(old, act)
             + (IF on /\ k \in act THEN at - EventTimestamp(old[k]) ELSE 0)
    <3>1. old \in Seq(PromptSamples) /\ act \in SUBSET (1 .. Len(old)) /\ on \in BOOLEAN
          /\ x \in PromptSamples
      BY <1>10, <1>18 DEF k
    <3> HIDE DEF earned
    <3>2. TimeAdds(old, x, act, on)
      BY <3>1, ActivePromptTimeGrows
    <3>3. ActiveTime(new, acts) =
            ActiveTime(old, act)
            + (IF on /\ Len(old) \in act
               THEN EventTimestamp(x) - EventTimestamp(old[Len(old)]) ELSE 0)
      BY <3>2 DEF TimeAdds
    <3> QED
      BY <3>2, <3>3 DEF k, at, TimeAdds
  <2>2. k \in act => k > 0
    BY <1>10
  <2>3. CASE on /\ k \in act
    <3>1. continues /\ counted /\ is_active /\ step = at - EventTimestamp(old[k]) /\ step \in Nat
      BY <1>11, <1>12, <1>17, <2>2, <2>3 DEF step
    <3>2. earned = M!UpTo(MR, M!UpTo(MR, ActiveTime(old, act)) + step)
      BY <1>11, <3>1
    <3>3. ActiveTime(new, acts) = ActiveTime(old, act) + step
      BY <2>1, <2>3, <3>1
    <3>4. M!UpTo(MR, M!UpTo(MR, ActiveTime(old, act)) + step)
            = M!UpTo(MR, ActiveTime(old, act) + step)
      <4>1. MR \in Nat /\ ActiveTime(old, act) \in Int /\ step \in Nat
        BY <1>5, <2>1, <3>1
      <4> HIDE DEF MR, old, act, step
      <4> QED
        BY <4>1, CappedAdds
    <3> HIDE DEF earned, step, old, new, act, acts
    <3>5. M!UpTo(MR, ActiveTime(new, acts)) = M!UpTo(MR, ActiveTime(old, act) + step)
      BY <3>3, Zenon
    <3> QED
      BY <3>2, <3>4, <3>5, Zenon
  <2>4. CASE ~(on /\ k \in act)
    <3>1. earned = IF continues THEN active_time ELSE 0
      BY <1>11, <1>17, <2>4
    <3>2. ActiveTime(new, acts) = ActiveTime(old, act)
      BY <2>1, <2>4
    <3> QED
      BY <1>11, <3>1, <3>2
  <2> QED
    BY <2>3, <2>4
<1>22. quiet = QuietSince(RawIn(new), TimesIn(new))
  <2> DEFINE raw == RawIn(old)
             t == TimesIn(old)
             since == QuietSince(raw, t)
  <2>1. \A i \in 1 .. k : t[i] = EventTimestamp(old[i])
    BY DEF TimesIn, k
  <2>2. \A i, j \in 1 .. k : i < j => t[i] <= t[j]
    BY <1>10, <2>1 DEF n
  <2>3. k > 0 => t[k] = last.at /\ t[k] <= at /\ step = at - t[k]
    <3> SUFFICES ASSUME k > 0
                 PROVE  t[k] = last.at /\ t[k] <= at /\ step = at - t[k]
      OBVIOUS
    <3>1. k \in 1 .. k /\ n > 0
      BY <1>10
    <3>2. t[k] = last.at
      BY <1>12, <2>1, <3>1
    <3> QED
      BY <1>5, <1>8, <3>1, <3>2 DEF step
  <2>4. since = IF continues THEN quiet_for ELSE M!NotQuiet
    BY <1>11
  <2>5. continues => k > 0
    BY <1>7, <1>9, <1>10 DEF continues
  <2> HIDE DEF raw, t
  <2>6. QuietSince(Append(raw, RawPhase(r)), Append(t, at)) =
          IF RawPhase(r) # "quiet" THEN M!NotQuiet
          ELSE IF k > 0 /\ since # M!NotQuiet
               THEN M!UpTo(SERVER_DONE_QUIET, since + (at - t[k])) ELSE 0
    <3>1. /\ raw \in Seq(Phases) /\ Len(raw) = k /\ t \in Seq(Int) /\ Len(t) = k
          /\ RawPhase(r) \in Phases /\ at \in Int /\ k \in Nat
      BY <1>5, <1>10, <1>13 DEF raw, t
    <3>2. k > 0 => t[k] <= at
      BY <2>3
    <3> QED
      BY <2>2, <3>1, <3>2, QuietGrows
  <2> HIDE DEF since
  <2>7. QuietSince(RawIn(new), TimesIn(new)) =
          IF RawPhase(r) # "quiet" THEN M!NotQuiet
          ELSE IF k > 0 /\ since # M!NotQuiet
               THEN M!UpTo(SERVER_DONE_QUIET, since + (at - t[k])) ELSE 0
    BY <1>13, <2>6 DEF raw, t
  <2> QED
    BY <2>3, <2>4, <2>5, <2>7
<1>23. stopped <=> Stopped(new, acts)
  <2> DEFINE raw == RawIn(new)
             t == TimesIn(new)
             d == t[k + 1] - t[QuietStart(raw)]
  <2>1. enough = K <=> Len(new) >= K
    BY <1>5, <1>10, <1>14, <1>20 DEF M!UpTo
  <2>2. Len(raw) = k + 1 /\ raw[k + 1] = RawPhase(r)
    BY <1>13
  <2>3. earned >= MR <=> ActiveTime(new, acts) >= MR
    BY <1>5, <1>21 DEF M!UpTo
  <2>4. ActiveTime(new, acts) >= MR => acts # {}
    <3>1. new \in Seq(PromptSamples)
      BY <1>10
    <3>2. ActiveTime(new, {}) = 0
      BY <3>1, NothingActive
    <3>3. ~(0 >= MR)
      BY <1>5
    <3>4. acts = {} => ActiveTime(new, acts) = 0
      BY <3>2
    <3> QED
      BY <3>3, <3>4
  <2>5. quiet >= SERVER_DONE_QUIET <=> raw[k + 1] = "quiet" /\ d >= SERVER_DONE_QUIET
    <3>1. quiet = IF raw[k + 1] # "quiet" THEN M!NotQuiet ELSE M!UpTo(SERVER_DONE_QUIET, d)
      <4> HIDE DEF quiet, raw
      <4> QED
        BY <1>14, <1>22, <2>2 DEF QuietSince, raw
    <3> HIDE DEF quiet, raw, d
    <3>2. CASE raw[k + 1] # "quiet"
      <4>1. quiet = -1
        BY <3>1, <3>2 DEF M!NotQuiet
      <4> QED
        BY <1>5, <3>2, <4>1
    <3>3. CASE raw[k + 1] = "quiet"
      <4>1. quiet = IF d >= SERVER_DONE_QUIET THEN SERVER_DONE_QUIET ELSE d
        BY <3>1, <3>3 DEF M!UpTo
      <4> QED
        BY <1>5, <3>3, <4>1
    <3> QED
      BY <3>2, <3>3
  <2>6. Stopped(new, acts) <=> /\ Len(new) >= K /\ phase = "quiet" /\ raw[k + 1] = "quiet"
                               /\ acts # {} /\ d >= SERVER_DONE_QUIET
                               /\ ActiveTime(new, acts) >= MR
    BY <1>14, <1>16 DEF Stopped, K, MR
  <2> HIDE DEF earned, enough, quiet, d, raw
  <2> QED
    BY <2>1, <2>3, <2>4, <2>5, <2>6 DEF Stopped
<1>24. Stopped(new, acts) => ~is_active
  BY <1>23
<1>25. last' = LastIn(new)
  BY <1>4, <1>14 DEF LastIn, at
<1> HIDE DEF enough, stopped, quiet, earned, is_active
<1>26. chunk' = Reachable(ReadingsIn(new))
  BY <1>4, <1>16
<1>27. Reads(new, acts)
  BY <1>4, <1>19, <1>20, <1>21, <1>22, <1>23, <1>24, <1>25, <1>26 DEF K, MR, Reads
<1> QED
  BY <1>3, <1>27

(* InStep, with the types of the rows and the truth of their dates. *)
InStepInv == CInv /\ InStep

(* While this holds the relay's pruning deletes nothing. *)
NothingExpires == clock <= EVENT_RETENTION

(* Every row is dated by its receipt, and none has expired. *)
LEMMA RowsArePrompt ==
  ASSUME OneAtATime, CInv
  PROVE  /\ clock \in Nat
         /\ \A row \in db : /\ row \in Rows /\ row.received_at \in Nat /\ row.received_at <= clock
                            /\ EventTimestamp(row) = row.received_at
         /\ NothingExpires => Unexpired(db) = db
<1>1. skew = 0 /\ MaxDelay = 0 /\ clock \in Nat
  BY DEF OneAtATime, CInv, TInv, Bounded, IInv, Typed
<1>2. ASSUME NEW row \in db
      PROVE  /\ row \in Rows /\ row.received_at \in Nat /\ row.received_at <= clock
             /\ EventTimestamp(row) = row.received_at
  <2>1. row \in Rows /\ row.received_at <= clock /\ ReceivedSoonAfter(row)
    BY DEF CInv, TInv, RowsTyped, DatesAreTrue
  <2>2. row.received_at \in Nat /\ row.event.device_time \in Int
    BY <2>1 DEF Rows, DeviceEvents, ServerEvents, NoTime
  <2> QED
    BY <1>1, <2>1, <2>2 DEF ReceivedSoonAfter, EventTimestamp
<1>3. NothingExpires => Unexpired(db) = db
  BY <1>1, <1>2, RelayAssumption DEF NothingExpires, Unexpired
<1> QED
  BY <1>1, <1>2, <1>3

(***************************************************************************)
(* What a request does when the relay neither fails nor forgets: its event *)
(* is a duplicate, or it is stored, and with a sample that completes a     *)
(* load the relay's completion.                                            *)
(***************************************************************************)
Taken(e) ==
  LET new  == Stored(e, clock)
      done == Stored(ServerDoneEvent(e), clock)
  IN  \/ EventId(e) \in StoredIds(db) /\ db' = db
      \/ EventId(e) \notin StoredIds(db) /\ e.state # "calibration_sample" /\ db' = db \cup {new}
      \/ /\ EventId(e) \notin StoredIds(db) /\ e.state = "calibration_sample"
         /\ ~ServerDone(db \cup {new}, e) /\ db' = db \cup {new}
      \/ /\ EventId(e) \notin StoredIds(db) /\ e.state = "calibration_sample"
         /\ ServerDone(db \cup {new}, e) /\ db' = db \cup {new, done}

(* Nothing has expired and nothing fails, so Receive does no more than that. *)
LEMMA RequestIsTaken ==
  ASSUME OneAtATime, InStepInv, NothingExpires, Receive
  PROVE  /\ clock' = clock /\ net' = {}
         /\ \E m \in net : m.event \in DeviceEvents /\ Taken(m.event)
<1>1. ~Faults
  BY DEF OneAtATime
<1>2. PICK m \in net : ReceiveEvent(m, FALSE, "ok")
  <2>1. PICK m \in net, kept \in (IF Faults THEN BOOLEAN ELSE {FALSE}), outcome \in Outcomes :
          ReceiveEvent(m, kept, outcome)
    BY DEF Receive
  <2>2. kept = FALSE /\ outcome = "ok"
    BY <1>1, <2>1 DEF Outcomes
  <2> QED
    BY <2>1, <2>2
<1>3. net' = {}
  BY <1>2 DEF ReceiveEvent, InStepInv, InStep
<1> DEFINE e         == m.event
           new       == Stored(e, clock)
           done      == Stored(ServerDoneEvent(e), clock)
           duplicate == EventId(e) \in StoredIds(db)
           with_e    == IF duplicate THEN db ELSE db \cup {new}
           sdone     == ServerDone(with_e, e)
           unknown   == EventId(ServerDoneEvent(e)) \notin StoredIds(with_e)
           decides   == ~duplicate /\ e.state = "calibration_sample" /\ sdone /\ unknown
<1>4. e \in DeviceEvents
  BY DEF InStepInv, CInv, TInv, IInv, Typed
<1>5. Unexpired(db) = db
  BY RowsArePrompt DEF InStepInv
<1>6. /\ clock' = clock
      /\ db' = with_e \cup (IF decides THEN {done} ELSE {})
  <2>1. "ok" # "dies"
    OBVIOUS
  <2> QED
    BY <1>2, <1>5, <2>1 DEF ReceiveEvent
<1>7. ~duplicate => unknown
  <2> SUFFICES ASSUME ~duplicate, NEW row \in db \cup {new},
                      EventId(row.event) = EventId(ServerDoneEvent(e))
               PROVE  FALSE
    BY DEF StoredIds
  <2>1. /\ EventId(ServerDoneEvent(e)) = <<"server", e.cycle_id, e.n>>
        /\ EventId(e) = <<"device", e.cycle_id, e.n>>
        /\ new.event = e
    BY <1>4 DEF EventId, ServerDoneEvent, DeviceEvents, Stored
  <2>2. /\ row.event.origin = "server" /\ row.event.cycle_id = e.cycle_id
        /\ row.event.n = e.n
    BY <2>1 DEF EventId
  <2>3. row # new
    BY <1>4, <2>1, <2>2 DEF DeviceEvents
  <2>4. PICK r \in db : EventId(r.event) = <<"device", row.event.cycle_id, row.event.n>>
    BY <2>2, <2>3 DEF InStepInv, InStep
  <2> QED
    BY <2>1, <2>2, <2>4 DEF StoredIds
<1>8. Taken(e)
  <2> HIDE DEF unknown, done, new, e
  <2>1. CASE duplicate
    <3>1. db' = db
      BY <1>6, <2>1
    <3> QED
      BY <2>1, <3>1 DEF Taken
  <2>2. CASE ~duplicate /\ e.state # "calibration_sample"
    <3>1. db' = db \cup {new}
      BY <1>6, <2>2
    <3> QED
      BY <2>2, <3>1 DEF Taken, new
  <2>3. CASE ~duplicate /\ e.state = "calibration_sample"
    <3>1. with_e = db \cup {new} /\ unknown
      BY <1>7, <2>3
    <3> HIDE DEF with_e
    <3>2. CASE ~sdone
      <4>1. db' = db \cup {new} /\ ~ServerDone(db \cup {new}, e)
        BY <1>6, <3>1, <3>2
      <4> QED
        BY <2>3, <4>1 DEF Taken, new
    <3>3. CASE sdone
      <4>1. db' = db \cup {new} \cup {done} /\ ServerDone(db \cup {new}, e)
        BY <1>6, <2>3, <3>1, <3>3
      <4>2. db' = db \cup {new, done}
        BY <4>1
      <4> QED
        BY <2>3, <4>1, <4>2 DEF Taken, new, done
    <3> QED
      BY <3>2, <3>3
  <2> QED
    BY <2>1, <2>2, <2>3
<1> QED
  BY <1>3, <1>4, <1>6, <1>8

(***************************************************************************)
(* A new request finds the network empty, so at most one is ever under way.*)
(***************************************************************************)
LEMMA OneRequest ==
  ASSUME OneAtATime, InStepInv, NEW e, NEW at, Send(e, at)
  PROVE  net' = {[event |-> e, sent |-> at]}
<1>1. UnderWay(at) \subseteq net /\ Cardinality(UnderWay(at)) < 1
  BY DEF Send, UnderWay, OneAtATime
<1>2. UnderWay(at) = {}
  <2> SUFFICES ASSUME NEW m \in UnderWay(at)
               PROVE  FALSE
    OBVIOUS
  <2>1. UnderWay(at) = {m}
    BY <1>1 DEF InStepInv, InStep
  <2>2. Cardinality({m}) = 1
    BY FS_Singleton
  <2> QED
    BY <1>1, <2>1, <2>2
<1> QED
  BY <1>2 DEF Send

(* InStep, with the types and dates of the rows, is an inductive invariant. *)
LEMMA InStepInit == Init => InStepInv
<1>1. Init => InStep
  BY DEF Init, InStep
<1> QED
  BY <1>1, DatesInit DEF InStepInv

LEMMA InStepStep ==
  ASSUME OneAtATime, InStepInv, NothingExpires, [Next]_vars
  PROVE  InStepInv'
<1> SUFFICES InStep'
  BY DatesStep DEF InStepInv
<1>1. CASE TakeSample
  <2>1. PICK r \in Readings, gap \in SampleGaps :
          /\ clock' = clock + gap
          /\ Send(Event("calibration_sample", r, clock + gap), clock + gap)
          /\ UNCHANGED <<skew, boot, booted, db, pushed>>
    BY <1>1 DEF TakeSample
  <2>2. gap \in Nat /\ gap > 0
    BY <2>1, RelayAssumption
  <2>3. \A l, m \in net' : l = m
    BY <2>1, OneRequest
  <2>4. \A row \in db' : row.received_at < clock'
    BY <2>1, <2>2, RowsArePrompt DEF InStepInv
  <2> QED
    BY <2>1, <2>3, <2>4 DEF InStepInv, InStep
<1>2. CASE SendOther
  <2>1. PICK st \in OtherEvents :
          /\ Send(Event(st, NoReading, clock), clock)
          /\ UNCHANGED <<clock, skew, boot, booted, synced, db, pushed>>
    BY <1>2 DEF SendOther
  <2>2. net' = {[event |-> Event(st, NoReading, clock), sent |-> clock]}
    BY <2>1, OneRequest
  <2>3. Event(st, NoReading, clock).state # "calibration_sample"
    BY <2>1, RelayAssumption DEF Event
  <2> QED
    BY <2>1, <2>2, <2>3 DEF InStepInv, InStep
<1>3. CASE Receive
  <2>1. net' = {}
    BY <1>3, RequestIsTaken
  <2>2. PICK m \in net : m.event \in DeviceEvents /\ Taken(m.event)
    BY <1>3, RequestIsTaken
  <2> DEFINE e == m.event
             new == Stored(e, clock)
             done == Stored(ServerDoneEvent(e), clock)
  <2>3. db' = db \/ db' = db \cup {new} \/ db' = db \cup {new, done}
    BY <2>2 DEF Taken
  <2>4. /\ new.event = e /\ done.event = ServerDoneEvent(e) /\ e.origin = "device"
        /\ EventId(e) = <<"device", e.cycle_id, e.n>>
        /\ ServerDoneEvent(e).cycle_id = e.cycle_id /\ ServerDoneEvent(e).n = e.n
    BY <2>2 DEF Stored, ServerDoneEvent, DeviceEvents, EventId
  <2>5. ASSUME NEW row \in db', row.event.origin = "server"
        PROVE  \E r \in db' : EventId(r.event) =
                                <<"device", row.event.cycle_id, row.event.n>>
    <3> HIDE DEF e, new, done
    <3>1. CASE row \in db
      <4>1. \E r \in db : EventId(r.event) = <<"device", row.event.cycle_id, row.event.n>>
        BY <2>5, <3>1 DEF InStepInv, InStep
      <4>2. db \subseteq db'
        BY <2>3
      <4> QED
        BY <4>1, <4>2
    <3>2. CASE row \notin db
      <4>1. row = done /\ new \in db'
        BY <2>3, <2>4, <2>5, <3>2
      <4> QED
        BY <2>4, <4>1
    <3> QED
      BY <3>1, <3>2
  <2> QED
    BY <2>1, <2>5 DEF InStep
<1>4. CASE ListEvents
  <2>1. db' = db /\ UNCHANGED <<clock, net>>
    BY <1>4, RowsArePrompt DEF ListEvents, InStepInv
  <2> QED
    BY <2>1 DEF InStepInv, InStep
<1>5. CASE Restart \/ UNCHANGED vars
  BY <1>5 DEF Restart, vars, InStepInv, InStep
<1> QED
  BY <1>1, <1>2, <1>3, <1>4, <1>5 DEF Next

----------------------------------------------------------------------------
(* The relay's decision, from the segment *)

(* A table whose rows are dated by their receipt. *)
Prompt(rows) ==
  /\ IsFiniteSet(rows) /\ UniqueIds(rows) /\ Unexpired(rows) = rows
  /\ \A row \in rows : /\ row \in Rows /\ row.received_at \in Nat
                       /\ EventTimestamp(row) = row.received_at

(* The events table is one. *)
LEMMA PromptTable ==
  ASSUME OneAtATime, CInv, NothingExpires
  PROVE  Prompt(db)
BY RowsArePrompt DEF Prompt, CInv, TInv, RowsTyped

(* Its samples, and the segment they end in. *)
LEMMA PromptSegment ==
  ASSUME NEW rows, Prompt(rows)
  PROVE  LET s == InOrder(SampledRows(rows), Precedes)
             seg == SegmentOf(rows)
         IN  /\ SampleList(SampledRows(rows)) /\ SampledRows(rows) \subseteq PromptSamples
             /\ s \in Seq(PromptSamples) /\ seg \in Seq(PromptSamples)
             /\ \A i \in 1 .. Len(seg) : seg[i] \in SampledRows(rows)
             /\ \A i, j \in 1 .. Len(seg) :
                  i < j => EventTimestamp(seg[i]) <= EventTimestamp(seg[j])
<1> DEFINE R == SampledRows(rows)
           n == Cardinality(R)
           s == InOrder(R, Precedes)
           seg == SegmentOf(rows)
<1>1. SampleList(R)
  BY TableSamples DEF Prompt, SampledRows
<1>2. R \subseteq PromptSamples
  BY <1>1 DEF SampleList, PromptSamples, Prompt, SampledRows
<1> HIDE DEF R
<1>3. /\ n \in Nat /\ s \in [1 .. n -> R]
      /\ \A i, j \in 1 .. n : i < j => EventTimestamp(s[i]) <= EventTimestamp(s[j])
  BY <1>1, SamplesInTime
<1> HIDE DEF s
<1>4. s \in Seq(R) /\ Len(s) = n /\ s \in Seq(PromptSamples)
  BY <1>2, <1>3
<1>5. seg = CurrentObservationSegment(s)
  BY DEF SegmentOf, R, s
<1> HIDE DEF seg, n
<1>6. CASE n = 0
  <2>1. \A i \in 1 .. n : FALSE
    BY <1>6
  <2>2. s = <<>>
    BY <1>4, <1>6
  <2>3. seg = <<>>
    BY <1>5, <2>2, NoSegment
  <2> QED
    BY <1>1, <1>2, <1>4, <2>3 DEF R, s, seg
<1>7. CASE n > 0
  <2>1. PICK x : x \in PromptSamples
    BY <1>3, <1>2, <1>7
  <2>2. /\ seg \in Seq(PromptSamples) /\ Len(seg) <= n /\ Len(seg) \in Nat
        /\ \A i \in 1 .. Len(seg) : seg[i] = s[n - Len(seg) + i]
    BY <1>4, <1>5, <2>1, SegmentGrows
  <2>3. \A i \in 1 .. Len(seg) : n - Len(seg) + i \in 1 .. n
    BY <1>3, <2>2
  <2>4. \A i \in 1 .. Len(seg) : seg[i] \in R
    BY <1>3, <2>2, <2>3
  <2>5. \A i, j \in 1 .. Len(seg) :
          i < j => EventTimestamp(seg[i]) <= EventTimestamp(seg[j])
    <3> SUFFICES ASSUME NEW i \in 1 .. Len(seg), NEW j \in 1 .. Len(seg), i < j
                 PROVE  EventTimestamp(seg[i]) <= EventTimestamp(seg[j])
      OBVIOUS
    <3>1. n - Len(seg) + i < n - Len(seg) + j
      BY <1>3, <2>2
    <3> QED
      BY <1>3, <2>2, <2>3, <3>1
  <2> QED
    BY <1>1, <1>2, <1>4, <2>2, <2>4, <2>5 DEF R, s, seg
<1> QED
  BY <1>3, <1>6, <1>7

(* What the relay looks at, in the terms of the monitor. *)
LEMMA EvidenceOf ==
  ASSUME NEW rows, Prompt(rows)
  PROVE  LET v == Evidence(rows)
             seg == SegmentOf(rows)
             readings == ReadingsIn(seg)
         IN  /\ v.samples = seg
             /\ v.phases = SmoothedPhases(readings)
             /\ v.raw = RawIn(seg)
             /\ v.active = ActiveIn(seg, Completions(rows))
<1> DEFINE seg == SegmentOf(rows)
<1>1. SampleRows(rows) = SampledRows(rows) /\ DoneRows(rows) = Completions(rows)
  BY DEF SampleRows, SampledRows, DoneRows, Completions, Prompt
<1>2. seg = CurrentObservationSegment(InOrder(SampleRows(rows), Precedes))
  BY <1>1 DEF SegmentOf
<1> HIDE DEF seg
<1>3. RawIn(seg) = [i \in 1 .. Len(seg) |-> RawPhase(ReadingsIn(seg)[i])]
  BY DEF RawIn, ReadingsIn
<1>4. ActiveIn(seg, Completions(rows)) =
        ActiveIndexes(seg, SmoothedPhases(ReadingsIn(seg)), DoneRows(rows))
  BY <1>1 DEF ActiveIn
<1>5. Evidence(rows) =
        [samples |-> seg, phases |-> SmoothedPhases(ReadingsIn(seg)),
         raw |-> [i \in 1 .. Len(seg) |-> RawPhase(ReadingsIn(seg)[i])],
         active |-> ActiveIndexes(seg, SmoothedPhases(ReadingsIn(seg)), DoneRows(rows))]
  BY <1>2 DEF Evidence, ReadingsIn
<1> QED
  BY <1>3, <1>4, <1>5 DEF seg

(***************************************************************************)
(* The relay decides on the segment: motion it received after every        *)
(* completion is never older than one.                                     *)
(***************************************************************************)
LEMMA DecidesWhenStopped ==
  ASSUME OneAtATime, skew = 0, NEW rows, Prompt(rows), NEW e,
         Len(SegmentOf(rows)) > 0,
         EventId(SegmentOf(rows)[Len(SegmentOf(rows))].event) = EventId(e)
  PROVE  ServerDone(rows, e)
           <=> Stopped(SegmentOf(rows), ActiveIn(SegmentOf(rows), Completions(rows)))
<1> DEFINE seg == SegmentOf(rows)
           n == Len(seg)
           active == ActiveIn(seg, Completions(rows))
           v == Evidence(rows)
<1>1. /\ v.samples = seg /\ v.phases = SmoothedPhases(ReadingsIn(seg))
      /\ v.raw = RawIn(seg) /\ v.active = active
  BY EvidenceOf
<1>2. seg \in Seq(PromptSamples) /\ SampleList(SampledRows(rows))
  BY PromptSegment
<1>3. n \in 1 .. n
  BY <1>2
<1> HIDE DEF seg
<1>4. SmoothedPhases(ReadingsIn(seg))[n] = SmoothedPhase(ReadingsIn(seg), n)
  <2>1. Len(ReadingsIn(seg)) = n
    BY <1>2 DEF ReadingsIn
  <2> QED
    BY <1>3, <2>1 DEF SmoothedPhases
<1>5. LoadCompleted(v, e) <=> Stopped(seg, active)
  <2> DEFINE q == QuietStart(RawIn(seg))
  <2>1. LoadCompleted(v, e) <=>
          /\ n >= SERVER_CLASSIFIER_SMOOTHING_SAMPLES
          /\ SmoothedPhase(ReadingsIn(seg), n) = "quiet" /\ RawIn(seg)[n] = "quiet"
          /\ active # {}
          /\ EventTimestamp(seg[n]) - EventTimestamp(seg[q]) >= SERVER_DONE_QUIET
          /\ ActiveTime(seg, active) >= SERVER_MINIMUM_RUNTIME
    <3> HIDE DEF active, v
    <3>1. EventId(seg[n].event) = EventId(e)
      BY DEF seg
    <3> QED
      BY <1>1, <1>4, <3>1 DEF LoadCompleted, EnoughSamples
  <2>2. RawIn(seg)[n] = "quiet" => q \in 1 .. n
    <3>1. DOMAIN RawIn(seg) = 1 .. n /\ Len(RawIn(seg)) = n /\ n \in Nat \ {0}
      BY <1>2, <1>3 DEF RawIn
    <3> HIDE DEF n
    <3> QED
      BY <3>1, QuietStartIs
  <2>3. \A i \in 1 .. n : TimesIn(seg)[i] = EventTimestamp(seg[i])
    BY DEF TimesIn
  <2>4. RawIn(seg)[n] = "quiet" =>
          /\ TimesIn(seg)[n] = EventTimestamp(seg[n]) /\ TimesIn(seg)[q] = EventTimestamp(seg[q])
    BY <1>3, <2>2, <2>3
  <2> HIDE DEF q, active
  <2> QED
    BY <2>1, <2>4 DEF Stopped, q
<1>6. LoadCompleted(v, e) => ~AnnouncedSince(rows, v)
  <2> SUFFICES ASSUME LoadCompleted(v, e)
               PROVE  ~AnnouncedSince(rows, v)
    OBVIOUS
  <2>1. SkewWithinRuntime /\ skew \in ClockSkews
    BY RelayAssumption DEF SkewWithinRuntime, OneAtATime
  <2>2. SampleRows(rows) = SampledRows(rows)
    BY DEF SampleRows, SampledRows, Prompt
  <2>3. SampleRows(rows) # {}
    <3>1. seg[n] \in SampledRows(rows)
      BY <1>3, PromptSegment DEF seg
    <3> QED
      BY <2>2, <3>1
  <2>4. \A row \in rows : ReceivedSoonAfter(row)
    <3> SUFFICES ASSUME NEW row \in rows
                 PROVE  ReceivedSoonAfter(row)
      OBVIOUS
    <3>1. row \in Rows /\ row.received_at \in Nat /\ EventTimestamp(row) = row.received_at
      BY DEF Prompt
    <3>2. MaxDelay = 0
      BY DEF OneAtATime
    <3> QED
      BY <3>1, <3>2 DEF EventTimestamp, ReceivedSoonAfter
  <2>5. rows \subseteq Rows /\ SampleList(SampleRows(rows))
    BY <1>2, <2>2 DEF Prompt
  <2> QED
    BY <2>1, <2>3, <2>4, <2>5, NewMotionIsDatedLater
<1> QED
  BY <1>5, <1>6 DEF ServerDone, seg

----------------------------------------------------------------------------
(* What is stored is remembered *)

(* A new event keeps the table prompt; a new sample is its latest row. *)
LEMMA NewRowIsPrompt ==
  ASSUME OneAtATime, InStepInv, NothingExpires, NEW m \in net,
         EventId(m.event) \notin StoredIds(db)
  PROVE  LET new == Stored(m.event, clock)
         IN  /\ Prompt(db \cup {new}) /\ EventTimestamp(new) = clock
             /\ new.received_at = clock /\ new.event = m.event /\ new \notin db
             /\ m.event.state = "calibration_sample" =>
                  \A row \in db : row.received_at < clock
<1> DEFINE new == Stored(m.event, clock)
<1>1. /\ m.event \in DeviceEvents /\ SentWhenDated(m) /\ m.sent \in Nat /\ clock \in Nat
      /\ m.sent <= clock /\ clock - m.sent <= MaxDelay
  BY DEF InStepInv, CInv, TInv, IInv, Typed, Recent, DatesAreTrue
<1>2. skew = 0 /\ MaxDelay = 0
  BY DEF OneAtATime, InStepInv, CInv, TInv, Bounded
<1>3. new = [event |-> m.event, received_at |-> clock]
  BY DEF Stored
<1>4. EventTimestamp(new) = clock
  <2>1. m.event.device_time \in Int
    BY <1>1 DEF DeviceEvents
  <2> QED
    BY <1>1, <1>2, <1>3, <2>1 DEF SentWhenDated, EventTimestamp
<1>5. new \notin db
  BY <1>3 DEF StoredIds
<1>6. Prompt(db) /\ UniqueIds(db)
  BY PromptTable DEF InStepInv, CInv, TInv
<1>7. Prompt(db \cup {new})
  <2>1. IsFiniteSet(db \cup {new})
    BY <1>6, FS_AddElement DEF Prompt
  <2>2. UniqueIds(db \cup {new})
    BY <1>3, <1>6, NewIdIsUnique
  <2>3. new \in Rows /\ new.received_at \in Nat /\ EventTimestamp(new) = new.received_at
    BY <1>1, <1>3, <1>4 DEF Rows
  <2>4. Unexpired(db \cup {new}) = db \cup {new}
    <3>1. clock - new.received_at <= EVENT_RETENTION
      BY <1>1, <1>3, RelayAssumption
    <3> HIDE DEF new
    <3> QED
      BY <1>6, <3>1 DEF Prompt, Unexpired
  <2> HIDE DEF new
  <2> QED
    BY <1>6, <2>1, <2>2, <2>3, <2>4 DEF Prompt
<1>8. m.event.state = "calibration_sample" => \A row \in db : row.received_at < clock
  BY DEF InStepInv, InStep
<1> QED
  BY <1>3, <1>4, <1>5, <1>7, <1>8

(* A new sample: the segment it ends, and what the monitor then holds. *)
LEMMA SampleStep ==
  ASSUME SERVER_MINIMUM_RUNTIME > 0, NEW rows, Prompt(rows),
         Summarises(SegmentOf(rows), ActiveIn(SegmentOf(rows), Completions(rows))),
         NEW x, x \notin rows, Prompt(rows \cup {x}), x.event.state = "calibration_sample",
         \A row \in rows : row.received_at < x.received_at,
         ShowMonitor(x)
  PROVE  LET seg == SegmentOf(rows \cup {x})
         IN  /\ seg \in Seq(PromptSamples) /\ Len(seg) > 0 /\ seg[Len(seg)] = x
             /\ Reads(seg, ActiveIn(seg, Completions(rows)))
<1> DEFINE R == SampledRows(rows)
           s == InOrder(R, Precedes)
           n == Len(s)
           seg == SegmentOf(rows)
           done == Completions(rows)
           active == ActiveIn(seg, done)
<1>1. /\ SampledRows(rows \cup {x}) = R \cup {x} /\ x \notin R
      /\ \A row \in R : EventTimestamp(row) < EventTimestamp(x)
  <2>1. EventTimestamp(x) = x.received_at
    BY DEF Prompt
  <2>2. \A row \in rows : EventTimestamp(row) = row.received_at
    BY DEF Prompt
  <2> QED
    BY <2>1, <2>2 DEF SampledRows
<1>2. /\ R \subseteq PromptSamples /\ s \in Seq(PromptSamples) /\ seg \in Seq(PromptSamples)
      /\ \A i \in 1 .. Len(seg) : seg[i] \in R
      /\ \A i, j \in 1 .. Len(seg) : i < j => EventTimestamp(seg[i]) <= EventTimestamp(seg[j])
  BY PromptSegment
<1>3. /\ SampleList(R \cup {x}) /\ R \cup {x} \subseteq PromptSamples
  BY <1>1, PromptSegment
<1>4. x \in PromptSamples
  BY <1>3
<1>5. InOrder(R \cup {x}, Precedes) = Append(s, x)
  <2> HIDE DEF R
  <2> QED
    BY <1>1, <1>3, LatestIsLast
<1> HIDE DEF R
<1>6. /\ seg = CurrentObservationSegment(s)
      /\ SegmentOf(rows \cup {x}) = CurrentObservationSegment(Append(s, x))
  BY <1>1, <1>5 DEF SegmentOf, R
<1>7. ReceivedAfter(x, done)
  <2>1. \A d \in done : d \in rows /\ d.received_at \in Nat /\ x.received_at \in Nat
                        /\ d.received_at < x.received_at
    BY DEF Completions, Prompt
  <2> QED
    BY <2>1 DEF ReceivedAfter
<1> HIDE DEF s, done
<1>8. /\ n = 0 <=> Len(seg) = 0
      /\ n > 0 => seg[Len(seg)] = s[n]
      /\ SegmentOf(rows \cup {x}) =
           IF n > 0 /\ Continues(s[n], x) THEN Append(seg, x) ELSE <<x>>
  <2> HIDE DEF seg
  <2> QED
    BY <1>2, <1>4, <1>6, SegmentGrows
<1> HIDE DEF seg
<1>9. n \in Nat /\ Len(seg) \in Nat
  BY <1>2
<1>10. PICK go \in BOOLEAN : go <=> Len(seg) > 0 /\ Continues(seg[Len(seg)], x)
  <2>1. CASE Len(seg) > 0 /\ Continues(seg[Len(seg)], x)
    BY <2>1
  <2>2. CASE ~(Len(seg) > 0 /\ Continues(seg[Len(seg)], x))
    BY <2>2
  <2> QED
    BY <2>1, <2>2
<1> DEFINE old == IF go THEN seg ELSE <<>>
           new == Grown(seg, x, go)
           acts == GrownActive(seg, active, x, go)
<1>11. new = Append(old, x) /\ old \in Seq(PromptSamples)
  BY <1>2 DEF Grown
<1>12. SegmentOf(rows \cup {x}) = new
  <2>1. CASE go
    <3>1. new = Append(seg, x)
      BY <2>1 DEF Grown
    <3>2. n > 0 /\ Continues(s[n], x)
      BY <1>8, <1>9, <1>10, <2>1
    <3> HIDE DEF new
    <3> QED
      BY <1>8, <3>1, <3>2
  <2>2. CASE ~go
    <3>1. new = Append(<<>>, x)
      BY <2>2 DEF Grown
    <3>2. Append(<<>>, x) = <<x>>
      OBVIOUS
    <3> HIDE DEF new
    <3> QED
      BY <1>8, <1>9, <1>10, <2>2, <3>1, <3>2
  <2> QED
    BY <2>1, <2>2
<1>13. active \in SUBSET (1 .. Len(seg))
  BY <1>2, <1>4, <1>7, ActiveGrows
<1>14. new \in Seq(PromptSamples) /\ Len(new) = Len(old) + 1 /\ Len(new) > 0 /\ new[Len(new)] = x
  <2> HIDE DEF old, new
  <2> QED
    BY <1>4, <1>11
<1>15. ActiveIn(new, done) = acts
  <2>1. (IF go THEN active ELSE {}) = ActiveIn(old, done)
    <3>1. CASE go
      BY <3>1
    <3>2. CASE ~go
      <4>1. old = <<>> /\ Len(old) = 0
        BY <3>2
      <4> HIDE DEF old
      <4>2. ActiveIn(old, done) \in SUBSET (1 .. 0)
        BY <1>4, <1>7, <1>11, <4>1, ActiveGrows
      <4>3. 1 .. 0 = {}
        OBVIOUS
      <4> QED
        BY <3>2, <4>2, <4>3
    <3> QED
      BY <3>1, <3>2
  <2> HIDE DEF old, active
  <2>2. ActiveIn(Append(old, x), done) =
          ActiveIn(old, done)
          \cup (IF SmoothedPhase(ReadingsIn(Append(old, x)), Len(old) + 1) = "active"
                THEN {Len(old) + 1} ELSE {})
    BY <1>4, <1>7, <1>11, ActiveGrows
  <2> HIDE DEF new
  <2>3. acts = (IF go THEN active ELSE {})
               \cup (IF SmoothedPhase(ReadingsIn(new), Len(new)) = "active"
                     THEN {Len(new)} ELSE {})
    BY DEF GrownActive, new
  <2> QED
    BY <1>11, <1>14, <2>1, <2>2, <2>3
<1>16. Len(seg) > 0 => EventTimestamp(seg[Len(seg)]) < EventTimestamp(x)
  <2>1. Len(seg) > 0 => Len(seg) \in 1 .. Len(seg)
    BY <1>9
  <2> QED
    BY <1>1, <1>2, <2>1
<1>17. Summarises(seg, active)
  BY DEF seg, done
<1>18. Reads(new, acts)
  <2> HIDE DEF active
  <2> QED
    BY <1>2, <1>4, <1>10, <1>13, <1>16, <1>17, MonitorStep
<1> HIDE DEF new, acts
<1> QED
  BY <1>12, <1>14, <1>15, <1>18 DEF done

(* Remembers, of the state a step leads to. *)
Holds(seg, active) ==
  /\ seen' = M!UpTo(SERVER_CLASSIFIER_SMOOTHING_SAMPLES, Len(seg))
  /\ chunk' = Reachable(ReadingsIn(seg))
  /\ counted' \in BOOLEAN /\ (counted' <=> Len(seg) \in active)
  /\ active_time' = M!UpTo(SERVER_MINIMUM_RUNTIME, ActiveTime(seg, active))
  /\ quiet_for' = QuietSince(RawIn(seg), TimesIn(seg))
  /\ last' = LastIn(seg)

(* It is enough to say it of the table there. *)
LEMMA RemembersNext ==
  ASSUME Holds(SegmentOf(db'), ActiveIn(SegmentOf(db'), Completions(db')))
  PROVE  Remembers'
BY DEF Holds, Remembers, Summarises

(* Nothing that the monitor is shown was stored. *)
LEMMA MonitorRests ==
  ASSUME Remembers, UNCHANGED monitor,
         SampledRows(db') = SampledRows(db), Completions(db') = Completions(db)
  PROVE  Remembers'
<1>1. SegmentOf(db') = SegmentOf(db)
  BY DEF SegmentOf
<1>2. Holds(SegmentOf(db), ActiveIn(SegmentOf(db), Completions(db)))
  BY DEF Remembers, Summarises, Holds, monitor
<1> QED
  BY <1>1, <1>2, RemembersNext

(* Once a completion is stored no sample received before it counts. *)
LEMMA CompletionAnnounces ==
  ASSUME NEW seg \in Seq(PromptSamples), NEW done, NEW d \in done,
         \A i \in 1 .. Len(seg) : seg[i].received_at <= d.received_at,
         d.received_at \in Nat
  PROVE  ActiveIn(seg, done) = {}
<1>1. \A i \in 1 .. Len(seg) : seg[i] \in PromptSamples
  OBVIOUS
<1>2. \A i \in 1 .. Len(seg) : seg[i].received_at \in Nat
  BY <1>1 DEF PromptSamples
<1>3. \A i \in 1 .. Len(seg) : ~ReceivedAfter(seg[i], done)
  BY <1>2 DEF ReceivedAfter
<1> QED
  BY <1>3 DEF ActiveIn, ActiveIndexes

(* The device's own completion: the monitor forgets the motion so far. *)
LEMMA AnnouncedStep ==
  ASSUME SERVER_MINIMUM_RUNTIME > 0, Prompt(db), Remembers, NEW d, d.received_at \in Nat,
         \A row \in db : row.received_at <= d.received_at,
         db' = db \cup {d}, d.event.state = "done_sent",
         M!Announced, UNCHANGED last
  PROVE  Remembers'
<1> DEFINE seg == SegmentOf(db)
           active == ActiveIn(seg, Completions(db'))
<1>1. SampledRows(db') = SampledRows(db) /\ d \in Completions(db')
  BY DEF SampledRows, Completions
<1>2. SegmentOf(db') = seg
  BY <1>1 DEF SegmentOf
<1>3. seg \in Seq(PromptSamples) /\ \A i \in 1 .. Len(seg) : seg[i] \in db
  BY PromptSegment DEF SampledRows
<1>4. Summarises(seg, ActiveIn(seg, Completions(db)))
  BY DEF Remembers
<1> HIDE DEF seg
<1>5. active = {}
  BY <1>1, <1>3, CompletionAnnounces
<1>6. M!UpTo(SERVER_MINIMUM_RUNTIME, ActiveTime(seg, active)) = 0
  <2>1. ActiveTime(seg, active) = 0
    BY <1>3, <1>5, NothingActive
  <2> QED
    BY <2>1, RelayAssumption DEF M!UpTo
<1> HIDE DEF active
<1>7. /\ active_time' = 0 /\ counted' = FALSE /\ seen' = seen /\ chunk' = chunk
      /\ quiet_for' = quiet_for /\ last' = last
  BY DEF M!Announced
<1>8. Holds(seg, active)
  BY <1>4, <1>5, <1>6, <1>7 DEF Summarises, Holds
<1> QED
  BY <1>2, <1>8, RemembersNext DEF active

(***************************************************************************)
(* A sample that the relay stores: the monitor remembers it, and raises an *)
(* alert just when the relay stores a completion beside it.                *)
(***************************************************************************)
LEMMA SampleIsRemembered ==
  ASSUME OneAtATime, skew = 0, Prompt(db), Remembers, clock \in Nat,
         NEW e \in DeviceEvents, e.state = "calibration_sample",
         NEW x, x = Stored(e, clock), x \notin db, Prompt(db \cup {x}),
         \A row \in db : row.received_at < clock,
         NEW done, done = Stored(ServerDoneEvent(e), clock),
         \/ ~ServerDone(db \cup {x}, e) /\ db' = db \cup {x}
         \/ ServerDone(db \cup {x}, e) /\ db' = db \cup {x, done},
         ShowMonitor(x)
  PROVE  Remembers' /\ (alert' <=> \E row \in db' \ db : row.event.origin = "server")
<1> DEFINE rows == db \cup {x}
           seg == SegmentOf(rows)
           acts == ActiveIn(seg, Completions(db))
<1>1. /\ x.event = e /\ x.received_at = clock /\ e.origin = "device"
      /\ done.event = ServerDoneEvent(e) /\ done.received_at = clock
      /\ done.event.origin = "server" /\ done.event.state = "done_sent"
  BY DEF Stored, ServerDoneEvent, DeviceEvents
<1>2. SERVER_MINIMUM_RUNTIME > 0
  BY DEF OneAtATime
<1>3. Summarises(SegmentOf(db), ActiveIn(SegmentOf(db), Completions(db)))
  BY DEF Remembers
<1>4. /\ seg \in Seq(PromptSamples) /\ Len(seg) > 0 /\ seg[Len(seg)] = x
      /\ Reads(seg, acts)
  BY <1>1, <1>2, <1>3, SampleStep
<1>5. Completions(rows) = Completions(db)
  BY <1>1 DEF Completions
<1>6. ServerDone(rows, e) <=> Stopped(seg, acts)
  BY <1>1, <1>4, <1>5, DecidesWhenStopped
<1>7. \A i \in 1 .. Len(seg) : seg[i] \in rows /\ seg[i].received_at <= clock
  <2>1. \A i \in 1 .. Len(seg) : seg[i] \in rows
    BY PromptSegment DEF SampledRows
  <2>2. \A row \in db : row.received_at \in Nat
    BY DEF Prompt
  <2>3. \A row \in rows : row.received_at <= clock
    BY <1>1, <2>2
  <2> HIDE DEF seg, rows
  <2> QED
    BY <2>1, <2>3
<1>8. ServerDone(rows, e) => done \in db' \ db
  <2>1. \A row \in db : row.received_at \in Nat /\ row.received_at # clock
    BY DEF Prompt
  <2>2. done \notin db
    BY <1>1, <2>1
  <2> QED
    BY <2>2
<1>9. alert' <=> \E row \in db' \ db : row.event.origin = "server"
  <2>1. alert' <=> ServerDone(rows, e)
    BY <1>4, <1>6 DEF Reads
  <2>2. ~ServerDone(rows, e) => \A row \in db' \ db : row = x
    OBVIOUS
  <2> HIDE DEF rows
  <2> QED
    BY <1>1, <1>8, <2>1, <2>2
<1> HIDE DEF seg, rows
<1>10. SegmentOf(db') = seg
  <2>1. SampledRows(db') = SampledRows(rows)
    BY <1>1 DEF SampledRows, rows
  <2> QED
    BY <2>1 DEF SegmentOf, seg
<1>11. CASE ~ServerDone(rows, e)
  <2>1. Completions(db') = Completions(db)
    BY <1>1, <1>11 DEF Completions, rows
  <2>2. Holds(seg, acts)
    BY <1>4, <1>6, <1>11 DEF Reads, Holds
  <2>3. Remembers'
    BY <1>10, <2>1, <2>2, RemembersNext
  <2> QED
    BY <1>9, <2>3
<1>12. CASE ServerDone(rows, e)
  <2> DEFINE none == ActiveIn(seg, Completions(db'))
  <2>1. done \in Completions(db')
    BY <1>1, <1>8, <1>12 DEF Completions
  <2>2. none = {}
    BY <1>1, <1>4, <1>7, <2>1, CompletionAnnounces
  <2>3. M!UpTo(SERVER_MINIMUM_RUNTIME, ActiveTime(seg, none)) = 0
    <3>1. ActiveTime(seg, none) = 0
      BY <1>4, <2>2, NothingActive
    <3> QED
      BY <3>1, RelayAssumption DEF M!UpTo
  <2> HIDE DEF none
  <2>4. Holds(seg, none)
    BY <1>4, <1>6, <1>12, <2>2, <2>3 DEF Reads, Holds
  <2>5. Remembers'
    BY <1>10, <2>4, RemembersNext DEF none
  <2> QED
    BY <1>9, <2>5
<1> QED
  BY <1>11, <1>12

----------------------------------------------------------------------------
(* The theorem *)

(* One step of OnePassAgrees. *)
AlertsAgree ==
  NewSamples # {} => (alert' <=> \E row \in db' \ db : row.event.origin = "server")

(* A step keeps what the monitor remembers, and both decide alike in it. *)
LEMMA OnePassStep ==
  ASSUME OneAtATime, InStepInv, NothingExpires, Remembers, [OnePassNext]_one_pass_vars
  PROVE  Remembers' /\ AlertsAgree
<1>1. SERVER_MINIMUM_RUNTIME > 0 /\ skew = 0
  BY DEF OneAtATime, InStepInv, CInv, TInv, Bounded
<1>2. Prompt(db) /\ clock \in Nat
  BY PromptTable, RowsArePrompt DEF InStepInv
<1>3. ASSUME UNCHANGED <<db, monitor>>
      PROVE  Remembers' /\ AlertsAgree
  <2>1. Remembers'
    BY <1>3, MonitorRests
  <2> QED
    BY <1>3, <2>1 DEF AlertsAgree, NewSamples, NewRows
<1>4. CASE /\ Receive
           /\ \/ \E row \in NewSamples : ShowMonitor(row)
              \/ NewRows("done_sent") # {} /\ M!Announced /\ UNCHANGED last
              \/ NewRows("done_sent") \cup NewSamples = {} /\ UNCHANGED monitor
  <2>1. PICK m \in net : m.event \in DeviceEvents /\ Taken(m.event)
    BY <1>4, RequestIsTaken
  <2> DEFINE e == m.event
             x == Stored(e, clock)
             done == Stored(ServerDoneEvent(e), clock)
  <2>2. /\ x.event = e /\ x.received_at = clock /\ e.origin = "device"
        /\ done.event.origin = "server"
    BY <2>1 DEF Stored, ServerDoneEvent, DeviceEvents
  <2>3. EventId(e) \notin StoredIds(db) =>
          /\ Prompt(db \cup {x}) /\ x \notin db
          /\ e.state = "calibration_sample" => \A row \in db : row.received_at < clock
    BY NewRowIsPrompt
  <2> HIDE DEF x, done, e
  <2>4. CASE EventId(e) \in StoredIds(db) /\ db' = db
    <3>1. NewSamples = {} /\ NewRows("done_sent") = {}
      BY <2>4 DEF NewSamples, NewRows
    <3> QED
      BY <1>3, <1>4, <2>4, <3>1
  <2>5. CASE /\ EventId(e) \notin StoredIds(db) /\ e.state # "calibration_sample"
             /\ db' = db \cup {x}
    <3>1. NewSamples = {} /\ AlertsAgree
      BY <2>2, <2>5 DEF NewSamples, NewRows, AlertsAgree
    <3>2. CASE e.state = "done_sent"
      <4>1. NewRows("done_sent") # {}
        <5>1. x \in db' \ db
          BY <2>3, <2>5
        <5> QED
          BY <2>2, <3>2, <5>1 DEF NewRows
      <4>2. M!Announced /\ UNCHANGED last
        BY <1>4, <3>1, <4>1
      <4>3. \A row \in db : row.received_at <= x.received_at
        BY <2>2, RowsArePrompt DEF InStepInv
      <4>4. Remembers'
        BY <1>1, <1>2, <2>2, <2>5, <3>2, <4>2, <4>3, AnnouncedStep
      <4> QED
        BY <3>1, <4>4
    <3>3. CASE e.state # "done_sent"
      <4>1. NewRows("done_sent") = {}
        BY <2>2, <2>5, <3>3 DEF NewRows
      <4>2. UNCHANGED monitor
        BY <1>4, <3>1, <4>1
      <4>3. SampledRows(db') = SampledRows(db) /\ Completions(db') = Completions(db)
        BY <2>2, <2>5, <3>3 DEF SampledRows, Completions
      <4>4. Remembers'
        BY <4>2, <4>3, MonitorRests
      <4> QED
        BY <3>1, <4>4
    <3> QED
      BY <3>2, <3>3
  <2>6. CASE /\ EventId(e) \notin StoredIds(db) /\ e.state = "calibration_sample"
             /\ \/ ~ServerDone(db \cup {x}, e) /\ db' = db \cup {x}
                \/ ServerDone(db \cup {x}, e) /\ db' = db \cup {x, done}
    <3>1. NewSamples = {x} /\ NewRows("done_sent") = {}
      <4>1. x \in db' \ db
        BY <2>3, <2>6
      <4>2. \A row \in db' \ db : row = x \/ row = done
        BY <2>6
      <4> QED
        BY <2>2, <2>6, <4>1, <4>2 DEF NewSamples, NewRows
    <3>2. ShowMonitor(x)
      BY <1>4, <3>1
    <3>3. Remembers' /\ (alert' <=> \E row \in db' \ db : row.event.origin = "server")
      <4>1. /\ e \in DeviceEvents /\ x = Stored(e, clock)
            /\ done = Stored(ServerDoneEvent(e), clock)
        BY <2>1 DEF e, x, done
      <4> QED
        BY <1>1, <1>2, <2>3, <2>6, <3>2, <4>1, SampleIsRemembered
    <3> QED
      BY <3>3 DEF AlertsAgree
  <2> QED
    BY <2>1, <2>4, <2>5, <2>6 DEF Taken, e, x, done
<1>5. CASE (TakeSample \/ SendOther \/ Restart) /\ UNCHANGED monitor
  BY <1>3, <1>5 DEF TakeSample, SendOther, Restart
<1>6. CASE UNCHANGED one_pass_vars
  BY <1>3, <1>6 DEF one_pass_vars, vars
<1> QED
  BY <1>4, <1>5, <1>6 DEF OnePassNext

(* Before the first event there is nothing to remember. *)
LEMMA OnePassStart ==
  ASSUME SERVER_MINIMUM_RUNTIME > 0, OnePassInit
  PROVE  Remembers
<1>1. SampledRows(db) = {} /\ Completions(db) = {}
  BY DEF OnePassInit, Init, SampledRows, Completions
<1>2. InOrder({}, Precedes) = <<>>
  BY FS_EmptySet DEF InOrder
<1>3. SegmentOf(db) = <<>>
  BY <1>1, <1>2, NoSegment DEF SegmentOf
<1>4. ActiveIn(<<>>, {}) = {}
  <2>1. \A i \in 1 .. Len(<<>>) : FALSE
    OBVIOUS
  <2> QED
    BY <2>1 DEF ActiveIn, ActiveIndexes
<1>5. LastIn(<<>>) = NothingYet
  BY DEF LastIn
<1>6. /\ seen = 0 /\ chunk = <<>> /\ counted = FALSE /\ active_time = 0
      /\ quiet_for = M!NotQuiet /\ last = NothingYet
  BY DEF OnePassInit, M!MonitorInit
<1>7. Summarises(<<>>, {})
  BY <1>5, <1>6, EmptySegment DEF Summarises
<1> QED
  BY <1>1, <1>3, <1>4, <1>7 DEF Remembers

(***************************************************************************)
(* _maybe_send_server_done decides, from the samples and completions of    *)
(* its whole table, at every sample as a monitor that remembers six values *)
(* does: wherever requests come one at a time, in the tick they were sent  *)
(* in or not at all, from a device whose clock agrees, and no row expires. *)
(***************************************************************************)
THEOREM MonitorDecidesAlike ==
  ASSUME OneAtATime
  PROVE  OnePassSpec /\ []NothingExpires => OnePassAgrees
<1>1. OnePassInit => InStepInv /\ Remembers
  BY InStepInit, OnePassStart DEF OnePassInit, OneAtATime
<1>2. InStepInv /\ Remembers /\ NothingExpires /\ [OnePassNext]_one_pass_vars
        => InStepInv' /\ Remembers' /\ AlertsAgree
  <2> SUFFICES ASSUME InStepInv, Remembers, NothingExpires, [OnePassNext]_one_pass_vars
               PROVE  InStepInv' /\ Remembers' /\ AlertsAgree
    OBVIOUS
  <2>1. [Next]_vars
    BY DEF OnePassNext, Next, one_pass_vars
  <2>2. InStepInv'
    BY <2>1, InStepStep
  <2> QED
    BY <2>2, OnePassStep
<1> QED
  BY <1>1, <1>2, PTL DEF OnePassSpec, OnePassAgrees, AlertsAgree
=============================================================================
