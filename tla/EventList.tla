----------------------------- MODULE EventList ------------------------------
(***************************************************************************)
(* What the relay's list endpoint answers from its table: the samples,     *)
(* each with its phase, and the notifications.                             *)
(***************************************************************************)
EXTENDS Relay, SequencesExt

CONSTANT max_peak_mg   \* the page asks for samples with no higher peak

ASSUME PeakLimitAssumption == max_peak_mg \in Nat

----------------------------------------------------------------------------
WithinPeakLimit(row) == row.event.reading.peak <= max_peak_mg

ListedSamples(rows) == {row \in SampleRows(rows) : WithinPeakLimit(row)}

ListedNotifications(rows) ==
  {row \in Unexpired(rows) : row.event.state \in NOTIFICATION_STATES}

ReceivedBefore(a, b) ==
  Less(<<a.received_at, a.event.cycle_id, a.event.n>>,
       <<b.received_at, b.event.cycle_id, b.event.n>>)

(* The list comes newest first; the page turns it round. *)
Chronological(rows) == InOrder(rows, ReceivedBefore)

ReadingsOf(rows) ==
  LET all == Chronological(rows)
  IN  [i \in DOMAIN all |-> all[i].event.reading]

(* Mistake: the list is annotated newest first, as the query returned it. *)
ServerPhasesNewestFirst(rows) ==
  LET n == Cardinality(rows)
      reversed == [i \in 1 .. n |-> ReadingsOf(rows)[n + 1 - i]]
  IN  [i \in 1 .. n |-> SmoothedPhases(reversed)[n + 1 - i]]

(* _annotate_server_phases, in chronological order. *)
ServerPhases(rows) == SmoothedPhases(ReadingsOf(rows))

----------------------------------------------------------------------------
(* Properties *)

(* Was each of these samples received after the ones dated before it? *)
ReceivedInOrder(rows) ==
  \A a, b \in rows : a # b =>
    (a.received_at < b.received_at <=> EventTimestamp(a) < EventTimestamp(b))

(***************************************************************************)
(* The list explains the alerts: a sample on which the relay announced the *)
(* end of a load is listed as quiet, then and whatever else is received    *)
(* later, although the decision looks at one unbroken segment of one boot  *)
(* in the device's order and the list at everything as received.  Not so   *)
(* if a sample received before it was late itself; nor next to a jolt too  *)
(* high to be listed, which parts what is averaged for the decision; nor   *)
(* once a sample that was averaged has expired, which takes two weeks.     *)
(***************************************************************************)
AlertedSampleLooksQuiet ==
  (\A row \in SampleRows(db) : WithinPeakLimit(row)) =>
    LET listed == ListedSamples(db)
        all    == Chronological(listed)
        phases == ServerPhases(listed)
        upTo(row) == {r \in listed : r.received_at <= row.received_at}
    IN  \A i \in DOMAIN all :
          /\ EventId(ServerDoneEvent(all[i].event)) \in DOMAIN pushed
          /\ ReceivedInOrder(upTo(all[i]))
          => phases[i] = "quiet"
=============================================================================
