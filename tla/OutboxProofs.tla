---------------------------- MODULE OutboxProofs -----------------------------
(***************************************************************************)
(* What is proved about the outbox publisher for any number of instances,  *)
(* events and failures: its invariant, that it implements EventDelivery,   *)
(* the order one instance keeps, and how many copies of an event are sent. *)
(***************************************************************************)
EXTENDS Outbox, FiniteSetTheorems, TLAPS

\* Every row of a batch is a committed event.
BatchesCommitted ==
  \A p \in Publishers : \A i \in DOMAIN publisher[p].batch :
    publisher[p].batch[i] \in outbox_events

Inv == TypeOK /\ ClaimsAreExclusive /\ NoEventLost /\ BatchesCommitted

PublisherFrames == [pc : {"poll", "scan", "lock", "send", "log"}, batch : Seq(Events)]

-----------------------------------------------------------------------------
(* The two ways a frame moves on: to another statement, and to another row. *)

\* A frame that moves to its next statement keeps its batch, and the other
\* frames stay as they are (the statements of poll_and_publish).
LEMMA GoOnFrame ==
  ASSUME TypeOK, NEW p \in Publishers, NEW pc \in {"lock", "send", "log"},
         publisher[p].pc # "poll", GoOn(p, pc)
  PROVE  /\ publisher' \in [Publishers -> PublisherFrames]
         /\ publisher'[p].pc = pc
         /\ publisher'[p].batch = publisher[p].batch
         /\ \A q \in Publishers \ {p} : publisher'[q] = publisher[q]
         /\ \A q \in Publishers : publisher'[q].pc # "poll" => publisher'[q].batch # << >>
BY DEF TypeOK, GoOn, PublisherFrames

\* A frame that moves to the next row drops the first of its batch, and polls
\* again when none is left (the loop of poll_and_publish).
LEMMA NextRowFrame ==
  ASSUME TypeOK, NEW p \in Publishers, publisher[p].pc # "poll", NextRow(p)
  PROVE  /\ publisher' \in [Publishers -> PublisherFrames]
         /\ publisher'[p].pc \in {"poll", "scan"}
         /\ publisher'[p].batch = Tail(publisher[p].batch)
         /\ \A q \in Publishers \ {p} : publisher'[q] = publisher[q]
         /\ \A q \in Publishers : publisher'[q].pc # "poll" => publisher'[q].batch # << >>
<1> DEFINE rest == Tail(publisher[p].batch)
           frame == [pc |-> IF rest = << >> THEN "poll" ELSE "scan", batch |-> rest]
<1>1. publisher[p].batch \in Seq(Events) /\ publisher[p].batch # << >>
  BY DEF TypeOK
<1>2. rest \in Seq(Events)
  BY <1>1
<1>3. frame \in PublisherFrames
  BY <1>2 DEF PublisherFrames
<1>4. publisher' = [publisher EXCEPT ![p] = frame]
  BY DEF NextRow
<1>5. frame.pc \in {"poll", "scan"} /\ frame.batch = rest
      /\ (frame.pc # "poll" => frame.batch # << >>)
  OBVIOUS
<1> HIDE DEF frame, rest
<1>6. QED
  BY <1>3, <1>4, <1>5 DEF TypeOK, PublisherFrames, rest

\* A frame that gives up polls again with no batch.
LEMMA PollingFrame ==
  ASSUME TypeOK, NEW p \in Publishers, publisher' = [publisher EXCEPT ![p] = Polling]
  PROVE  /\ publisher' \in [Publishers -> PublisherFrames]
         /\ publisher'[p].pc = "poll"
         /\ publisher'[p].batch = << >>
         /\ \A q \in Publishers \ {p} : publisher'[q] = publisher[q]
         /\ \A q \in Publishers : publisher'[q].pc # "poll" => publisher'[q].batch # << >>
BY DEF TypeOK, PublisherFrames, Polling

\* The row a running frame is at, and those that come after it, are rows of its
\* batch.
LEMMA RowInBatch ==
  ASSUME TypeOK, NEW p \in Publishers, publisher[p].pc # "poll"
  PROVE  /\ Row(p) \in Events
         /\ Row(p) = publisher[p].batch[1]
         /\ 1 \in DOMAIN publisher[p].batch
         /\ \A i \in DOMAIN Tail(publisher[p].batch) :
              /\ i + 1 \in DOMAIN publisher[p].batch
              /\ Tail(publisher[p].batch)[i] = publisher[p].batch[i + 1]
<1>1. publisher[p].batch \in Seq(Events) /\ publisher[p].batch # << >>
  BY DEF TypeOK
<1>2. QED
  BY <1>1 DEF Row

\* While an instance is not between claim and commit, before and after its
\* step, nothing it does to its frame touches claims or deliveries.
LEMMA QuietStep ==
  ASSUME ClaimsAreExclusive, NoEventLost, NEW p \in Publishers,
         UNCHANGED <<outbox_events, publish_log, copies, row_lock>>,
         publisher[p].pc \notin {"send", "log"}, publisher'[p].pc \notin {"send", "log"},
         \A q \in Publishers \ {p} : publisher'[q] = publisher[q]
  PROVE  ClaimsAreExclusive' /\ NoEventLost'
<1>1. ASSUME NEW q \in Publishers
      PROVE  /\ \A e \in Events : row_lock'[e] = q <=>
                  publisher'[q].pc \in {"send", "log"} /\ Row(q)' = e
             /\ publisher'[q].pc = "log" => Row(q)' \in Delivered'
  <2>1. CASE q = p
    BY <2>1 DEF ClaimsAreExclusive
  <2>2. CASE q # p
    <3>1. publisher'[q] = publisher[q]
      BY <2>2
    <3>2. QED
      BY <3>1 DEF ClaimsAreExclusive, NoEventLost, Row, Delivered
  <2>3. QED
    BY <2>1, <2>2
<1>2. ClaimsAreExclusive'
  BY <1>1 DEF ClaimsAreExclusive
<1>3. NoEventLost'
  BY <1>1 DEF NoEventLost, Delivered
<1>4. QED
  BY <1>2, <1>3

\* The end of a transaction gives back the row it claimed and no other.
LEMMA ReleaseStep ==
  ASSUME TypeOK, ClaimsAreExclusive, NEW p \in Publishers,
         row_lock' = Unlocked(p), publisher'[p].pc \notin {"send", "log"},
         \A q \in Publishers \ {p} : publisher'[q] = publisher[q]
  PROVE  ClaimsAreExclusive' /\ row_lock' \in [Events -> Publishers \cup {NoPublisher}]
<1>1. row_lock' \in [Events -> Publishers \cup {NoPublisher}]
  BY DEF TypeOK, Unlocked
<1>2. ASSUME NEW q \in Publishers, NEW e \in Events
      PROVE  row_lock'[e] = q <=> publisher'[q].pc \in {"send", "log"} /\ Row(q)' = e
  <2>1. CASE q = p
    BY <2>1, OutboxAssumption DEF Unlocked
  <2>2. CASE q # p
    <3>1. publisher'[q] = publisher[q]
      BY <2>2
    <3>2. row_lock'[e] = q <=> row_lock[e] = q
      BY <2>2, OutboxAssumption DEF Unlocked
    <3>3. QED
      BY <3>1, <3>2 DEF ClaimsAreExclusive, Row
  <2>3. QED
    BY <2>1, <2>2
<1>3. QED
  BY <1>1, <1>2 DEF ClaimsAreExclusive

\* The batches stay committed events while they only lose rows.
LEMMA BatchShrinks ==
  ASSUME TypeOK, BatchesCommitted, NEW p \in Publishers, publisher[p].pc # "poll",
         outbox_events' = outbox_events,
         publisher'[p].batch \in {Tail(publisher[p].batch), << >>},
         \A q \in Publishers \ {p} : publisher'[q] = publisher[q]
  PROVE  BatchesCommitted'
<1>1. ASSUME NEW q \in Publishers, NEW i \in DOMAIN publisher'[q].batch
      PROVE  publisher'[q].batch[i] \in outbox_events
  <2>1. CASE q # p
    BY <2>1 DEF BatchesCommitted
  <2>2. CASE q = p /\ publisher'[p].batch = Tail(publisher[p].batch)
    BY <2>2, RowInBatch DEF BatchesCommitted
  <2>3. CASE q = p /\ publisher'[p].batch = << >>
    BY <2>3
  <2>4. QED
    BY <2>1, <2>2, <2>3
<1>2. QED
  BY <1>1 DEF BatchesCommitted

-----------------------------------------------------------------------------
(* One lemma per action of a publisher: its step preserves the invariant.  *)

\* A batch read from the tables holds committed events only.
LEMMA PollStep ==
  ASSUME Inv, NEW p \in Publishers, Poll(p)
  PROVE  Inv'
<1> USE DEF Inv
<1>0. PICK n \in 1..BatchSize : \E b \in [1..n -> Unpublished] :
        publisher' = [publisher EXCEPT ![p] = [pc |-> "scan", batch |-> b]]
  BY DEF Poll
<1>1. PICK b \in [1..n -> Unpublished] :
        publisher' = [publisher EXCEPT ![p] = [pc |-> "scan", batch |-> b]]
  BY <1>0
<1>2. n \in Nat \ {0} /\ Unpublished \subseteq outbox_events /\ outbox_events \subseteq Events
  BY OutboxAssumption DEF Unpublished, TypeOK, Begun
<1>3. b \in Seq(Events) /\ b # << >> /\ \A i \in DOMAIN b : b[i] \in outbox_events
  BY <1>2
<1> DEFINE frame == [pc |-> "scan", batch |-> b]
<1>4. frame \in PublisherFrames /\ frame.pc = "scan" /\ frame.batch = b
  BY <1>3 DEF PublisherFrames
<1>5. publisher' = [publisher EXCEPT ![p] = frame]
  BY <1>1
<1> HIDE DEF frame
<1>6. UNCHANGED <<writer_vars, publish_log, copies, row_lock, failures>>
      /\ publisher[p].pc = "poll"
  BY DEF Poll
<1>7. TypeOK'
  BY <1>3, <1>4, <1>5, <1>6 DEF TypeOK, PublisherFrames, Begun, writer_vars
<1>8. ClaimsAreExclusive'
  BY <1>4, <1>5, <1>6 DEF TypeOK, ClaimsAreExclusive, Row
<1>9. NoEventLost'
  BY <1>4, <1>5, <1>6 DEF TypeOK, NoEventLost, Row, Delivered, writer_vars
<1>10. BatchesCommitted'
  BY <1>3, <1>4, <1>5, <1>6 DEF TypeOK, BatchesCommitted, writer_vars
<1>11. QED
  BY <1>7, <1>8, <1>9, <1>10

\* Reading the log changes no lock and no table.
LEMMA ClaimScanStep ==
  ASSUME Inv, NEW p \in Publishers, ClaimScan(p)
  PROVE  Inv'
<1> USE DEF Inv
<1>1. UNCHANGED <<writer_vars, publish_log, copies, row_lock, failures>>
      /\ publisher[p].pc = "scan"
  BY DEF ClaimScan
<1>2. CASE GoOn(p, "lock")
  <2>1. /\ publisher' \in [Publishers -> PublisherFrames]
        /\ publisher'[p].pc = "lock" /\ publisher'[p].batch = publisher[p].batch
        /\ \A q \in Publishers \ {p} : publisher'[q] = publisher[q]
        /\ \A q \in Publishers : publisher'[q].pc # "poll" => publisher'[q].batch # << >>
    BY <1>1, <1>2, GoOnFrame
  <2>2. TypeOK'
    BY <1>1, <2>1 DEF TypeOK, PublisherFrames, Begun, writer_vars
  <2>3. ClaimsAreExclusive' /\ NoEventLost'
    BY <1>1, <2>1, QuietStep DEF writer_vars
  <2>4. BatchesCommitted'
    BY <1>1, <2>1 DEF BatchesCommitted, writer_vars
  <2>5. QED
    BY <2>2, <2>3, <2>4
<1>3. CASE NextRow(p)
  <2>1. /\ publisher' \in [Publishers -> PublisherFrames]
        /\ publisher'[p].pc \in {"poll", "scan"}
        /\ publisher'[p].batch = Tail(publisher[p].batch)
        /\ \A q \in Publishers \ {p} : publisher'[q] = publisher[q]
        /\ \A q \in Publishers : publisher'[q].pc # "poll" => publisher'[q].batch # << >>
    BY <1>1, <1>3, NextRowFrame
  <2>2. TypeOK'
    BY <1>1, <2>1 DEF TypeOK, PublisherFrames, Begun, writer_vars
  <2>3. ClaimsAreExclusive' /\ NoEventLost'
    BY <1>1, <2>1, QuietStep DEF writer_vars
  <2>4. BatchesCommitted'
    BY <1>1, <2>1, BatchShrinks DEF writer_vars
  <2>5. QED
    BY <2>2, <2>3, <2>4
<1>4. QED
  BY <1>2, <1>3 DEF ClaimScan

\* A row is claimed only when nobody holds it.
LEMMA ClaimLockStep ==
  ASSUME Inv, NEW p \in Publishers, ClaimLock(p)
  PROVE  Inv'
<1> USE DEF Inv
<1>1. UNCHANGED <<writer_vars, publish_log, copies, failures>>
      /\ publisher[p].pc = "lock"
  BY DEF ClaimLock
<1>2. Row(p) \in Events /\ Row(p) = publisher[p].batch[1]
  BY <1>1, RowInBatch
<1>3. CASE RowFree(Row(p))
  <2>1. row_lock' = [row_lock EXCEPT ![Row(p)] = p] /\ GoOn(p, "send")
        /\ row_lock[Row(p)] = NoPublisher
    BY <1>3 DEF ClaimLock, RowFree
  <2>2. /\ publisher' \in [Publishers -> PublisherFrames]
        /\ publisher'[p].pc = "send" /\ publisher'[p].batch = publisher[p].batch
        /\ \A q \in Publishers \ {p} : publisher'[q] = publisher[q]
        /\ \A q \in Publishers : publisher'[q].pc # "poll" => publisher'[q].batch # << >>
    BY <1>1, <2>1, GoOnFrame
  <2>3. TypeOK'
    BY <1>1, <1>2, <2>1, <2>2 DEF TypeOK, PublisherFrames, Begun, writer_vars
  <2>4. ClaimsAreExclusive'
    <3> SUFFICES ASSUME NEW q \in Publishers, NEW e \in Events
                 PROVE  row_lock'[e] = q <=>
                          publisher'[q].pc \in {"send", "log"} /\ Row(q)' = e
      BY DEF ClaimsAreExclusive
    <3>1. Row(q)' = Row(q)
      BY <2>2 DEF Row
    <3>2. row_lock[e] = q <=> publisher[q].pc \in {"send", "log"} /\ Row(q) = e
      BY DEF ClaimsAreExclusive
    <3>3. CASE q = p
      BY <1>1, <1>2, <2>1, <2>2, <3>1, <3>2, <3>3 DEF TypeOK
    <3>4. CASE q # p
      BY <1>1, <1>2, <2>1, <2>2, <3>1, <3>2, <3>4, OutboxAssumption DEF TypeOK
    <3>5. QED
      BY <3>3, <3>4
  <2>5. NoEventLost'
    BY <1>1, <2>2 DEF NoEventLost, Row, Delivered, writer_vars
  <2>6. BatchesCommitted'
    BY <1>1, <2>2 DEF BatchesCommitted, writer_vars
  <2>7. QED
    BY <2>3, <2>4, <2>5, <2>6
<1>4. CASE ~RowFree(Row(p))
  <2>1. NextRow(p) /\ UNCHANGED row_lock
    BY <1>4 DEF ClaimLock
  <2>2. /\ publisher' \in [Publishers -> PublisherFrames]
        /\ publisher'[p].pc \in {"poll", "scan"}
        /\ publisher'[p].batch = Tail(publisher[p].batch)
        /\ \A q \in Publishers \ {p} : publisher'[q] = publisher[q]
        /\ \A q \in Publishers : publisher'[q].pc # "poll" => publisher'[q].batch # << >>
    BY <1>1, <2>1, NextRowFrame
  <2>3. TypeOK'
    BY <1>1, <2>1, <2>2 DEF TypeOK, PublisherFrames, Begun, writer_vars
  <2>4. ClaimsAreExclusive' /\ NoEventLost'
    BY <1>1, <2>1, <2>2, QuietStep DEF writer_vars
  <2>5. BatchesCommitted'
    BY <1>1, <2>2, BatchShrinks DEF writer_vars
  <2>6. QED
    BY <2>3, <2>4, <2>5
<1>5. QED
  BY <1>3, <1>4

\* What is sent is a claimed row of the batch, hence committed.
LEMMA SendStep ==
  ASSUME Inv, NEW p \in Publishers, Send(p)
  PROVE  Inv'
<1> USE DEF Inv
<1>1. UNCHANGED <<writer_vars, publish_log, row_lock, failures>>
      /\ publisher[p].pc = "send" /\ GoOn(p, "log")
      /\ copies' = [copies EXCEPT ![Row(p)] = @ + 1]
  BY DEF Send
<1>2. Row(p) \in Events /\ Row(p) \in outbox_events
  BY <1>1, RowInBatch DEF BatchesCommitted
<1>3. /\ publisher' \in [Publishers -> PublisherFrames]
      /\ publisher'[p].pc = "log" /\ publisher'[p].batch = publisher[p].batch
      /\ \A q \in Publishers \ {p} : publisher'[q] = publisher[q]
      /\ \A q \in Publishers : publisher'[q].pc # "poll" => publisher'[q].batch # << >>
  BY <1>1, GoOnFrame
<1>4. TypeOK'
  BY <1>1, <1>2, <1>3 DEF TypeOK, PublisherFrames, Begun, writer_vars
<1>5. \A q \in Publishers : Row(q)' = Row(q)
  BY <1>3 DEF Row
<1>6. ClaimsAreExclusive'
  BY <1>1, <1>3, <1>5 DEF ClaimsAreExclusive
<1>7. Delivered' = Delivered \cup {Row(p)}
  BY <1>1, <1>2 DEF TypeOK, Delivered
<1>8. NoEventLost'
  <2>1. \A q \in Publishers : publisher'[q].pc = "log" => Row(q)' \in Delivered'
    BY <1>3, <1>5, <1>7 DEF NoEventLost
  <2>2. QED
    BY <1>1, <1>2, <1>7, <2>1 DEF NoEventLost, writer_vars
<1>9. BatchesCommitted'
  BY <1>1, <1>3 DEF BatchesCommitted, writer_vars
<1>10. QED
  BY <1>4, <1>6, <1>8, <1>9

\* A failed send gives the claim up; its copy, if any, is of a committed event.
LEMMA SendFailsStep ==
  ASSUME Inv, NEW p \in Publishers, SendFails(p)
  PROVE  Inv'
<1> USE DEF Inv
<1>1. /\ UNCHANGED <<writer_vars, publish_log>> /\ publisher[p].pc = "send"
      /\ failures < MaxFailures /\ failures' = failures + 1
      /\ copies' \in {copies, [copies EXCEPT ![Row(p)] = @ + 1]}
      /\ row_lock' = Unlocked(p) /\ publisher' = [publisher EXCEPT ![p] = Polling]
  BY DEF SendFails, AfterSendError
<1>2. Row(p) \in Events /\ Row(p) \in outbox_events
  BY <1>1, RowInBatch DEF BatchesCommitted
<1>3. /\ publisher' \in [Publishers -> PublisherFrames]
      /\ publisher'[p].pc = "poll" /\ publisher'[p].batch = << >>
      /\ \A q \in Publishers \ {p} : publisher'[q] = publisher[q]
      /\ \A q \in Publishers : publisher'[q].pc # "poll" => publisher'[q].batch # << >>
  BY <1>1, PollingFrame
<1>4. ClaimsAreExclusive' /\ row_lock' \in [Events -> Publishers \cup {NoPublisher}]
  BY <1>1, <1>3, ReleaseStep
<1>5. failures' \in 0..MaxFailures
  BY <1>1, OutboxAssumption DEF TypeOK
<1> DEFINE one_more == [copies EXCEPT ![Row(p)] = @ + 1]
<1>6. /\ one_more \in [Events -> Nat]
      /\ \A e \in Events : copies[e] > 0 => one_more[e] > 0
      /\ \A e \in Events : one_more[e] > 0 => copies[e] > 0 \/ e = Row(p)
  BY <1>2 DEF TypeOK
<1>7. copies' = copies \/ copies' = one_more
  BY <1>1
<1> HIDE DEF one_more
<1>8. TypeOK'
  BY <1>1, <1>3, <1>4, <1>5, <1>6, <1>7 DEF TypeOK, PublisherFrames, Begun, writer_vars
<1>9. Delivered \subseteq Delivered' /\ Delivered' \subseteq Delivered \cup {Row(p)}
  BY <1>6, <1>7 DEF Delivered
<1>10. NoEventLost'
  <2>1. ASSUME NEW q \in Publishers, publisher'[q].pc = "log"
        PROVE  Row(q)' \in Delivered'
    <3>1. publisher'[q] = publisher[q]
      BY <1>3, <2>1
    <3>2. QED
      BY <1>9, <2>1, <3>1 DEF NoEventLost, Row
  <2>2. QED
    BY <1>1, <1>2, <1>9, <2>1 DEF NoEventLost, writer_vars
<1>11. BatchesCommitted'
  BY <1>1, <1>3, BatchShrinks DEF writer_vars
<1>12. QED
  BY <1>4, <1>8, <1>10, <1>11

\* Log and PublisherFails end the transaction, with or without the log row.
LEMMA EndStep ==
  ASSUME Inv, NEW p \in Publishers, publisher[p].pc # "poll",
         UNCHANGED <<writer_vars, copies>>, failures' \in 0..MaxFailures,
         \/ publish_log' = publish_log
         \/ publisher[p].pc = "log" /\ publish_log' = publish_log \cup {Row(p)},
         row_lock' = Unlocked(p),
         publisher' = [publisher EXCEPT ![p] = Polling] \/ NextRow(p)
  PROVE  Inv'
<1> USE DEF Inv
<1>1. Row(p) \in Events
  BY RowInBatch
<1>2. /\ publisher' \in [Publishers -> PublisherFrames]
      /\ publisher'[p].pc \in {"poll", "scan"}
      /\ publisher'[p].batch \in {Tail(publisher[p].batch), << >>}
      /\ \A q \in Publishers \ {p} : publisher'[q] = publisher[q]
      /\ \A q \in Publishers : publisher'[q].pc # "poll" => publisher'[q].batch # << >>
  BY PollingFrame, NextRowFrame
<1>3. ClaimsAreExclusive' /\ row_lock' \in [Events -> Publishers \cup {NoPublisher}]
  BY <1>2, ReleaseStep
<1>4. TypeOK'
  BY <1>1, <1>2, <1>3 DEF TypeOK, PublisherFrames, Begun, writer_vars
<1>5. NoEventLost'
  <2>1. ASSUME NEW q \in Publishers, publisher'[q].pc = "log"
        PROVE  Row(q)' \in Delivered'
    <3>1. publisher'[q] = publisher[q]
      BY <1>2, <2>1
    <3>2. QED
      BY <2>1, <3>1 DEF NoEventLost, Row, Delivered
  <2>2. publish_log' \subseteq Delivered'
    BY DEF NoEventLost, Delivered
  <2>3. QED
    BY <2>1, <2>2 DEF NoEventLost, Delivered, writer_vars
<1>6. BatchesCommitted'
  BY <1>2, BatchShrinks DEF writer_vars
<1>7. QED
  BY <1>3, <1>4, <1>5, <1>6

\* Writers touch neither locks nor the log.
LEMMA WriterStep ==
  ASSUME Inv, NEW e \in Events, WriterBegin(e) \/ WriterCommit(e)
  PROVE  Inv'
<1> USE DEF Inv
<1>1. UNCHANGED <<publish_log, copies, row_lock, publisher, failures>>
      /\ outbox_events \subseteq outbox_events'
  BY DEF WriterBegin, WriterCommit
<1>2. TypeOK'
  <2>1. CASE WriterBegin(e)
    <3>1. now' \in Nat /\ created_at' \in [Events -> 0..now']
      BY <2>1 DEF WriterBegin, TypeOK
    <3>2. outbox_events' \subseteq Begun'
      BY <2>1 DEF WriterBegin, TypeOK, Begun
    <3>3. before' \in [Events -> SUBSET Events]
      BY <2>1 DEF WriterBegin, TypeOK, Begun
    <3>4. QED
      BY <1>1, <3>1, <3>2, <3>3 DEF TypeOK
  <2>2. CASE WriterCommit(e)
    BY <1>1, <2>2 DEF WriterCommit, TypeOK, Begun
  <2>3. QED
    BY <2>1, <2>2
<1>3. ClaimsAreExclusive' /\ NoEventLost' /\ BatchesCommitted'
  BY <1>1 DEF ClaimsAreExclusive, NoEventLost, BatchesCommitted, Row, Delivered
<1>4. QED
  BY <1>2, <1>3

-----------------------------------------------------------------------------

\* Nothing is claimed, sent or logged at first.
LEMMA InvInit == Init => Inv
<1> SUFFICES ASSUME Init PROVE Inv
  OBVIOUS
<1>1. TypeOK
  BY OutboxAssumption DEF Init, TypeOK, Polling, Begun
<1>2. ClaimsAreExclusive
  BY OutboxAssumption DEF Init, ClaimsAreExclusive, Polling
<1>3. NoEventLost /\ BatchesCommitted
  BY DEF Init, NoEventLost, BatchesCommitted, Delivered, Polling
<1>4. QED
  BY <1>1, <1>2, <1>3 DEF Inv

\* The invariant is inductive.
LEMMA InvNext == Inv /\ [Next]_vars => Inv'
<1> SUFFICES ASSUME Inv, [Next]_vars PROVE Inv'
  OBVIOUS
<1>1. ASSUME NEW e \in Events, WriterBegin(e) \/ WriterCommit(e) PROVE Inv'
  BY <1>1, WriterStep
<1>2. ASSUME NEW p \in Publishers, Poll(p) \/ ClaimScan(p) \/ ClaimLock(p) \/ Send(p)
      PROVE  Inv'
  BY <1>2, PollStep, ClaimScanStep, ClaimLockStep, SendStep
<1>3. ASSUME NEW p \in Publishers, SendFails(p) PROVE Inv'
  BY <1>3, SendFailsStep
<1>4. ASSUME NEW p \in Publishers, Log(p) PROVE Inv'
  <2>1. failures' \in 0..MaxFailures
    BY <1>4 DEF Log, Inv, TypeOK
  <2>2. QED
    BY <1>4, <2>1, EndStep DEF Log, Logged
<1>5. ASSUME NEW p \in Publishers, PublisherFails(p) PROVE Inv'
  <2>1. failures' \in 0..MaxFailures
    BY <1>5, OutboxAssumption DEF PublisherFails, Inv, TypeOK
  <2>2. \/ publish_log' = publish_log
        \/ publisher[p].pc = "log" /\ publish_log' = publish_log \cup {Row(p)}
    BY <1>5 DEF PublisherFails, Logged
  <2>3. QED
    BY <1>5, <2>1, <2>2, EndStep DEF PublisherFails
<1>6. CASE UNCHANGED vars
  BY <1>6 DEF vars, writer_vars, Inv, TypeOK, ClaimsAreExclusive, NoEventLost,
              BatchesCommitted, Row, Delivered, Begun
<1>7. QED
  BY <1>1, <1>2, <1>3, <1>4, <1>5, <1>6 DEF Next, PublisherStep

\* The three properties above hold in every reachable state (outbox.rs).
THEOREM OutboxInvariant == Spec => []Inv
BY InvInit, InvNext, PTL DEF Spec

\* The types of the publisher's frames, locks, log and counters (outbox.rs): an
\* instance that is not between two polls has a row to work on.
THEOREM TypeCorrect == Spec => []TypeOK
<1>1. Inv => TypeOK
  BY DEF Inv
<1>2. QED
  BY <1>1, OutboxInvariant, PTL

\* No event is lost, invented, or logged as published without having been sent,
\* for any number of instances and whatever fails (poll_and_publish).
THEOREM NothingLost == Spec => []NoEventLost
<1>1. Inv => NoEventLost
  BY DEF Inv
<1>2. QED
  BY <1>1, OutboxInvariant, PTL

\* Two instances are never sending the same event at the same time, and a row
\* lock never outlives the transaction that took it (FOR UPDATE SKIP LOCKED).
THEOREM ClaimsExclude == Spec => []ClaimsAreExclusive
<1>1. Inv => ClaimsAreExclusive
  BY DEF Inv
<1>2. QED
  BY <1>1, OutboxInvariant, PTL

-----------------------------------------------------------------------------
(* Refinement: every step delivers one committed event, logs one delivered *)
(* event, commits one, or changes nothing the abstract specification sees. *)

\* The safety half of DeliversAtLeastOnce: the publishers implement
\* EventDelivery, whatever fails and however they interleave.
THEOREM DeliversSafely == Spec => D!SafeSpec
<1>1. Init => D!Init
  BY DEF Init, D!Init, Delivered
<1>2. Inv /\ Inv' /\ [Next]_vars => [D!Next]_D!vars
  <2> SUFFICES ASSUME Inv, Inv', [Next]_vars PROVE D!Next \/ UNCHANGED D!vars
    OBVIOUS
  <2> USE DEF Inv
  <2>1. ASSUME NEW e \in Events, WriterBegin(e) PROVE UNCHANGED D!vars
    BY <2>1 DEF WriterBegin, D!vars, Delivered
  <2>2. ASSUME NEW e \in Events, WriterCommit(e) PROVE D!Commit(e)
    BY <2>2 DEF WriterCommit, D!Commit, Delivered
  <2>3. ASSUME NEW p \in Publishers, Poll(p) \/ ClaimScan(p) \/ ClaimLock(p)
        PROVE  UNCHANGED D!vars
    BY <2>3 DEF Poll, ClaimScan, ClaimLock, D!vars, Delivered, writer_vars
  <2>4. ASSUME NEW p \in Publishers, Send(p) \/ SendFails(p)
        PROVE  (\E e \in Events : D!Deliver(e)) \/ UNCHANGED D!vars
    <3>1. publisher[p].pc = "send"
      BY <2>4 DEF Send, SendFails
    <3>2. Row(p) \in Events /\ Row(p) \in outbox_events
      BY <3>1, RowInBatch DEF BatchesCommitted
    <3>3. UNCHANGED <<outbox_events, publish_log>>
      BY <2>4 DEF Send, SendFails, writer_vars
    <3>4. CASE copies' = copies
      BY <3>3, <3>4 DEF D!vars, Delivered
    <3>5. CASE copies' = [copies EXCEPT ![Row(p)] = @ + 1]
      <4>1. Delivered' = Delivered \cup {Row(p)}
        BY <3>2, <3>5 DEF TypeOK, Delivered
      <4>2. D!Deliver(Row(p))
        BY <3>2, <3>3, <4>1 DEF D!Deliver
      <4>3. QED
        BY <3>2, <4>2
    <3>6. QED
      BY <2>4, <3>4, <3>5 DEF Send, SendFails
  <2>5. ASSUME NEW p \in Publishers, Log(p) \/ PublisherFails(p)
        PROVE  (\E e \in Events : D!Publish(e)) \/ UNCHANGED D!vars
    <3>1. publisher[p].pc # "poll"
      BY <2>5 DEF Log, PublisherFails
    <3>2. Row(p) \in Events
      BY <3>1, RowInBatch
    <3>3. UNCHANGED <<outbox_events, copies>>
      BY <2>5 DEF Log, PublisherFails, writer_vars
    <3>4. Delivered' = Delivered
      BY <3>3 DEF Delivered
    <3>5. CASE publish_log' = publish_log
      BY <3>3, <3>4, <3>5 DEF D!vars
    <3>6. CASE publisher[p].pc = "log" /\ publish_log' = publish_log \cup {Row(p)}
      <4>1. D!Publish(Row(p))
        BY <3>3, <3>4, <3>6 DEF NoEventLost, D!Publish
      <4>2. QED
        BY <3>2, <4>1
    <3>7. QED
      BY <2>5, <3>5, <3>6 DEF Log, PublisherFails, Logged
  <2>6. CASE UNCHANGED vars
    BY <2>6 DEF vars, writer_vars, D!vars, Delivered
  <2>7. QED
    BY <2>1, <2>2, <2>3, <2>4, <2>5, <2>6 DEF Next, PublisherStep, D!Next
<1>3. QED
  BY <1>1, <1>2, OutboxInvariant, PTL DEF Spec, D!SafeSpec

-----------------------------------------------------------------------------
(* One instance alone delivers causes before effects.                      *)

\* What is committed before an event begins is older than it, and whatever of
\* it is not delivered yet stands before the event in its batch.
CausesComeBefore ==
  /\ \A e \in Events : before[e] \subseteq outbox_events
  /\ \A e \in Events : \A f \in before[e] : created_at[f] < created_at[e]
  /\ \A p \in Publishers : \A i \in DOMAIN publisher[p].batch :
       \A f \in before[publisher[p].batch[i]] :
         f \in Delivered \/ \E j \in 1..(i - 1) : f = publisher[p].batch[j]

CausalInv == Inv /\ CausesComeBefore /\ CausesFirst

\* Dropping the first row of a batch is harmless once it has been delivered.
LEMMA DeliveredRowGoes ==
  ASSUME TypeOK, CausesComeBefore, NEW p \in Publishers,
         \A q \in Publishers : q = p, publisher[p].pc # "poll",
         UNCHANGED writer_vars, Delivered \subseteq Delivered', Row(p) \in Delivered',
         publisher'[p].batch \in {publisher[p].batch, Tail(publisher[p].batch), << >>}
  PROVE  CausesComeBefore'
<1>1. ASSUME NEW i \in DOMAIN publisher'[p].batch,
             NEW f \in before[publisher'[p].batch[i]]
      PROVE  f \in Delivered' \/ \E j \in 1..(i - 1) : f = publisher'[p].batch[j]
  <2>1. CASE publisher'[p].batch = publisher[p].batch
    BY <2>1 DEF CausesComeBefore
  <2>2. CASE publisher'[p].batch = Tail(publisher[p].batch)
    <3>1. publisher[p].batch \in Seq(Events) /\ publisher[p].batch # << >>
      BY DEF TypeOK
    <3>2. i \in Nat \ {0} /\ i + 1 \in DOMAIN publisher[p].batch
          /\ publisher'[p].batch[i] = publisher[p].batch[i + 1]
      BY <2>2, <3>1
    <3>3. f \in Delivered \/ \E j \in 1..i : f = publisher[p].batch[j]
      BY <3>2 DEF CausesComeBefore
    <3>4. ASSUME NEW j \in 1..i, f = publisher[p].batch[j]
          PROVE  f \in Delivered' \/ \E k \in 1..(i - 1) : f = publisher'[p].batch[k]
      <4>1. CASE j = 1
        BY <3>4, <4>1, RowInBatch
      <4>2. CASE j # 1
        <5>1. j - 1 \in 1..(i - 1) /\ j - 1 \in DOMAIN publisher'[p].batch
          BY <2>2, <3>1, <3>2, <4>2
        <5>2. publisher'[p].batch[j - 1] = publisher[p].batch[j]
          BY <2>2, <3>1, <5>1
        <5>3. QED
          BY <3>4, <5>1, <5>2
      <4>3. QED
        BY <4>1, <4>2
    <3>5. QED
      BY <3>3, <3>4
  <2>3. CASE publisher'[p].batch = << >>
    BY <2>3
  <2>4. QED
    BY <2>1, <2>2, <2>3
<1>2. QED
  BY <1>1 DEF CausesComeBefore, writer_vars

\* With one instance, every step keeps the order of causes.
LEMMA CausalNext ==
  ASSUME CausalInv, Inv', \A p, q \in Publishers : p = q, [Next]_vars
  PROVE  CausalInv'
<1> USE DEF CausalInv, Inv
<1>1. ASSUME NEW e \in Events, WriterBegin(e) PROVE CausesComeBefore' /\ CausesFirst'
  <2>1. /\ e \notin Begun /\ UNCHANGED <<outbox_events, publish_log, copies, publisher>>
        /\ created_at' = [created_at EXCEPT ![e] = now + 1]
        /\ before' = [before EXCEPT ![e] = outbox_events]
    BY <1>1 DEF WriterBegin
  <2>2. Delivered' = Delivered /\ e \notin outbox_events /\ e \notin Delivered
    BY <2>1 DEF Delivered, TypeOK, NoEventLost
  <2>3. CausesFirst'
    BY <2>1, <2>2 DEF CausesFirst, TypeOK
  <2>4. \A g \in Events : before'[g] \subseteq outbox_events'
    BY <2>1 DEF CausesComeBefore, TypeOK
  <2>5. ASSUME NEW g \in Events, NEW f \in before'[g]
        PROVE  created_at'[f] < created_at'[g]
    <3>1. f \in outbox_events /\ f \in Events /\ f # e
      BY <2>1, <2>2, <2>4 DEF TypeOK, Begun
    <3>2. created_at'[f] = created_at[f] /\ created_at[f] <= now /\ now \in Nat
      BY <2>1, <3>1 DEF TypeOK
    <3>3. CASE g = e
      BY <2>1, <3>2, <3>3 DEF TypeOK
    <3>4. CASE g # e
      BY <2>1, <3>2, <3>4 DEF TypeOK, CausesComeBefore
    <3>5. QED
      BY <3>3, <3>4
  <2>6. ASSUME NEW p \in Publishers, NEW i \in DOMAIN publisher'[p].batch,
               NEW f \in before'[publisher'[p].batch[i]]
        PROVE  f \in Delivered' \/ \E j \in 1..(i - 1) : f = publisher'[p].batch[j]
    <3>1. publisher[p].batch[i] \in outbox_events
      BY <2>1 DEF BatchesCommitted
    <3>2. before'[publisher[p].batch[i]] = before[publisher[p].batch[i]]
      BY <2>1, <2>2, <3>1 DEF TypeOK, Begun
    <3>3. QED
      BY <2>1, <2>2, <3>2 DEF CausesComeBefore
  <2>7. QED
    BY <2>3, <2>4, <2>5, <2>6 DEF CausesComeBefore
<1>2. ASSUME NEW e \in Events, WriterCommit(e) PROVE CausesComeBefore' /\ CausesFirst'
  BY <1>2 DEF WriterCommit, CausesComeBefore, CausesFirst, Delivered
<1>3. ASSUME NEW p \in Publishers, Poll(p) PROVE CausesComeBefore' /\ CausesFirst'
  <2>1. UNCHANGED writer_vars /\ Delivered' = Delivered
    BY <1>3 DEF Poll, Delivered
  <2>2. PICK n \in 1..BatchSize : \E b \in [1..n -> Unpublished] :
          /\ IsBatch(b)
          /\ publisher' = [publisher EXCEPT ![p] = [pc |-> "scan", batch |-> b]]
    BY <1>3 DEF Poll
  <2>3. PICK b \in [1..n -> Unpublished] :
          /\ IsBatch(b)
          /\ publisher' = [publisher EXCEPT ![p] = [pc |-> "scan", batch |-> b]]
    BY <2>2
  <2>4. publisher'[p].batch = b
    BY <2>3 DEF TypeOK
  <2>5. n \in Nat /\ DOMAIN b = 1..n
    BY <2>3, OutboxAssumption
  <2>6. ASSUME NEW i \in 1..n, NEW f \in before[b[i]]
        PROVE  f \in Delivered \/ \E j \in 1..(i - 1) : f = b[j]
    <3>1. b[i] \in Events /\ f \in outbox_events /\ f \in Events
          /\ created_at[f] < created_at[b[i]]
      BY <2>3 DEF CausesComeBefore, TypeOK, Begun, Unpublished
    <3>2. CASE f \in publish_log
      BY <3>2 DEF NoEventLost
    <3>3. CASE f \notin publish_log
      <4>1. f \in Unpublished
        BY <3>1, <3>3 DEF Unpublished
      <4>2. created_at[f] \in Nat /\ created_at[b[i]] \in Nat
        BY <3>1 DEF TypeOK
      <4>3. f \in Range(b)
        BY <2>3, <2>5, <3>1, <4>1, <4>2 DEF IsBatch
      <4>4. PICK j \in 1..n : b[j] = f
        BY <2>5, <4>3 DEF Range
      <4>5. ~ (i < j) /\ i # j
        BY <2>3, <2>5, <3>1, <4>2, <4>4 DEF IsBatch
      <4>6. j \in 1..(i - 1)
        BY <2>5, <4>5
      <4>7. QED
        BY <4>4, <4>6
    <3>4. QED
      BY <3>2, <3>3
  <2>7. ASSUME NEW q \in Publishers, NEW i \in DOMAIN publisher'[q].batch,
               NEW f \in before'[publisher'[q].batch[i]]
        PROVE  f \in Delivered' \/ \E j \in 1..(i - 1) : f = publisher'[q].batch[j]
    <3>1. q = p
      OBVIOUS
    <3>2. QED
      BY <2>1, <2>4, <2>5, <2>6, <3>1 DEF writer_vars
  <2>8. CausesComeBefore'
    BY <2>1, <2>7 DEF CausesComeBefore, writer_vars
  <2>9. CausesFirst'
    BY <2>1 DEF CausesFirst, writer_vars
  <2>10. QED
    BY <2>8, <2>9
<1>4. ASSUME NEW p \in Publishers, ClaimScan(p) PROVE CausesComeBefore' /\ CausesFirst'
  <2>1. /\ UNCHANGED writer_vars /\ Delivered' = Delivered /\ publisher[p].pc # "poll"
    BY <1>4 DEF ClaimScan, Delivered
  <2>2. CASE GoOn(p, "lock")
    BY <2>1, <2>2, GoOnFrame DEF CausesComeBefore, CausesFirst, writer_vars
  <2>3. CASE NextRow(p) /\ Row(p) \in publish_log
    <3>1. Row(p) \in Delivered'
      BY <2>1, <2>3 DEF NoEventLost
    <3>2. CausesComeBefore'
      BY <2>1, <2>3, <3>1, NextRowFrame, DeliveredRowGoes
    <3>3. QED
      BY <2>1, <3>2 DEF CausesFirst, writer_vars
  <2>4. QED
    BY <1>4, <2>2, <2>3 DEF ClaimScan
<1>5. ASSUME NEW p \in Publishers, ClaimLock(p) PROVE CausesComeBefore' /\ CausesFirst'
  <2>1. /\ UNCHANGED writer_vars /\ Delivered' = Delivered /\ publisher[p].pc = "lock"
    BY <1>5 DEF ClaimLock, Delivered
  <2>2. RowFree(Row(p))
    <3>1. Row(p) \in Events
      BY <2>1, RowInBatch
    <3>2. row_lock[Row(p)] # p
      BY <2>1, <3>1 DEF ClaimsAreExclusive
    <3>3. QED
      BY <3>1, <3>2 DEF TypeOK, RowFree
  <2>3. GoOn(p, "send")
    BY <1>5, <2>2 DEF ClaimLock
  <2>4. QED
    BY <2>1, <2>3, GoOnFrame DEF CausesComeBefore, CausesFirst, writer_vars
<1>6. ASSUME NEW p \in Publishers, Send(p) \/ SendFails(p)
      PROVE  CausesComeBefore' /\ CausesFirst'
  <2>1. /\ UNCHANGED writer_vars /\ publisher[p].pc = "send"
        /\ copies' \in {copies, [copies EXCEPT ![Row(p)] = @ + 1]}
    BY <1>6 DEF Send, SendFails
  <2>2. Row(p) \in Events /\ Row(p) = publisher[p].batch[1]
        /\ 1 \in DOMAIN publisher[p].batch
    BY <2>1, RowInBatch
  <2>3. Delivered' = Delivered \/ Delivered' = Delivered \cup {Row(p)}
    <3>1. CASE copies' = copies
      BY <3>1 DEF Delivered
    <3>2. CASE copies' = [copies EXCEPT ![Row(p)] = @ + 1]
      BY <2>2, <3>2 DEF TypeOK, Delivered
    <3>3. QED
      BY <2>1, <3>1, <3>2
  <2>4. before[Row(p)] \subseteq Delivered
    BY <2>2 DEF CausesComeBefore
  <2>5. CausesFirst'
    BY <2>1, <2>3, <2>4 DEF CausesFirst, writer_vars
  <2>6. publisher'[p].batch \in {publisher[p].batch, << >>}
    <3>1. CASE Send(p)
      BY <2>1, <3>1, GoOnFrame DEF Send
    <3>2. CASE SendFails(p)
      BY <3>2, PollingFrame DEF SendFails, AfterSendError
    <3>3. QED
      BY <1>6, <3>1, <3>2
  <2>7. ASSUME NEW q \in Publishers, NEW i \in DOMAIN publisher'[q].batch,
               NEW f \in before'[publisher'[q].batch[i]]
        PROVE  f \in Delivered' \/ \E j \in 1..(i - 1) : f = publisher'[q].batch[j]
    <3>1. q = p
      OBVIOUS
    <3>2. publisher'[p].batch = publisher[p].batch
      BY <2>6, <2>7, <3>1
    <3>3. QED
      BY <2>1, <2>3, <3>1, <3>2 DEF CausesComeBefore, writer_vars
  <2>8. CausesComeBefore'
    BY <2>1, <2>7 DEF CausesComeBefore, writer_vars
  <2>9. QED
    BY <2>5, <2>8
<1>7. ASSUME NEW p \in Publishers, Log(p) \/ PublisherFails(p)
      PROVE  CausesComeBefore' /\ CausesFirst'
  <2>1. UNCHANGED writer_vars /\ Delivered' = Delivered /\ publisher[p].pc # "poll"
    BY <1>7 DEF Log, PublisherFails, Delivered
  <2>2. CASE publisher' = [publisher EXCEPT ![p] = Polling]
    <3>1. publisher'[p].batch = << >>
      BY <2>2 DEF TypeOK, Polling
    <3>2. ASSUME NEW q \in Publishers PROVE publisher'[q].batch = << >>
      BY <3>1
    <3>3. QED
      BY <2>1, <3>2 DEF CausesComeBefore, CausesFirst, writer_vars
  <2>3. CASE NextRow(p) /\ publisher[p].pc = "log"
    <3>1. Row(p) \in Delivered'
      BY <2>1, <2>3 DEF NoEventLost
    <3>2. CausesComeBefore'
      BY <2>1, <2>3, <3>1, NextRowFrame, DeliveredRowGoes
    <3>3. QED
      BY <2>1, <3>2 DEF CausesFirst, writer_vars
  <2>4. QED
    BY <1>7, <2>2, <2>3 DEF Log, PublisherFails
<1>8. CASE UNCHANGED vars
  BY <1>8 DEF vars, writer_vars, CausesComeBefore, CausesFirst, Delivered
<1>9. QED
  BY <1>1, <1>2, <1>3, <1>4, <1>5, <1>6, <1>7, <1>8 DEF Next, PublisherStep

\* With a single publisher instance an event never reaches Kafka before one that
\* was committed when its transaction began, whatever fails (the ORDER BY, the
\* break after a failed send).
THEOREM SingleInstanceKeepsOrder ==
  ASSUME \A p, q \in Publishers : p = q
  PROVE  Spec => []CausesFirst
<1>1. Init => CausalInv
  BY InvInit DEF Init, CausalInv, CausesComeBefore, CausesFirst, Delivered, Polling
<1>2. CausalInv /\ Inv' /\ [Next]_vars => CausalInv'
  BY CausalNext
<1>3. CausalInv => CausesFirst
  BY DEF CausalInv
<1>4. QED
  BY <1>1, <1>2, <1>3, OutboxInvariant, PTL DEF Spec

-----------------------------------------------------------------------------
(* How often an event is sent.                                             *)

\* The instances that may yet send an event, whatever the log says.
Pending(e) ==
  {p \in Publishers : publisher[p].pc \in {"lock", "send"} /\ Row(p) = e}
Logging(e) == \E p \in Publishers : publisher[p].pc = "log" /\ Row(p) = e

\* Until an event is logged only failures repeat it; from then on only the
\* instances that are already past the check.
CountedCopies(e) ==
  /\ e \notin publish_log => copies[e] <= failures + 1
  /\ e \notin publish_log /\ ~Logging(e) => copies[e] <= failures
  /\ e \in publish_log =>
       copies[e] + Cardinality(Pending(e)) <= Cardinality(Publishers) + failures
CopiesInv == \A e \in Events : CountedCopies(e)

\* A set of instances has a size, and so has each part of it.
LEMMA SizesOfParts ==
  ASSUME NEW S \in SUBSET Publishers, NEW T \in SUBSET S
  PROVE  /\ IsFiniteSet(S) /\ Cardinality(S) \in Nat /\ Cardinality(T) \in Nat
         /\ Cardinality(T) <= Cardinality(S)
         /\ \A p \in S : p \notin T => Cardinality(T) + 1 <= Cardinality(S)
<1>1. IsFiniteSet(S) /\ IsFiniteSet(T)
  BY OutboxAssumption, FS_Subset
<1>2. Cardinality(S) \in Nat /\ Cardinality(T) \in Nat
  BY <1>1, FS_CardinalityType
<1>3. Cardinality(T) <= Cardinality(S)
  BY <1>1, FS_Subset
<1>4. ASSUME NEW p \in S, p \notin T
      PROVE  Cardinality(T) + 1 <= Cardinality(S)
  <2>1. IsFiniteSet(T \cup {p}) /\ Cardinality(T \cup {p}) = Cardinality(T) + 1
    BY <1>1, <1>4, FS_AddElement
  <2>2. T \cup {p} \subseteq S
    BY <1>4
  <2>3. Cardinality(T \cup {p}) <= Cardinality(S)
    BY <1>1, <2>2, FS_Subset
  <2> QED
    BY <2>1, <2>3
<1> QED
  BY <1>1, <1>2, <1>3, <1>4

\* Counts stay right for an event that is neither sent nor logged.
LEMMA NotCounted ==
  ASSUME TypeOK, TypeOK', NEW e \in Events, CountedCopies(e),
         copies'[e] = copies[e], failures <= failures',
         e \in publish_log' <=> e \in publish_log,
         e \notin publish_log /\ Logging(e) => Logging(e)' \/ failures + 1 <= failures',
         e \in publish_log => Pending(e)' \subseteq Pending(e)
  PROVE  CountedCopies(e)'
<1>1. /\ copies[e] \in Nat /\ failures \in Nat /\ failures' \in Nat
      /\ Cardinality(Publishers) \in Nat
  BY SizesOfParts, OutboxAssumption DEF TypeOK
<1>2. ASSUME e \in publish_log
      PROVE  /\ Cardinality(Pending(e)) \in Nat /\ Cardinality(Pending(e)') \in Nat
             /\ Cardinality(Pending(e)') <= Cardinality(Pending(e))
  <2>1. Pending(e) \in SUBSET Publishers /\ Pending(e)' \in SUBSET Pending(e)
    BY <1>2 DEF Pending
  <2> QED
    BY <2>1, SizesOfParts
<1>3. CASE e \in publish_log
  BY <1>1, <1>2, <1>3 DEF CountedCopies
<1>4. CASE e \notin publish_log
  BY <1>1, <1>4 DEF CountedCopies
<1> QED
  BY <1>3, <1>4

\* A row that is being sent is being logged by nobody.
LEMMA SendingIsNotLogging ==
  ASSUME ClaimsAreExclusive, NEW p \in Publishers, publisher[p].pc = "send",
         Row(p) \in Events
  PROVE  ~Logging(Row(p))
BY DEF ClaimsAreExclusive, Logging

\* Writers, polls and claims send nothing; a claim is scanned for before the
\* event is logged.
LEMMA CopiesQuiet ==
  ASSUME Inv, Inv', CopiesInv, NEW e \in Events,
         \/ \E f \in Events : WriterBegin(f) \/ WriterCommit(f)
         \/ \E p \in Publishers : Poll(p) \/ ClaimScan(p) \/ ClaimLock(p)
  PROVE  CountedCopies(e)'
<1> USE DEF Inv
<1>1. UNCHANGED <<publish_log, copies, failures>> /\ failures \in Nat
  BY OutboxAssumption DEF WriterBegin, WriterCommit, Poll, ClaimScan, ClaimLock, TypeOK
<1>2. CountedCopies(e)
  BY DEF CopiesInv
<1>3. CASE publisher' = publisher
  <2>1. Pending(e)' = Pending(e) /\ Logging(e)' = Logging(e)
    BY <1>3 DEF Pending, Logging, Row
  <2> QED
    BY <1>1, <1>2, <2>1, NotCounted
<1>4. ASSUME NEW p \in Publishers, Poll(p) \/ ClaimScan(p) \/ ClaimLock(p)
      PROVE  CountedCopies(e)'
  <2>1. publisher[p].pc # "log" /\ \A q \in Publishers \ {p} : publisher'[q] = publisher[q]
    BY <1>4, OutboxAssumption DEF Poll, ClaimScan, ClaimLock, GoOn, NextRow, TypeOK
  <2>2. Logging(e) => Logging(e)'
    BY <2>1 DEF Logging, Row
  <2>3. e \in publish_log /\ p \in Pending(e)' => p \in Pending(e)
    <3>1. CASE Poll(p)
      BY <3>1 DEF Poll, Pending, TypeOK
    <3>2. CASE ClaimScan(p) /\ Row(p) \notin publish_log
      <4>1. Row(p)' = Row(p)
        BY <3>2, GoOnFrame DEF ClaimScan, Row
      <4> QED
        BY <3>2, <4>1 DEF Pending
    <3>3. CASE publisher[p].pc # "poll" /\ NextRow(p)
      BY <3>3, NextRowFrame DEF Pending
    <3>4. CASE ClaimLock(p) /\ RowFree(Row(p))
      <4>1. Row(p)' = Row(p) /\ publisher[p].pc = "lock"
        BY <3>4, GoOnFrame DEF ClaimLock, Row
      <4> QED
        BY <4>1 DEF Pending
    <3> QED
      BY <1>4, <3>1, <3>2, <3>3, <3>4 DEF ClaimScan, ClaimLock
  <2>4. e \in publish_log => Pending(e)' \subseteq Pending(e)
    BY <2>1, <2>3 DEF Pending, Row
  <2> QED
    BY <1>1, <1>2, <2>2, <2>4, NotCounted
<1> QED
  BY <1>3, <1>4 DEF WriterBegin, WriterCommit

\* Sending an event takes the instance out of those that may yet send it, if it
\* is logged; if it is not, only failures have repeated it so far.
LEMMA CopiesSend ==
  ASSUME Inv, Inv', CopiesInv, NEW e \in Events, NEW p \in Publishers,
         Send(p) \/ SendFails(p)
  PROVE  CountedCopies(e)'
<1> USE DEF Inv
<1>1. /\ publisher[p].pc = "send" /\ publish_log' = publish_log
      /\ copies' \in {copies, [copies EXCEPT ![Row(p)] = @ + 1]}
      /\ \/ failures' = failures /\ GoOn(p, "log")
         \/ failures' = failures + 1 /\ publisher' = [publisher EXCEPT ![p] = Polling]
  BY DEF Send, SendFails, AfterSendError
<1>2. /\ publisher'[p].pc \in {"log", "poll"}
      /\ publisher'[p].pc = "log" => failures' = failures /\ Row(p)' = Row(p)
      /\ publisher'[p].pc = "poll" => failures' = failures + 1
      /\ \A q \in Publishers \ {p} : publisher'[q] = publisher[q]
  BY <1>1, GoOnFrame, PollingFrame DEF Row
<1>3. Row(p) \in Events /\ CountedCopies(e)
  BY <1>1, RowInBatch DEF CopiesInv
<1>4. /\ copies[e] \in Nat /\ failures \in Nat /\ failures <= failures' /\ failures' \in Nat
      /\ copies'[e] \in Nat
  BY <1>1, OutboxAssumption DEF TypeOK
<1>5. Pending(e)' \subseteq Pending(e) /\ p \notin Pending(e)'
  BY <1>2 DEF Pending, Row
<1>6. CASE e # Row(p)
  <2>1. copies'[e] = copies[e]
    BY <1>1, <1>6 DEF TypeOK
  <2>2. Logging(e) => Logging(e)'
    BY <1>1, <1>2 DEF Logging, Row
  <2> QED
    BY <1>1, <1>3, <1>4, <1>5, <2>1, <2>2, NotCounted
<1>7. CASE e = Row(p)
  <2>1. copies'[e] <= copies[e] + 1
    BY <1>1, <1>3, <1>4, <1>7 DEF TypeOK
  <2>2. CASE e \in publish_log
    <3>1. Cardinality(Pending(e)') + 1 <= Cardinality(Pending(e))
      <4>1. p \in Pending(e) /\ Pending(e) \in SUBSET Publishers
        BY <1>1, <1>7 DEF Pending
      <4> QED
        BY <1>5, <4>1, SizesOfParts
    <3>2. /\ Cardinality(Pending(e)) \in Nat /\ Cardinality(Pending(e)') \in Nat
          /\ Cardinality(Publishers) \in Nat
      BY <1>5, SizesOfParts DEF Pending
    <3>3. copies[e] + Cardinality(Pending(e)) <= Cardinality(Publishers) + failures
      BY <1>3, <2>2 DEF CountedCopies
    <3>4. copies'[e] + Cardinality(Pending(e)') <= Cardinality(Publishers) + failures'
      BY <1>4, <2>1, <3>1, <3>2, <3>3
    <3> QED
      BY <1>1, <2>2, <3>4 DEF CountedCopies
  <2>3. CASE e \notin publish_log
    <3>1. copies[e] <= failures
      BY <1>1, <1>3, <1>7, <2>3, SendingIsNotLogging DEF CountedCopies
    <3>2. Logging(e)' \/ failures' = failures + 1
      BY <1>2, <1>7 DEF Logging
    <3> QED
      BY <1>1, <1>4, <2>1, <2>3, <3>1, <3>2 DEF CountedCopies
  <2> QED
    BY <2>2, <2>3
<1> QED
  BY <1>6, <1>7

\* When an event is logged, the instance that does it is past sending it, and
\* the others are those that may yet send it.
LEMMA CopiesEnd ==
  ASSUME Inv, Inv', CopiesInv, NEW e \in Events, NEW p \in Publishers,
         Log(p) \/ PublisherFails(p)
  PROVE  CountedCopies(e)'
<1> USE DEF Inv
<1>1. /\ publisher[p].pc # "poll" /\ copies' = copies
      /\ publisher' = [publisher EXCEPT ![p] = Polling] \/ NextRow(p)
  BY DEF Log, PublisherFails
<1>2. /\ publisher'[p].pc \in {"poll", "scan"}
      /\ \A q \in Publishers \ {p} : publisher'[q] = publisher[q]
  BY <1>1, NextRowFrame, PollingFrame
<1>3. \/ publisher[p].pc = "log" /\ publish_log' = publish_log \cup {Row(p)}
      \/ failures' = failures + 1 /\ publish_log' = publish_log
  BY DEF Log, PublisherFails, Logged
<1>4. CountedCopies(e) /\ Row(p) \in Events
  BY <1>1, RowInBatch DEF CopiesInv
<1>5. /\ copies[e] \in Nat /\ failures \in Nat /\ failures <= failures' /\ failures' \in Nat
      /\ Cardinality(Publishers) \in Nat
  BY SizesOfParts, OutboxAssumption DEF TypeOK, Log, PublisherFails
<1>6. Pending(e)' \subseteq Pending(e) /\ p \notin Pending(e)'
  BY <1>2 DEF Pending, Row
<1>7. CASE e \in publish_log' <=> e \in publish_log
  <2>1. e \notin publish_log /\ Logging(e) => Logging(e)' \/ failures + 1 <= failures'
    <3>1. ASSUME failures' # failures + 1, e \notin publish_log, Logging(e)
          PROVE  Logging(e)'
      <4>1. e # Row(p)
        BY <1>3, <1>7, <3>1
      <4> QED
        BY <1>2, <3>1, <4>1 DEF Logging, Row
    <3> QED
      BY <1>5, <3>1
  <2> QED
    BY <1>1, <1>4, <1>5, <1>6, <1>7, <2>1, NotCounted
<1>8. CASE e \in publish_log' /\ e \notin publish_log
  <2>1. copies[e] <= failures + 1
    BY <1>4, <1>8 DEF CountedCopies
  <2>2. Cardinality(Pending(e)') + 1 <= Cardinality(Publishers)
        /\ Cardinality(Pending(e)') \in Nat
    <3>1. Pending(e)' \in SUBSET Publishers
      BY DEF Pending
    <3> QED
      BY <1>6, <3>1, SizesOfParts
  <2>3. copies'[e] + Cardinality(Pending(e)') <= Cardinality(Publishers) + failures'
    BY <1>1, <1>5, <2>1, <2>2
  <2> QED
    BY <1>8, <2>3 DEF CountedCopies
<1> QED
  BY <1>3, <1>7, <1>8

\* The counts are an invariant.
LEMMA CopiesStep == Inv /\ Inv' /\ CopiesInv /\ [Next]_vars => CopiesInv'
<1> SUFFICES ASSUME Inv, Inv', CopiesInv, [Next]_vars, NEW e \in Events
             PROVE  CountedCopies(e)'
  BY DEF CopiesInv
<1>1. CASE UNCHANGED vars
  BY <1>1 DEF vars, writer_vars, CopiesInv, CountedCopies, Pending, Logging, Row
<1> QED
  BY <1>1, CopiesQuiet, CopiesSend, CopiesEnd DEF Next, PublisherStep

\* However the instances interleave, an event is sent at most once per failure
\* and once per instance (poll_and_publish).
THEOREM CopiesBounded == Spec => []CopiesAreBounded
<1>1. Init => CopiesInv
  <2> SUFFICES ASSUME Init, NEW e \in Events PROVE CountedCopies(e)
    BY DEF CopiesInv
  <2> QED
    BY DEF Init, CountedCopies
<1>2. Inv /\ CopiesInv => CopiesAreBounded
  <2> SUFFICES ASSUME Inv, CopiesInv, NEW e \in Events
               PROVE  copies[e] <= Cardinality(Publishers) + failures
    BY DEF CopiesAreBounded
  <2>1. /\ copies[e] \in Nat /\ failures \in Nat /\ Cardinality(Publishers) \in Nat
        /\ Cardinality(Pending(e)) \in Nat
    BY SizesOfParts, OutboxAssumption DEF Inv, TypeOK, Pending
  <2>2. CountedCopies(e)
    BY DEF CopiesInv
  <2>3. CASE e \in publish_log
    BY <2>1, <2>2, <2>3 DEF CountedCopies
  <2>4. CASE Logging(e)
    <3>1. PICK p \in Publishers : TRUE
      BY <2>4 DEF Logging
    <3>2. 1 <= Cardinality(Publishers)
      BY <3>1, SizesOfParts, FS_EmptySet
    <3> QED
      BY <2>1, <2>2, <2>3, <3>2 DEF CountedCopies
  <2>5. CASE e \notin publish_log /\ ~Logging(e)
    BY <2>1, <2>2, <2>5 DEF CountedCopies
  <2> QED
    BY <2>3, <2>4, <2>5
<1> QED
  BY <1>1, <1>2, CopiesStep, OutboxInvariant, PTL DEF Spec

\* What outbox.rs:61 says is true of one instance: as long as nothing fails, it
\* sends every event once, and once more per failure. A second instance breaks it.
THEOREM SingleInstanceSendsOnce ==
  ASSUME \A p, q \in Publishers : p = q
  PROVE  Spec => []SentOnceUnlessFailed
<1>1. Cardinality(Publishers) \in Nat /\ Cardinality(Publishers) <= 1
  <2>1. CASE Publishers = {}
    BY <2>1, FS_EmptySet
  <2>2. ASSUME NEW p \in Publishers PROVE Cardinality(Publishers) = 1
    <3>1. Publishers = {p}
      BY <2>2
    <3> QED
      BY <3>1, FS_Singleton
  <2> QED
    BY <2>1, <2>2
<1>2. TypeOK /\ CopiesAreBounded => SentOnceUnlessFailed
  <2> SUFFICES ASSUME TypeOK, CopiesAreBounded, NEW e \in Events
               PROVE  copies[e] <= 1 + failures
    BY DEF SentOnceUnlessFailed
  <2>1. copies[e] \in Nat /\ failures \in Nat
    BY OutboxAssumption DEF TypeOK
  <2> QED
    BY <1>1, <2>1 DEF CopiesAreBounded
<1> QED
  BY <1>1, <1>2, TypeCorrect, CopiesBounded, PTL

=============================================================================
