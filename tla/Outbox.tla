------------------------------- MODULE Outbox --------------------------------
(***************************************************************************)
(* RwaOutboxPublisher (outbox.rs): any number of publisher instances poll  *)
(* outbox_events for rows without a row in outbox_publish_log and send     *)
(* them to Kafka, one transaction per event. Writers are the services: an  *)
(* event's created_at is the start of the transaction that writes it, so   *)
(* events become visible in an order of their own. Every statement is a    *)
(* step, and the claiming statement is two: it evaluates its join on the   *)
(* snapshot it started with, and then takes the row lock. PostgreSQL does  *)
(* not evaluate it again on a row that was only locked, never updated.     *)
(* A broker that fails may have accepted the message all the same.         *)
(***************************************************************************)
EXTENDS Integers, FiniteSets, Sequences, Functions

CONSTANTS
  Events,        \* outbox_events.id
  Publishers,    \* publisher instances
  NoPublisher,   \* the owner of a free row
  BatchSize,     \* LIMIT of a poll
  MaxFailures    \* how often a broker, a connection or a process may fail

ASSUME OutboxAssumption ==
  /\ IsFiniteSet(Publishers)
  /\ NoPublisher \notin Publishers
  /\ BatchSize \in Nat \ {0}
  /\ MaxFailures \in Nat

VARIABLES
  now,            \* the time, counted in transactions that began
  created_at,     \* when the transaction of an event began; 0 if it did not
  before,         \* what was committed when an event's transaction began
  outbox_events,  \* committed events
  publish_log,    \* events with a row in outbox_publish_log
  copies,         \* how many copies of each event Kafka accepted
  row_lock,       \* who holds the outbox_events row
  publisher,      \* [pc, batch] of each instance; batch is the rows left to do
  failures        \* failures so far

writer_vars == <<now, created_at, before, outbox_events>>
vars == <<writer_vars, publish_log, copies, row_lock, publisher, failures>>

Polling == [pc |-> "poll", batch |-> << >>]

Begun == {e \in Events : created_at[e] > 0}

TypeOK ==
  /\ now \in Nat
  /\ created_at \in [Events -> 0..now]
  /\ before \in [Events -> SUBSET Events]
  /\ outbox_events \subseteq Begun
  /\ publish_log \subseteq Events
  /\ copies \in [Events -> Nat]
  /\ row_lock \in [Events -> Publishers \cup {NoPublisher}]
  /\ publisher \in [Publishers -> [pc : {"poll", "scan", "lock", "send", "log"},
                                   batch : Seq(Events)]]
  /\ \A p \in Publishers : publisher[p].pc # "poll" => publisher[p].batch # << >>
  /\ failures \in 0..MaxFailures

Init ==
  /\ now = 0
  /\ created_at = [e \in Events |-> 0]
  /\ before = [e \in Events |-> {}]
  /\ outbox_events = {}
  /\ publish_log = {}
  /\ copies = [e \in Events |-> 0]
  /\ row_lock = [e \in Events |-> NoPublisher]
  /\ publisher = [p \in Publishers |-> Polling]
  /\ failures = 0

Delivered == {e \in Events : copies[e] > 0}

-----------------------------------------------------------------------------
(* The services: a transaction that writes an event begins, and commits or *)
(* never does.                                                             *)

WriterBegin(e) ==
  /\ e \notin Begun
  /\ now' = now + 1
  /\ created_at' = [created_at EXCEPT ![e] = now + 1]
  /\ before' = [before EXCEPT ![e] = outbox_events]
  /\ UNCHANGED <<outbox_events, publish_log, copies, row_lock, publisher,
                 failures>>

WriterCommit(e) ==
  /\ e \in Begun \ outbox_events
  /\ outbox_events' = outbox_events \cup {e}
  /\ UNCHANGED <<now, created_at, before, publish_log, copies, row_lock, publisher,
                 failures>>

-----------------------------------------------------------------------------
(* poll_and_publish                                                        *)

\* LEFT JOIN outbox_publish_log ... WHERE opl.id IS NULL
Unpublished == outbox_events \ publish_log

\* ... ORDER BY created_at LIMIT batch_size
IsBatch(b) ==
  /\ \A i, j \in DOMAIN b : i < j => created_at[b[i]] < created_at[b[j]]
  /\ \A e \in Unpublished \ Range(b) :
       /\ Len(b) = BatchSize
       /\ \A i \in DOMAIN b : created_at[b[i]] < created_at[e]

Row(p) == Head(publisher[p].batch)

NextRowOfNone(p) ==
  publisher' = [publisher EXCEPT
    ![p] = [pc |-> "scan", batch |-> Tail(publisher[p].batch)]]
\* the loop over the batch; past its last row the next poll is due
NextRow(p) ==
  LET rest == Tail(publisher[p].batch) IN
  publisher' = [publisher EXCEPT
    ![p] = [pc |-> IF rest = << >> THEN "poll" ELSE "scan", batch |-> rest]]
GoOn(p, pc) == publisher' = [publisher EXCEPT ![p] = [@ EXCEPT !.pc = pc]]

UnlockedNever(p) == row_lock
\* row_lock once the transaction of p is over
Unlocked(p) ==
  [e \in Events |-> IF row_lock[e] = p THEN NoPublisher ELSE row_lock[e]]

\* A poll that finds nothing returns Ok(0) and changes nothing.
Poll(p) ==
  /\ publisher[p].pc = "poll"
  /\ \E n \in 1..BatchSize : \E b \in [1..n -> Unpublished] :
       /\ IsBatch(b)
       /\ publisher' = [publisher EXCEPT ![p] = [pc |-> "scan", batch |-> b]]
  /\ UNCHANGED <<writer_vars, publish_log, copies, row_lock, failures>>

\* The claiming statement starts: its snapshot says whether the row is logged.
ClaimScan(p) ==
  /\ publisher[p].pc = "scan"
  /\ IF Row(p) \in publish_log THEN NextRow(p) ELSE GoOn(p, "lock")
  /\ UNCHANGED <<writer_vars, publish_log, copies, row_lock, failures>>

RowFreeAlways(e) == TRUE
RowFree(e) == row_lock[e] = NoPublisher

\* FOR UPDATE OF oe SKIP LOCKED: a row somebody holds is passed over.
ClaimLock(p) ==
  /\ publisher[p].pc = "lock"
  /\ IF RowFree(Row(p))
       THEN /\ row_lock' = [row_lock EXCEPT ![Row(p)] = p]
            /\ GoOn(p, "send")
       ELSE NextRow(p) /\ UNCHANGED row_lock
  /\ UNCHANGED <<writer_vars, publish_log, copies, failures>>

Send(p) ==
  /\ publisher[p].pc = "send"
  /\ copies' = [copies EXCEPT ![Row(p)] = @ + 1]
  /\ GoOn(p, "log")
  /\ UNCHANGED <<writer_vars, publish_log, row_lock, failures>>

AfterSendErrorIgnored(p) == GoOn(p, "log")
\* A failed send ends the batch.
AfterSendError(p) == publisher' = [publisher EXCEPT ![p] = Polling]

\* The broker fails, having taken the message or not; the transaction is
\* dropped with the row's lock.
SendFails(p) ==
  /\ publisher[p].pc = "send"
  /\ failures < MaxFailures
  /\ failures' = failures + 1
  /\ \/ UNCHANGED copies
     \/ copies' = [copies EXCEPT ![Row(p)] = @ + 1]
  /\ row_lock' = Unlocked(p)
  /\ AfterSendError(p)
  /\ UNCHANGED <<writer_vars, publish_log>>

LoggedForgotten(e) == publish_log
Logged(e) == publish_log \cup {e}

\* INSERT INTO outbox_publish_log, COMMIT. The UNIQUE event_id refuses a second
\* row, which ends the poll with an error.
Log(p) ==
  /\ publisher[p].pc = "log"
  /\ publish_log' = Logged(Row(p))
  /\ row_lock' = Unlocked(p)
  /\ IF Row(p) \in publish_log
       THEN publisher' = [publisher EXCEPT ![p] = Polling]
       ELSE NextRow(p)
  /\ UNCHANGED <<writer_vars, copies, failures>>

\* Any statement fails, or the process dies and is started again: the open
\* transaction rolls back, unless it was the answer to a COMMIT that was lost.
PublisherFails(p) ==
  /\ publisher[p].pc # "poll"
  /\ failures < MaxFailures
  /\ failures' = failures + 1
  /\ \/ UNCHANGED publish_log
     \/ publisher[p].pc = "log" /\ publish_log' = Logged(Row(p))
  /\ row_lock' = Unlocked(p)
  /\ publisher' = [publisher EXCEPT ![p] = Polling]
  /\ UNCHANGED <<writer_vars, copies>>

-----------------------------------------------------------------------------

PublisherStep(p) ==
  Poll(p) \/ ClaimScan(p) \/ ClaimLock(p) \/ Send(p) \/ Log(p)

Next ==
  \/ \E e \in Events : WriterBegin(e) \/ WriterCommit(e)
  \/ \E p \in Publishers : PublisherStep(p) \/ SendFails(p) \/ PublisherFails(p)

Spec == Init /\ [][Next]_vars

\* run_forever polls for ever and a call in progress goes on; nothing obliges a
\* writer to commit, and failures come to an end.
FairSpec == Spec /\ \A p \in Publishers : WF_vars(PublisherStep(p))

-----------------------------------------------------------------------------

\* A row is held from its claim to the end of its transaction, by the instance
\* that is sending it and by no other: two instances are never between claim
\* and commit of one event (FOR UPDATE ... SKIP LOCKED).
ClaimsAreExclusive ==
  \A p \in Publishers, e \in Events :
    row_lock[e] = p <=> publisher[p].pc \in {"send", "log"} /\ Row(p) = e

\* No event is lost or invented: one is logged as published only after Kafka
\* accepted a copy, and Kafka only ever gets what a transaction committed. A
\* copy that is about to be logged has been accepted.
NoEventLost ==
  /\ publish_log \subseteq Delivered
  /\ Delivered \subseteq outbox_events
  /\ \A p \in Publishers : publisher[p].pc = "log" => Row(p) \in Delivered

\* Consumers see a bounded number of copies: one per instance that was past the
\* check when the first copy was logged, and one per failure.
CopiesAreBounded ==
  \A e \in Events : copies[e] <= Cardinality(Publishers) + failures

\* With one instance, cause comes before effect: by the time an event first
\* reaches Kafka, so has everything that was committed before its transaction
\* began. created_at orders them, and a failed send ends the batch.
CausesFirst == \A e \in Delivered : before[e] \subseteq Delivered

D == INSTANCE EventDelivery WITH
       committed <- outbox_events, delivered <- Delivered, published <- publish_log

\* The publishers together deliver every committed event at least once.
DeliversAtLeastOnce == D!Spec

(* What the documents say and the code does not do.                        *)

\* "SKIP LOCKED prevents concurrent publishers from claiming the same event"
\* (outbox.rs:61): when nothing fails, every event is sent once. The log is read
\* with the snapshot of the statement and the lock taken after it.
SentOnceUnlessFailed ==
  \A e \in Events : copies[e] <= 1 + failures

=============================================================================
