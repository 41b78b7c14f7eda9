----------------------------- MODULE EventRelay -----------------------------
(***************************************************************************)
(* How a domain event leaves the service: EventBus::publish and            *)
(* publish_batch write it to the transactional outbox and to the Redis     *)
(* stream, and the OutboxWorker relays outbox rows to Kafka.               *)
(*                                                                         *)
(* One process, as startup.rs builds it: any number of requests publish    *)
(* concurrently, one worker drains.  Postgres, Redis and Kafka survive a   *)
(* crash of the process; requests, spawned tasks and the worker's batch    *)
(* do not.                                                                 *)
(***************************************************************************)
EXTENDS Naturals, Sequences, FiniteSets

CONSTANTS
  Events,         \* every event of the run
  Requests,       \* calls of publish / publish_batch
  Batch,          \* Batch[r]: the events request r publishes, in order
  KafkaSkip,      \* KAFKA_SKIP_EVENT_TYPES: audit-only events
  Poison,         \* rows stored earlier that no longer deserialize
  BatchSize,      \* OutboxWorker.batch_size (100 in the code)
  MAX_ATTEMPTS,   \* 10 in the code
  MaxCrashes,     \* bound: how often the process may crash
  NoEvent         \* the worker has no row in hand

ASSUME RelayAssumption ==
  /\ KafkaSkip \subseteq Events /\ Poison \subseteq Events
  /\ Batch \in [Requests -> Seq(Events)]
  /\ \A r \in Requests : Batch[r] # << >>
  /\ \A r \in Requests : \A i \in 1..Len(Batch[r]) : Batch[r][i] \notin Poison
  /\ BatchSize \in Nat \ {0}
  /\ MAX_ATTEMPTS \in Nat \ {0}
  /\ MaxCrashes \in Nat
  /\ NoEvent \notin Events

\* An event is published once: Event::new gives each its own id.
ASSUME OnePublisher ==
  \A r, s \in Requests : \A i \in 1..Len(Batch[r]), j \in 1..Len(Batch[s]) :
    Batch[r][i] = Batch[s][j] => r = s /\ i = j

VARIABLES
  stage,      \* stage[r]: where request r stands in publish
  pos,        \* pos[r]: index of the event request r's current loop is at
  status,     \* status[e]: iam_outbox_events.status, "NONE" before the INSERT
  attempts,   \* attempts[e]: iam_outbox_events.attempts
  createdAt,  \* createdAt[e]: iam_outbox_events.created_at
  now,        \* the database clock
  stream,     \* events on the Redis stream
  broker,     \* events Kafka has stored at least once
  spawned,    \* fire-and-forget Kafka publishes in flight
  degraded,   \* history: events whose outbox INSERT reported an error
  failing,    \* history: events a send of which by the worker reported an error
  wstage,     \* what the worker does next
  batch,      \* rows the worker fetched and has not taken up yet
  hand,       \* the row it is to mark
  crashes

rowVars == <<status, attempts, createdAt, now>>
requestVars == <<stage, pos>>
workerVars == <<wstage, batch, hand>>
vars == <<requestVars, rowVars, stream, broker, spawned, degraded, failing, workerVars, crashes>>

RequestStages == {"idle", "dispatch", "xadd", "ok", "err", "gone"}
InFlight == {"dispatch", "xadd"}
RowStatus == {"NONE", "PENDING", "PROCESSED", "FAILED"}
WorkerStages == {"fetch", "publish", "processed", "failed"}

EventsOf(r) == {Batch[r][i] : i \in 1..Len(Batch[r])}
Pending == {e \in Events : status[e] = "PENDING"}
\* Mutant: the query has no ORDER BY.
OldestAny(S) == S
Oldest(S) == {e \in S : \A f \in S : createdAt[e] <= createdAt[f]}

TypeOK ==
  /\ stage \in [Requests -> RequestStages]
  /\ pos \in [Requests -> Nat]
  /\ \A r \in Requests : stage[r] \in InFlight => pos[r] \in 1..Len(Batch[r])
  /\ status \in [Events -> RowStatus]
  /\ attempts \in [Events -> Nat]
  /\ createdAt \in [Events -> Nat]
  /\ now \in Nat
  /\ stream \subseteq Events /\ broker \subseteq Events
  /\ spawned \subseteq Events /\ degraded \subseteq Events /\ failing \subseteq Events
  /\ wstage \in WorkerStages
  /\ batch \subseteq Events
  /\ IF wstage \in {"processed", "failed"} THEN hand \in Events ELSE hand = NoEvent
  /\ crashes \in Nat

Init ==
  /\ stage = [r \in Requests |-> "idle"]
  /\ pos = [r \in Requests |-> 0]
  /\ status = [e \in Events |-> IF e \in Poison THEN "PENDING" ELSE "NONE"]
  /\ attempts = [e \in Events |-> 0]
  /\ createdAt = [e \in Events |-> 0]
  /\ now = 1
  /\ stream = {} /\ broker = {} /\ spawned = {} /\ degraded = {} /\ failing = {}
  /\ wstage = "fetch" /\ batch = {} /\ hand = NoEvent
  /\ crashes = 0

-----------------------------------------------------------------------------
(* The publishing request.                                                 *)

\* publish / publish_batch is called.
Publish(r) ==
  /\ stage[r] = "idle"
  /\ stage' = [stage EXCEPT ![r] = "dispatch"]
  /\ pos' = [pos EXCEPT ![r] = 1]
  /\ UNCHANGED <<rowVars, stream, broker, spawned, degraded, failing, workerVars, crashes>>

\* The event at hand is done: go on with the loop, or leave it for `after`.
Advance(r, after) ==
  IF pos[r] < Len(Batch[r])
    THEN pos' = [pos EXCEPT ![r] = @ + 1] /\ UNCHANGED stage
    ELSE pos' = [pos EXCEPT ![r] = 1] /\ stage' = [stage EXCEPT ![r] = after]

\* OutboxRepository::enqueue: INSERT with the column defaults.
Enqueue(e) ==
  /\ status' = [status EXCEPT ![e] = "PENDING"]
  /\ createdAt' = [createdAt EXCEPT ![e] = now]
  /\ attempts' = [attempts EXCEPT ![e] = 0]
  /\ now' = now + 1

\* An INSERT that reports an error may still have been committed.
EnqueueError(e) ==
  /\ Enqueue(e) \/ UNCHANGED rowVars
  /\ degraded' = degraded \cup {e}

\* spawn_kafka_publish: a detached task will try Kafka once.
SpawnKafkaPublish(e) == spawned' = spawned \cup {e}

\* Mutant: an audit-only event ends the loop instead of being skipped.
DispatchBreaks(r) ==
  LET e == Batch[r][pos[r]] IN
  /\ stage[r] = "dispatch"
  /\ \/ /\ e \in KafkaSkip
        /\ pos' = [pos EXCEPT ![r] = 1] /\ stage' = [stage EXCEPT ![r] = "xadd"]
        /\ UNCHANGED <<rowVars, spawned, degraded>>
     \/ e \notin KafkaSkip /\ Enqueue(e) /\ Advance(r, "xadd") /\ UNCHANGED <<spawned, degraded>>
     \/ e \notin KafkaSkip /\ EnqueueError(e) /\ SpawnKafkaPublish(e) /\ Advance(r, "xadd")
  /\ UNCHANGED <<stream, broker, failing, workerVars, crashes>>

\* dispatch_kafka never fails its caller.
DispatchKafka(r) ==
  LET e == Batch[r][pos[r]] IN
  /\ stage[r] = "dispatch"
  /\ \/ e \in KafkaSkip /\ UNCHANGED <<rowVars, spawned, degraded>>
     \/ e \notin KafkaSkip /\ Enqueue(e) /\ UNCHANGED <<spawned, degraded>>
     \/ e \notin KafkaSkip /\ EnqueueError(e) /\ SpawnKafkaPublish(e)
  /\ Advance(r, "xadd")
  /\ UNCHANGED <<stream, broker, failing, workerVars, crashes>>

\* publish_raw_no_kafka: XADD, then a best-effort XTRIM; an error ends the call.
XAdd(r) ==
  LET e == Batch[r][pos[r]] IN
  /\ stage[r] = "xadd"
  /\ \/ stream' = stream \cup {e} /\ Advance(r, "ok")
     \/ /\ stream' \in {stream, stream \cup {e}}
        /\ stage' = [stage EXCEPT ![r] = "err"]
        /\ UNCHANGED pos
  /\ UNCHANGED <<rowVars, broker, spawned, degraded, failing, workerVars, crashes>>

\* TimeoutLayer drops the request's future at an await point.
Cancel(r) ==
  /\ stage[r] \in InFlight
  /\ stage' = [stage EXCEPT ![r] = "gone"]
  /\ UNCHANGED <<pos, rowVars, stream, broker, spawned, degraded, failing, workerVars, crashes>>

\* Mutant: the send is not awaited (acks=0).
KafkaSendUnacked(e, acked) == broker' \in {broker, broker \cup {e}}

\* KafkaEventBus::publish: an acknowledged send is stored by the broker; a
\* send that reports an error may have been stored too.
KafkaSend(e, acked) ==
  IF acked THEN broker' = broker \cup {e} ELSE broker' \in {broker, broker \cup {e}}

\* The detached task runs; its error is only logged.
RunSpawned(e) ==
  /\ e \in spawned
  /\ spawned' = spawned \ {e}
  /\ \E acked \in BOOLEAN : KafkaSend(e, acked)
  /\ UNCHANGED <<requestVars, rowVars, stream, degraded, failing, workerVars, crashes>>

-----------------------------------------------------------------------------
(* OutboxWorker::tick.                                                     *)

\* fetch_pending(batch_size): the oldest pending rows.  A fetch that fails or
\* finds nothing changes no state: the worker sleeps and polls again.
FetchPending ==
  /\ wstage = "fetch"
  /\ Pending # {}
  /\ \E rows \in SUBSET Pending :
       /\ IF Cardinality(Pending) <= BatchSize
            THEN rows = Pending
            ELSE Cardinality(rows) = BatchSize
       /\ \A e \in rows, f \in Pending \ rows : createdAt[e] <= createdAt[f]
       /\ batch' = rows
  /\ wstage' = "publish"
  /\ UNCHANGED <<hand, requestVars, rowVars, stream, broker, spawned, degraded, failing, crashes>>

\* Take up the next row: send it, or find that its payload does not deserialize.
Deliver ==
  /\ wstage = "publish"
  /\ \E e \in Oldest(batch) :
       /\ hand' = e
       /\ batch' = batch \ {e}
       /\ \/ e \in Poison /\ wstage' = "failed" /\ UNCHANGED <<broker, failing>>
          \/ e \notin Poison /\ wstage' = "processed" /\ KafkaSend(e, TRUE) /\ UNCHANGED failing
          \/ /\ e \notin Poison /\ wstage' = "failed" /\ KafkaSend(e, FALSE)
             /\ failing' = failing \cup {e}
  /\ UNCHANGED <<requestVars, rowVars, stream, spawned, degraded, crashes>>

\* The for loop moves to the next record, or the tick ends.
NextRecord ==
  /\ hand' = NoEvent
  /\ wstage' = IF batch = {} THEN "fetch" ELSE "publish"
  /\ UNCHANGED <<batch, requestVars, stream, broker, spawned, degraded, failing, crashes>>

\* mark_processed took effect.
MarkProcessed ==
  /\ wstage = "processed"
  /\ status' = [status EXCEPT ![hand] = "PROCESSED"]
  /\ NextRecord
  /\ UNCHANGED <<attempts, createdAt, now>>

\* Mutant: attempts are not counted.
MarkFailedUncounted ==
  /\ wstage = "failed"
  /\ NextRecord
  /\ UNCHANGED rowVars

\* mark_failed took effect: one more attempt, FAILED when the budget is spent.
MarkFailed ==
  /\ wstage = "failed"
  /\ attempts' = [attempts EXCEPT ![hand] = @ + 1]
  /\ status' = [status EXCEPT
       ![hand] = IF attempts[hand] + 1 >= MAX_ATTEMPTS THEN "FAILED" ELSE "PENDING"]
  /\ NextRecord
  /\ UNCHANGED <<createdAt, now>>

\* The UPDATE did not take effect: logged, the row stays as it is.
MarkLost ==
  /\ wstage \in {"processed", "failed"}
  /\ NextRecord
  /\ UNCHANGED rowVars

\* Mutant: pending rows live in memory.
CrashForgetsRows ==
  /\ crashes < MaxCrashes
  /\ crashes' = crashes + 1
  /\ stage' = [r \in Requests |-> IF stage[r] \in InFlight THEN "gone" ELSE stage[r]]
  /\ spawned' = {}
  /\ wstage' = "fetch" /\ batch' = {} /\ hand' = NoEvent
  /\ status' = [e \in Events |-> IF status[e] = "PENDING" THEN "NONE" ELSE status[e]]
  /\ UNCHANGED <<pos, attempts, createdAt, now, stream, broker, degraded, failing>>

\* The process dies, and starts again with nothing in memory.
Crash ==
  /\ crashes < MaxCrashes
  /\ crashes' = crashes + 1
  /\ stage' = [r \in Requests |-> IF stage[r] \in InFlight THEN "gone" ELSE stage[r]]
  /\ spawned' = {}
  /\ wstage' = "fetch" /\ batch' = {} /\ hand' = NoEvent
  /\ UNCHANGED <<pos, rowVars, stream, broker, degraded, failing>>

-----------------------------------------------------------------------------
Worker == FetchPending \/ Deliver \/ MarkProcessed \/ MarkFailed \/ MarkLost

Next ==
  \/ \E r \in Requests : Publish(r) \/ DispatchKafka(r) \/ XAdd(r) \/ Cancel(r)
  \/ \E e \in Events : RunSpawned(e)
  \/ Worker
  \/ Crash

Spec == Init /\ [][Next]_vars

\* The worker task is always scheduled, and the database does not reject the
\* same kind of UPDATE for ever.
Fairness == WF_vars(Worker) /\ SF_vars(MarkProcessed) /\ SF_vars(MarkFailed)
FairSpec == Spec /\ Fairness

-----------------------------------------------------------------------------
(* Properties.                                                             *)

\* A row is PROCESSED only if the broker has stored its event: the worker
\* marks a row after the acknowledgement, never before, whatever crashes.
ProcessedIsDelivered ==
  \A e \in Events : status[e] = "PROCESSED" => e \in broker

\* Once a publish call has passed its dispatch loop, an event meant for Kafka
\* is stored by the broker, waiting in the outbox, quarantined with its budget
\* spent, or one whose INSERT reported an error: nothing else loses it, and in
\* particular no crash of the process does.
NoSilentLoss ==
  \A r \in Requests : stage[r] \in {"xadd", "ok", "err"} =>
    \A e \in EventsOf(r) \ KafkaSkip :
      \/ e \in broker \/ status[e] = "PENDING" \/ e \in degraded
      \/ status[e] = "FAILED" /\ attempts[e] = MAX_ATTEMPTS

\* Audit-only events reach neither the outbox nor the broker, whichever path a
\* publish takes.
AuditStaysOnStream ==
  \A e \in KafkaSkip \ Poison : status[e] = "NONE" /\ e \notin broker

\* Once a publish call has ended, all of its events are on the stream or none is
\* ("Publish multiple events atomically in a single pipeline.", event_bus.rs:172).  Does
\* not hold: the events are added one by one, and an error, a dropped request or a crash
\* ends the loop.
BatchIsAtomic ==
  \A r \in Requests : stage[r] \in {"ok", "err", "gone"} =>
    EventsOf(r) \subseteq stream \/ EventsOf(r) \cap stream = {}

\* What holds instead: consumers of the stream see a prefix of every batch, and all
\* of it once the publish returned Ok.
StreamIsPrefix ==
  \A r \in Requests : \E n \in 0..Len(Batch[r]) :
    /\ EventsOf(r) \cap stream = {Batch[r][i] : i \in 1..n}
    /\ stage[r] = "ok" => n = Len(Batch[r])

\* Kafka's consumers meet the events of one publish call in its order: an event
\* is stored there only after those before it in the batch, however the worker's
\* ticks, crashes and lost marks fall, but for an audit-only event, one whose INSERT
\* reported an error and went its own way, and one whose send reported an error,
\* which is retried in a later tick while its successors go ahead.
BatchInOrder ==
  \A r \in Requests : \A i, j \in 1..Len(Batch[r]) :
    i < j /\ Batch[r][j] \in broker \ degraded =>
      Batch[r][i] \in broker \cup failing \cup degraded \cup KafkaSkip

\* A row that left the pending set never comes back to it: a processed event
\* is not fetched again, a quarantined one not retried.
SettledIsFinal ==
  [][\A e \in Events : status[e] \in {"PROCESSED", "FAILED"} => status'[e] = status[e]]_vars

-----------------------------------------------------------------------------
(* The relay implements durable delivery.                                  *)

Rows(st) == {e \in Events : status[e] = st}

Durable == INSTANCE DurableDelivery WITH
  accepted <- {e \in Events : status[e] # "NONE"}, delivered <- broker,
  done <- Rows("PROCESSED"), quarantined <- Rows("FAILED")

\* Every step of enqueue, the worker, the detached tasks and a crash is a step
\* of durable delivery or changes nothing it can see.
DeliversDurably == Durable!SafeSpec

\* With a scheduled worker and a database that takes some of its updates, every
\* stored row is eventually delivered and marked, or quarantined: neither a
\* poison row, nor a flapping broker, nor a crash wedges the worker.  Quarantine takes
\* MAX_ATTEMPTS marks: a payload that does not deserialize stays PENDING until then and
\* keeps its place in every batch ("quarantine it so it stops blocking the batch",
\* outbox_worker.rs:71).
DeliversEventually == Durable!LiveSpec
=============================================================================
