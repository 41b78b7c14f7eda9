-------------------------- MODULE EventRelayProofs --------------------------
(***************************************************************************)
(* Proofs about the event relay, for every set of events and requests,     *)
(* every batch size, every retry budget and any number of crashes.         *)
(***************************************************************************)
EXTENDS EventRelay, TLAPS

-----------------------------------------------------------------------------
(* The inductive invariant.                                                *)

\* The worker is about to mark as processed a row the broker has stored, and
\* what it holds is pending: nobody else changes a row it has fetched.
WorkerInv ==
  /\ wstage = "processed" => hand \in broker
  /\ wstage \in {"processed", "failed"} => status[hand] = "PENDING" /\ hand \notin batch
  /\ \A e \in batch : status[e] = "PENDING"

\* Request r's dispatch loop has passed, or has not reached, its i-th event.
Dispatched(r, i) ==
  stage[r] \in {"xadd", "ok", "err"} \/ (stage[r] = "dispatch" /\ i < pos[r])
Undispatched(r, i) ==
  stage[r] = "idle" \/ (stage[r] = "dispatch" /\ pos[r] <= i)

\* No row exists for an event before its dispatch, and one exists afterwards
\* unless the event is audit-only or its INSERT reported an error.
DispatchInv ==
  \A r \in Requests : \A i \in 1..Len(Batch[r]) :
    /\ Undispatched(r, i) => status[Batch[r][i]] = "NONE"
    /\ Dispatched(r, i) => \/ Batch[r][i] \in KafkaSkip \cup degraded
                           \/ status[Batch[r][i]] # "NONE"

\* A pending row has budget left and a quarantined one has spent it.
BudgetInv ==
  \A e \in Events :
    /\ status[e] = "PENDING" => attempts[e] < MAX_ATTEMPTS
    /\ status[e] = "FAILED" => attempts[e] = MAX_ATTEMPTS

IInv == TypeOK /\ WorkerInv /\ DispatchInv /\ ProcessedIsDelivered /\ BudgetInv

-----------------------------------------------------------------------------
(* Helper facts.                                                           *)

\* The event a publishing request is at is one of its batch, and not poison.
LEMMA EventAtHand ==
  ASSUME TypeOK, NEW r \in Requests, stage[r] \in InFlight
  PROVE  /\ pos[r] \in 1..Len(Batch[r])
         /\ Batch[r][pos[r]] \in Events
         /\ Batch[r][pos[r]] \notin Poison
  BY RelayAssumption DEF TypeOK

\* Advance moves one request on and no other, past its event or out of its loop.
LEMMA AdvanceType ==
  ASSUME TypeOK, NEW r \in Requests, stage[r] \in InFlight,
         NEW after \in RequestStages, Advance(r, after)
  PROVE  /\ stage' \in [Requests -> RequestStages]
         /\ pos' \in [Requests -> Nat]
         /\ \A q \in Requests : stage'[q] \in InFlight => pos'[q] \in 1..Len(Batch[q])
  <1>1. Len(Batch[r]) \in Nat /\ 1 <= Len(Batch[r])
    BY EventAtHand, RelayAssumption
  <1>2. \A q \in Requests : Len(Batch[q]) \in Nat
    BY RelayAssumption
  <1>3. CASE pos[r] < Len(Batch[r])
    <2>1. pos' = [pos EXCEPT ![r] = pos[r] + 1] /\ stage' = stage
      BY <1>3, Zenon DEF Advance
    <2> QED BY <1>1, <1>2, <1>3, <2>1 DEF TypeOK
  <1>4. CASE ~(pos[r] < Len(Batch[r]))
    <2>1. pos' = [pos EXCEPT ![r] = 1] /\ stage' = [stage EXCEPT ![r] = after]
      BY <1>4, Zenon DEF Advance
    <2> QED BY <1>1, <1>2, <2>1 DEF TypeOK
  <1> QED BY <1>3, <1>4, Zenon

\* What one turn of the dispatch loop does to the outbox: it stores the event's
\* row, or leaves every row alone for an audit-only event or a reported error.
LEMMA DispatchEffect ==
  ASSUME NEW r \in Requests, DispatchKafka(r)
  PROVE  /\ \/ Enqueue(Batch[r][pos[r]])
            \/ UNCHANGED rowVars /\ Batch[r][pos[r]] \in KafkaSkip \cup degraded'
         /\ spawned' \in {spawned, spawned \cup {Batch[r][pos[r]]}}
         /\ degraded' \in {degraded, degraded \cup {Batch[r][pos[r]]}}
  BY Zenon DEF DispatchKafka, EnqueueError, SpawnKafkaPublish, rowVars

-----------------------------------------------------------------------------
(* Type correctness.                                                       *)

\* Every step keeps every variable's type.
LEMMA TypeStep == TypeOK /\ [Next]_vars => TypeOK'
  <1> SUFFICES ASSUME TypeOK, [Next]_vars PROVE TypeOK'
    OBVIOUS
  <1> USE DEF RequestStages, InFlight, RowStatus, WorkerStages
  <1>1. ASSUME NEW r \in Requests, Publish(r) PROVE TypeOK'
    <2>1. Len(Batch[r]) \in Nat /\ 1 <= Len(Batch[r])
      BY RelayAssumption
    <2> QED BY <1>1, <2>1 DEF TypeOK, Publish, rowVars, workerVars
  <1>2. ASSUME NEW r \in Requests, DispatchKafka(r) PROVE TypeOK'
    <2>1. stage[r] \in InFlight BY <1>2, Zenon DEF DispatchKafka
    <2>2. Batch[r][pos[r]] \in Events BY <2>1, EventAtHand, Zenon
    <2>3. Advance(r, "xadd") BY <1>2, Zenon DEF DispatchKafka
    <2>4. /\ stage' \in [Requests -> RequestStages]
          /\ pos' \in [Requests -> Nat]
          /\ \A q \in Requests : stage'[q] \in InFlight => pos'[q] \in 1..Len(Batch[q])
      BY <2>1, <2>3, AdvanceType, Zenon
    <2>5. /\ status' \in [Events -> RowStatus] /\ attempts' \in [Events -> Nat]
          /\ createdAt' \in [Events -> Nat] /\ now' \in Nat
          /\ spawned' \subseteq Events /\ degraded' \subseteq Events
      <3> DEFINE e == Batch[r][pos[r]]
      <3>1. /\ Enqueue(e) \/ UNCHANGED rowVars
            /\ spawned' \in {spawned, spawned \cup {e}}
            /\ degraded' \in {degraded, degraded \cup {e}}
        BY <1>2, DispatchEffect, Zenon
      <3> HIDE DEF e
      <3>2. e \in Events BY <2>2, Zenon DEF e
      <3>3. CASE Enqueue(e) BY <3>1, <3>2, <3>3 DEF TypeOK, Enqueue
      <3>4. CASE UNCHANGED rowVars BY <3>1, <3>2, <3>4, Zenon DEF TypeOK, rowVars
      <3> QED BY <3>1, <3>3, <3>4, Zenon
    <2> QED BY <1>2, <2>4, <2>5, Zenon DEF TypeOK, DispatchKafka, workerVars
  <1>3. ASSUME NEW r \in Requests, XAdd(r) PROVE TypeOK'
    <2>1. stage[r] \in InFlight BY <1>3, Zenon DEF XAdd
    <2>2. Batch[r][pos[r]] \in Events BY <2>1, EventAtHand
    <2>3. /\ stage' \in [Requests -> RequestStages]
          /\ pos' \in [Requests -> Nat]
          /\ \A q \in Requests : stage'[q] \in InFlight => pos'[q] \in 1..Len(Batch[q])
      <3>1. CASE Advance(r, "ok") BY <2>1, <3>1, AdvanceType, Zenon
      <3>2. CASE stage' = [stage EXCEPT ![r] = "err"] /\ UNCHANGED pos
        BY <3>2, Zenon DEF TypeOK
      <3> QED BY <1>3, <3>1, <3>2, Zenon DEF XAdd
    <2>4. stream' \subseteq Events BY <1>3, <2>2, Zenon DEF TypeOK, XAdd
    <2> QED BY <1>3, <2>3, <2>4, Zenon DEF TypeOK, XAdd, rowVars, workerVars
  <1>4. ASSUME NEW r \in Requests, Cancel(r) PROVE TypeOK'
    BY <1>4, Zenon DEF TypeOK, Cancel, rowVars, workerVars
  <1>5. ASSUME NEW e \in Events, RunSpawned(e) PROVE TypeOK'
    BY <1>5, Zenon DEF TypeOK, RunSpawned, KafkaSend, requestVars, rowVars, workerVars
  <1>6. CASE FetchPending
    BY <1>6, Zenon DEF TypeOK, FetchPending, Pending, requestVars, rowVars
  <1>7. CASE Deliver
    BY <1>7 DEF TypeOK, Deliver, Oldest, KafkaSend, requestVars, rowVars
  <1>8. CASE MarkProcessed
    BY <1>8, Zenon DEF TypeOK, MarkProcessed, NextRecord, requestVars
  <1>9. CASE MarkFailed
    BY <1>9 DEF TypeOK, MarkFailed, NextRecord, requestVars
  <1>10. CASE MarkLost
    BY <1>10, Zenon DEF TypeOK, MarkLost, NextRecord, requestVars, rowVars
  <1>11. CASE Crash
    BY <1>11 DEF TypeOK, Crash, rowVars
  <1>12. CASE UNCHANGED vars
    BY <1>12, Zenon DEF TypeOK, vars, requestVars, rowVars, workerVars
  <1> QED
    BY <1>1, <1>2, <1>3, <1>4, <1>5, <1>6, <1>7, <1>8, <1>9, <1>10, <1>11, <1>12
    DEF Next, Worker

\* Every variable keeps its type along every behaviour of the relay: in
\* particular a loop index never leaves its batch, and the worker holds a row
\* exactly while it has one to mark.
THEOREM TypeCorrect == Spec => []TypeOK
  <1>1. Init => TypeOK
    BY RelayAssumption DEF Init, TypeOK, RequestStages, InFlight, RowStatus, WorkerStages
  <1> QED BY <1>1, TypeStep, PTL DEF Spec

-----------------------------------------------------------------------------
(* The safety invariants.                                                  *)

\* The inductive invariant holds at the start: the only rows are poison ones,
\* none of which a request will publish.
LEMMA InitIInv == Init => IInv
  <1> SUFFICES ASSUME Init PROVE IInv
    OBVIOUS
  <1>1. TypeOK
    BY RelayAssumption, Zenon DEF Init, TypeOK, RequestStages, InFlight, RowStatus, WorkerStages
  <1>2. WorkerInv BY Zenon DEF Init, WorkerInv
  <1>3. DispatchInv
    BY RelayAssumption DEF Init, DispatchInv, Dispatched, Undispatched
  <1>4. ProcessedIsDelivered BY Zenon DEF Init, ProcessedIsDelivered
  <1>5. BudgetInv BY RelayAssumption DEF Init, BudgetInv
  <1> QED BY <1>1, <1>2, <1>3, <1>4, <1>5, Zenon DEF IInv

\* A turn of the dispatch loop touches only its own event's row, which no one
\* else has stored and the worker therefore cannot hold.
LEMMA DispatchStep ==
  ASSUME IInv, NEW r \in Requests, DispatchKafka(r)
  PROVE  WorkerInv' /\ DispatchInv' /\ ProcessedIsDelivered' /\ BudgetInv'
  <1> DEFINE e == Batch[r][pos[r]]
  <1>1. stage[r] = "dispatch" /\ pos[r] \in 1..Len(Batch[r]) /\ e \in Events
    BY EventAtHand, Zenon DEF IInv, DispatchKafka, InFlight
  <1>2. status[e] = "NONE"
    BY <1>1 DEF IInv, DispatchInv, Undispatched
  <1>3. \/ Enqueue(e)
        \/ UNCHANGED rowVars /\ e \in KafkaSkip \cup degraded'
    BY DispatchEffect, Zenon
  <1>4. degraded \subseteq degraded'
    BY DispatchEffect, Zenon
  <1>5. UNCHANGED <<broker, wstage, batch, hand>>
    BY Zenon DEF DispatchKafka, workerVars
  <1>6. \A q \in Requests, i \in Nat :
          /\ Undispatched(q, i)' => Undispatched(q, i)
          /\ Dispatched(q, i)' /\ ~Dispatched(q, i) /\ i \in 1..Len(Batch[q])
               => q = r /\ i = pos[r]
          /\ Undispatched(q, i)' => ~(q = r /\ i = pos[r])
    <2>1. /\ stage \in [Requests -> RequestStages] /\ pos \in [Requests -> Nat]
          /\ Len(Batch[r]) \in Nat
      BY RelayAssumption DEF IInv, TypeOK
    <2>2. Advance(r, "xadd") BY Zenon DEF DispatchKafka
    <2>3. CASE pos[r] < Len(Batch[r])
      <3>1. pos' = [pos EXCEPT ![r] = pos[r] + 1] /\ stage' = stage
        BY <2>2, <2>3, Zenon DEF Advance
      <3> QED BY <1>1, <2>1, <3>1 DEF Undispatched, Dispatched
    <2>4. CASE ~(pos[r] < Len(Batch[r]))
      <3>1. pos' = [pos EXCEPT ![r] = 1] /\ stage' = [stage EXCEPT ![r] = "xadd"]
        BY <2>2, <2>4, Zenon DEF Advance
      <3> QED BY <1>1, <2>1, <2>4, <3>1 DEF Undispatched, Dispatched
    <2> QED BY <2>3, <2>4, Zenon
  <1>7. \A q \in Requests : \A i \in 1..Len(Batch[q]) :
          Batch[q][i] = e => q = r /\ i = pos[r]
    BY <1>1, OnePublisher
  <1>8. \A q \in Requests : \A i \in 1..Len(Batch[q]) : i \in Nat /\ Batch[q][i] \in Events
    BY RelayAssumption
  <1> HIDE DEF e
  <1>9. \/ /\ status' = [status EXCEPT ![e] = "PENDING"]
           /\ attempts' = [attempts EXCEPT ![e] = 0]
        \/ status' = status /\ attempts' = attempts /\ e \in KafkaSkip \cup degraded'
    BY <1>3, Zenon DEF Enqueue, rowVars
  <1>10. status \in [Events -> RowStatus] /\ attempts \in [Events -> Nat]
    BY Zenon DEF IInv, TypeOK
  <1>11. WorkerInv'
    BY <1>1, <1>2, <1>5, <1>9, <1>10, Zenon DEF IInv, WorkerInv, TypeOK
  <1>12. DispatchInv'
    <2> SUFFICES ASSUME NEW q \in Requests, NEW i \in 1..Len(Batch[q])
                 PROVE  /\ Undispatched(q, i)' => status'[Batch[q][i]] = "NONE"
                        /\ Dispatched(q, i)' => \/ Batch[q][i] \in KafkaSkip \cup degraded'
                                               \/ status'[Batch[q][i]] # "NONE"
      BY Zenon DEF DispatchInv
    <2>1. i \in Nat /\ Batch[q][i] \in Events BY <1>8, Zenon
    <2>2. /\ Undispatched(q, i) => status[Batch[q][i]] = "NONE"
          /\ Dispatched(q, i) => \/ Batch[q][i] \in KafkaSkip \cup degraded
                                \/ status[Batch[q][i]] # "NONE"
      BY Zenon DEF IInv, DispatchInv
    <2>3. CASE Batch[q][i] = e
      BY <1>1, <1>6, <1>7, <1>9, <1>10, <2>1, <2>3, Zenon
    <2>4. CASE Batch[q][i] # e
      <3>1. status'[Batch[q][i]] = status[Batch[q][i]] BY <1>9, <1>10, <2>1, <2>4, Zenon
      <3>2. ~(q = r /\ i = pos[r]) BY <2>4, Zenon DEF e
      <3> QED BY <1>4, <1>6, <2>1, <2>2, <3>1, <3>2, Zenon
    <2> QED BY <2>3, <2>4, Zenon
  <1>13. ProcessedIsDelivered'
    BY <1>1, <1>5, <1>9, <1>10, Zenon DEF IInv, ProcessedIsDelivered
  <1>14. BudgetInv'
    BY <1>1, <1>9, <1>10, RelayAssumption DEF IInv, BudgetInv
  <1> QED BY <1>11, <1>12, <1>13, <1>14, Zenon

\* A step that leaves the rows alone, dispatches nothing and takes nothing off
\* the broker keeps what is said about rows.
LEMMA RowsUntouched ==
  ASSUME IInv, status' = status, attempts' = attempts,
         broker \subseteq broker', degraded \subseteq degraded',
         \A q \in Requests :
           stage'[q] = "gone" \/ (stage'[q] = stage[q] /\ pos'[q] = pos[q])
  PROVE  DispatchInv' /\ ProcessedIsDelivered' /\ BudgetInv'
  <1>1. DispatchInv' BY DEF IInv, DispatchInv, Undispatched, Dispatched
  <1>2. ProcessedIsDelivered' BY Zenon DEF IInv, ProcessedIsDelivered
  <1>3. BudgetInv' BY Zenon DEF IInv, BudgetInv
  <1> QED BY <1>1, <1>2, <1>3, Zenon

\* Every step preserves the inductive invariant.
LEMMA IInvStep == IInv /\ [Next]_vars => IInv'
  <1> SUFFICES ASSUME IInv, [Next]_vars PROVE IInv'
    OBVIOUS
  <1>0. TypeOK' BY TypeStep, Zenon DEF IInv
  <1> DEFINE Rest == WorkerInv /\ DispatchInv /\ ProcessedIsDelivered /\ BudgetInv
  <1> USE DEF IInv
  <1>1. ASSUME NEW r \in Requests, Publish(r) PROVE Rest'
    <2>1. \A q \in Requests : \A i \in 1..Len(Batch[q]) :
            /\ Undispatched(q, i)' => Undispatched(q, i)
            /\ Dispatched(q, i)' => Dispatched(q, i)
      <3>1. \A q \in Requests : Len(Batch[q]) \in Nat BY RelayAssumption
      <3> QED BY <1>1, <3>1 DEF Publish, Undispatched, Dispatched, TypeOK
    <2>2. UNCHANGED <<status, attempts, broker, degraded, wstage, batch, hand>>
      BY <1>1, Zenon DEF Publish, rowVars, workerVars
    <2> QED BY <2>1, <2>2, Zenon DEF WorkerInv, DispatchInv, ProcessedIsDelivered, BudgetInv
  <1>2. ASSUME NEW r \in Requests, DispatchKafka(r) PROVE Rest'
    BY <1>2, DispatchStep, Zenon
  <1>3. ASSUME NEW r \in Requests, XAdd(r) PROVE Rest'
    <2>1. /\ stage[r] = "xadd" /\ \A q \in Requests \ {r} : stage'[q] = stage[q] /\ pos'[q] = pos[q]
          /\ stage'[r] \in {"xadd", "ok", "err"}
      BY <1>3, Zenon DEF XAdd, Advance, TypeOK
    <2>2. \A q \in Requests : \A i \in 1..Len(Batch[q]) :
            /\ Undispatched(q, i)' => Undispatched(q, i)
            /\ Dispatched(q, i)' => Dispatched(q, i)
      BY <2>1, Zenon DEF Undispatched, Dispatched
    <2>3. UNCHANGED <<status, attempts, broker, degraded, wstage, batch, hand>>
      BY <1>3, Zenon DEF XAdd, rowVars, workerVars
    <2> QED BY <2>2, <2>3 DEF WorkerInv, DispatchInv, ProcessedIsDelivered, BudgetInv
  <1>4. ASSUME NEW r \in Requests, Cancel(r) PROVE Rest'
    BY <1>4 DEF Cancel, WorkerInv, DispatchInv, ProcessedIsDelivered, BudgetInv,
                Undispatched, Dispatched, TypeOK, rowVars, workerVars
  <1>5. ASSUME NEW e \in Events, RunSpawned(e) PROVE Rest'
    <2>1. broker \subseteq broker' BY <1>5, Zenon DEF RunSpawned, KafkaSend
    <2>2. UNCHANGED <<stage, pos, status, attempts, degraded, wstage, batch, hand>>
      BY <1>5, Zenon DEF RunSpawned, requestVars, rowVars, workerVars
    <2> QED BY <2>1, <2>2, Zenon DEF WorkerInv, DispatchInv, ProcessedIsDelivered, BudgetInv,
                              Undispatched, Dispatched
  <1>6. CASE FetchPending
    <2>1. /\ wstage' = "publish" /\ batch' \subseteq Pending
          /\ UNCHANGED <<stage, pos, status, attempts, broker, degraded>>
      BY <1>6, Zenon DEF FetchPending, requestVars, rowVars
    <2>2. WorkerInv' BY <2>1, Zenon DEF Pending, WorkerInv
    <2>3. \A q \in Requests : stage'[q] = "gone" \/ (stage'[q] = stage[q] /\ pos'[q] = pos[q])
      BY <2>1, Zenon
    <2> QED BY <2>1, <2>2, <2>3, RowsUntouched, <1>0, Zenon
  <1>7. CASE Deliver
    <2>1. PICK e \in batch :
            /\ hand' = e /\ batch' = batch \ {e} /\ broker \subseteq broker'
            /\ wstage' \in {"processed", "failed"}
            /\ wstage' = "processed" => e \in broker'
      BY <1>7, Zenon DEF Deliver, Oldest, KafkaSend
    <2>2. UNCHANGED <<stage, pos, status, attempts, degraded>>
      BY <1>7, Zenon DEF Deliver, requestVars, rowVars
    <2>3. WorkerInv' BY <2>1, <2>2, Zenon DEF WorkerInv
    <2>4. \A q \in Requests : stage'[q] = "gone" \/ (stage'[q] = stage[q] /\ pos'[q] = pos[q])
      BY <2>2, Zenon
    <2> QED BY <2>1, <2>2, <2>3, <2>4, RowsUntouched, <1>0, Zenon
  <1>8. ASSUME MarkProcessed \/ MarkFailed PROVE Rest'
    <2>1. hand \in Events /\ hand \notin batch /\ status[hand] = "PENDING"
      BY <1>8, Zenon DEF MarkProcessed, MarkFailed, TypeOK, WorkerInv
    <2>2. /\ wstage' \in {"fetch", "publish"} /\ batch' = batch
          /\ UNCHANGED <<stage, pos, broker, degraded>>
      BY <1>8, Zenon DEF MarkProcessed, MarkFailed, NextRecord, requestVars
    <2>3. /\ \A e \in Events \ {hand} : status'[e] = status[e] /\ attempts'[e] = attempts[e]
          /\ status'[hand] # "NONE"
          /\ status'[hand] = "PROCESSED" => hand \in broker
          /\ status'[hand] = "PENDING" => attempts'[hand] < MAX_ATTEMPTS
          /\ status'[hand] = "FAILED" => attempts'[hand] = MAX_ATTEMPTS
      <3>1. attempts[hand] \in Nat /\ attempts[hand] < MAX_ATTEMPTS /\ MAX_ATTEMPTS \in Nat
        BY <2>1, RelayAssumption, Zenon DEF TypeOK, BudgetInv
      <3>2. CASE MarkProcessed
        BY <2>1, <3>1, <3>2, Zenon DEF MarkProcessed, TypeOK, WorkerInv
      <3>3. CASE MarkFailed
        BY <2>1, <3>1, <3>3 DEF MarkFailed, TypeOK
      <3> QED BY <1>8, <3>2, <3>3, Zenon
    <2>4. WorkerInv' BY <2>1, <2>2, <2>3, Zenon DEF WorkerInv, TypeOK
    <2>5. DispatchInv'
      <3>1. \A q \in Requests : \A i \in 1..Len(Batch[q]) : Batch[q][i] \in Events
        BY RelayAssumption
      <3>2. \A e \in Events : status'[e] = "NONE" <=> status[e] = "NONE"
        BY <2>1, <2>3, Zenon
      <3> QED BY <2>2, <3>1, <3>2, Zenon DEF DispatchInv, Undispatched, Dispatched
    <2>6. ProcessedIsDelivered' BY <2>1, <2>2, <2>3, Zenon DEF ProcessedIsDelivered
    <2>7. BudgetInv' BY <2>1, <2>3, Zenon DEF BudgetInv
    <2> QED BY <2>4, <2>5, <2>6, <2>7, Zenon
  <1>9. CASE MarkLost
    <2>1. /\ wstage' \in {"fetch", "publish"} /\ batch' = batch
          /\ UNCHANGED <<stage, pos, status, attempts, broker, degraded>>
      BY <1>9, Zenon DEF MarkLost, NextRecord, requestVars, rowVars
    <2>2. WorkerInv' BY <2>1, Zenon DEF WorkerInv
    <2>3. \A q \in Requests : stage'[q] = "gone" \/ (stage'[q] = stage[q] /\ pos'[q] = pos[q])
      BY <2>1, Zenon
    <2> QED BY <2>1, <2>2, <2>3, RowsUntouched, <1>0, Zenon
  <1>10. CASE Crash
    <2>1. /\ wstage' = "fetch" /\ batch' = {}
          /\ UNCHANGED <<pos, status, attempts, broker, degraded>>
      BY <1>10, Zenon DEF Crash, rowVars
    <2>2. \A q \in Requests : stage'[q] = stage[q] \/ stage'[q] = "gone"
      BY <1>10, Zenon DEF Crash
    <2>3. WorkerInv' BY <2>1, Zenon DEF WorkerInv
    <2>4. \A q \in Requests : stage'[q] = "gone" \/ (stage'[q] = stage[q] /\ pos'[q] = pos[q])
      BY <2>1, <2>2, Zenon
    <2> QED BY <2>1, <2>3, <2>4, RowsUntouched, <1>0, Zenon
  <1>11. CASE UNCHANGED vars
    <2>1. UNCHANGED <<stage, pos, status, attempts, broker, degraded, wstage, batch, hand>>
      BY <1>11, Zenon DEF vars, requestVars, rowVars, workerVars
    <2>2. WorkerInv' BY <2>1, Zenon DEF WorkerInv
    <2> QED BY <2>1, <2>2, RowsUntouched, <1>0, Zenon
  <1> QED
    BY <1>0, <1>1, <1>2, <1>3, <1>4, <1>5, <1>6, <1>7, <1>8, <1>9, <1>10, <1>11
    DEF Next, Worker

\* The inductive invariant holds throughout every behaviour.
THEOREM Inductive == Spec => []IInv
  BY InitIInv, IInvStep, PTL DEF Spec

\* A PROCESSED row's event is on the broker, for any number of requests,
\* crashes, lost acknowledgements and failed updates.
THEOREM ProcessedOnlyAfterDelivery == Spec => []ProcessedIsDelivered
  <1>1. IInv => ProcessedIsDelivered BY Zenon DEF IInv
  <1> QED BY <1>1, Inductive, PTL

\* Past its dispatch loop, an event is delivered, waiting, quarantined after the
\* whole budget, or one whose INSERT reported an error.
THEOREM NothingLostSilently == Spec => []NoSilentLoss
  <1>1. IInv => NoSilentLoss
    <2> SUFFICES ASSUME IInv, NEW r \in Requests, stage[r] \in {"xadd", "ok", "err"},
                        NEW e \in EventsOf(r) \ KafkaSkip
                 PROVE  \/ e \in broker \/ status[e] = "PENDING" \/ e \in degraded
                        \/ status[e] = "FAILED" /\ attempts[e] = MAX_ATTEMPTS
      BY Zenon DEF NoSilentLoss
    <2>1. PICK i \in 1..Len(Batch[r]) : e = Batch[r][i] BY Zenon DEF EventsOf
    <2>2. e \in Events BY <2>1, RelayAssumption
    <2>3. status[e] # "NONE" \/ e \in degraded
      BY <2>1, Zenon DEF IInv, DispatchInv, Dispatched
    <2>4. status[e] \in RowStatus BY <2>2, Zenon DEF IInv, TypeOK
    <2> QED BY <2>2, <2>3, <2>4, Zenon DEF IInv, ProcessedIsDelivered, BudgetInv, RowStatus
  <1> QED BY <1>1, Inductive, PTL

\* No step reopens a row: PROCESSED and FAILED are final.
THEOREM RowsSettleOnce == Spec => SettledIsFinal
  <1> DEFINE Final == \A e \in Events :
        status[e] \in {"PROCESSED", "FAILED"} => status'[e] = status[e]
  <1>1. IInv /\ [Next]_vars => [Final]_vars
    <2> SUFFICES ASSUME IInv, Next PROVE Final
      OBVIOUS
    <2>1. ASSUME NEW r \in Requests, DispatchKafka(r) PROVE Final
      <3>1. stage[r] = "dispatch" /\ pos[r] \in 1..Len(Batch[r]) /\ Batch[r][pos[r]] \in Events
        BY <2>1, EventAtHand, Zenon DEF IInv, DispatchKafka, InFlight
      <3>2. status[Batch[r][pos[r]]] = "NONE"
        BY <3>1 DEF IInv, DispatchInv, Undispatched
      <3>3. Enqueue(Batch[r][pos[r]]) \/ UNCHANGED rowVars
        BY <2>1, DispatchEffect, Zenon
      <3> QED BY <3>1, <3>2, <3>3, Zenon DEF Enqueue, rowVars, IInv, TypeOK
    <2>2. CASE MarkProcessed \/ MarkFailed
      BY <2>2, Zenon DEF MarkProcessed, MarkFailed, IInv, TypeOK, WorkerInv
    <2>3. ASSUME status' = status PROVE Final
      BY <2>3, Zenon
    <2>4. \/ status' = status \/ MarkProcessed \/ MarkFailed
          \/ \E r \in Requests : DispatchKafka(r)
      BY Zenon DEF Next, Worker, Publish, XAdd, Cancel, RunSpawned, FetchPending, Deliver, MarkLost,
             Crash, rowVars
    <2> QED BY <2>1, <2>2, <2>3, <2>4, Zenon
  <1> QED BY <1>1, Inductive, PTL DEF Spec, SettledIsFinal

-----------------------------------------------------------------------------
(* Audit-only events, and the stream.                                      *)

\* Events of a batch are events, not poison, and there is one of each.
LEMMA BatchEvents ==
  \A r \in Requests : \A i, j \in 1..Len(Batch[r]) :
    /\ Batch[r][i] \in Events \ Poison
    /\ Batch[r][i] = Batch[r][j] => i = j
  BY RelayAssumption, OnePublisher

\* No path stores an audit-only event or hands it to a detached task.
AuditInv == AuditStaysOnStream /\ spawned \cap (KafkaSkip \ Poison) = {}

\* Whatever a publish call meets, its audit-only events reach neither the outbox
\* nor the broker.
THEOREM AuditsStayOnStream == Spec => []AuditStaysOnStream
  <1>1. Init => AuditInv BY RelayAssumption, Zenon DEF Init, AuditInv, AuditStaysOnStream
  <1>2. IInv /\ AuditInv /\ [Next]_vars => AuditInv'
    <2> SUFFICES ASSUME IInv, AuditInv, [Next]_vars PROVE AuditInv'
      OBVIOUS
    <2>1. KafkaSkip \subseteq Events BY RelayAssumption, Zenon
    <2>2. ASSUME NEW r \in Requests, DispatchKafka(r) PROVE AuditInv'
      <3>1. PICK e \in Events : e = Batch[r][pos[r]] BY <2>2, EventAtHand, Zenon DEF IInv, DispatchKafka, InFlight
      <3>2. \/ UNCHANGED <<rowVars, spawned>>
            \/ e \notin KafkaSkip /\ (Enqueue(e) \/ UNCHANGED rowVars) /\ spawned' \subseteq spawned \cup {e}
        BY <2>2, <3>1, Zenon DEF DispatchKafka, EnqueueError, SpawnKafkaPublish
      <3>3. broker' = broker BY <2>2, Zenon DEF DispatchKafka
      <3> QED BY <2>1, <3>2, <3>3, Zenon DEF AuditInv, AuditStaysOnStream, Enqueue, rowVars, IInv, TypeOK
    <2>3. ASSUME NEW e \in Events, RunSpawned(e) PROVE AuditInv'
      BY <2>3, Zenon DEF RunSpawned, KafkaSend, rowVars, AuditInv, AuditStaysOnStream
    <2>4. CASE Deliver
      <3>1. PICK e \in batch : broker' \subseteq broker \cup {e} BY <2>4, Zenon DEF Deliver, Oldest, KafkaSend
      <3>2. status[e] = "PENDING" BY <3>1, Zenon DEF IInv, WorkerInv
      <3> QED BY <2>4, <3>1, <3>2, Zenon DEF Deliver, rowVars, AuditInv, AuditStaysOnStream
    <2>5. CASE MarkProcessed \/ MarkFailed
      <3>1. hand \in Events /\ status[hand] = "PENDING"
        BY <2>5, Zenon DEF MarkProcessed, MarkFailed, IInv, TypeOK, WorkerInv
      <3>2. /\ \A e \in Events \ {hand} : status'[e] = status[e]
            /\ UNCHANGED <<broker, spawned>>
        BY <2>5, <3>1, Zenon DEF MarkProcessed, MarkFailed, NextRecord, IInv, TypeOK
      <3> QED BY <2>1, <3>1, <3>2, Zenon DEF AuditInv, AuditStaysOnStream
    <2>6. ASSUME UNCHANGED <<status, broker>>, spawned' \subseteq spawned PROVE AuditInv'
      BY <2>6, Zenon DEF AuditInv, AuditStaysOnStream
    <2>7. CASE MarkLost \/ Crash \/ FetchPending \/ UNCHANGED vars
      BY <2>6, <2>7, Zenon DEF MarkLost, NextRecord, Crash, FetchPending, rowVars, vars
    <2>8. ASSUME NEW r \in Requests, Publish(r) \/ XAdd(r) \/ Cancel(r) PROVE AuditInv'
      BY <2>6, <2>8, Zenon DEF Publish, XAdd, Cancel, rowVars
    <2> QED BY <2>2, <2>3, <2>4, <2>5, <2>7, <2>8, Zenon DEF Next, Worker
  <1>3. AuditInv => AuditStaysOnStream BY Zenon DEF AuditInv
  <1> QED BY <1>1, <1>2, <1>3, Inductive, PTL DEF Spec

\* Of request r's batch the first n events are on the stream, n as its stage says.
Cut(r, n) == \A i \in 1..Len(Batch[r]) : Batch[r][i] \in stream <=> i <= n
StreamInv ==
  \A r \in Requests : \E n \in 0..Len(Batch[r]) :
    /\ Cut(r, n)
    /\ stage[r] \in {"idle", "dispatch"} => n = 0
    /\ stage[r] = "xadd" => n = pos[r] - 1
    /\ stage[r] = "ok" => n = Len(Batch[r])

\* An XADD adds the next event of its batch and none of another.
LEMMA StreamStep == TypeOK /\ StreamInv /\ [Next]_vars => StreamInv'
  <1> SUFFICES ASSUME TypeOK, StreamInv, [Next]_vars PROVE StreamInv'
    OBVIOUS
  <1>1. /\ stage \in [Requests -> RequestStages] /\ pos \in [Requests -> Nat]
        /\ \A r \in Requests : Len(Batch[r]) \in Nat
    BY RelayAssumption DEF TypeOK
  <1>2. ASSUME stream' = stream,
               \A q \in Requests :
                 \/ stage'[q] = "gone"
                 \/ stage'[q] = stage[q] /\ pos'[q] = pos[q]
                 \/ stage[q] \in {"idle", "dispatch"} /\ stage'[q] = "dispatch"
                 \/ stage[q] = "dispatch" /\ stage'[q] = "xadd" /\ pos'[q] = 1
        PROVE  StreamInv'
    <2> SUFFICES ASSUME NEW r \in Requests
                 PROVE  \E n \in 0..Len(Batch[r]) :
                          /\ Cut(r, n)'
                          /\ stage'[r] \in {"idle", "dispatch"} => n = 0
                          /\ stage'[r] = "xadd" => n = pos'[r] - 1
                          /\ stage'[r] = "ok" => n = Len(Batch[r])
      BY Zenon DEF StreamInv
    <2>1. PICK n \in 0..Len(Batch[r]) :
            /\ Cut(r, n)
            /\ stage[r] \in {"idle", "dispatch"} => n = 0
            /\ stage[r] = "xadd" => n = pos[r] - 1
            /\ stage[r] = "ok" => n = Len(Batch[r])
      BY Zenon DEF StreamInv
    <2>2. Cut(r, n)' BY <1>2, <2>1, Zenon DEF Cut
    <2> QED BY <1>1, <1>2, <2>1, <2>2
  <1>3. ASSUME NEW r \in Requests, XAdd(r) PROVE StreamInv'
    <2>1. stage[r] = "xadd" /\ pos[r] \in 1..Len(Batch[r]) BY <1>3, EventAtHand, Zenon DEF XAdd, InFlight
    <2> DEFINE e == Batch[r][pos[r]]
    <2>2. /\ stream' \in {stream, stream \cup {e}}
          /\ \/ stream' = stream \cup {e} /\ Advance(r, "ok")
             \/ stage' = [stage EXCEPT ![r] = "err"] /\ pos' = pos
      BY <1>3, Zenon DEF XAdd
    <2> HIDE DEF e
    <2>3. \A q \in Requests : \A i \in 1..Len(Batch[q]) : Batch[q][i] = e <=> q = r /\ i = pos[r]
      BY <2>1, OnePublisher, Zenon DEF e
    <2>4. ASSUME NEW q \in Requests, q # r
          PROVE  \E n \in 0..Len(Batch[q]) :
                   /\ Cut(q, n)'
                   /\ stage'[q] \in {"idle", "dispatch"} => n = 0
                   /\ stage'[q] = "xadd" => n = pos'[q] - 1
                   /\ stage'[q] = "ok" => n = Len(Batch[q])
      <3>1. stage'[q] = stage[q] /\ pos'[q] = pos[q] BY <1>1, <2>2, <2>4, Zenon DEF Advance
      <3>2. \A n : Cut(q, n)' <=> Cut(q, n) BY <2>2, <2>3, <2>4 DEF Cut
      <3> QED BY <3>1, <3>2, Zenon DEF StreamInv
    <2>5. PICK p \in 1..Len(Batch[r]) : p = pos[r] /\ Cut(r, p - 1) BY <2>1, Zenon DEF StreamInv
    <2>6. stream' = stream \cup {e} => Cut(r, p)'
      BY <1>1, <2>1, <2>3, <2>5 DEF Cut
    <2>7. stream' = stream => Cut(r, p - 1)' BY <2>5, Zenon DEF Cut
    <2>8. \E n \in 0..Len(Batch[r]) :
            /\ Cut(r, n)'
            /\ stage'[r] \in {"idle", "dispatch"} => n = 0
            /\ stage'[r] = "xadd" => n = pos'[r] - 1
            /\ stage'[r] = "ok" => n = Len(Batch[r])
      <3>1. CASE stage' = [stage EXCEPT ![r] = "err"]
        <4>1. stage'[r] = "err" BY <1>1, <3>1, Zenon
        <4>2. p \in 0..Len(Batch[r]) /\ p - 1 \in 0..Len(Batch[r]) BY <1>1, <2>5
        <4> QED BY <2>2, <2>6, <2>7, <4>1, <4>2, Zenon
      <3>2. CASE stream' = stream \cup {e} /\ Advance(r, "ok")
        <4>1. \/ stage'[r] = "xadd" /\ pos'[r] = pos[r] + 1
              \/ stage'[r] = "ok" /\ pos[r] = Len(Batch[r])
          BY <1>1, <2>1, <3>2 DEF Advance
        <4>2. p \in 0..Len(Batch[r]) /\ (p + 1) - 1 = p BY <1>1, <2>5
        <4> QED BY <2>5, <2>6, <3>2, <4>1, <4>2, Zenon
      <3> QED BY <2>2, <3>1, <3>2, Zenon
    <2> QED BY <2>4, <2>8 DEF StreamInv
  <1>4. ASSUME NEW r \in Requests, Publish(r) PROVE StreamInv'
    <2>1. stream' = stream /\ stage[r] = "idle" /\ stage'[r] = "dispatch"
          /\ \A q \in Requests \ {r} : stage'[q] = stage[q] /\ pos'[q] = pos[q]
      BY <1>1, <1>4, Zenon DEF Publish
    <2> QED BY <1>2, <2>1, Zenon
  <1>5. ASSUME NEW r \in Requests, DispatchKafka(r) PROVE StreamInv'
    <2>1. stream' = stream /\ stage[r] = "dispatch" /\ Advance(r, "xadd") BY <1>5, Zenon DEF DispatchKafka
    <2>2. /\ stage'[r] = "dispatch" \/ (stage'[r] = "xadd" /\ pos'[r] = 1)
          /\ \A q \in Requests \ {r} : stage'[q] = stage[q] /\ pos'[q] = pos[q]
      BY <1>1, <2>1, Zenon DEF Advance
    <2> QED BY <1>2, <2>1, <2>2, Zenon
  <1>6. ASSUME NEW r \in Requests, Cancel(r) PROVE StreamInv'
    BY <1>1, <1>2, <1>6, Zenon DEF Cancel
  <1>7. CASE Crash BY <1>1, <1>2, <1>7, Zenon DEF Crash
  <1>8. ASSUME UNCHANGED <<stream, stage, pos>> PROVE StreamInv' BY <1>2, <1>8, Zenon
  <1>9. ASSUME NEW e \in Events, RunSpawned(e) PROVE StreamInv'
    BY <1>8, <1>9, Zenon DEF RunSpawned, requestVars
  <1>10. CASE Worker \/ UNCHANGED vars
    BY <1>8, <1>10, Zenon DEF Worker, FetchPending, Deliver, MarkProcessed, MarkFailed, MarkLost, NextRecord,
                       requestVars, vars
  <1> QED BY <1>3, <1>4, <1>5, <1>6, <1>7, <1>9, <1>10, Zenon DEF Next

\* No error, timeout or crash leaves a gap in a batch on the Redis stream, and a
\* publish that returned Ok has put all of it there.
THEOREM BatchesAreCutShort == Spec => []StreamIsPrefix
  <1>1. Init => StreamInv
    <2>1. \A r \in Requests : Len(Batch[r]) \in Nat BY RelayAssumption
    <2> QED BY <2>1 DEF Init, StreamInv, Cut
  <1>2. StreamInv => StreamIsPrefix
    <2> SUFFICES ASSUME StreamInv, NEW r \in Requests
                 PROVE  \E n \in 0..Len(Batch[r]) :
                          /\ EventsOf(r) \cap stream = {Batch[r][i] : i \in 1..n}
                          /\ stage[r] = "ok" => n = Len(Batch[r])
      BY Zenon DEF StreamIsPrefix
    <2>1. PICK n \in 0..Len(Batch[r]) : Cut(r, n) /\ (stage[r] = "ok" => n = Len(Batch[r]))
      BY Zenon DEF StreamInv
    <2>2. Len(Batch[r]) \in Nat BY RelayAssumption
    <2>3. EventsOf(r) \cap stream = {Batch[r][i] : i \in 1..n} BY <2>1, <2>2 DEF Cut, EventsOf
    <2> QED BY <2>1, <2>3, Zenon
  <1> QED BY <1>1, <1>2, StreamStep, TypeCorrect, PTL DEF Spec

-----------------------------------------------------------------------------
(* The order of a batch on the broker.                                     *)

\* Event e was sent: the broker has it, or a send of it reported an error.
Sent(e) == e \in broker \cup failing

\* Event e goes through the worker: it is neither audit-only nor degraded.
Relayed(e) == e \notin KafkaSkip \cup degraded

\* Only degraded events take the detached path, and a row that was given up was sent.
PathInv ==
  /\ spawned \subseteq degraded
  /\ \A e \in Events : status[e] = "FAILED" /\ e \notin Poison => Sent(e)
  /\ wstage = "failed" /\ hand \notin Poison => hand \in failing
  /\ \A e \in Events : createdAt[e] < now
  /\ \A e \in batch : e \in Events

\* Of two relayed events f is behind e: its row is younger and not there without e's,
\* the worker does not take it up before e, and it is not sent before e.
Behind(e, f) ==
  /\ status[f] # "NONE" => status[e] # "NONE" /\ createdAt[e] < createdAt[f]
  /\ f \in batch => e \in batch \/ Sent(e)
  /\ f \in broker => Sent(e)

OrderInv ==
  /\ PathInv
  /\ \A r \in Requests : \A i, j \in 1..Len(Batch[r]) :
       i < j /\ Relayed(Batch[r][i]) /\ Relayed(Batch[r][j]) => Behind(Batch[r][i], Batch[r][j])

\* A step that leaves rows and worker alone keeps the order.
LEMMA OrderUntouched ==
  ASSUME OrderInv, UNCHANGED <<status, createdAt, now, failing>>,
         UNCHANGED <<wstage, hand>> \/ wstage' # "failed",
         batch' \subseteq batch, batch' = batch \/ batch' = {}, degraded \subseteq degraded',
         spawned' \subseteq degraded', broker \subseteq broker', broker' \subseteq broker \cup degraded'
  PROVE  OrderInv'
  <1>1. PathInv' BY Zenon DEF OrderInv, PathInv, Sent
  <1>2. \A e, f : Relayed(f)' /\ Behind(e, f) => Behind(e, f)' BY DEF Behind, Sent, Relayed
  <1>3. \A e : Relayed(e)' => Relayed(e) BY Zenon DEF Relayed
  <1> QED BY <1>1, <1>2, <1>3, Zenon DEF OrderInv

\* A row is stored behind those of the events before it, which are there already.
LEMMA OrderDispatch ==
  ASSUME IInv, OrderInv, NEW r \in Requests, DispatchKafka(r)
  PROVE  OrderInv'
  <1>1. PICK e \in Events : e = Batch[r][pos[r]] BY EventAtHand, Zenon DEF IInv, DispatchKafka, InFlight
  <1>2. stage[r] = "dispatch" /\ pos[r] \in 1..Len(Batch[r])
    BY EventAtHand, Zenon DEF IInv, DispatchKafka, InFlight
  <1>3. status[e] = "NONE" BY <1>1, <1>2, SMTT(30) DEF IInv, DispatchInv, Undispatched
  <1>4. UNCHANGED <<broker, failing, wstage, batch, hand>> BY Zenon DEF DispatchKafka, workerVars
  <1>5. /\ degraded' \in {degraded, degraded \cup {e}}
        /\ Enqueue(e) \/ UNCHANGED rowVars
        /\ spawned' \subseteq degraded'
    <2>1. spawned \subseteq degraded BY Zenon DEF OrderInv, PathInv
    <2> QED BY <1>1, <2>1, Zenon DEF DispatchKafka, EnqueueError, SpawnKafkaPublish, rowVars
  <1>6. CASE UNCHANGED rowVars
    BY <1>4, <1>5, <1>6, OrderUntouched, Zenon DEF rowVars
  <1>7. CASE Enqueue(e)
    <2>1. /\ status' = [status EXCEPT ![e] = "PENDING"] /\ createdAt' = [createdAt EXCEPT ![e] = now]
          /\ now' = now + 1
      BY <1>7, Zenon DEF Enqueue
    <2>2. /\ status \in [Events -> RowStatus] /\ createdAt \in [Events -> Nat] /\ now \in Nat
      BY Zenon DEF IInv, TypeOK
    <2>3. \A f \in Events : createdAt[f] < now BY Zenon DEF OrderInv, PathInv
    <2>4. \A f \in Events : createdAt'[f] < now' BY <2>1, <2>2, <2>3
    <2>5. PathInv' BY <1>4, <1>5, <2>1, <2>2, <2>4, Zenon DEF OrderInv, PathInv, Sent
    <2>6. e \notin batch BY <1>3, Zenon DEF IInv, WorkerInv
    <2>7. ASSUME NEW q \in Requests, NEW i \in 1..Len(Batch[q]), NEW j \in 1..Len(Batch[q]),
                 i < j, Relayed(Batch[q][i])', Relayed(Batch[q][j])'
          PROVE  Behind(Batch[q][i], Batch[q][j])'
      <3>1. PICK d \in Events, f \in Events : d = Batch[q][i] /\ f = Batch[q][j] /\ d # f
        BY <2>7, BatchEvents, RelayAssumption
      <3>2. Behind(d, f) /\ d \notin KafkaSkip \cup degraded
        BY <1>5, <2>7, <3>1, Zenon DEF OrderInv, Relayed
      <3>3. CASE f = e
        <4>1. q = r /\ j = pos[r]
          <5>1. Batch[q][j] = Batch[r][pos[r]] BY <1>1, <3>1, <3>3, Zenon
          <5> QED BY <1>2, <5>1, OnePublisher
        <4>2. status[d] # "NONE"
          BY <1>2, <2>7, <3>1, <3>2, <4>1, Zenon DEF IInv, DispatchInv, Dispatched
        <4>3. status'[d] # "NONE" /\ createdAt'[d] = createdAt[d] /\ createdAt'[f] = now
          BY <2>1, <2>2, <3>1, <3>3, <4>2, Zenon
        <4> QED BY <1>4, <2>3, <2>6, <3>1, <3>2, <3>3, <4>3, Zenon DEF Behind, Sent
      <3>4. CASE f # e
        <4>1. status'[f] = status[f] /\ createdAt'[f] = createdAt[f] BY <2>1, <2>2, <3>4, Zenon
        <4>2. status[f] # "NONE" => d # e BY <1>3, <3>2, Zenon DEF Behind
        <4>3. d # e => status'[d] = status[d] /\ createdAt'[d] = createdAt[d] BY <2>1, <2>2, Zenon
        <4> QED BY <1>4, <3>1, <3>2, <4>1, <4>2, <4>3, Zenon DEF Behind, Sent
      <3> QED BY <3>3, <3>4, Zenon
    <2> QED BY <2>5, <2>7, Zenon DEF OrderInv
  <1> QED BY <1>5, <1>6, <1>7, Zenon

\* The worker fetches a row together with those before it.
LEMMA OrderFetch ==
  ASSUME IInv, OrderInv, FetchPending
  PROVE  OrderInv'
  <1>1. /\ UNCHANGED <<status, createdAt, now, broker, spawned, degraded, failing>>
        /\ wstage' = "publish" /\ batch' \subseteq Pending
        /\ \A e \in batch', f \in Pending \ batch' : createdAt[e] <= createdAt[f]
    BY Zenon DEF FetchPending, rowVars
  <1>2. PathInv' BY <1>1, Zenon DEF OrderInv, PathInv, Pending, Sent
  <1>3. ASSUME NEW q \in Requests, NEW i \in 1..Len(Batch[q]), NEW j \in 1..Len(Batch[q]),
               i < j, Relayed(Batch[q][i])', Relayed(Batch[q][j])'
        PROVE  Behind(Batch[q][i], Batch[q][j])'
    <2>1. PICK d \in Events, f \in Events : d = Batch[q][i] /\ f = Batch[q][j] /\ d \notin Poison
      BY BatchEvents, Zenon
    <2>2. Behind(d, f) BY <1>1, <1>3, <2>1, Zenon DEF OrderInv, Relayed
    <2>3. status[d] \in RowStatus /\ createdAt[d] \in Nat /\ createdAt[f] \in Nat BY Zenon DEF IInv, TypeOK
    <2>4. f \in batch' => d \in batch' \/ Sent(d)
      <3> SUFFICES ASSUME f \in batch' PROVE d \in batch' \/ Sent(d)
        OBVIOUS
      <3>1. status[d] # "NONE" /\ createdAt[d] < createdAt[f] BY <1>1, <2>2, Zenon DEF Behind, Pending
      <3>2. CASE status[d] = "PENDING" BY <1>1, <2>3, <3>1, <3>2 DEF Pending
      <3>3. CASE status[d] = "PROCESSED" BY <3>3, Zenon DEF IInv, ProcessedIsDelivered, Sent
      <3>4. CASE status[d] = "FAILED" BY <2>1, <3>4, Zenon DEF OrderInv, PathInv
      <3> QED BY <2>3, <3>1, <3>2, <3>3, <3>4 DEF RowStatus
    <2> QED BY <1>1, <2>1, <2>2, <2>4, Zenon DEF Behind, Sent
  <1> QED BY <1>2, <1>3, Zenon DEF OrderInv

\* It takes up the oldest of what it fetched, so those before it have been sent.
LEMMA OrderDeliver ==
  ASSUME IInv, OrderInv, Deliver
  PROVE  OrderInv'
  <1>1. PICK e \in Oldest(batch) :
          /\ hand' = e /\ batch' = batch \ {e}
          /\ broker \subseteq broker' /\ broker' \subseteq broker \cup {e}
          /\ failing \subseteq failing'
          /\ e \notin Poison => Sent(e)'
          /\ wstage' = "failed" /\ e \notin Poison => e \in failing'
    BY Zenon DEF Deliver, KafkaSend, Sent
  <1>2. UNCHANGED <<status, createdAt, now, spawned, degraded>> BY Zenon DEF Deliver, rowVars
  <1>3. PathInv' BY <1>1, <1>2, Zenon DEF OrderInv, PathInv, Sent
  <1>4. ASSUME NEW q \in Requests, NEW i \in 1..Len(Batch[q]), NEW j \in 1..Len(Batch[q]),
               i < j, Relayed(Batch[q][i])', Relayed(Batch[q][j])'
        PROVE  Behind(Batch[q][i], Batch[q][j])'
    <2>1. PICK d \in Events, f \in Events : d = Batch[q][i] /\ f = Batch[q][j] /\ d \notin Poison
      BY BatchEvents, Zenon
    <2>2. Behind(d, f) BY <1>2, <1>4, <2>1, Zenon DEF OrderInv, Relayed
    <2>3. f \in batch' => d \in batch' \/ Sent(d)' BY <1>1, <2>1, <2>2, Zenon DEF Behind, Sent
    <2>4. f = e => Sent(d)'
      <3> SUFFICES ASSUME f = e PROVE Sent(d)'
        OBVIOUS
      <3>1. f \in batch /\ \A g \in batch : createdAt[f] <= createdAt[g] BY Zenon DEF Oldest
      <3>2. status[f] = "PENDING" BY <3>1, Zenon DEF IInv, WorkerInv
      <3>3. createdAt[d] < createdAt[f] BY <2>2, <3>2, Zenon DEF Behind
      <3>4. d \notin batch
        <4>1. createdAt[d] \in Nat /\ createdAt[f] \in Nat BY Zenon DEF IInv, TypeOK
        <4> QED BY <3>1, <3>3, <4>1
      <3> QED BY <1>1, <2>2, <3>1, <3>4, Zenon DEF Behind, Sent
    <2>5. f \in broker' => Sent(d)' BY <1>1, <2>2, <2>4, Zenon DEF Behind, Sent
    <2> QED BY <1>2, <2>1, <2>2, <2>3, <2>5, Zenon DEF Behind
  <1> QED BY <1>3, <1>4, Zenon DEF OrderInv

\* Marks neither make rows nor unmake them.
LEMMA OrderMark ==
  ASSUME IInv, OrderInv, MarkProcessed \/ MarkFailed
  PROVE  OrderInv'
  <1>1. hand \in Events /\ status[hand] = "PENDING"
    BY Zenon DEF MarkProcessed, MarkFailed, IInv, TypeOK, WorkerInv
  <1>2. UNCHANGED <<createdAt, now, broker, spawned, degraded, failing, batch>> /\ wstage' # "failed"
    BY Zenon DEF MarkProcessed, MarkFailed, NextRecord
  <1>3. /\ \A e \in Events \ {hand} : status'[e] = status[e]
        /\ status'[hand] # "NONE"
        /\ status'[hand] = "FAILED" => wstage = "failed"
    BY <1>1, SMTT(30) DEF MarkProcessed, MarkFailed, IInv, TypeOK
  <1>4. PathInv' BY <1>1, <1>2, <1>3, Zenon DEF OrderInv, PathInv, Sent
  <1>5. \A d, f \in Events : Behind(d, f) => Behind(d, f)' BY <1>1, <1>2, <1>3 DEF Behind, Sent
  <1>6. \A e : Relayed(e)' <=> Relayed(e) BY <1>2, Zenon DEF Relayed
  <1> QED BY <1>4, <1>5, <1>6, BatchEvents, Zenon DEF OrderInv

\* Every step keeps the order.
LEMMA OrderStep == IInv /\ OrderInv /\ [Next]_vars => OrderInv'
  <1> SUFFICES ASSUME IInv, OrderInv, [Next]_vars PROVE OrderInv'
    OBVIOUS
  <1>1. spawned \subseteq degraded BY Zenon DEF OrderInv, PathInv
  <1>2. ASSUME UNCHANGED <<status, createdAt, now, broker, spawned, degraded, failing, wstage, batch, hand>>
        PROVE  OrderInv'
    BY <1>1, <1>2, OrderUntouched, Zenon
  <1>3. ASSUME NEW r \in Requests, Publish(r) \/ XAdd(r) \/ Cancel(r) PROVE OrderInv'
    BY <1>2, <1>3, Zenon DEF Publish, XAdd, Cancel, rowVars, workerVars
  <1>4. ASSUME NEW e \in Events, RunSpawned(e) PROVE OrderInv'
    BY <1>1, <1>4, OrderUntouched, Zenon DEF RunSpawned, KafkaSend, rowVars, workerVars
  <1>5. CASE MarkLost \/ Crash
    <2>1. /\ UNCHANGED <<status, createdAt, now, broker, degraded, failing>>
          /\ spawned' \subseteq spawned /\ wstage' # "failed" /\ (batch' = batch \/ batch' = {})
      BY <1>5, Zenon DEF MarkLost, NextRecord, Crash, rowVars
    <2> QED BY <1>1, <2>1, OrderUntouched, Zenon
  <1>6. CASE UNCHANGED vars BY <1>2, <1>6, Zenon DEF vars, rowVars, workerVars
  <1> QED BY <1>3, <1>4, <1>5, <1>6, OrderDispatch, OrderFetch, OrderDeliver, OrderMark
          DEF Next, Worker

\* The events of one publish call reach the broker in its order, whatever the batch
\* size, the crashes and the lost marks, unless a send or an INSERT reported an error.
THEOREM BatchesKeepOrder == Spec => []BatchInOrder
  <1>1. Init => OrderInv
    <2> SUFFICES ASSUME Init PROVE OrderInv
      OBVIOUS
    <2>1. PathInv BY DEF Init, PathInv
    <2>2. \A d, f \in Events \ Poison : Behind(d, f) BY Zenon DEF Init, Behind
    <2> QED BY <2>1, <2>2, BatchEvents, Zenon DEF OrderInv
  <1>2. OrderInv /\ AuditStaysOnStream => BatchInOrder
    <2> SUFFICES ASSUME OrderInv, AuditStaysOnStream,
                        NEW r \in Requests, NEW i \in 1..Len(Batch[r]), NEW j \in 1..Len(Batch[r]),
                        i < j, Batch[r][j] \in broker \ degraded
                 PROVE  Batch[r][i] \in broker \cup failing \cup degraded \cup KafkaSkip
      BY Zenon DEF BatchInOrder
    <2>1. Relayed(Batch[r][j]) BY BatchEvents, Zenon DEF AuditStaysOnStream, Relayed
    <2>2. Relayed(Batch[r][i]) => Behind(Batch[r][i], Batch[r][j]) BY <2>1, Zenon DEF OrderInv
    <2> QED BY <2>2, Zenon DEF Behind, Relayed, Sent
  <1> QED BY <1>1, <1>2, OrderStep, Inductive, AuditsStayOnStream, PTL DEF Spec

-----------------------------------------------------------------------------
(* The refinement.                                                         *)

\* The relay implements durable delivery, its safety part: an INSERT is Accept,
\* a send is Deliver, mark_processed is Complete and needs the delivery, the
\* mark_failed that spends the budget is Quarantine, and nothing else shows.
THEOREM RelayImplementsDelivery == Spec => DeliversDurably
  <1> USE DEF Rows
  <1>1. Init => Durable!Init
    BY DEF Init, Durable!Init
  <1>2. IInv /\ [Next]_vars => [Durable!Next]_(Durable!vars)
    <2> SUFFICES ASSUME IInv, [Next]_vars PROVE [Durable!Next]_(Durable!vars)
      OBVIOUS
    <2>1. ASSUME NEW r \in Requests, DispatchKafka(r)
          PROVE  [Durable!Next]_(Durable!vars)
      <3>1. stage[r] = "dispatch" /\ pos[r] \in 1..Len(Batch[r]) /\ Batch[r][pos[r]] \in Events
        BY <2>1, EventAtHand, Zenon DEF IInv, DispatchKafka, InFlight
      <3>2. PICK e \in Events : e = Batch[r][pos[r]]
        BY <3>1, Zenon
      <3>3. status[e] = "NONE" BY <3>1, <3>2, SMTT(30) DEF IInv, DispatchInv, Undispatched
      <3>4. broker' = broker BY <2>1, Zenon DEF DispatchKafka
      <3>5. CASE Enqueue(Batch[r][pos[r]])
        <4>1. status' = [status EXCEPT ![e] = "PENDING"] BY <3>2, <3>5, Zenon DEF Enqueue
        <4>2. Durable!Accept(e)
          BY <3>3, <3>4, <4>1, Zenon DEF Durable!Accept, IInv, TypeOK
        <4> QED BY <4>2, Zenon DEF Durable!Next
      <3>6. CASE UNCHANGED rowVars
        BY <3>4, <3>6, Zenon DEF rowVars, Durable!vars
      <3> QED BY <2>1, <3>5, <3>6, DispatchEffect, Zenon
    <2>2. ASSUME status' = status, NEW e \in Events, broker' \in {broker, broker \cup {e}}
          PROVE  [Durable!Next]_(Durable!vars)
      <3>1. CASE broker' = broker BY <2>2, <3>1, Zenon DEF Durable!vars
      <3>2. CASE broker' = broker \cup {e}
        <4>1. Durable!Deliver(e) BY <2>2, <3>2, Zenon DEF Durable!Deliver
        <4> QED BY <4>1, Zenon DEF Durable!Next
      <3> QED BY <2>2, <3>1, <3>2, Zenon
    <2>3. ASSUME NEW e \in Events, RunSpawned(e) PROVE [Durable!Next]_(Durable!vars)
      <3>1. status' = status /\ broker' \in {broker, broker \cup {e}}
        BY <2>3, Zenon DEF RunSpawned, KafkaSend, rowVars
      <3> QED BY <2>2, <3>1, Zenon
    <2>4. CASE Deliver
      <3>1. PICK e \in batch : broker' \in {broker, broker \cup {e}}
        BY <2>4, Zenon DEF Deliver, Oldest, KafkaSend
      <3>2. status' = status /\ e \in Events
        BY <2>4, Zenon DEF Deliver, rowVars, IInv, TypeOK
      <3> QED BY <2>2, <3>1, <3>2, Zenon
    <2>5. CASE MarkProcessed
      <3>1. PICK h \in Events : h = hand /\ status[h] = "PENDING" /\ h \in broker
        BY <2>5, Zenon DEF MarkProcessed, IInv, TypeOK, WorkerInv
      <3>2. status' = [status EXCEPT ![h] = "PROCESSED"] /\ broker' = broker
        BY <2>5, <3>1, Zenon DEF MarkProcessed, NextRecord
      <3>3. Durable!Complete(h)
        BY <3>1, <3>2, Zenon DEF Durable!Complete, Durable!Waiting, IInv, TypeOK
      <3> QED BY <3>1, <3>3, Zenon DEF Durable!Next, Durable!Settle
    <2>6. CASE MarkFailed
      <3>1. PICK h \in Events : h = hand /\ status[h] = "PENDING"
        BY <2>6, Zenon DEF MarkFailed, IInv, TypeOK, WorkerInv
      <3>2. broker' = broker BY <2>6, Zenon DEF MarkFailed, NextRecord
      <3>3. CASE status' = [status EXCEPT ![h] = "FAILED"]
        <4>1. Durable!Quarantine(h)
          BY <3>1, <3>2, <3>3, Zenon DEF Durable!Quarantine, Durable!Waiting, IInv, TypeOK
        <4> QED BY <3>1, <4>1, Zenon DEF Durable!Next, Durable!Settle
      <3>4. CASE status' = [status EXCEPT ![h] = "PENDING"]
        <4>1. status' = status BY <3>1, <3>4, Zenon DEF IInv, TypeOK
        <4> QED BY <3>2, <4>1, Zenon DEF Durable!vars
      <3> QED BY <2>6, <3>1, <3>3, <3>4, Zenon DEF MarkFailed
    <2>7. ASSUME status' = status, broker' = broker PROVE [Durable!Next]_(Durable!vars)
      BY <2>7, Zenon DEF Durable!vars
    <2>8. \/ status' = status /\ broker' = broker
          \/ Deliver \/ MarkProcessed \/ MarkFailed
          \/ \E r \in Requests : DispatchKafka(r)
          \/ \E e \in Events : RunSpawned(e)
      BY Zenon DEF Next, Worker, Publish, XAdd, Cancel, FetchPending, MarkLost, NextRecord,
                   Crash, rowVars, vars
    <2> QED BY <2>1, <2>3, <2>4, <2>5, <2>6, <2>7, <2>8, Zenon
  <1> QED BY <1>1, <1>2, Inductive, PTL DEF Spec, DeliversDurably, Durable!SafeSpec
=============================================================================
