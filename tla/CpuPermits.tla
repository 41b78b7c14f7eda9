----------------------------- MODULE CpuPermits -----------------------------
(***************************************************************************)
(* The CPU semaphore of AuthService around password hashing in login,      *)
(* register and reset_password.  `_permit' lives to the end of the         *)
(* handler, so a permit is held over the database, Redis and event calls   *)
(* that follow the hashing.  tokio's semaphore is fair: a released permit  *)
(* goes to the request that has waited longest.                            *)
(*                                                                         *)
(* A task given to spawn_blocking runs to its end even when the request    *)
(* that awaits it is dropped.  Admission says which requests get here and  *)
(* when they are dropped.                                                  *)
(***************************************************************************)
EXTENDS Integers, FiniteSets, Sequences, SequencesExt

CONSTANTS
  Calls,       \* concurrent requests; a slot is free again when its request ends
  Limits,      \* the values AUTH_CPU_SEMAPHORE_LIMIT may be given; any number parses, 0 too
  MaxOrphans   \* bound: how many tasks may outlive their requests at once

ASSUME CpuPermitsAssumption ==
  /\ IsFiniteSet(Calls)
  /\ Limits \subseteq Nat
  /\ MaxOrphans \in Nat

VARIABLES
  cpuLimit,   \* config.auth_cpu_semaphore_limit, read once, 32 by default
  permits,    \* the permits nobody holds
  queue,      \* the requests that wait for a permit, longest first
  cpuStage,   \* cpuStage[r]: what request r does
  orphans     \* how many tasks run whose requests are gone

cpuVars == <<cpuLimit, permits, queue, cpuStage, orphans>>

Holding == {"granted", "hash", "finish"}
Holders == {r \in Calls : cpuStage[r] \in Holding}

CpuInit ==
  /\ cpuLimit \in Limits
  /\ permits = cpuLimit
  /\ queue = <<>>
  /\ cpuStage = [r \in Calls |-> "idle"]
  /\ orphans = 0

\* Every permit is held or free, and the queue is what waits.
CpuTypeOK ==
  /\ cpuLimit \in Limits
  /\ permits \in Nat
  /\ queue \in Seq(Calls)
  /\ cpuStage \in [Calls -> {"idle", "waiting"} \cup Holding]
  /\ orphans \in Nat
  /\ permits + Cardinality(Holders) = cpuLimit
  /\ Range(queue) = {r \in Calls : cpuStage[r] = "waiting"}

-----------------------------------------------------------------------------
\* Mutant: a request that has to wait goes to the front of the queue.
AcquireInFront(r) ==
  /\ cpuStage[r] = "idle"
  /\ \/ /\ permits > 0
        /\ permits' = permits - 1
        /\ cpuStage' = [cpuStage EXCEPT ![r] = "granted"]
        /\ UNCHANGED queue
     \/ /\ permits = 0
        /\ queue' = <<r>> \o queue
        /\ cpuStage' = [cpuStage EXCEPT ![r] = "waiting"]
        /\ UNCHANGED permits
  /\ UNCHANGED orphans

\* acquire: at once when a permit is free, else at the end of the queue.
Acquire(r) ==
  /\ cpuStage[r] = "idle"
  /\ \/ /\ permits > 0
        /\ permits' = permits - 1
        /\ cpuStage' = [cpuStage EXCEPT ![r] = "granted"]
        /\ UNCHANGED queue
     \/ /\ permits = 0
        /\ queue' = Append(queue, r)
        /\ cpuStage' = [cpuStage EXCEPT ![r] = "waiting"]
        /\ UNCHANGED permits
  /\ UNCHANGED orphans

\* The permit of r goes to the head of the queue, or back to the pool.
Release(r) ==
  IF queue = <<>>
    THEN /\ permits' = permits + 1
         /\ cpuStage' = [cpuStage EXCEPT ![r] = "idle"]
         /\ UNCHANGED queue
    ELSE /\ cpuStage' = [cpuStage EXCEPT ![r] = "idle", ![Head(queue)] = "granted"]
         /\ queue' = Tail(queue)
         /\ UNCHANGED permits

\* spawn_blocking of the hashing.
Spawn(r) ==
  /\ cpuStage[r] = "granted"
  /\ cpuStage' = [cpuStage EXCEPT ![r] = "hash"]
  /\ UNCHANGED <<permits, queue, orphans>>

\* The task ends and the handler goes on, still holding its permit.
Hashed(r) ==
  /\ cpuStage[r] = "hash"
  /\ cpuStage' = [cpuStage EXCEPT ![r] = "finish"]
  /\ UNCHANGED <<permits, queue, orphans>>

\* The handler returns, with a result or an error.
Return(r) ==
  /\ cpuStage[r] = "finish"
  /\ Release(r)
  /\ UNCHANGED orphans

\* The request is dropped while it waits: it leaves the queue.
DropWaiting(r) ==
  /\ cpuStage[r] = "waiting"
  /\ \E i \in DOMAIN queue : queue[i] = r /\ queue' = RemoveAt(queue, i)
  /\ cpuStage' = [cpuStage EXCEPT ![r] = "idle"]
  /\ UNCHANGED <<permits, orphans>>

\* The request is dropped while it holds a permit: the permit is released, and
\* a task that has been spawned runs on.
DropHolding(r) ==
  /\ cpuStage[r] \in Holding
  /\ cpuStage[r] = "hash" => orphans < MaxOrphans
  /\ Release(r)
  /\ orphans' = IF cpuStage[r] = "hash" THEN orphans + 1 ELSE orphans

\* A task whose request is gone ends.
OrphanEnds ==
  /\ orphans > 0
  /\ orphans' = orphans - 1
  /\ UNCHANGED <<permits, queue, cpuStage>>

\* What the semaphore allows its users; the limit stays what it was at startup.
CpuNext ==
  /\ \/ \E r \in Calls :
          Acquire(r) \/ Spawn(r) \/ Hashed(r) \/ Return(r) \/ DropWaiting(r) \/ DropHolding(r)
     \/ OrphanEnds
  /\ UNCHANGED cpuLimit

CpuSpec == CpuInit /\ [][CpuNext]_cpuVars

-----------------------------------------------------------------------------
(* Properties.                                                             *)

\* The password tasks that run at any time are no more than the limit ("all hash/verify
\* calls run on `spawn_blocking`, bounded by `AUTH_CPU_SEMAPHORE_LIMIT`",
\* ARCHITECTURE.md:124).  Does not hold: a request that is dropped gives its permit
\* back while its task runs on.
CpuBounded == Cardinality({r \in Calls : cpuStage[r] = "hash"}) + orphans <= cpuLimit
=============================================================================
