----------------------------- MODULE Admission ------------------------------
(***************************************************************************)
(* How requests reach the CPU semaphore and how they leave: the layers of  *)
(* the REST router (startup.rs) around the handlers, and the RPC server,   *)
(* which has none.                                                         *)
(*                                                                         *)
(* Router::layer wraps every route by itself, so that each has a           *)
(* concurrency limit of its own, the wait for which counts in the request  *)
(* timeout outside it.  A request holds its slot until it is answered or   *)
(* dropped, and may wait for a CPU permit meanwhile.                       *)
(***************************************************************************)
EXTENDS CpuPermits

CONSTANTS
  RestCalls,     \* the requests to the REST router; the others are RPCs
  Routes,
  RouteOf,       \* RouteOf[r]: the route of REST request r
  GLOBAL_CONCURRENCY_LIMIT   \* 100 by default

ASSUME AdmissionAssumption ==
  /\ RestCalls \subseteq Calls
  /\ RouteOf \in [RestCalls -> Routes]
  /\ GLOBAL_CONCURRENCY_LIMIT \in Nat

VARIABLES
  slots,   \* slots[t]: the free slots of route t
  line,    \* line[t]: the requests that wait for one, longest first
  place    \* place[r]: "out", in "line", or "in" its handler

router == <<slots, line, place>>
admissionVars == <<cpuVars, router>>

Inside(t) == {r \in RestCalls : RouteOf[r] = t /\ place[r] = "in"}

AdmissionInit ==
  /\ CpuInit
  /\ slots = [t \in Routes |-> GLOBAL_CONCURRENCY_LIMIT]
  /\ line = [t \in Routes |-> <<>>]
  /\ place = [r \in Calls |-> "out"]

\* Every slot is free or with a request in its handler, the lines are what waits,
\* and only a request in its handler uses the semaphore.
AdmissionTypeOK ==
  /\ CpuTypeOK
  /\ slots \in [Routes -> Nat]
  /\ line \in [Routes -> Seq(RestCalls)]
  /\ place \in [Calls -> {"out", "line", "in"}]
  /\ \A t \in Routes :
       /\ slots[t] + Cardinality(Inside(t)) = GLOBAL_CONCURRENCY_LIMIT
       /\ Range(line[t]) = {r \in RestCalls : RouteOf[r] = t /\ place[r] = "line"}
  /\ \A r \in Calls : place[r] # "in" => cpuStage[r] = "idle"

-----------------------------------------------------------------------------
\* A request arrives: an RPC is handled at once, a REST request when its route
\* has a free slot.
Enter(r) ==
  /\ place[r] = "out"
  /\ \/ /\ r \notin RestCalls
        /\ place' = [place EXCEPT ![r] = "in"]
        /\ UNCHANGED <<slots, line>>
     \/ /\ r \in RestCalls
        /\ slots[RouteOf[r]] > 0
        /\ slots' = [slots EXCEPT ![RouteOf[r]] = @ - 1]
        /\ place' = [place EXCEPT ![r] = "in"]
        /\ UNCHANGED line
     \/ /\ r \in RestCalls
        /\ slots[RouteOf[r]] = 0
        /\ line' = [line EXCEPT ![RouteOf[r]] = Append(@, r)]
        /\ place' = [place EXCEPT ![r] = "line"]
        /\ UNCHANGED slots
  /\ UNCHANGED cpuVars

\* The request's slot goes to the head of its route's line, or back to the route.
Leave(r) ==
  \/ /\ r \notin RestCalls
     /\ place' = [place EXCEPT ![r] = "out"]
     /\ UNCHANGED <<slots, line>>
  \/ /\ r \in RestCalls
     /\ line[RouteOf[r]] = <<>>
     /\ slots' = [slots EXCEPT ![RouteOf[r]] = @ + 1]
     /\ place' = [place EXCEPT ![r] = "out"]
     /\ UNCHANGED line
  \/ /\ r \in RestCalls
     /\ line[RouteOf[r]] # <<>>
     /\ place' = [place EXCEPT ![r] = "out", ![Head(line[RouteOf[r]])] = "in"]
     /\ line' = [line EXCEPT ![RouteOf[r]] = Tail(@)]
     /\ UNCHANGED slots

\* A handler that hashes a password.
Handle(r) ==
  /\ place[r] = "in"
  /\ Acquire(r) \/ Spawn(r) \/ Hashed(r)
  /\ UNCHANGED <<cpuLimit, router>>

\* The response: after the hashing, or without any.
Respond(r) ==
  /\ place[r] = "in"
  /\ \/ Return(r) /\ UNCHANGED cpuLimit
     \/ cpuStage[r] = "idle" /\ UNCHANGED cpuVars
  /\ Leave(r)

\* Mutant: a request that waits for a permit is not dropped.
GiveUpNotWaiting(r) ==
  \/ /\ place[r] = "line"
     /\ \E i \in DOMAIN line[RouteOf[r]] :
          line[RouteOf[r]][i] = r /\ line' = [line EXCEPT ![RouteOf[r]] = RemoveAt(@, i)]
     /\ place' = [place EXCEPT ![r] = "out"]
     /\ UNCHANGED <<cpuVars, slots>>
  \/ /\ place[r] = "in"
     /\ DropHolding(r)
     /\ Leave(r)
     /\ UNCHANGED cpuLimit

\* TimeoutLayer drops a REST request, wherever it waits; the connection of any
\* request may close.
GiveUp(r) ==
  \/ /\ place[r] = "line"
     /\ \E i \in DOMAIN line[RouteOf[r]] :
          line[RouteOf[r]][i] = r /\ line' = [line EXCEPT ![RouteOf[r]] = RemoveAt(@, i)]
     /\ place' = [place EXCEPT ![r] = "out"]
     /\ UNCHANGED <<cpuVars, slots>>
  \/ /\ place[r] = "in"
     /\ DropWaiting(r) \/ DropHolding(r)
     /\ Leave(r)
     /\ UNCHANGED cpuLimit

AdmissionNext ==
  \/ \E r \in Calls : Enter(r) \/ Handle(r) \/ Respond(r) \/ GiveUp(r)
  \/ OrphanEnds /\ UNCHANGED <<cpuLimit, router>>

AdmissionSpec == AdmissionInit /\ [][AdmissionNext]_admissionVars

\* Handlers are carried on.  That the timeout fires is not assumed here: see
\* RestAnswered.
AdmissionFairness == \A r \in Calls : WF_admissionVars(Handle(r) \/ Respond(r))

AdmissionFairSpec == AdmissionSpec /\ AdmissionFairness

-----------------------------------------------------------------------------
(* Properties.                                                             *)

\* With at least one permit and one slot configured, requests that wait inside
\* the one limit for the other do not block each other: every wait for a slot or a
\* permit ends, by timeout or not, whoever else keeps coming.
NoStarvation ==
  cpuLimit > 0 /\ GLOBAL_CONCURRENCY_LIMIT > 0 =>
    \A r \in Calls :
      /\ cpuStage[r] = "waiting" ~> cpuStage[r] # "waiting"
      /\ place[r] = "line" ~> place[r] # "line"

\* Once the timeout fires, every REST request is answered, also with a CPU limit of
\* zero and with all permits taken by RPCs, which no timeout ends.
RestAnswered ==
  (\A r \in RestCalls : WF_admissionVars(GiveUp(r))) =>
    \A r \in RestCalls : place[r] # "out" ~> place[r] = "out"
=============================================================================
