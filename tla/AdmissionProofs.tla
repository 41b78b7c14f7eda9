--------------------------- MODULE AdmissionProofs --------------------------
(***************************************************************************)
(* Proofs about CpuPermits and Admission, for any requests, routes and     *)
(* limits.                                                                 *)
(***************************************************************************)
EXTENDS Admission, FiniteSetTheorems, SequenceTheorems, TLAPS

\* No request waits twice in a queue.
Distinct(q) == \A i, j \in 1..Len(q) : q[i] = q[j] => i = j

-----------------------------------------------------------------------------
(* Queues.                                                                 *)

\* A request that joins a queue stands there once.
LEMMA QueueAppend ==
  ASSUME NEW S, NEW q \in Seq(S), NEW r \in S, Distinct(q), r \notin Range(q)
  PROVE  /\ Append(q, r) \in Seq(S)
         /\ Distinct(Append(q, r))
         /\ Range(Append(q, r)) = Range(q) \cup {r}
<1> DEFINE a == Append(q, r)
<1>1. a \in Seq(S) /\ Len(a) = Len(q) + 1
  OBVIOUS
<1>2. \A i \in 1..Len(q) : a[i] = q[i]
  OBVIOUS
<1>3. a[Len(q) + 1] = r
  OBVIOUS
<1>4. DOMAIN q = 1..Len(q) /\ DOMAIN a = 1..(Len(q) + 1) /\ Len(q) \in Nat
  BY <1>1
<1> HIDE DEF a
<1>5. Distinct(a)
  BY <1>1, <1>2, <1>3, <1>4 DEF Distinct, Range
<1>6. Range(a) = Range(q) \cup {r}
  BY <1>1, <1>2, <1>3, <1>4 DEF Range
<1> QED
  BY <1>1, <1>5, <1>6 DEF a

\* The head of a queue leaves it for good.
LEMMA QueueTail ==
  ASSUME NEW S, NEW q \in Seq(S), Distinct(q), q # <<>>
  PROVE  /\ Head(q) \in Range(q)
         /\ Tail(q) \in Seq(S)
         /\ Distinct(Tail(q))
         /\ Range(Tail(q)) = Range(q) \ {Head(q)}
<1> DEFINE t == Tail(q)
<1>1. t \in Seq(S) /\ Len(t) = Len(q) - 1 /\ Len(q) > 0 /\ Head(q) = q[1]
  OBVIOUS
<1>2. \A i \in 1..(Len(q) - 1) : t[i] = q[i + 1]
  OBVIOUS
<1>3. DOMAIN q = 1..Len(q) /\ DOMAIN t = 1..(Len(q) - 1) /\ Len(q) \in Nat
  BY <1>1
<1> HIDE DEF t
<1>4. Distinct(t)
  BY <1>1, <1>2, <1>3 DEF Distinct
<1>5. Range(t) = Range(q) \ {Head(q)}
  <2>1. ASSUME NEW x \in Range(t) PROVE x \in Range(q) /\ x # q[1]
    BY <2>1, <1>1, <1>2, <1>3 DEF Range, Distinct
  <2>2. ASSUME NEW x \in Range(q), x # q[1] PROVE x \in Range(t)
    <3>1. PICK i \in 1..Len(q) : x = q[i]
      BY <2>2, <1>3 DEF Range
    <3>2. i - 1 \in 1..(Len(q) - 1) /\ t[i - 1] = x
      BY <3>1, <2>2, <1>2, <1>3
    <3> QED
      BY <3>2, <1>3 DEF Range
  <2> QED
    BY <2>1, <2>2, <1>1
<1>6. Head(q) \in Range(q)
  BY <1>1, <1>3 DEF Range
<1> QED
  BY <1>1, <1>4, <1>5, <1>6 DEF t

\* So does a request that is dropped from the middle.
LEMMA QueueRemove ==
  ASSUME NEW S, NEW q \in Seq(S), Distinct(q), NEW i \in 1..Len(q)
  PROVE  /\ RemoveAt(q, i) \in Seq(S)
         /\ Distinct(RemoveAt(q, i))
         /\ Range(RemoveAt(q, i)) = Range(q) \ {q[i]}
<1> DEFINE a == SubSeq(q, 1, i - 1)
           b == SubSeq(q, i + 1, Len(q))
           c == a \o b
<1> HIDE DEF a, b, c
<1>1. Len(q) \in Nat /\ DOMAIN q = 1..Len(q) /\ i \in Int /\ 1 <= i /\ i <= Len(q)
  OBVIOUS
<1>2. a \in Seq(S) /\ Len(a) = i - 1 /\ \A j \in 1..(i - 1) : a[j] = q[j]
  <2>1. \A j \in 1..(i - 1) : q[j] \in S
    BY <1>1
  <2> QED
    BY <1>1, <2>1, SubSeqProperties DEF a
<1>3. b \in Seq(S) /\ Len(b) = Len(q) - i /\ \A j \in 1..(Len(q) - i) : b[j] = q[j + i]
  <2>1. \A j \in (i + 1)..Len(q) : q[j] \in S
    BY <1>1
  <2>2. /\ b \in Seq(S)
        /\ Len(b) = IF i + 1 <= Len(q) THEN Len(q) - (i + 1) + 1 ELSE 0
        /\ \A j \in 1..(Len(q) - (i + 1) + 1) : b[j] = q[(i + 1) + j - 1]
    BY <1>1, <2>1, SubSeqProperties DEF b
  <2>3. Len(b) = Len(q) - i
    <3>1. \A n \in Nat, m \in Int : m <= n => (IF m + 1 <= n THEN n - (m + 1) + 1 ELSE 0) = n - m
      OBVIOUS
    <3> QED
      BY <3>1, <1>1, <2>2, Zenon
  <2>4. ASSUME NEW j \in 1..(Len(q) - i) PROVE b[j] = q[j + i]
    <3>1. j \in 1..(Len(q) - (i + 1) + 1) /\ (i + 1) + j - 1 = j + i
      BY <1>1
    <3> QED
      BY <3>1, <2>2
  <2> QED
    BY <2>2, <2>3, <2>4
<1>4. /\ c \in Seq(S)
      /\ Len(c) = Len(a) + Len(b)
      /\ \A j \in 1..(Len(a) + Len(b)) : c[j] = IF j <= Len(a) THEN a[j] ELSE b[j - Len(a)]
  BY <1>2, <1>3, ConcatProperties, ZenonT(30) DEF c
<1>5. /\ Len(c) = Len(q) - 1
      /\ \A j \in 1..(Len(q) - 1) : c[j] = IF j < i THEN q[j] ELSE q[j + 1]
  <2>1. Len(a) + Len(b) = Len(q) - 1
    BY <1>1, <1>2, <1>3
  <2>2. ASSUME NEW j \in 1..(Len(q) - 1) PROVE c[j] = IF j < i THEN q[j] ELSE q[j + 1]
    <3>1. CASE j < i
      <4>1. j \in 1..(Len(a) + Len(b)) /\ j <= Len(a) /\ j \in 1..(i - 1)
        BY <3>1, <2>1, <1>1, <1>2
      <4>2. c[j] = a[j]
        BY <4>1, <1>4, Zenon
      <4>3. a[j] = q[j]
        BY <4>1, <1>2, Zenon
      <4> QED
        BY <3>1, <4>2, <4>3, Zenon
    <3>2. CASE ~(j < i)
      <4>1. j - Len(a) \in 1..(Len(q) - i) /\ (j - Len(a)) + i = j + 1
        BY <3>2, <1>1, <1>2
      <4>2. c[j] = b[j - Len(a)]
        <5>1. j \in 1..(Len(a) + Len(b)) /\ ~(j <= Len(a))
          BY <3>2, <2>1, <1>1, <1>2
        <5> QED
          BY <5>1, <1>4, Zenon
      <4>3. b[j - Len(a)] = q[(j - Len(a)) + i]
        BY <4>1, <1>3, Zenon
      <4> QED
        BY <4>1, <4>2, <4>3, <3>2
    <3> QED
      BY <3>1, <3>2
  <2> QED
    BY <2>1, <2>2, <1>4
<1>6. DOMAIN c = 1..(Len(q) - 1)
  BY <1>4, <1>5
<1>7. RemoveAt(q, i) = c
  BY DEF RemoveAt, a, b, c
<1>8. Distinct(c)
  BY <1>1, <1>5 DEF Distinct
<1>9. Range(c) = Range(q) \ {q[i]}
  <2>1. ASSUME NEW x \in Range(c) PROVE x \in Range(q) /\ x # q[i]
    BY <2>1, <1>1, <1>5, <1>6, SMTT(30) DEF Range, Distinct
  <2>2. ASSUME NEW x \in Range(q), x # q[i] PROVE x \in Range(c)
    <3>1. PICK j \in 1..Len(q) : x = q[j]
      BY <1>1 DEF Range
    <3>2. CASE j < i
      BY <3>1, <3>2, <1>1, <1>5, <1>6, SMTT(30) DEF Range
    <3>3. CASE j > i
      <4>1. j - 1 \in 1..(Len(q) - 1) /\ c[j - 1] = x
        BY <3>1, <3>3, <1>1, <1>5
      <4> QED
        BY <4>1, <1>6 DEF Range
    <3> QED
      BY <3>1, <3>2, <3>3, <2>2, <1>1
  <2> QED
    BY <2>1, <2>2
<1> QED
  BY <1>4, <1>7, <1>8, <1>9

-----------------------------------------------------------------------------
(* The CPU semaphore.                                                      *)

Waiting == {r \in Calls : cpuStage[r] = "waiting"}

CpuTypes ==
  /\ cpuLimit \in Limits
  /\ permits \in Nat
  /\ cpuStage \in [Calls -> {"idle", "waiting"} \cup Holding]
  /\ orphans \in Nat

QueueOK == queue \in Seq(Calls) /\ Distinct(queue) /\ Range(queue) = Waiting

\* The permits given out and the free ones add up to the limit.
CountOK == permits + Cardinality(Holders) = cpuLimit

\* The inductive invariant of the semaphore.
CpuInv == CpuTypes /\ QueueOK /\ CountOK

\* The holders of permits are finitely many.
LEMMA HoldersFinite == IsFiniteSet(Holders) /\ Cardinality(Holders) \in Nat
  BY CpuPermitsAssumption, FS_Subset, FS_CardinalityType DEF CpuPermitsAssumption, Holders

\* One holder more or less.
LEMMA HolderJoins ==
  ASSUME NEW r, r \notin Holders, Holders' = Holders \cup {r}
  PROVE  Cardinality(Holders') = Cardinality(Holders) + 1
  BY HoldersFinite, FS_AddElement

LEMMA HolderLeaves ==
  ASSUME NEW r, r \in Holders, Holders' = Holders \ {r}
  PROVE  Cardinality(Holders') = Cardinality(Holders) - 1
  BY HoldersFinite, FS_RemoveElement

\* Releasing a permit keeps the books, whether somebody waits for it or not.
LEMMA ReleaseStep ==
  ASSUME CpuTypes, QueueOK, CountOK, NEW r \in Calls, cpuStage[r] \in Holding,
         Release(r), UNCHANGED cpuLimit
  PROVE  /\ permits' \in Nat
         /\ cpuStage' \in [Calls -> {"idle", "waiting"} \cup Holding]
         /\ QueueOK' /\ CountOK'
<1>1. r \in Holders
  BY DEF Holders
<1>2. CASE queue = <<>>
  <2>1. permits' = permits + 1 /\ cpuStage' = [cpuStage EXCEPT ![r] = "idle"] /\ queue' = queue
    BY <1>2 DEF Release
  <2>2. Holders' = Holders \ {r}
    BY <2>1 DEF Holders, CpuTypes, Holding
  <2>3. Waiting' = Waiting
    BY <2>1 DEF Waiting, CpuTypes, Holding
  <2>4. CountOK'
    <3>1. Cardinality(Holders') = Cardinality(Holders) - 1
      BY <2>2, <1>1, HolderLeaves
    <3> QED
      BY <3>1, <2>1, HoldersFinite DEF CountOK, CpuTypes
  <2>5. QueueOK'
    BY <2>1, <2>3 DEF QueueOK
  <2> QED
    BY <2>1, <2>4, <2>5, <1>2, SMTT(30) DEF CpuTypes
<1>3. CASE queue # <<>>
  <2> DEFINE h == Head(queue)
  <2>1. /\ cpuStage' = [cpuStage EXCEPT ![r] = "idle", ![h] = "granted"]
        /\ queue' = Tail(queue)
        /\ permits' = permits
    BY <1>3 DEF Release
  <2>2. h \in Range(queue) /\ queue' \in Seq(Calls) /\ Distinct(queue')
        /\ Range(queue') = Range(queue) \ {h}
    BY <2>1, <1>3, QueueTail DEF QueueOK
  <2>3. h \in Calls /\ cpuStage[h] = "waiting" /\ h # r
    BY <2>2 DEF QueueOK, Waiting, Holding
  <2> HIDE DEF h
  <2>4. Holders' = (Holders \ {r}) \cup {h}
    BY <2>1, <2>3 DEF Holders, CpuTypes, Holding
  <2>5. Waiting' = Waiting \ {h}
    BY <2>1, <2>3 DEF Waiting, CpuTypes, Holding
  <2>6. Cardinality(Holders') = Cardinality(Holders)
    <3>1. h \notin Holders
      BY <2>3 DEF Holders, Holding
    <3>2. IsFiniteSet(Holders \ {r}) /\ Cardinality(Holders \ {r}) = Cardinality(Holders) - 1
      BY <1>1, HoldersFinite, FS_RemoveElement
    <3>3. Cardinality(Holders') = Cardinality(Holders \ {r}) + 1
      BY <3>1, <3>2, <2>4, FS_AddElement
    <3> QED
      BY <3>2, <3>3, HoldersFinite
  <2>7. cpuStage' \in [Calls -> {"idle", "waiting"} \cup Holding]
    BY <2>1, Zenon DEF CpuTypes, Holding
  <2> QED
    BY <2>1, <2>2, <2>5, <2>6, <2>7, SMTT(30) DEF QueueOK, CountOK, CpuTypes
<1> QED
  BY <1>2, <1>3

\* Every step of the semaphore keeps its invariant.
LEMMA CpuStep ==
  ASSUME CpuInv, [CpuNext]_cpuVars
  PROVE  CpuInv'
<1> USE DEF CpuInv
<1>1. ASSUME NEW r \in Calls, Acquire(r), UNCHANGED cpuLimit PROVE CpuInv'
  <2>1. cpuStage[r] = "idle" /\ orphans' = orphans
    BY <1>1 DEF Acquire
  <2>2. CASE permits > 0 /\ permits' = permits - 1 /\ queue' = queue
             /\ cpuStage' = [cpuStage EXCEPT ![r] = "granted"]
    <3>1. Holders' = Holders \cup {r} /\ r \notin Holders /\ Waiting' = Waiting
      BY <2>1, <2>2 DEF Holders, Waiting, CpuTypes, Holding
    <3>2. Cardinality(Holders') = Cardinality(Holders) + 1
      BY <3>1, HolderJoins
    <3>3. CountOK'
      BY <3>2, <2>2, <1>1, HoldersFinite, SMTT(30) DEF CountOK, CpuTypes
    <3>4. CpuTypes'
      BY <2>1, <2>2, <1>1, SMTT(30) DEF CpuTypes, Holding
    <3> QED
      BY <3>1, <3>3, <3>4, <2>1, <2>2, SMTT(30) DEF QueueOK
  <2>3. CASE permits = 0 /\ queue' = Append(queue, r) /\ permits' = permits
             /\ cpuStage' = [cpuStage EXCEPT ![r] = "waiting"]
    <3>1. Holders' = Holders /\ Waiting' = Waiting \cup {r} /\ r \notin Waiting
      BY <2>1, <2>3 DEF Holders, Waiting, CpuTypes, Holding
    <3>2. QueueOK'
      BY <3>1, <2>3, QueueAppend DEF QueueOK
    <3>3. CpuTypes'
      BY <2>1, <2>3, <1>1 DEF CpuTypes, Holding
    <3> QED
      BY <3>1, <3>2, <3>3, <2>1, <2>3, <1>1, SMTT(30) DEF CountOK
  <2> QED
    BY <1>1, <2>2, <2>3 DEF Acquire
<1>2. ASSUME NEW r \in Calls, Spawn(r) \/ Hashed(r), UNCHANGED cpuLimit PROVE CpuInv'
  <2>1. /\ cpuStage[r] \in Holding
        /\ \E s \in Holding : cpuStage' = [cpuStage EXCEPT ![r] = s]
        /\ UNCHANGED <<permits, queue, orphans>>
    BY <1>2 DEF Spawn, Hashed, Holding
  <2>2. Holders' = Holders /\ Waiting' = Waiting
    BY <2>1 DEF Holders, Waiting, CpuTypes, Holding
  <2>3. CpuTypes'
    BY <2>1, <1>2 DEF CpuTypes, Holding
  <2> QED
    BY <2>1, <2>2, <2>3, <1>2, SMTT(30) DEF QueueOK, CountOK
<1>3. ASSUME NEW r \in Calls, Return(r), UNCHANGED cpuLimit PROVE CpuInv'
  <2>1. cpuStage[r] \in Holding /\ Release(r) /\ orphans' = orphans
    BY <1>3 DEF Return, Holding
  <2> QED
    BY <2>1, <1>3, ReleaseStep, SMTT(30) DEF CpuTypes
<1>4. ASSUME NEW r \in Calls, DropWaiting(r), UNCHANGED cpuLimit PROVE CpuInv'
  <2>1. /\ cpuStage[r] = "waiting"
        /\ cpuStage' = [cpuStage EXCEPT ![r] = "idle"]
        /\ UNCHANGED <<permits, orphans>>
    BY <1>4 DEF DropWaiting
  <2>2. PICK i \in 1..Len(queue) : queue[i] = r /\ queue' = RemoveAt(queue, i)
    BY <1>4 DEF DropWaiting, QueueOK
  <2>3. Holders' = Holders /\ Waiting' = Waiting \ {r}
    BY <2>1 DEF Holders, Waiting, CpuTypes, Holding
  <2>4. QueueOK'
    BY <2>2, <2>3, QueueRemove DEF QueueOK
  <2>5. CpuTypes'
    BY <2>1, <1>4 DEF CpuTypes
  <2> QED
    BY <2>1, <2>3, <2>4, <2>5, <1>4, SMTT(30) DEF CountOK
<1>5. ASSUME NEW r \in Calls, DropHolding(r), UNCHANGED cpuLimit PROVE CpuInv'
  <2>1. cpuStage[r] \in Holding /\ Release(r)
    BY <1>5 DEF DropHolding
  <2>2. orphans' \in Nat
    BY <1>5 DEF DropHolding, CpuTypes
  <2> QED
    BY <2>1, <2>2, <1>5, ReleaseStep, SMTT(30) DEF CpuTypes
<1>6. ASSUME OrphanEnds, UNCHANGED cpuLimit PROVE CpuInv'
  <2>1. Holders' = Holders /\ Waiting' = Waiting
    BY <1>6 DEF OrphanEnds, Holders, Waiting
  <2>2. CpuTypes'
    BY <1>6 DEF OrphanEnds, CpuTypes
  <2> QED
    BY <2>1, <2>2, <1>6 DEF OrphanEnds, QueueOK, CountOK
<1>7. ASSUME UNCHANGED cpuVars PROVE CpuInv'
  <2>1. Holders' = Holders /\ Waiting' = Waiting
    BY <1>7 DEF cpuVars, Holders, Waiting
  <2> QED
    BY <2>1, <1>7
    DEF cpuVars, QueueOK, CountOK, CpuTypes
<1> QED
  BY <1>1, <1>2, <1>3, <1>4, <1>5, <1>6, <1>7, SMTT(30) DEF CpuNext

\* It holds when the service has started.
LEMMA CpuStart == CpuInit => CpuInv
<1> SUFFICES ASSUME CpuInit PROVE CpuInv
  OBVIOUS
<1>1. Holders = {} /\ Waiting = {}
  BY DEF CpuInit, Holders, Waiting, Holding
<1>2. Range(queue) = {} /\ queue \in Seq(Calls) /\ Distinct(queue)
  BY DEF CpuInit, Range, Distinct
<1>3. CpuTypes
  BY CpuPermitsAssumption, Zenon DEF CpuPermitsAssumption, CpuInit, CpuTypes
<1>4. CountOK
  BY <1>1, <1>3, CpuPermitsAssumption, FS_EmptySet
  DEF CpuPermitsAssumption, CpuInit, CountOK, CpuTypes
<1> QED
  BY <1>1, <1>2, <1>3, <1>4, SMTT(30) DEF CpuInit, CpuInv, QueueOK

\* What the invariant is for.
LEMMA CpuInvSuffices == CpuInv => CpuTypeOK
  BY DEF CpuInv, CpuTypes, QueueOK, CountOK, CpuTypeOK, Waiting

-----------------------------------------------------------------------------
(* The router.                                                             *)

InLine(t) == {r \in RestCalls : RouteOf[r] = t /\ place[r] = "line"}

RouterTypes ==
  /\ slots \in [Routes -> Nat]
  /\ line \in [Routes -> Seq(RestCalls)]
  /\ place \in [Calls -> {"out", "line", "in"}]
  /\ \A r \in Calls : place[r] = "line" => r \in RestCalls

\* The books of one route.
RouteOK(t) ==
  /\ slots[t] + Cardinality(Inside(t)) = GLOBAL_CONCURRENCY_LIMIT
  /\ Distinct(line[t])
  /\ Range(line[t]) = InLine(t)
  /\ line[t] # <<>> => slots[t] = 0

RouterInv == RouterTypes /\ \A t \in Routes : RouteOK(t)

\* Only a request in its handler uses the semaphore.
HandlersOnly == \A r \in Calls : place[r] # "in" => cpuStage[r] = "idle"

\* The inductive invariant of the whole.
AdmissionInv == CpuInv /\ RouterInv /\ HandlersOnly

\* The requests in the handlers of a route are finitely many.
LEMMA InsideFinite ==
  ASSUME NEW t
  PROVE  IsFiniteSet(Inside(t)) /\ Cardinality(Inside(t)) \in Nat
  BY CpuPermitsAssumption, AdmissionAssumption, FS_Subset, FS_CardinalityType, SMTT(30)
  DEF CpuPermitsAssumption, AdmissionAssumption, Inside

\* A route none of whose requests move keeps its books.
LEMMA OtherRoute ==
  ASSUME NEW t \in Routes, RouteOK(t), slots'[t] = slots[t], line'[t] = line[t],
         \A r \in RestCalls : RouteOf[r] = t => place'[r] = place[r]
  PROVE  RouteOK(t)'
<1>1. Inside(t)' = Inside(t) /\ InLine(t)' = InLine(t)
  BY DEF Inside, InLine
<1> QED
  BY <1>1 DEF RouteOK

\* A slot that is left goes to the first in line or back to the route.
LEMMA LeaveStep ==
  ASSUME RouterInv, NEW r \in Calls, place[r] = "in", Leave(r)
  PROVE  /\ RouterInv'
         /\ place'[r] = "out"
         /\ \A q \in Calls \ {r} : place[q] = "in" => place'[q] = "in"
<1> USE DEF RouterInv
<1>1. CASE r \notin RestCalls
  <2>1. place' = [place EXCEPT ![r] = "out"] /\ slots' = slots /\ line' = line
    BY <1>1 DEF Leave
  <2>2. ASSUME NEW t \in Routes PROVE RouteOK(t)'
    BY <2>1, <1>1, OtherRoute, AdmissionAssumption, SMTT(30) DEF RouterTypes, AdmissionAssumption
  <2> QED
    BY <2>1, <2>2 DEF RouterTypes
<1>2. CASE r \in RestCalls
  <2> DEFINE u == RouteOf[r]
  <2>1. u \in Routes /\ r \in Inside(u) /\ r \notin InLine(u)
    BY <1>2, AdmissionAssumption DEF AdmissionAssumption, Inside, InLine
  <2>2. IsFiniteSet(Inside(u) \ {r}) /\ Cardinality(Inside(u) \ {r}) = Cardinality(Inside(u)) - 1
    BY <2>1, InsideFinite, FS_RemoveElement, SMTT(30)
  <2>3. CASE line[u] = <<>>
    <3>1. /\ slots' = [slots EXCEPT ![u] = @ + 1]
          /\ place' = [place EXCEPT ![r] = "out"]
          /\ line' = line
      BY <2>3, <1>2 DEF Leave
    <3> HIDE DEF u
    <3>2. Inside(u)' = Inside(u) \ {r} /\ InLine(u)' = InLine(u)
      BY <3>1, <2>1, <1>2, AdmissionAssumption, SMTT(30)
      DEF AdmissionAssumption, Inside, InLine, RouterTypes
    <3>3. RouteOK(u)'
      <4>1. slots'[u] = slots[u] + 1
        BY <3>1, <2>1 DEF RouterTypes
      <4>2. slots'[u] + Cardinality(Inside(u)') = GLOBAL_CONCURRENCY_LIMIT
        BY <4>1, <3>2, <2>1, <2>2, InsideFinite, SMTT(30) DEF RouterTypes, RouteOK
      <4> QED
        BY <4>2, <3>1, <3>2, <2>1, <2>3, SMTT(30) DEF RouteOK
    <3>4. ASSUME NEW t \in Routes, t # u PROVE RouteOK(t)'
      <4>1. slots'[t] = slots[t] /\ line'[t] = line[t]
        BY <3>1, <3>4 DEF RouterTypes
      <4>2. \A q \in RestCalls : RouteOf[q] = t => place'[q] = place[q]
        BY <3>1, <3>4, AdmissionAssumption DEF RouterTypes, AdmissionAssumption, u
      <4> QED
        BY <4>1, <4>2, OtherRoute
    <3>5. RouterTypes'
      BY <3>1, <2>1 DEF RouterTypes
    <3> QED
      BY <3>1, <3>3, <3>4, <3>5, SMTT(30) DEF RouterTypes
  <2>4. CASE line[u] # <<>>
    <3> DEFINE h == Head(line[u])
    <3>1. /\ place' = [place EXCEPT ![r] = "out", ![h] = "in"]
          /\ line' = [line EXCEPT ![u] = Tail(@)]
          /\ slots' = slots
      BY <2>4, <1>2 DEF Leave
    <3>2. /\ h \in InLine(u) /\ Tail(line[u]) \in Seq(RestCalls) /\ Distinct(Tail(line[u]))
          /\ Range(Tail(line[u])) = InLine(u) \ {h}
      BY <2>1, <2>4, QueueTail, SMTT(30) DEF RouterTypes, RouteOK
    <3>3. h \in RestCalls /\ h \in Calls /\ RouteOf[h] = u /\ place[h] = "line" /\ h # r
      BY <3>2, <2>1, AdmissionAssumption, SMTT(30) DEF InLine, AdmissionAssumption
    <3>4. line'[u] = Tail(line[u])
      BY <3>1, <2>1 DEF RouterTypes
    <3> HIDE DEF u, h
    <3>5. Inside(u)' = (Inside(u) \ {r}) \cup {h} /\ InLine(u)' = InLine(u) \ {h}
      BY <3>1, <3>3, <1>2, AdmissionAssumption, SMTT(30)
      DEF AdmissionAssumption, Inside, InLine, RouterTypes
    <3>6. RouteOK(u)'
      <4>1. h \notin Inside(u) \ {r}
        BY <3>3 DEF Inside
      <4>2. Cardinality(Inside(u)') = Cardinality(Inside(u) \ {r}) + 1
        BY <4>1, <3>5, <2>2, FS_AddElement, SMTT(30)
      <4>3. Cardinality(Inside(u)') = Cardinality(Inside(u))
        BY <4>2, <2>2, InsideFinite, SMTT(30)
      <4> QED
        BY <4>3, <3>1, <3>2, <3>4, <3>5, <2>1, <2>4, SMTT(30) DEF RouteOK
    <3>7. ASSUME NEW t \in Routes, t # u PROVE RouteOK(t)'
      <4>1. slots'[t] = slots[t] /\ line'[t] = line[t]
        BY <3>1, <3>7 DEF RouterTypes
      <4>2. \A q \in RestCalls : RouteOf[q] = t => place'[q] = place[q]
        BY <3>1, <3>3, <3>7, AdmissionAssumption, SMTT(30) DEF RouterTypes, AdmissionAssumption, u
      <4> QED
        BY <4>1, <4>2, OtherRoute
    <3>8. RouterTypes'
      BY <3>1, <3>2, <3>3, <2>1, Zenon DEF RouterTypes
    <3> QED
      BY <3>1, <3>3, <3>6, <3>7, <3>8, Zenon DEF RouterTypes
  <2> QED
    BY <2>3, <2>4
<1> QED
  BY <1>1, <1>2

\* Joining: a slot is taken, or the request stands in line for one.
LEMMA EnterStep ==
  ASSUME RouterInv, NEW r \in Calls, Enter(r)
  PROVE  RouterInv'
<1> USE DEF RouterInv
<1>1. place[r] = "out"
  BY DEF Enter
<1>2. CASE r \notin RestCalls
  <2>1. place' = [place EXCEPT ![r] = "in"] /\ slots' = slots /\ line' = line
    BY <1>2 DEF Enter
  <2>2. ASSUME NEW t \in Routes PROVE RouteOK(t)'
    BY <2>1, <1>2, OtherRoute, AdmissionAssumption, SMTT(30) DEF RouterTypes, AdmissionAssumption
  <2> QED
    BY <2>1, <2>2 DEF RouterTypes
<1>3. CASE r \in RestCalls
  <2> DEFINE u == RouteOf[r]
  <2>1. u \in Routes /\ r \notin Inside(u) /\ r \notin InLine(u)
    BY <1>1, <1>3, AdmissionAssumption DEF AdmissionAssumption, Inside, InLine
  <2>2. CASE slots[u] > 0
    <3>1. /\ slots' = [slots EXCEPT ![u] = @ - 1]
          /\ place' = [place EXCEPT ![r] = "in"]
          /\ line' = line
      BY <2>1, <2>2, <1>3, SMTT(30) DEF Enter, RouterTypes
    <3>2. Inside(u)' = Inside(u) \cup {r} /\ InLine(u)' = InLine(u)
      BY <3>1, <1>1, <1>3, AdmissionAssumption, SMTT(30)
      DEF AdmissionAssumption, Inside, InLine, RouterTypes
    <3> HIDE DEF u
    <3>3. RouteOK(u)'
      <4>1. slots'[u] = slots[u] - 1
        BY <3>1, <2>1 DEF RouterTypes
      <4>2. Cardinality(Inside(u)') = Cardinality(Inside(u)) + 1
        BY <3>2, <2>1, InsideFinite, FS_AddElement, Zenon
      <4>3. slots'[u] + Cardinality(Inside(u)') = GLOBAL_CONCURRENCY_LIMIT
        BY <4>1, <4>2, <2>1, InsideFinite, SMTT(30) DEF RouterTypes, RouteOK
      <4>4. line[u] = <<>>
        BY <2>1, <2>2, SMTT(30) DEF RouteOK, RouterTypes
      <4> QED
        BY <4>3, <4>4, <3>1, <3>2, <2>1, SMTT(30) DEF RouteOK
    <3>4. ASSUME NEW t \in Routes, t # u PROVE RouteOK(t)'
      <4>1. slots'[t] = slots[t] /\ line'[t] = line[t]
        BY <3>1, <3>4, SMTT(30) DEF RouterTypes
      <4>2. \A q \in RestCalls : RouteOf[q] = t => place'[q] = place[q]
        BY <3>1, <3>4, AdmissionAssumption, SMTT(30) DEF RouterTypes, AdmissionAssumption, u
      <4> QED
        BY <4>1, <4>2, OtherRoute
    <3>5. RouterTypes'
      BY <3>1, <2>1, <2>2, SMTT(30) DEF RouterTypes
    <3> QED
      BY <3>3, <3>4, <3>5, SMTT(30)
  <2>3. CASE slots[u] = 0
    <3>1. /\ line' = [line EXCEPT ![u] = Append(@, r)]
          /\ place' = [place EXCEPT ![r] = "line"]
          /\ slots' = slots
      BY <2>1, <2>3, <1>3, SMTT(30) DEF Enter, RouterTypes
    <3>2. Inside(u)' = Inside(u) /\ InLine(u)' = InLine(u) \cup {r}
      BY <3>1, <1>1, <1>3, AdmissionAssumption, SMTT(30)
      DEF AdmissionAssumption, Inside, InLine, RouterTypes
    <3> HIDE DEF u
    <3>3. line'[u] = Append(line[u], r)
      BY <3>1, <2>1 DEF RouterTypes
    <3>4. /\ Append(line[u], r) \in Seq(RestCalls) /\ Distinct(Append(line[u], r))
          /\ Range(Append(line[u], r)) = InLine(u) \cup {r}
      BY <2>1, <1>3, QueueAppend, SMTT(30) DEF RouterTypes, RouteOK
    <3>5. RouteOK(u)'
      BY <3>1, <3>2, <3>3, <3>4, <2>1, <2>3, SMTT(30) DEF RouteOK
    <3>6. ASSUME NEW t \in Routes, t # u PROVE RouteOK(t)'
      <4>1. slots'[t] = slots[t] /\ line'[t] = line[t]
        BY <3>1, <3>6 DEF RouterTypes
      <4>2. \A q \in RestCalls : RouteOf[q] = t => place'[q] = place[q]
        BY <3>1, <3>6, AdmissionAssumption, SMTT(30) DEF RouterTypes, AdmissionAssumption, u
      <4> QED
        BY <4>1, <4>2, OtherRoute
    <3>7. RouterTypes'
      BY <3>1, <3>4, <2>1, <1>3, SMTT(30) DEF RouterTypes
    <3> QED
      BY <3>5, <3>6, <3>7
  <2> QED
    BY <2>1, <2>2, <2>3 DEF RouterTypes
<1> QED
  BY <1>2, <1>3

\* A request that gives up its place in line.
LEMMA LineStep ==
  ASSUME RouterInv, NEW r \in Calls, place[r] = "line", UNCHANGED slots,
         place' = [place EXCEPT ![r] = "out"],
         \E i \in DOMAIN line[RouteOf[r]] :
           line[RouteOf[r]][i] = r /\ line' = [line EXCEPT ![RouteOf[r]] = RemoveAt(@, i)]
  PROVE  RouterInv'
<1> USE DEF RouterInv
<1> DEFINE u == RouteOf[r]
<1>1. r \in RestCalls /\ u \in Routes
  BY AdmissionAssumption DEF AdmissionAssumption, RouterTypes
<1>2. PICK i \in 1..Len(line[u]) :
        line[u][i] = r /\ line' = [line EXCEPT ![u] = RemoveAt(@, i)]
  <2>1. DOMAIN line[u] = 1..Len(line[u])
    BY <1>1 DEF RouterTypes
  <2> QED
    BY <2>1, Zenon
<1>3. Inside(u)' = Inside(u) /\ InLine(u)' = InLine(u) \ {r}
  BY <1>1, AdmissionAssumption DEF AdmissionAssumption, Inside, InLine, RouterTypes
<1> HIDE DEF u
<1>4. line'[u] = RemoveAt(line[u], i)
  BY <1>1, <1>2 DEF RouterTypes
<1>5. /\ RemoveAt(line[u], i) \in Seq(RestCalls) /\ Distinct(RemoveAt(line[u], i))
      /\ Range(RemoveAt(line[u], i)) = InLine(u) \ {r}
  BY <1>1, <1>2, QueueRemove, SMTT(30) DEF RouterTypes, RouteOK
<1>6. slots[u] = 0
  BY <1>1, <1>2, SMTT(30) DEF RouterTypes, RouteOK
<1>7. RouteOK(u)'
  BY <1>1, <1>3, <1>4, <1>5, <1>6, SMTT(30) DEF RouteOK
<1>8. ASSUME NEW t \in Routes, t # u PROVE RouteOK(t)'
  <2>1. slots'[t] = slots[t] /\ line'[t] = line[t]
    BY <1>2, <1>8 DEF RouterTypes
  <2>2. \A q \in RestCalls : RouteOf[q] = t => place'[q] = place[q]
    BY <1>8, AdmissionAssumption, SMTT(30) DEF RouterTypes, AdmissionAssumption, u
  <2> QED
    BY <2>1, <2>2, OtherRoute, SMTT(30)
<1>9. RouterTypes'
  BY <1>1, <1>2, <1>5, Zenon DEF RouterTypes
<1> QED
  BY <1>7, <1>8, <1>9

\* What the router does is what the semaphore allows its users, or nothing to it.
LEMMA AdmissionStep ==
  ASSUME AdmissionInv, [AdmissionNext]_admissionVars
  PROVE  AdmissionInv' /\ [CpuNext]_cpuVars
<1> USE DEF AdmissionInv
<1>1. SUFFICES [CpuNext]_cpuVars /\ RouterInv' /\ HandlersOnly'
  BY CpuStep
<1>2. ASSUME NEW r \in Calls, Enter(r) PROVE [CpuNext]_cpuVars /\ RouterInv' /\ HandlersOnly'
  <2>1. UNCHANGED cpuVars /\ place[r] = "out"
    BY <1>2 DEF Enter
  <2>2. HandlersOnly'
    <3>1. cpuStage' = cpuStage /\ \A q \in Calls \ {r} : place'[q] = place[q]
      BY <1>2, <2>1 DEF Enter, cpuVars, RouterInv, RouterTypes
    <3> QED
      BY <3>1, <2>1, SMTT(30) DEF HandlersOnly
  <2> QED
    BY <2>1, <2>2, <1>2, EnterStep, SMTT(30)
<1>3. ASSUME NEW r \in Calls, Handle(r) PROVE [CpuNext]_cpuVars /\ RouterInv' /\ HandlersOnly'
  <2>1. CpuNext /\ UNCHANGED router /\ place[r] = "in"
    BY <1>3 DEF Handle, CpuNext
  <2>2. RouterInv'
    <3>1. \A t \in Routes : RouteOK(t)'
      BY <2>1, OtherRoute, SMTT(30) DEF RouterInv, router
    <3> QED
      BY <3>1, <2>1 DEF RouterInv, RouterTypes, router
  <2>3. HandlersOnly'
    <3>1. \A q \in Calls \ {r} : cpuStage'[q] = cpuStage[q]
      BY <1>3 DEF Handle, Acquire, Spawn, Hashed, CpuInv, CpuTypes
    <3> QED
      BY <3>1, <2>1 DEF HandlersOnly, router
  <2> QED
    BY <2>1, <2>2, <2>3
<1>4. ASSUME NEW r \in Calls, place[r] = "in", Leave(r), Release(r), cpuStage[r] \in Holding
      PROVE  RouterInv' /\ HandlersOnly'
  <2>1. /\ RouterInv' /\ place'[r] = "out"
        /\ \A q \in Calls \ {r} : place[q] = "in" => place'[q] = "in"
    BY <1>4, LeaveStep
  <2>2. cpuStage'[r] = "idle"
        /\ \A q \in Calls \ {r} : cpuStage'[q] # "idle" => cpuStage[q] # "idle"
    <3>1. CASE queue = <<>>
      BY <1>4, <3>1 DEF Release, CpuInv, CpuTypes
    <3>2. CASE queue # <<>>
      <4>1. Head(queue) \in Waiting
        BY <3>2, QueueTail DEF CpuInv, QueueOK
      <4>2. cpuStage[Head(queue)] = "waiting" /\ Head(queue) \in Calls /\ Head(queue) # r
        BY <4>1, <1>4 DEF Waiting, Holding
      <4>3. cpuStage' = [cpuStage EXCEPT ![r] = "idle", ![Head(queue)] = "granted"]
        BY <1>4, <3>2 DEF Release
      <4> QED
        BY <4>2, <4>3 DEF CpuInv, CpuTypes
    <3> QED
      BY <3>1, <3>2
  <2> QED
    BY <2>1, <2>2, SMTT(30) DEF HandlersOnly
<1>5. ASSUME NEW r \in Calls, place[r] = "in", Leave(r), cpuStage'[r] = "idle",
             \A q \in Calls \ {r} : cpuStage'[q] = cpuStage[q]
      PROVE  RouterInv' /\ HandlersOnly'
  BY <1>5, LeaveStep DEF HandlersOnly
<1>6. ASSUME NEW r \in Calls, Respond(r) PROVE [CpuNext]_cpuVars /\ RouterInv' /\ HandlersOnly'
  <2>1. place[r] = "in" /\ Leave(r)
    BY <1>6 DEF Respond
  <2>2. CASE Return(r) /\ UNCHANGED cpuLimit
    BY <2>1, <2>2, <1>4, SMTT(30) DEF Return, Holding, CpuNext
  <2>3. CASE cpuStage[r] = "idle" /\ UNCHANGED cpuVars
    BY <2>1, <2>3, <1>5, SMTT(30) DEF cpuVars
  <2> QED
    BY <2>2, <2>3, <1>6 DEF Respond
<1>7. ASSUME NEW r \in Calls, GiveUp(r) PROVE [CpuNext]_cpuVars /\ RouterInv' /\ HandlersOnly'
  <2>1. CASE place[r] = "line"
    <3>1. /\ UNCHANGED cpuVars /\ UNCHANGED slots
          /\ place' = [place EXCEPT ![r] = "out"]
          /\ \E i \in DOMAIN line[RouteOf[r]] :
               line[RouteOf[r]][i] = r /\ line' = [line EXCEPT ![RouteOf[r]] = RemoveAt(@, i)]
      BY <1>7, <2>1, SMTT(30) DEF GiveUp
    <3>2. RouterInv'
      BY <3>1, <2>1, LineStep, ZenonT(30)
    <3>3. HandlersOnly'
      BY <3>1, <2>1, SMTT(30) DEF HandlersOnly, cpuVars, RouterInv, RouterTypes
    <3> QED
      BY <3>1, <3>2, <3>3, SMTT(30)
  <2>2. CASE place[r] = "in" /\ DropWaiting(r) /\ Leave(r) /\ UNCHANGED cpuLimit
    <3>1. cpuStage'[r] = "idle" /\ \A q \in Calls \ {r} : cpuStage'[q] = cpuStage[q]
      BY <2>2, SMTT(30) DEF DropWaiting, CpuInv, CpuTypes
    <3> QED
      BY <3>1, <2>2, <1>5, SMTT(30) DEF CpuNext
  <2>3. CASE place[r] = "in" /\ DropHolding(r) /\ Leave(r) /\ UNCHANGED cpuLimit
    BY <2>3, <1>4, SMTT(30) DEF DropHolding, CpuNext
  <2> QED
    BY <2>1, <2>2, <2>3, <1>7, SMTT(30) DEF GiveUp
<1>8. ASSUME UNCHANGED router, [CpuNext]_cpuVars, cpuStage' = cpuStage
      PROVE  [CpuNext]_cpuVars /\ RouterInv' /\ HandlersOnly'
  <2>1. \A t \in Routes : RouteOK(t)'
    BY <1>8, OtherRoute, SMTT(30) DEF RouterInv, router
  <2> QED
    BY <2>1, <1>8, SMTT(30) DEF RouterInv, RouterTypes, router, HandlersOnly
<1>9. CASE OrphanEnds /\ UNCHANGED <<cpuLimit, router>>
  BY <1>8, <1>9 DEF OrphanEnds, CpuNext
<1>10. CASE UNCHANGED admissionVars
  BY <1>8, <1>10 DEF admissionVars, cpuVars
<1> QED
  BY <1>2, <1>3, <1>6, <1>7, <1>9, <1>10, SMTT(30) DEF AdmissionNext

\* It holds when the service has started.
LEMMA AdmissionStart == AdmissionInit => AdmissionInv
<1> SUFFICES ASSUME AdmissionInit PROVE AdmissionInv
  OBVIOUS
<1>1. ASSUME NEW t \in Routes PROVE RouteOK(t)
  <2>1. Inside(t) = {} /\ InLine(t) = {}
    BY AdmissionAssumption DEF AdmissionAssumption, AdmissionInit, Inside, InLine
  <2>2. line[t] = <<>> /\ slots[t] = GLOBAL_CONCURRENCY_LIMIT
    BY DEF AdmissionInit
  <2>3. Distinct(<<>>) /\ Range(<<>>) = {}
    BY DEF Distinct, Range
  <2>4. slots[t] + Cardinality(Inside(t)) = GLOBAL_CONCURRENCY_LIMIT
    BY <2>1, <2>2, FS_EmptySet, AdmissionAssumption, SMTT(30) DEF AdmissionAssumption
  <2> QED
    BY <2>1, <2>2, <2>3, <2>4, SMTT(30) DEF RouteOK
<1>2. RouterTypes
  BY AdmissionAssumption DEF AdmissionAssumption, AdmissionInit, RouterTypes
<1>3. HandlersOnly
  BY DEF AdmissionInit, CpuInit, HandlersOnly
<1> QED
  BY <1>1, <1>2, <1>3, CpuStart, SMTT(30) DEF AdmissionInit, AdmissionInv, RouterInv

\* The invariant holds throughout.
LEMMA AdmissionAlways == AdmissionSpec => []AdmissionInv
<1>1. AdmissionInv /\ [AdmissionNext]_admissionVars => AdmissionInv'
  BY AdmissionStep
<1> QED
  BY <1>1, AdmissionStart, PTL DEF AdmissionSpec

-----------------------------------------------------------------------------
\* The service uses the semaphore as CpuPermits describes it: seen from the
\* semaphore, a request that arrives, stands in line, is answered without hashing
\* or times out before it asked for a permit does nothing.
THEOREM AdmissionImplementsSemaphore == AdmissionSpec => CpuSpec
<1>1. AdmissionInit => CpuInit
  BY DEF AdmissionInit
<1>2. AdmissionInv /\ [AdmissionNext]_admissionVars => [CpuNext]_cpuVars
  BY AdmissionStep
<1> QED
  BY <1>1, <1>2, AdmissionAlways, PTL DEF AdmissionSpec, CpuSpec

\* Every permit and every slot is free or held, and the queues are what waits.
THEOREM BooksBalance == AdmissionSpec => []AdmissionTypeOK
<1>1. AdmissionInv => AdmissionTypeOK
  BY CpuInvSuffices, SMTT(30)
  DEF AdmissionInv, RouterInv, RouterTypes, RouteOK, HandlersOnly, AdmissionTypeOK, InLine
<1> QED
  BY <1>1, AdmissionAlways, PTL
=============================================================================
