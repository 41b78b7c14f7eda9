--------------------------- MODULE WalletsProofs ---------------------------
(***************************************************************************)
(* Proofs about wallets and their registration, for every set of users,    *)
(* addresses, keypairs and concurrent requests, with and without faults.   *)
(***************************************************************************)
EXTENDS WalletSync, TLAPS

\* A process that is about to record a registration has seen the account.
MarksAreConfirmed ==
  \A p \in Procs : proc[p].stage \in {"markUser", "markWallet"} => proc[p].addr \in pda

IInv == TypeOK /\ MarksAreConfirmed /\ AtMostOnePrimary /\ RegisteredIsOnChain

\* The part of TypeOK about processes.
ProcOK(f) ==
  /\ f \in [Procs -> ProcType]
  /\ \A p \in Procs : f[p].stage # "idle" => f[p].user \in Users
  /\ \A p \in Procs : f[p].stage \notin {"idle", "hasAny", "provision"} => f[p].addr \in Addresses

TablesOK ==
  /\ owner \in [Addresses -> Users \cup {None}]
  /\ \A a \in primary \cup registered : a \in Addresses /\ owner[a] # None
  /\ userAddr \in [Users -> Addresses \cup {None}]
  /\ keyOf \in [Users -> Keypairs \cup {None}]
  /\ userPda \in [Users -> Addresses \cup {None}]
  /\ mintedFor \in [Keypairs -> Users \cup {None}]
  /\ mempool \subseteq Addresses /\ pda \subseteq Addresses

\* The type invariant speaks about the tables and about the processes apart.
LEMMA TypeSplit == TypeOK <=> TablesOK /\ ProcOK(proc)
  BY Zenon DEF TypeOK, TablesOK, ProcOK

-----------------------------------------------------------------------------
(* How processes move.                                                     *)

\* A process that ends leaves every other process as it was.
LEMMA FinishOK ==
  ASSUME ProcOK(proc), NEW p \in Procs, Finish(p)
  PROVE  /\ ProcOK(proc)'
         /\ proc'[p].stage = "idle"
         /\ \A q \in Procs \ {p} : proc'[q] = proc[q]
  <1>1. Idle \in ProcType BY Zenon DEF Idle, ProcType, Ops, Stages
  <1> QED BY <1>1, Zenon DEF ProcOK, Finish, Idle

\* Going to another stage keeps the process's user and address.
LEMMA GotoOK ==
  ASSUME ProcOK(proc), NEW p \in Procs, NEW s \in Stages, Goto(p, s),
         proc[p].user \in Users,
         proc[p].addr \in Addresses \/ s \in {"idle", "hasAny", "provision"}
  PROVE  /\ ProcOK(proc)'
         /\ proc'[p].stage = s /\ proc'[p].addr = proc[p].addr
         /\ \A q \in Procs \ {p} : proc'[q] = proc[q]
  <1>1. proc' = [proc EXCEPT ![p] = [proc[p] EXCEPT !.stage = s]]
    BY Zenon DEF Goto, ProcOK
  <1>2. proc[p] \in ProcType BY Zenon DEF ProcOK
  <1>3. /\ [proc[p] EXCEPT !.stage = s] \in ProcType
        /\ [proc[p] EXCEPT !.stage = s].stage = s
        /\ [proc[p] EXCEPT !.stage = s].user = proc[p].user
        /\ [proc[p] EXCEPT !.stage = s].addr = proc[p].addr
    BY <1>2, Zenon DEF ProcType
  <1> QED BY <1>1, <1>3, Zenon DEF ProcOK

\* A request that begins is well formed.
LEMMA BeginOK ==
  ASSUME ProcOK(proc), NEW r \in Requests, NEW op \in Ops, NEW u \in Users,
         NEW a \in Addresses \cup {None}, NEW flag \in BOOLEAN, NEW sync \in BOOLEAN,
         NEW s \in Stages, Begin(r, op, u, a, flag, sync, s),
         a \in Addresses \/ s \in {"idle", "hasAny", "provision"}
  PROVE  /\ ProcOK(proc)'
         /\ proc'[r].stage = s /\ proc'[r].op = op /\ proc'[r].user = u /\ proc'[r].addr = a
         /\ proc'[r].flag = flag /\ proc'[r].sync = sync
         /\ \A q \in Procs \ {r} : proc'[q] = proc[q]
  <1> DEFINE new == [op |-> op, stage |-> s, user |-> u, addr |-> a, flag |-> flag, sync |-> sync]
  <1>1. /\ new \in ProcType /\ new.stage = s /\ new.user = u /\ new.addr = a
        /\ new.op = op /\ new.flag = flag /\ new.sync = sync
    BY Zenon DEF ProcType
  <1>2. r \in Procs /\ proc' = [proc EXCEPT ![r] = new] BY Zenon DEF Begin, Procs
  <1> HIDE DEF new
  <1> QED BY <1>1, <1>2, Zenon DEF ProcOK

\* A step that moves one process, to a stage that is no mark unless its address
\* is on chain, and takes no account off the chain, keeps marks confirmed.
LEMMA MarksKept ==
  ASSUME MarksAreConfirmed, pda \subseteq pda', NEW p,
         \A q \in Procs \ {p} : proc'[q] = proc[q],
         p \in Procs /\ proc'[p].stage \in {"markUser", "markWallet"} => proc'[p].addr \in pda'
  PROVE  MarksAreConfirmed'
  BY Zenon DEF MarksAreConfirmed

-----------------------------------------------------------------------------
\* The inductive invariant holds while every table is empty.
LEMMA InitIInv == Init => IInv
  <1> SUFFICES ASSUME Init PROVE IInv
    OBVIOUS
  <1>1. Idle \in ProcType /\ Idle.stage = "idle" BY Zenon DEF Idle, ProcType, Ops, Stages
  <1>2. TypeOK BY <1>1, Zenon DEF Init, TypeOK
  <1>3. MarksAreConfirmed BY <1>1, Zenon DEF Init, MarksAreConfirmed
  <1>4. AtMostOnePrimary BY Zenon DEF Init, AtMostOnePrimary, PrimaryOf
  <1>5. RegisteredIsOnChain BY Zenon DEF Init, RegisteredIsOnChain
  <1> QED BY <1>2, <1>3, <1>4, <1>5, Zenon DEF IInv

\* A step that only moves processes, and perhaps a transaction into the pool.
LEMMA QuietStep ==
  ASSUME IInv, UNCHANGED <<owner, primary, registered, userAddr, keyOf, userPda, mintedFor, pda>>,
         mempool' \subseteq Addresses, ProcOK(proc)', MarksAreConfirmed'
  PROVE  IInv'
  <1>1. TypeOK' BY TypeSplit, Zenon DEF IInv, TypeOK, TablesOK, ProcOK
  <1>2. AtMostOnePrimary' BY DEF IInv, AtMostOnePrimary, PrimaryOf, WalletsOf
  <1>3. RegisteredIsOnChain' BY Zenon DEF IInv, RegisteredIsOnChain
  <1> QED BY <1>1, <1>2, <1>3, Zenon DEF IInv

\* What AfterSetAddr, AfterMark, Goto and Finish have in common: process p moves
\* to a legal stage, keeping its address, or ends.
Moved(p, S) ==
  /\ ProcOK(proc)'
  /\ proc'[p].stage \in S \cup {"idle"}
  /\ proc'[p].stage # "idle" => proc'[p].addr = proc[p].addr
  /\ \A q \in Procs \ {p} : proc'[q] = proc[q]

\* Goto and Finish move a process.
LEMMA MovedBy ==
  ASSUME ProcOK(proc), NEW p \in Procs, proc[p].stage # "idle", NEW s \in Stages,
         proc[p].addr \in Addresses \/ s \in {"idle", "hasAny", "provision"},
         Goto(p, s) \/ Finish(p)
  PROVE  Moved(p, {s})
  <1>1. proc[p].user \in Users BY Zenon DEF ProcOK
  <1>2. CASE Goto(p, s) BY <1>1, <1>2, GotoOK, Zenon DEF Moved
  <1>3. CASE Finish(p) BY <1>3, FinishOK, Zenon DEF Moved
  <1> QED BY <1>2, <1>3, Zenon

\* A process that moves, but not to a mark, or to one whose address it has seen.
LEMMA MovedQuietly ==
  ASSUME IInv, UNCHANGED <<owner, primary, registered, userAddr, keyOf, userPda, mintedFor, pda>>,
         mempool' \subseteq Addresses, NEW p \in Procs, NEW S, Moved(p, S),
         S \cap {"markUser", "markWallet"} = {} \/ proc[p].addr \in pda
  PROVE  IInv'
  <1>1. MarksAreConfirmed' BY MarksKept, Zenon DEF Moved, IInv
  <1> QED BY <1>1, QuietStep, Zenon DEF Moved

\* After a mark, written or failed, the process moves on to the other mark or ends.
LEMMA AfterMarkMoves ==
  ASSUME ProcOK(proc), NEW p \in Procs, proc[p].stage \in {"markUser", "markWallet"}, AfterMark(p)
  PROVE  Moved(p, {"markUser", "markWallet"})
  <1>1. proc[p].addr \in Addresses BY Zenon DEF ProcOK
  <1>2. Goto(p, "markWallet") \/ Goto(p, "markUser") \/ Finish(p) BY Zenon DEF AfterMark
  <1>3. {"markUser", "markWallet"} \subseteq Stages BY Zenon DEF Stages
  <1> QED BY <1>1, <1>2, <1>3, MovedBy, Zenon DEF Moved

\* After set_wallet_address, written or failed, it moves to the lookup or ends.
LEMMA AfterSetAddrMoves ==
  ASSUME ProcOK(proc), NEW p \in Procs, proc[p].stage = "setAddr", AfterSetAddr(p)
  PROVE  Moved(p, {"lookup"})
  <1>1. proc[p].addr \in Addresses BY Zenon DEF ProcOK
  <1>2. CASE Finish(p) BY <1>2, FinishOK, Zenon DEF Moved
  <1>3. CASE proc' = [proc EXCEPT ![p].stage = "lookup", ![p].flag = FALSE, ![p].sync = FALSE]
    <2> DEFINE next == [proc[p] EXCEPT !.stage = "lookup", !.flag = FALSE, !.sync = FALSE]
    <2>1. proc[p] \in ProcType /\ proc[p].user \in Users BY Zenon DEF ProcOK
    <2>2. /\ next \in ProcType /\ next.stage = "lookup"
          /\ next.user = proc[p].user /\ next.addr = proc[p].addr
      BY <2>1, Zenon DEF ProcType, Stages
    <2>3. proc' = [proc EXCEPT ![p] = next] BY <1>3, Zenon DEF ProcOK
    <2> HIDE DEF next
    <2> QED BY <1>1, <2>1, <2>2, <2>3, Zenon DEF Moved, ProcOK
  <1> QED BY <1>2, <1>3, Zenon DEF AfterSetAddr

\* Every step of a request that writes no table preserves the invariant.
LEMMA RequestQuiet ==
  ASSUME IInv, NEW r \in Requests,
         \/ \E u \in Users, a \in Addresses, b \in BOOLEAN : LinkStart(r, u, a, b)
         \/ \E u \in Users, a \in Addresses : InitWalletStart(r, u, a)
         \/ \E u \in Users : VerifyStart(r, u) \/ OnboardStart(r, u)
         \/ LinkLookup(r) \/ VerifyHasAny(r) \/ VerifySkips(r) \/ Cancel(r)
  PROVE  IInv'
  <1>1. r \in Procs /\ ProcOK(proc) /\ mempool \subseteq Addresses
    BY TypeSplit, Zenon DEF Procs, IInv, TablesOK
  <1>2. UNCHANGED <<owner, primary, registered, userAddr, keyOf, userPda, mintedFor, mempool, pda>>
    BY Zenon DEF LinkStart, InitWalletStart, VerifyStart, OnboardStart, LinkLookup, VerifyHasAny,
           VerifySkips, Cancel, tables, chain
  <1>3. ASSUME NEW op \in Ops, NEW u \in Users, NEW a \in Addresses \cup {None},
               NEW flag \in BOOLEAN, NEW sync \in BOOLEAN,
               NEW s \in {"clear", "insert", "hasAny", "exists", "register"},
               Begin(r, op, u, a, flag, sync, s), a \in Addresses \/ s = "hasAny"
        PROVE  IInv'
    <2>1. s \in Stages BY Zenon DEF Stages
    <2>2. /\ ProcOK(proc)' /\ proc'[r].stage = s
          /\ \A q \in Procs \ {r} : proc'[q] = proc[q]
      BY <1>1, <1>3, <2>1, BeginOK
    <2>3. MarksAreConfirmed' BY <1>2, <2>2, MarksKept, Zenon DEF IInv
    <2> QED BY <1>1, <1>2, <2>2, <2>3, QuietStep, Zenon
  <1>4. ASSUME NEW u \in Users, NEW a \in Addresses, NEW b \in BOOLEAN, LinkStart(r, u, a, b)
        PROVE  IInv'
    BY <1>3, <1>4, Zenon DEF LinkStart, Ops
  <1>5. ASSUME NEW u \in Users, NEW a \in Addresses, InitWalletStart(r, u, a) PROVE IInv'
    BY <1>3, <1>5, Zenon DEF InitWalletStart, Ops
  <1>6. ASSUME NEW u \in Users, VerifyStart(r, u) PROVE IInv'
    BY <1>3, <1>6, Zenon DEF VerifyStart, Ops
  <1>7. ASSUME NEW u \in Users, OnboardStart(r, u) PROVE IInv'
    <2>1. PICK a \in PrimaryOf(u) : Begin(r, "onboard", u, a, FALSE, FALSE, "exists")
      BY <1>7, Zenon DEF OnboardStart
    <2>2. a \in Addresses BY Zenon DEF PrimaryOf, WalletsOf
    <2> QED BY <1>3, <2>1, <2>2, Zenon DEF Ops
  <1>8. CASE LinkLookup(r)
    <2>1. proc[r].stage = "lookup" /\ proc[r].addr \in Addresses BY <1>1, <1>8, Zenon DEF LinkLookup, At, ProcOK
    <2>2. Moved(r, {"register"}) BY <1>1, <1>8, <2>1, MovedBy, Zenon DEF LinkLookup, Stages
    <2> QED BY <1>1, <1>2, <2>2, MovedQuietly, Zenon
  <1>9. CASE VerifyHasAny(r)
    <2>1. Moved(r, {"provision"}) BY <1>1, <1>9, MovedBy, Zenon DEF VerifyHasAny, At, Stages
    <2> QED BY <1>1, <1>2, <2>1, MovedQuietly, Zenon
  <1>10. CASE VerifySkips(r) \/ Cancel(r)
    <2>1. Moved(r, {"idle"}) BY <1>1, <1>10, MovedBy, Zenon DEF VerifySkips, Cancel, At, Stages
    <2> QED BY <1>1, <1>2, <2>1, MovedQuietly, Zenon
  <1> QED BY <1>4, <1>5, <1>6, <1>7, <1>8, <1>9, <1>10, Zenon

\* The polls and calls to the chain, and the faults, preserve the invariant.
LEMMA ChainQuiet ==
  ASSUME IInv, NEW p \in Procs, OnboardExists(p) \/ Register(p) \/ Confirm(p) \/ WriteFails(p)
  PROVE  IInv'
  <1>1. ProcOK(proc) /\ mempool \subseteq Addresses
    BY TypeSplit, Zenon DEF IInv, TablesOK
  <1>2. CASE OnboardExists(p)
    <2>1. /\ proc[p].stage = "exists" /\ proc[p].addr \in Addresses
          /\ UNCHANGED <<owner, primary, registered, userAddr, keyOf, userPda, mintedFor, mempool, pda>>
      BY <1>1, <1>2, Zenon DEF OnboardExists, At, ProcOK, tables, chain
    <2>2. CASE Goto(p, "register")
      <3>1. Moved(p, {"register"}) BY <1>1, <2>1, <2>2, MovedBy, Zenon DEF Stages
      <3> QED BY <1>1, <2>1, <3>1, MovedQuietly, Zenon
    <2>3. CASE proc[p].addr \in pda /\ Goto(p, FirstMark(p))
      <3>1. Moved(p, {FirstMark(p)}) BY <1>1, <2>1, <2>3, MovedBy, Zenon DEF Stages, FirstMark
      <3> QED BY <1>1, <2>1, <2>3, <3>1, MovedQuietly, Zenon
    <2> QED BY <1>2, <2>2, <2>3, Zenon DEF OnboardExists
  <1>3. CASE Register(p)
    <2>1. /\ proc[p].stage = "register" /\ proc[p].addr \in Addresses
          /\ UNCHANGED <<owner, primary, registered, userAddr, keyOf, userPda, mintedFor, pda>>
          /\ mempool' \subseteq Addresses
      BY <1>1, <1>3, Zenon DEF Register, At, ProcOK, tables
    <2>2. Moved(p, {"confirm"}) BY <1>1, <1>3, <2>1, MovedBy, Zenon DEF Register, Stages
    <2> QED BY <2>1, <2>2, MovedQuietly, Zenon
  <1>4. CASE Confirm(p)
    <2>1. /\ proc[p].stage = "confirm" /\ proc[p].addr \in Addresses
          /\ UNCHANGED <<owner, primary, registered, userAddr, keyOf, userPda, mintedFor, mempool, pda>>
      BY <1>1, <1>4, Zenon DEF Confirm, At, ProcOK, tables, chain
    <2>2. CASE Finish(p)
      <3>1. Moved(p, {"idle"}) BY <1>1, <2>1, <2>2, MovedBy, Zenon DEF Stages
      <3> QED BY <1>1, <2>1, <3>1, MovedQuietly, Zenon
    <2>3. CASE proc[p].addr \in pda /\ Goto(p, FirstMark(p))
      <3>1. Moved(p, {FirstMark(p)}) BY <1>1, <2>1, <2>3, MovedBy, Zenon DEF Stages, FirstMark
      <3> QED BY <1>1, <2>1, <2>3, <3>1, MovedQuietly, Zenon
    <2> QED BY <1>4, <2>2, <2>3, Zenon DEF Confirm
  <1>5. CASE WriteFails(p)
    <2>1. UNCHANGED <<owner, primary, registered, userAddr, keyOf, userPda, mintedFor, mempool, pda>>
      BY <1>5, Zenon DEF WriteFails, tables, chain
    <2>2. CASE At(p, "setAddr") /\ AfterSetAddr(p)
      <3>1. Moved(p, {"lookup"}) BY <1>1, <2>2, AfterSetAddrMoves, Zenon DEF At
      <3> QED BY <1>1, <2>1, <3>1, MovedQuietly, Zenon
    <2>3. CASE proc[p].stage \in {"markUser", "markWallet"} /\ AfterMark(p)
      <3>1. Moved(p, {"markUser", "markWallet"}) BY <1>1, <2>3, AfterMarkMoves, Zenon
      <3>2. proc[p].addr \in pda BY <2>3, Zenon DEF IInv, MarksAreConfirmed
      <3> QED BY <1>1, <2>1, <3>1, <3>2, MovedQuietly, Zenon
    <2> QED BY <1>5, <2>2, <2>3, Zenon DEF WriteFails
  <1> QED BY <1>2, <1>3, <1>4, <1>5, Zenon

-----------------------------------------------------------------------------
(* The steps that write the tables.                                        *)

\* A table write by a process that moves keeps the invariant when the tables
\* stay well formed, no user gets a second primary, and what is newly recorded
\* as registered is on chain.
LEMMA WriteStep ==
  ASSUME IInv, TablesOK', ProcOK(proc)', MarksAreConfirmed', AtMostOnePrimary', RegisteredIsOnChain'
  PROVE  IInv'
  <1>1. TypeOK' BY Zenon DEF TypeOK, TablesOK, ProcOK
  <1> QED BY <1>1, Zenon DEF IInv

\* link_wallet: clearing leaves the user without a primary; the insert honours
\* the unique constraints.
LEMMA LinkWrites ==
  ASSUME IInv, NEW r \in Requests, LinkClear(r) \/ LinkInsert(r) \/ SetWalletAddress(r)
  PROVE  IInv'
  <1>1. r \in Procs /\ ProcOK(proc) /\ TablesOK
    BY TypeSplit, Zenon DEF Procs, IInv
  <1>2. CASE LinkClear(r)
    <2>1. /\ proc[r].stage = "clear" /\ proc[r].addr \in Addresses
          /\ primary' \subseteq primary
          /\ UNCHANGED <<owner, registered, userAddr, keyOf, userPda, mintedFor, mempool, pda>>
      BY <1>1, <1>2, Zenon DEF LinkClear, At, ProcOK, chain
    <2>2. Moved(r, {"insert"}) BY <1>1, <1>2, <2>1, MovedBy, Zenon DEF LinkClear, Stages
    <2>3. MarksAreConfirmed' BY <2>1, <2>2, MarksKept, Zenon DEF Moved, IInv
    <2>4. TablesOK' BY <1>1, <2>1, Zenon DEF TablesOK
    <2>5. AtMostOnePrimary' BY <2>1 DEF IInv, AtMostOnePrimary, PrimaryOf, WalletsOf
    <2>6. RegisteredIsOnChain' BY <2>1, Zenon DEF IInv, RegisteredIsOnChain
    <2> QED BY <2>2, <2>3, <2>4, <2>5, <2>6, WriteStep, Zenon DEF Moved
  <1>3. CASE LinkInsert(r)
    <2>1. /\ proc[r].stage = "insert" /\ proc[r].addr \in Addresses /\ proc[r].user \in Users
          /\ UNCHANGED <<registered, userAddr, keyOf, userPda, mintedFor, mempool, pda>>
      BY <1>1, <1>3, Zenon DEF LinkInsert, At, ProcOK, chain
    <2>2. Moved(r, {"setAddr", "lookup"})
      <3>1. Goto(r, "setAddr") \/ Goto(r, "lookup") \/ Finish(r) BY <1>3, Zenon DEF LinkInsert
      <3>2. {"setAddr", "lookup"} \subseteq Stages BY Zenon DEF Stages
      <3> QED BY <1>1, <2>1, <3>1, <3>2, MovedBy DEF Moved
    <2>3. MarksAreConfirmed' BY <2>1, <2>2, MarksKept, Zenon DEF Moved, IInv
    <2>4. RegisteredIsOnChain' BY <2>1, Zenon DEF IInv, RegisteredIsOnChain
    <2>5. TablesOK' /\ AtMostOnePrimary'
      <3>1. CASE owner' = owner /\ primary' = primary
        BY <1>1, <2>1, <3>1 DEF TablesOK, IInv, AtMostOnePrimary, PrimaryOf, WalletsOf
      <3>2. ASSUME NEW u \in Users, NEW a \in Addresses, NEW b,
                   InsertAllowed(u, a, b), owner' = [owner EXCEPT ![a] = u],
                   primary' = IF b THEN primary \cup {a} ELSE primary
            PROVE  TablesOK' /\ AtMostOnePrimary'
        <4>1. owner[a] = None /\ a \notin primary /\ None \notin Users
          BY <1>1, <3>2, WalletAssumption, Zenon DEF InsertAllowed, TablesOK
        <4>2. TablesOK' BY <1>1, <2>1, <3>2, <4>1 DEF TablesOK
        <4>3. \A v \in Users \ {u} : PrimaryOf(v)' = PrimaryOf(v)
          BY <1>1, <3>2, <4>1, Zenon DEF PrimaryOf, WalletsOf, TablesOK
        <4>4. PrimaryOf(u)' = IF b THEN PrimaryOf(u) \cup {a} ELSE PrimaryOf(u)
          BY <1>1, <3>2, <4>1 DEF PrimaryOf, WalletsOf, TablesOK
        <4>5. b => PrimaryOf(u) = {} BY <3>2, Zenon DEF InsertAllowed
        <4> QED BY <4>2, <4>3, <4>4, <4>5 DEF IInv, AtMostOnePrimary
      <3> QED BY <1>3, <2>1, <3>1, <3>2 DEF LinkInsert
    <2> QED BY <2>2, <2>3, <2>4, <2>5, WriteStep, Zenon DEF Moved
  <1>4. CASE SetWalletAddress(r)
    <2>1. /\ proc[r].stage = "setAddr" /\ proc[r].addr \in Addresses /\ proc[r].user \in Users
          /\ UNCHANGED <<owner, primary, registered, keyOf, userPda, mintedFor, mempool, pda>>
      BY <1>1, <1>4, Zenon DEF SetWalletAddress, At, ProcOK, chain
    <2>2. Moved(r, {"lookup"}) BY <1>1, <1>4, <2>1, AfterSetAddrMoves, Zenon DEF SetWalletAddress
    <2>3. MarksAreConfirmed' BY <2>1, <2>2, MarksKept, Zenon DEF Moved, IInv
    <2>4. userAddr' \in [Users -> Addresses \cup {None}]
      BY <1>1, <1>4, <2>1, Zenon DEF SetWalletAddress, TablesOK
    <2>5. TablesOK' BY <1>1, <2>1, <2>4, Zenon DEF TablesOK
    <2>6. AtMostOnePrimary' BY <2>1 DEF IInv, AtMostOnePrimary, PrimaryOf, WalletsOf
    <2>7. RegisteredIsOnChain' BY <2>1, Zenon DEF IInv, RegisteredIsOnChain
    <2> QED BY <2>2, <2>3, <2>5, <2>6, <2>7, WriteStep, Zenon DEF Moved
  <1> QED BY <1>2, <1>3, <1>4, Zenon

\* set_primary demotes before it promotes, and promotes at most one row.
LEMMA PromoteWrites ==
  ASSUME IInv, NEW r \in Requests, NEW u \in Users, NEW a \in Addresses, Promote(r, u, a)
  PROVE  IInv'
  <1>1. r \in Procs /\ ProcOK(proc) /\ TablesOK
    BY TypeSplit, Zenon DEF Procs, IInv
  <1>2. /\ primary' = Promoted(u, a)
        /\ UNCHANGED <<owner, registered, userAddr, keyOf, userPda, mintedFor, mempool, pda>>
    BY Zenon DEF Promote, chain
  <1>3. ProcOK(proc)' /\ MarksAreConfirmed'
    <2>1. CASE Begin(r, "promote", u, a, TRUE, TRUE, "setAddr")
      <3>1. ASSUME NEW op \in Ops, NEW f \in BOOLEAN, NEW g \in BOOLEAN, NEW s \in Stages,
                   Begin(r, op, u, a, f, g, s)
            PROVE  /\ ProcOK(proc)' /\ proc'[r].stage = s
                   /\ \A q \in Procs \ {r} : proc'[q] = proc[q]
        BY <1>1, <3>1, BeginOK
      <3>2. /\ ProcOK(proc)' /\ proc'[r].stage = "setAddr"
            /\ \A q \in Procs \ {r} : proc'[q] = proc[q]
        BY <2>1, <3>1, Zenon DEF Ops, Stages
      <3> QED BY <1>2, <3>2, MarksKept, Zenon DEF IInv
    <2>2. CASE UNCHANGED proc
      BY <1>1, <1>2, <2>2, Zenon DEF ProcOK, MarksAreConfirmed, IInv
    <2> QED BY <2>1, <2>2, Zenon DEF Promote
  <1>4. TablesOK'
    BY <1>1, <1>2, WalletAssumption DEF TablesOK, Promoted, WalletsOf
  <1>5. AtMostOnePrimary'
    <2>1. PrimaryOf(u)' \subseteq {a}
      BY <1>2, Zenon DEF PrimaryOf, WalletsOf, Promoted
    <2>2. \A v \in Users \ {u} : PrimaryOf(v)' \subseteq PrimaryOf(v)
      BY <1>2, Zenon DEF PrimaryOf, WalletsOf, Promoted
    <2> QED BY <2>1, <2>2 DEF IInv, AtMostOnePrimary
  <1>6. RegisteredIsOnChain' BY <1>2, Zenon DEF IInv, RegisteredIsOnChain
  <1> QED BY <1>3, <1>4, <1>5, <1>6, WriteStep, Zenon

\* Only a wallet that is not primary is deleted.
LEMMA UnlinkWrites ==
  ASSUME IInv, NEW r \in Requests, NEW u \in Users, NEW a \in Addresses, Unlink(r, u, a)
  PROVE  IInv'
  <1>1. ProcOK(proc) /\ TablesOK
    BY TypeSplit, Zenon DEF IInv
  <1>2. /\ a \notin primary /\ owner' = [owner EXCEPT ![a] = None] /\ registered' = registered \ {a}
        /\ UNCHANGED <<primary, userAddr, keyOf, userPda, mintedFor, mempool, pda, proc>>
    BY Zenon DEF Unlink, chain
  <1>3. ProcOK(proc)' /\ MarksAreConfirmed' BY <1>1, <1>2, Zenon DEF ProcOK, MarksAreConfirmed, IInv
  <1>4. TablesOK' BY <1>1, <1>2, Zenon DEF TablesOK
  <1>5. \A v \in Users : PrimaryOf(v)' \subseteq PrimaryOf(v)
    BY <1>1, <1>2, WalletAssumption, Zenon DEF PrimaryOf, WalletsOf, TablesOK
  <1>6. AtMostOnePrimary' BY <1>5, Zenon DEF IInv, AtMostOnePrimary
  <1>7. RegisteredIsOnChain' BY <1>2, Zenon DEF IInv, RegisteredIsOnChain
  <1> QED BY <1>3, <1>4, <1>6, <1>7, WriteStep

\* persist_custodial_wallet makes the new wallet the user's only primary.
LEMMA ProvisionWrites ==
  ASSUME IInv, NEW r \in Requests, Provision(r)
  PROVE  IInv'
  <1>1. r \in Procs /\ ProcOK(proc) /\ TablesOK
    BY TypeSplit, Zenon DEF Procs, IInv
  <1>2. PICK u \in Users : u = proc[r].user
    BY <1>1, Zenon DEF Provision, At, ProcOK
  <1>3. PICK k \in Keypairs :
          /\ mintedFor' = [mintedFor EXCEPT ![k] = u]
          /\ owner' = [owner EXCEPT ![k] = u]
          /\ primary' = (primary \ WalletsOf(u)) \cup {k}
          /\ userAddr' = [userAddr EXCEPT ![u] = k]
          /\ keyOf' = [keyOf EXCEPT ![u] = k]
          /\ \E spawned \in {TRUE, "spawn" \notin Faults} :
               proc' = [proc EXCEPT ![r] = Idle,
                                    ![k] = IF spawned
                                             THEN [Idle EXCEPT !.op = "task", !.stage = "register",
                                                               !.user = u, !.addr = k]
                                             ELSE Idle]
    BY <1>2, Zenon DEF Provision
  <1>4. UNCHANGED <<registered, userPda, mempool, pda>> BY Zenon DEF Provision, chain
  <1>5. k \in Addresses /\ k \in Procs /\ k # r /\ None \notin Users
    BY WalletAssumption, Zenon DEF Procs
  <1> DEFINE task == [Idle EXCEPT !.op = "task", !.stage = "register", !.user = u, !.addr = k]
  <1>6. /\ task \in ProcType /\ task.stage = "register" /\ task.user = u /\ task.addr = k
        /\ Idle \in ProcType /\ Idle.stage = "idle"
    BY <1>2, <1>5, Zenon DEF Idle, ProcType, Ops, Stages
  <1>7. PICK new \in {task, Idle} : proc' = [proc EXCEPT ![r] = Idle, ![k] = new]
    BY <1>3, Zenon
  <1> HIDE DEF task
  <1>8. ProcOK(proc)'
    BY <1>1, <1>2, <1>5, <1>6, <1>7 DEF ProcOK
  <1>9. MarksAreConfirmed'
    BY <1>1, <1>4, <1>5, <1>6, <1>7, Zenon DEF ProcOK, IInv, MarksAreConfirmed
  <1>10. TablesOK'
    BY <1>1, <1>2, <1>3, <1>4, <1>5 DEF TablesOK
  <1>11. AtMostOnePrimary'
    <2>1. PrimaryOf(u)' \subseteq {k}
      BY <1>1, <1>3, <1>5 DEF PrimaryOf, WalletsOf, TablesOK
    <2>2. \A v \in Users \ {u} : PrimaryOf(v)' \subseteq PrimaryOf(v)
      BY <1>1, <1>3, <1>5, Zenon DEF PrimaryOf, WalletsOf, TablesOK
    <2> QED BY <2>1, <2>2 DEF IInv, AtMostOnePrimary
  <1>12. RegisteredIsOnChain' BY <1>4, Zenon DEF IInv, RegisteredIsOnChain
  <1> QED BY <1>8, <1>9, <1>10, <1>11, <1>12, WriteStep

\* The marks record what the process has seen on chain.
LEMMA MarkWrites ==
  ASSUME IInv, NEW p \in Procs, MarkUserOnboarded(p) \/ MarkRegistered(p)
  PROVE  IInv'
  <1>1. ProcOK(proc) /\ TablesOK
    BY TypeSplit, Zenon DEF IInv
  <1>2. /\ proc[p].stage \in {"markUser", "markWallet"}
        /\ AfterMark(p)
        /\ UNCHANGED <<owner, primary, userAddr, keyOf, mintedFor, mempool, pda>>
    BY Zenon DEF MarkUserOnboarded, MarkRegistered, At, chain
  <1>3. proc[p].addr \in pda /\ proc[p].addr \in Addresses /\ proc[p].user \in Users
    BY <1>1, <1>2, Zenon DEF IInv, MarksAreConfirmed, ProcOK
  <1>4. Moved(p, {"markUser", "markWallet"}) BY <1>1, <1>2, AfterMarkMoves, Zenon
  <1>5. MarksAreConfirmed' BY <1>2, <1>3, <1>4, MarksKept, Zenon DEF Moved, IInv
  <1>6. AtMostOnePrimary' BY <1>2 DEF IInv, AtMostOnePrimary, PrimaryOf, WalletsOf
  <1>7. CASE MarkUserOnboarded(p)
    <2>1. registered' = registered /\ userPda' = [userPda EXCEPT ![proc[p].user] = proc[p].addr]
      BY <1>7, Zenon DEF MarkUserOnboarded
    <2>2. TablesOK' BY <1>1, <1>2, <1>3, <2>1, Zenon DEF TablesOK
    <2>3. RegisteredIsOnChain' BY <1>1, <1>2, <1>3, <2>1 DEF IInv, RegisteredIsOnChain, TablesOK
    <2> QED BY <1>4, <1>5, <1>6, <2>2, <2>3, WriteStep, Zenon DEF Moved
  <1>8. CASE MarkRegistered(p)
    <2>1. /\ userPda' = userPda
          /\ registered' = registered \cup ({proc[p].addr} \cap WalletsOf(proc[p].user))
      BY <1>8, Zenon DEF MarkRegistered
    <2>2. TablesOK'
      BY <1>1, <1>2, <1>3, <2>1, WalletAssumption DEF TablesOK, WalletsOf
    <2>3. RegisteredIsOnChain' BY <1>2, <1>3, <2>1, Zenon DEF IInv, RegisteredIsOnChain
    <2> QED BY <1>4, <1>5, <1>6, <2>2, <2>3, WriteStep DEF Moved
  <1> QED BY <1>7, <1>8, Zenon

\* The chain only adds accounts, and a crash only forgets processes.
LEMMA OutsideSteps ==
  ASSUME IInv, (\E a \in Addresses : Land(a) \/ Drop(a)) \/ Crash \/ UNCHANGED vars
  PROVE  IInv'
  <1>1. ProcOK(proc) /\ TablesOK
    BY TypeSplit, Zenon DEF IInv
  <1>2. /\ UNCHANGED <<owner, primary, registered, userAddr, keyOf, userPda, mintedFor>>
        /\ mempool' \subseteq mempool
        /\ pda \subseteq pda' /\ pda' \subseteq Addresses
    BY <1>1, Zenon DEF Land, Drop, Crash, vars, tables, chain, TablesOK
  <1>3. ProcOK(proc)' /\ MarksAreConfirmed'
    <2>1. CASE proc' = proc BY <1>1, <1>2, <2>1, Zenon DEF ProcOK, MarksAreConfirmed, IInv
    <2>2. CASE Crash
      <3>1. Idle \in ProcType /\ Idle.stage = "idle" BY Zenon DEF Idle, ProcType, Ops, Stages
      <3>2. proc' = [p \in Procs |-> Idle] BY <2>2, Zenon DEF Crash
      <3> QED BY <3>1, <3>2, Zenon DEF ProcOK, MarksAreConfirmed
    <2> QED BY <2>1, <2>2, Zenon DEF Land, Drop, vars
  <1>4. TablesOK' BY <1>1, <1>2, Zenon DEF TablesOK
  <1>5. AtMostOnePrimary' BY <1>2, Zenon DEF IInv, AtMostOnePrimary, PrimaryOf, WalletsOf
  <1>6. RegisteredIsOnChain' BY <1>2, Zenon DEF IInv, RegisteredIsOnChain
  <1> QED BY <1>3, <1>4, <1>5, <1>6, WriteStep, Zenon

-----------------------------------------------------------------------------
(* Theorems.                                                               *)

\* Every step preserves the inductive invariant.
LEMMA IInvStep == IInv /\ [Next]_vars => IInv'
  <1> SUFFICES ASSUME IInv, [Next]_vars PROVE IInv'
    OBVIOUS
  <1>1. ASSUME NEW r \in Requests, ClientStep(r) \/ TableStep(r) PROVE IInv'
    BY <1>1, RequestQuiet, LinkWrites, PromoteWrites, UnlinkWrites, ProvisionWrites, Zenon
       DEF ClientStep, TableStep
  <1>2. ASSUME NEW p \in Procs, ChainStep(p) \/ WriteFails(p) PROVE IInv'
    BY <1>2, ChainQuiet, MarkWrites, Zenon DEF ChainStep
  <1>3. CASE (\E a \in Addresses : Land(a) \/ Drop(a)) \/ Crash \/ UNCHANGED vars
    BY <1>3, OutsideSteps, Zenon
  <1> QED BY <1>1, <1>2, <1>3, Zenon DEF Next

\* The inductive invariant holds throughout every behaviour of the handlers.
THEOREM Inductive == Spec => []IInv
  BY InitIInv, IInvStep, PTL DEF Spec

\* Tables, chain and processes keep their types; in particular only existing
\* rows are primary or registered.
THEOREM TypeCorrect == Spec => []TypeOK
  <1>1. IInv => TypeOK BY Zenon DEF IInv
  <1> QED BY <1>1, Inductive, PTL

\* No interleaving of link_wallet, set_primary_wallet and provisioning gives a
\* user two primary wallets.
THEOREM OnePrimary == Spec => []AtMostOnePrimary
  <1>1. IInv => AtMostOnePrimary BY Zenon DEF IInv
  <1> QED BY <1>1, Inductive, PTL

\* What the database records as registered exists on chain, with any number of
\* concurrent registrations, retries, dropped requests and crashes.
THEOREM MarksAreTrue == Spec => []RegisteredIsOnChain
  <1>1. IInv => RegisteredIsOnChain BY Zenon DEF IInv
  <1> QED BY <1>1, Inductive, PTL

-----------------------------------------------------------------------------
(* Who owns a wallet.                                                      *)

\* Process p goes on with what it does, or ends.
GoesOn(p) ==
  /\ \A q \in Procs \ {p} : proc'[q] = proc[q]
  /\ \/ proc'[p] = Idle
     \/ proc'[p].op = proc[p].op /\ proc'[p].user = proc[p].user /\ proc'[p].addr = proc[p].addr

\* The steps of a handler or task that has begun, but for Provision.
HandlerStep(p) ==
  \/ LinkClear(p) \/ LinkInsert(p) \/ SetWalletAddress(p) \/ LinkLookup(p)
  \/ VerifyHasAny(p) \/ VerifySkips(p) \/ Cancel(p) \/ ChainStep(p) \/ WriteFails(p)

\* A handler's step leaves the other processes alone, and its own user and address.
LEMMA HandlerGoesOn ==
  ASSUME ProcOK(proc), NEW p \in Procs, HandlerStep(p)
  PROVE  GoesOn(p) /\ proc[p].stage # "idle" /\ proc[p].user \in Users
  <1>1. proc[p].stage # "idle"
    BY Zenon DEF HandlerStep, LinkClear, LinkInsert, SetWalletAddress, LinkLookup, VerifyHasAny,
           VerifySkips, Cancel, ChainStep, OnboardExists, Register, Confirm, MarkUserOnboarded,
           MarkRegistered, WriteFails, At
  <1>2. (\E s : Goto(p, s)) \/ Finish(p) \/ AfterSetAddr(p)
    <2>1. AfterMark(p) => (\E s : Goto(p, s)) \/ Finish(p)
      <3>1. AfterMark(p) => Goto(p, "markWallet") \/ Goto(p, "markUser") \/ Finish(p) BY Zenon DEF AfterMark
      <3> QED BY <3>1, Zenon
    <2>2. CASE LinkClear(p) \/ LinkInsert(p) \/ SetWalletAddress(p) \/ LinkLookup(p)
      BY <2>2, Zenon DEF LinkClear, LinkInsert, SetWalletAddress, LinkLookup
    <2>3. CASE VerifyHasAny(p) \/ VerifySkips(p) \/ Cancel(p) \/ OnboardExists(p)
      BY <2>3, Zenon DEF VerifyHasAny, VerifySkips, Cancel, OnboardExists
    <2>4. CASE Register(p) \/ Confirm(p) BY <2>4, Zenon DEF Register, Confirm
    <2>5. CASE MarkUserOnboarded(p) \/ MarkRegistered(p) \/ WriteFails(p)
      BY <2>1, <2>5, Zenon DEF MarkUserOnboarded, MarkRegistered, WriteFails
    <2> QED BY <2>2, <2>3, <2>4, <2>5, Zenon DEF HandlerStep, ChainStep
  <1>3. proc \in [Procs -> ProcType] BY Zenon DEF ProcOK
  <1>4. CASE \E s : Goto(p, s)
    <2>1. PICK s : proc' = [proc EXCEPT ![p] = [proc[p] EXCEPT !.stage = s]]
      BY <1>3, <1>4, Zenon DEF Goto
    <2>2. /\ [proc[p] EXCEPT !.stage = s].op = proc[p].op
          /\ [proc[p] EXCEPT !.stage = s].user = proc[p].user
          /\ [proc[p] EXCEPT !.stage = s].addr = proc[p].addr
      BY <1>3 DEF ProcType
    <2> QED BY <1>1, <1>3, <2>1, <2>2, Zenon DEF GoesOn, ProcOK
  <1>5. CASE Finish(p) BY <1>1, <1>3, <1>5, Zenon DEF Finish, GoesOn, ProcOK
  <1>6. CASE proc' = [proc EXCEPT ![p].stage = "lookup", ![p].flag = FALSE, ![p].sync = FALSE]
    <2> DEFINE next == [proc[p] EXCEPT !.stage = "lookup", !.flag = FALSE, !.sync = FALSE]
    <2>1. next.op = proc[p].op /\ next.user = proc[p].user /\ next.addr = proc[p].addr
      BY <1>3 DEF ProcType
    <2>2. proc' = [proc EXCEPT ![p] = next] BY <1>3, <1>6, Zenon
    <2> HIDE DEF next
    <2> QED BY <1>1, <1>3, <2>1, <2>2, Zenon DEF GoesOn, ProcOK
  <1> QED BY <1>2, <1>4, <1>5, <1>6, Zenon DEF AfterSetAddr

\* A keypair that has not been made has no row, and nobody works on it.
Unmade ==
  \A k \in Keypairs : mintedFor[k] = None =>
    owner[k] = None /\ \A p \in Procs : proc[p].stage # "idle" => proc[p].addr # k

\* A handler's step writes into user_wallets at most its own wallet.
LEMMA HandlerOwns ==
  ASSUME NEW p \in Procs, HandlerStep(p), TablesOK
  PROVE  /\ UNCHANGED <<keyOf, mintedFor>>
         /\ \/ owner' = owner
            \/ owner[proc[p].addr] = None /\ owner' = [owner EXCEPT ![proc[p].addr] = proc[p].user]
  BY Zenon DEF HandlerStep, LinkClear, LinkInsert, InsertAllowed, SetWalletAddress, LinkLookup, VerifyHasAny,
         VerifySkips, Cancel, ChainStep, OnboardExists, Register, Confirm, MarkUserOnboarded,
         MarkRegistered, WriteFails, tables, chain

\* A request begins with an address that exists, or with none.
Starts(r) ==
  /\ \A q \in Procs \ {r} : proc'[q] = proc[q]
  /\ proc'[r].addr \in Known \cup {None} \/ owner[proc'[r].addr] # None
  /\ UNCHANGED <<owner, userAddr, keyOf, mintedFor>>

\* What a client calls begins so, unless it is an unlinking or finds nothing.
LEMMA ClientStarts ==
  ASSUME IInv, NEW r \in Requests, NEW u \in Users,
         \/ \E a \in Addresses, b \in BOOLEAN : LinkStart(r, u, a, b)
         \/ \E a \in Addresses : (Promote(r, u, a) /\ proc' # proc) \/ InitWalletStart(r, u, a)
         \/ VerifyStart(r, u) \/ OnboardStart(r, u)
  PROVE  Starts(r)
  <1>1. r \in Procs /\ ProcOK(proc) /\ None \notin Users
    BY TypeSplit, WalletAssumption, Zenon DEF Procs, IInv
  <1>2. ASSUME NEW op \in Ops, NEW a \in Addresses \cup {None}, NEW f \in BOOLEAN, NEW g \in BOOLEAN,
               NEW s \in Stages, Begin(r, op, u, a, f, g, s), a \in Addresses \/ s = "hasAny"
        PROVE  proc'[r].addr = a /\ \A q \in Procs \ {r} : proc'[q] = proc[q]
    BY <1>1, <1>2, BeginOK, SMTT(30)
  <1>3. ASSUME NEW a \in Addresses, NEW b \in BOOLEAN, LinkStart(r, u, a, b) PROVE Starts(r)
    <2>1. PICK g \in BOOLEAN, s \in {"clear", "insert"} : Begin(r, "link", u, a, b, g, s)
      BY <1>3, Zenon DEF LinkStart
    <2>2. "link" \in Ops /\ s \in Stages BY Zenon DEF Ops, Stages
    <2>3. proc'[r].addr = a /\ \A q \in Procs \ {r} : proc'[q] = proc[q]
      BY <1>2, <2>1, <2>2, Zenon
    <2>4. a \in Known /\ UNCHANGED <<owner, userAddr, keyOf, mintedFor>>
      BY <1>3, Zenon DEF LinkStart, tables
    <2> QED BY <2>3, <2>4, Zenon DEF Starts
  <1>4. ASSUME NEW a \in Addresses, InitWalletStart(r, u, a) PROVE Starts(r)
    BY <1>2, <1>4, Zenon DEF InitWalletStart, Starts, Ops, Stages, tables
  <1>5. CASE VerifyStart(r, u) BY <1>2, <1>5, Zenon DEF VerifyStart, Starts, Ops, Stages, tables
  <1>6. CASE OnboardStart(r, u)
    <2>1. PICK a \in PrimaryOf(u) : Begin(r, "onboard", u, a, FALSE, FALSE, "exists")
      BY <1>6, Zenon DEF OnboardStart
    <2>2. a \in Addresses /\ owner[a] = u BY Zenon DEF PrimaryOf, WalletsOf
    <2>3. UNCHANGED <<owner, userAddr, keyOf, mintedFor>> BY <1>6, Zenon DEF OnboardStart, tables
    <2> QED BY <1>1, <1>2, <2>1, <2>2, <2>3, ZenonT(30) DEF Starts, Ops, Stages
  <1>7. ASSUME NEW a \in Addresses, Promote(r, u, a), proc' # proc PROVE Starts(r)
    <2>1. owner[a] = u /\ Begin(r, "promote", u, a, TRUE, TRUE, "setAddr")
      BY <1>7, Zenon DEF Promote
    <2>2. UNCHANGED <<owner, userAddr, keyOf, mintedFor>> BY <1>7, Zenon DEF Promote
    <2> QED BY <1>1, <1>2, <2>1, <2>2, ZenonT(30) DEF Starts, Ops, Stages
  <1> QED BY <1>3, <1>4, <1>5, <1>6, <1>7, Zenon

\* Nobody gets hold of a keypair before it is made.
LEMMA UnmadeStep == IInv /\ Unmade /\ [Next]_vars => Unmade'
  <1> SUFFICES ASSUME IInv, Unmade, [Next]_vars PROVE Unmade'
    OBVIOUS
  <1>1. ProcOK(proc) /\ TablesOK /\ Idle.stage = "idle" BY TypeSplit, Zenon DEF IInv, Idle
  <1>2. Keypairs \subseteq Addresses /\ None \notin Addresses /\ Requests \subseteq Procs
    BY WalletAssumption, Zenon DEF Procs
  <1>3. ASSUME NEW p \in Procs, HandlerStep(p) PROVE Unmade'
    <2>1. GoesOn(p) /\ proc[p].stage # "idle" BY <1>1, <1>3, HandlerGoesOn, Zenon
    <2>2. mintedFor' = mintedFor BY <1>1, <1>3, HandlerOwns, Zenon
    <2>3. \A k \in Keypairs : mintedFor[k] = None => owner'[k] = None
      <3>1. \A k \in Keypairs : mintedFor[k] = None => proc[p].addr # k BY <2>1, Zenon DEF Unmade
      <3> QED BY <1>1, <1>2, <1>3, <3>1, HandlerOwns DEF Unmade, TablesOK
    <2> QED BY <1>1, <2>1, <2>2, <2>3 DEF Unmade, GoesOn
  <1>4. ASSUME NEW r \in Requests, Starts(r) PROVE Unmade'
    BY <1>2, <1>4 DEF Starts, Unmade, Known
  <1>5. ASSUME UNCHANGED <<owner, mintedFor, proc>> PROVE Unmade'
    BY <1>5, Zenon DEF Unmade
  <1>6. ASSUME NEW r \in Requests, ClientStep(r) PROVE Unmade'
    <2>1. ASSUME NEW u \in Users, NEW a \in Addresses, Unlink(r, u, a) PROVE Unmade'
      BY <1>1, <2>1 DEF Unlink, Unmade, TablesOK
    <2>2. CASE Cancel(r) BY <1>2, <1>3, <2>2, Zenon DEF HandlerStep
    <2>3. ASSUME NEW u \in Users, NEW a \in Addresses, Promote(r, u, a) PROVE Unmade'
      BY <1>4, <1>5, <2>3, ClientStarts, Zenon DEF Promote
    <2> QED BY <1>4, <1>6, <2>1, <2>2, <2>3, ClientStarts, Zenon DEF ClientStep
  <1>7. ASSUME NEW r \in Requests, Provision(r) PROVE Unmade'
    <2>1. PICK k \in Keypairs :
            /\ mintedFor' = [mintedFor EXCEPT ![k] = proc[r].user]
            /\ owner' = [owner EXCEPT ![k] = proc[r].user]
            /\ \/ \E new : new.addr = k /\ proc' = [proc EXCEPT ![r] = Idle, ![k] = new]
               \/ proc' = [proc EXCEPT ![r] = Idle, ![k] = Idle]
      BY <1>7, ZenonT(30) DEF Provision, Idle
    <2>2. proc[r].user \in Users /\ None \notin Users
      BY <1>1, <1>2, <1>7, WalletAssumption, Zenon DEF Provision, At, ProcOK
    <2> QED BY <1>1, <1>2, <2>1, <2>2 DEF Unmade, TablesOK, ProcOK
  <1>8. CASE (\E a \in Addresses : Land(a) \/ Drop(a)) \/ UNCHANGED vars
    BY <1>5, <1>8, Zenon DEF Land, Drop, vars, tables
  <1>9. CASE Crash BY <1>1, <1>9, Zenon DEF Crash, Unmade, tables
  <1> QED BY <1>2, <1>3, <1>6, <1>7, <1>8, <1>9 DEF Next, TableStep, HandlerStep

\* No step takes a primary wallet off its user, or hands a wallet to another one.
OwnerKept ==
  \A a \in Addresses : owner[a] # None /\ owner'[a] # owner[a] =>
    owner'[a] = None /\ a \notin primary

\* That is so for each of the steps.
LEMMA OwnerStep ==
  ASSUME IInv, Unmade, [Next]_vars
  PROVE  OwnerKept
  <1>1. ProcOK(proc) /\ TablesOK BY TypeSplit, Zenon DEF IInv
  <1>2. Keypairs \subseteq Addresses /\ Requests \subseteq Procs BY WalletAssumption, Zenon DEF Procs
  <1>3. ASSUME NEW p \in Procs, HandlerStep(p) PROVE OwnerKept
    BY <1>1, <1>3, HandlerOwns, Zenon DEF TablesOK, OwnerKept
  <1>4. ASSUME NEW r \in Requests, ClientStep(r) PROVE OwnerKept
    <2>1. ASSUME NEW u \in Users, NEW a \in Addresses, Unlink(r, u, a) PROVE OwnerKept
      BY <1>1, <2>1, Zenon DEF Unlink, TablesOK, OwnerKept
    <2>2. CASE Cancel(r) BY <1>2, <1>3, <2>2, Zenon DEF HandlerStep
    <2>3. ASSUME owner' = owner PROVE OwnerKept BY <2>3, Zenon DEF OwnerKept
    <2> QED BY <1>4, <2>1, <2>2, <2>3, Zenon
            DEF ClientStep, LinkStart, Promote, InitWalletStart, VerifyStart, OnboardStart, tables
  <1>5. ASSUME NEW r \in Requests, Provision(r) PROVE OwnerKept
    <2>1. PICK k \in Keypairs : mintedFor[k] = None /\ owner' = [owner EXCEPT ![k] = proc[r].user]
      BY <1>5, Zenon DEF Provision
    <2> QED BY <1>1, <2>1, Zenon DEF Unmade, TablesOK, OwnerKept
  <1>6. CASE (\E a \in Addresses : Land(a) \/ Drop(a)) \/ Crash \/ UNCHANGED vars
    BY <1>6, Zenon DEF Land, Drop, Crash, vars, tables, OwnerKept
  <1>7. ASSUME NEW r \in Requests, TableStep(r) PROVE OwnerKept
    BY <1>2, <1>3, <1>5, <1>7, Zenon DEF TableStep, HandlerStep
  <1>8. ASSUME NEW p \in Procs, ChainStep(p) \/ WriteFails(p) PROVE OwnerKept
    BY <1>3, <1>8, Zenon DEF HandlerStep
  <1> QED BY <1>4, <1>6, <1>7, <1>8, Zenon DEF Next

\* No interleaving of unlink_wallet with promotions, links and provisionings
\* deletes a user's primary wallet or moves a wallet from user to user.
THEOREM PrimaryIsKept == Spec => PrimaryNeverUnlinked
  <1>1. Init => Unmade
    <2>1. Idle.stage = "idle" BY Zenon DEF Idle
    <2> QED BY <2>1, WalletAssumption DEF Init, Unmade
  <1>2. IInv /\ Unmade /\ [Next]_vars =>
          [\A a \in Addresses : owner[a] # None /\ owner'[a] # owner[a] =>
             owner'[a] = None /\ a \notin primary]_vars
    BY OwnerStep, Zenon DEF OwnerKept
  <1> QED BY <1>1, <1>2, UnmadeStep, Inductive, PTL DEF Spec, PrimaryNeverUnlinked

-----------------------------------------------------------------------------
(* WalletSync.                                                             *)

\* The observing variables restrict nothing: whatever is proved of Wallets holds
\* with them as well.
THEOREM SyncIsWallets == SyncSpec => Spec
  <1>1. SyncInit => Init BY Zenon DEF SyncInit
  <1>2. [SyncNext]_syncVars => [Next]_vars
    BY Zenon DEF SyncNext, DriftNext, Next, ClientStep, TableStep, syncVars
  <1> QED BY <1>1, <1>2, PTL DEF SyncSpec, Spec

\* The key of a user: every keypair made for them has its key stored, and they
\* have an address and no verification in progress, but after a race.
KeyInv ==
  /\ \A k \in Keypairs : mintedFor[k] # None => userAddr[mintedFor[k]] # None
  /\ \A k \in Keypairs : mintedFor[k] # None =>
       \/ mintedFor[k] \in raced
       \/ /\ keyOf[mintedFor[k]] = k
          /\ \A r \in Requests : proc[r].op = "verify" => proc[r].user # mintedFor[k]
  /\ \A r \in Requests : proc[r].stage \in {"hasAny", "provision"} => proc[r].op = "verify"
  /\ Twice \subseteq raced

\* What keeps a user u in sync: one writer at a time, which has the way clear.
InSync(u) ==
  /\ \A r, q \in Requests : Writes(r, u) /\ Writes(q, u) => r = q
  /\ \A a \in PrimaryOf(u) :
       userAddr[u] = a \/ \E r \in Requests : At(r, "setAddr") /\ proc[r].user = u /\ proc[r].addr = a
  /\ \A r \in Requests : proc[r].user = u /\ At(r, "setAddr") => PrimaryOf(u) \subseteq {proc[r].addr}
  /\ \A r \in Requests : proc[r].user = u /\ At(r, "insert") /\ proc[r].sync => PrimaryOf(u) = {}

\* What link_wallet and set_primary_wallet have decided by their stage.
Flags ==
  \A r \in Requests :
    /\ proc[r].stage \in {"clear", "setAddr"} => proc[r].sync
    /\ proc[r].stage = "insert" /\ proc[r].flag => proc[r].sync

SyncInv == Flags /\ \A u \in Users \ drift : InSync(u)

-----------------------------------------------------------------------------
(* The stored key.                                                         *)

\* Going to a stage changes nothing but the stage.
LEMMA GotoExact ==
  ASSUME ProcOK(proc), NEW p \in Procs, NEW s, Goto(p, s)
  PROVE  /\ proc'[p].stage = s /\ proc'[p].op = proc[p].op /\ proc'[p].user = proc[p].user
         /\ proc'[p].addr = proc[p].addr /\ proc'[p].flag = proc[p].flag /\ proc'[p].sync = proc[p].sync
         /\ \A q \in Procs \ {p} : proc'[q] = proc[q]
  <1> DEFINE next == [proc[p] EXCEPT !.stage = s]
  <1>1. proc \in [Procs -> ProcType] BY Zenon DEF ProcOK
  <1>2. /\ next.stage = s /\ next.op = proc[p].op /\ next.user = proc[p].user
        /\ next.addr = proc[p].addr /\ next.flag = proc[p].flag /\ next.sync = proc[p].sync
    BY <1>1 DEF ProcType
  <1>3. proc' = [proc EXCEPT ![p] = next] BY <1>1, Zenon DEF Goto
  <1> HIDE DEF next
  <1> QED BY <1>1, <1>2, <1>3, Zenon

\* After set_wallet_address a request ends, or looks up its user.
LEMMA LookupExact ==
  ASSUME ProcOK(proc), NEW p \in Procs, AfterSetAddr(p)
  PROVE  /\ proc'[p] = Idle \/ (proc'[p].stage = "lookup" /\ proc'[p].user = proc[p].user)
         /\ \A q \in Procs \ {p} : proc'[q] = proc[q]
  <1>1. proc \in [Procs -> ProcType] BY Zenon DEF ProcOK
  <1>2. CASE Finish(p) BY <1>1, <1>2, Zenon DEF Finish
  <1>3. CASE proc' = [proc EXCEPT ![p].stage = "lookup", ![p].flag = FALSE, ![p].sync = FALSE]
    <2> DEFINE next == [proc[p] EXCEPT !.stage = "lookup", !.flag = FALSE, !.sync = FALSE]
    <2>1. next.stage = "lookup" /\ next.user = proc[p].user BY <1>1 DEF ProcType
    <2>2. proc' = [proc EXCEPT ![p] = next] BY <1>1, <1>3, Zenon
    <2> HIDE DEF next
    <2> QED BY <1>1, <2>1, <2>2, Zenon
  <1> QED BY <1>2, <1>3, Zenon DEF AfterSetAddr

\* The steps beyond the tables: lookups, calls to the chain, and marks.
LateStep(p) == LinkLookup(p) \/ ChainStep(p) \/ (WriteFails(p) /\ ~At(p, "setAddr"))

Late == {"lookup", "exists", "register", "confirm", "markUser", "markWallet"}

\* They stay beyond the tables.
LEMMA LateStays ==
  ASSUME ProcOK(proc), NEW p \in Procs, LateStep(p)
  PROVE  /\ proc[p].stage \in Late
         /\ proc'[p] = Idle \/ (proc'[p].stage \in Late /\ proc'[p].user = proc[p].user)
         /\ \A q \in Procs \ {p} : proc'[q] = proc[q]
         /\ UNCHANGED <<owner, primary, userAddr, keyOf, mintedFor>>
  <1>1. /\ proc[p].stage \in Late
        /\ UNCHANGED <<owner, primary, userAddr, keyOf, mintedFor>>
    BY Zenon DEF LateStep, LinkLookup, ChainStep, OnboardExists, Register, Confirm, MarkUserOnboarded,
           MarkRegistered, WriteFails, At, Late, tables
  <1>2. AfterMark(p) => (\E s \in Late : Goto(p, s)) \/ Finish(p)
    <2>1. AfterMark(p) => Goto(p, "markWallet") \/ Goto(p, "markUser") \/ Finish(p) BY Zenon DEF AfterMark
    <2> QED BY <2>1, Zenon DEF Late
  <1>3. FirstMark(p) \in Late BY Zenon DEF FirstMark, Late
  <1>4. (\E s \in Late : Goto(p, s)) \/ Finish(p)
    <2>1. CASE LinkLookup(p) BY <2>1, Zenon DEF LinkLookup, Late
    <2>2. CASE OnboardExists(p) BY <1>3, <2>2, Zenon DEF OnboardExists, Late
    <2>3. CASE Register(p) BY <2>3, Zenon DEF Register, Late
    <2>4. CASE Confirm(p) BY <1>3, <2>4, Zenon DEF Confirm, Late
    <2>5. CASE MarkUserOnboarded(p) \/ MarkRegistered(p) \/ (WriteFails(p) /\ ~At(p, "setAddr"))
      BY <1>2, <2>5, Zenon DEF MarkUserOnboarded, MarkRegistered, WriteFails
    <2> QED BY <2>1, <2>2, <2>3, <2>4, <2>5, Zenon DEF LateStep, ChainStep
  <1>5. CASE Finish(p) BY <1>1, <1>5, Zenon DEF Finish, ProcOK
  <1>6. ASSUME NEW s \in Late, Goto(p, s) PROVE proc'[p].stage \in Late /\ proc'[p].user = proc[p].user
                                             /\ \A q \in Procs \ {p} : proc'[q] = proc[q]
    BY <1>6, GotoExact, Zenon
  <1> QED BY <1>1, <1>4, <1>5, <1>6, Zenon

\* No handler's step takes a user's address away, or leads to a verification.
LEMMA HandlerVerifies ==
  ASSUME ProcOK(proc), TablesOK, NEW p \in Procs, HandlerStep(p)
  PROVE  /\ \A u \in Users : userAddr[u] # None => userAddr'[u] # None
         /\ proc'[p].stage \in {"hasAny", "provision"} => proc[p].stage = "hasAny"
  <1>1. Idle.stage = "idle" BY Zenon DEF Idle
  <1>2. None \notin Addresses BY WalletAssumption, Zenon
  <1>3. CASE LateStep(p) BY <1>1, <1>3, LateStays, Zenon DEF Late
  <1>4. CASE SetWalletAddress(p)
    <2>1. proc[p].addr \in Addresses /\ proc[p].user \in Users BY <1>4, Zenon DEF SetWalletAddress, At, ProcOK
    <2>2. \A u \in Users : userAddr[u] # None => userAddr'[u] # None
      BY <1>2, <1>4, <2>1 DEF SetWalletAddress, TablesOK
    <2> QED BY <1>1, <1>4, <2>2, LookupExact, Zenon DEF SetWalletAddress
  <1>5. CASE WriteFails(p) /\ At(p, "setAddr")
    <2>1. AfterSetAddr(p) /\ userAddr' = userAddr BY <1>5, Zenon DEF WriteFails, At, tables
    <2> QED BY <1>1, <2>1, LookupExact
  <1>6. CASE VerifyHasAny(p) BY <1>6, Zenon DEF VerifyHasAny, At, tables
  <1>7. CASE VerifySkips(p) \/ Cancel(p)
    BY <1>1, <1>7, Zenon DEF VerifySkips, Cancel, Finish, ProcOK, tables
  <1>8. CASE LinkClear(p) BY <1>8, GotoExact DEF LinkClear
  <1>9. CASE LinkInsert(p)
    <2>1. Goto(p, "setAddr") \/ Goto(p, "lookup") \/ Finish(p) BY <1>9, Zenon DEF LinkInsert
    <2>2. userAddr' = userAddr BY <1>9, Zenon DEF LinkInsert
    <2>3. CASE Finish(p) BY <1>1, <2>2, <2>3, Zenon DEF Finish, ProcOK
    <2> QED BY <2>1, <2>2, <2>3, GotoExact
  <1> QED BY <1>3, <1>4, <1>5, <1>6, <1>7, <1>8, <1>9 DEF HandlerStep, LateStep

\* The parts of KeyInv that a step may put at risk.
LEMMA KeyKept ==
  ASSUME KeyInv, TablesOK, UNCHANGED <<keyOf, mintedFor>>, raced \subseteq raced', Twice' \subseteq raced',
         \A u \in Users : userAddr[u] # None => userAddr'[u] # None,
         \A q \in Requests :
           \/ proc'[q] = proc[q]
           \/ /\ proc'[q].stage \in {"hasAny", "provision"} => proc'[q].op = "verify"
              /\ proc'[q].op = "verify" =>
                   \/ proc[q].op = "verify" /\ proc'[q].user = proc[q].user
                   \/ proc'[q].user \in Users /\ userAddr[proc'[q].user] = None
  PROVE  KeyInv'
  <1>1. \A k \in Keypairs : mintedFor[k] # None => mintedFor[k] \in Users BY Zenon DEF TablesOK
  <1>2. (\A k \in Keypairs : mintedFor[k] # None => userAddr[mintedFor[k]] # None)'
    BY <1>1, Zenon DEF KeyInv
  <1>3. ASSUME NEW k \in Keypairs, mintedFor[k] # None, mintedFor[k] \notin raced'
        PROVE  /\ keyOf'[mintedFor[k]] = k
               /\ \A r \in Requests : proc'[r].op = "verify" => proc'[r].user # mintedFor[k]
    BY <1>3 DEF KeyInv
  <1>4. (\A r \in Requests : proc[r].stage \in {"hasAny", "provision"} => proc[r].op = "verify")'
    BY Zenon DEF KeyInv
  <1> QED BY <1>2, <1>3, <1>4 DEF KeyInv

\* A new keypair replaces a stored key only after a race.
LEMMA KeyStep == IInv /\ Unmade /\ KeyInv /\ [SyncNext]_syncVars => KeyInv'
  <1> SUFFICES ASSUME IInv, Unmade, KeyInv, [SyncNext]_syncVars PROVE KeyInv'
    OBVIOUS
  <1>1. ProcOK(proc) /\ TablesOK /\ Idle.stage = "idle" /\ Idle.op = "none"
    BY TypeSplit, Zenon DEF IInv, Idle
  <1>2. Requests \subseteq Procs /\ Keypairs \cap Requests = {} /\ None \notin Users /\ None \notin Addresses
        /\ Keypairs \subseteq Addresses
    BY WalletAssumption, Zenon DEF Procs
  <1>3. raced \subseteq raced' /\ Twice' \subseteq raced'
    <2>1. CASE SyncNext BY <2>1, Zenon DEF SyncNext
    <2>2. CASE UNCHANGED syncVars BY <2>2 DEF syncVars, vars, Twice, At, KeyInv
    <2> QED BY <2>1, <2>2, Zenon
  <1>4. ASSUME NEW p \in Procs, HandlerStep(p) PROVE KeyInv'
    <2>1. GoesOn(p) BY <1>1, <1>4, HandlerGoesOn, Zenon
    <2>2. UNCHANGED <<keyOf, mintedFor>> BY <1>1, <1>4, HandlerOwns
    <2>3. /\ \A u \in Users : userAddr[u] # None => userAddr'[u] # None
          /\ proc'[p].stage \in {"hasAny", "provision"} => proc[p].stage = "hasAny"
      BY <1>1, <1>4, HandlerVerifies, Zenon
    <2>4. \A q \in Requests \ {p} : proc'[q] = proc[q] BY <1>2, <2>1 DEF GoesOn
    <2>5. p \in Requests =>
            /\ proc'[p].stage \in {"hasAny", "provision"} => proc'[p].op = "verify"
            /\ proc'[p].op = "verify" => proc[p].op = "verify" /\ proc'[p].user = proc[p].user
      BY <1>1, <2>1, <2>3, Zenon DEF GoesOn, KeyInv
    <2> QED BY <1>1, <1>3, <2>2, <2>3, <2>4, <2>5, KeyKept, Zenon
  <1>5. ASSUME UNCHANGED <<userAddr, keyOf, mintedFor, proc>> PROVE KeyInv'
    BY <1>1, <1>3, <1>5, KeyKept, Zenon
  <1>6. ASSUME NEW r \in Requests, NEW op \in Ops, NEW u \in Users, NEW a \in Addresses \cup {None},
               NEW f \in BOOLEAN, NEW g \in BOOLEAN, NEW s \in Stages, Begin(r, op, u, a, f, g, s),
               UNCHANGED <<userAddr, keyOf, mintedFor>>,
               \/ s \notin {"hasAny", "provision"} /\ op # "verify" /\ a \in Addresses
               \/ s = "hasAny" /\ op = "verify" /\ userAddr[u] = None
        PROVE  KeyInv'
    <2>1. /\ proc'[r].stage = s /\ proc'[r].op = op /\ proc'[r].user = u
          /\ \A q \in Procs \ {r} : proc'[q] = proc[q]
      BY <1>1, <1>2, <1>6, BeginOK
    <2>2. \A q \in Requests \ {r} : proc'[q] = proc[q] BY <1>2, <2>1, Zenon
    <2> QED BY <1>1, <1>3, <1>6, <2>1, <2>2, KeyKept, ZenonT(30)
  <1>7. ASSUME NEW r \in Requests, NEW u \in Users, NEW a \in Addresses,
               Promote(r, u, a) \/ Unlink(r, u, a) \/ InitWalletStart(r, u, a)
        PROVE  KeyInv'
    <2>1. CASE Promote(r, u, a) BY <1>5, <1>6, <2>1, Zenon DEF Promote, Ops, Stages
    <2>2. CASE Unlink(r, u, a) BY <1>5, <2>2, Zenon DEF Unlink
    <2>3. CASE InitWalletStart(r, u, a) BY <1>6, <2>3, Zenon DEF InitWalletStart, Ops, Stages, tables
    <2> QED BY <1>7, <2>1, <2>2, <2>3, Zenon
  <1>8. ASSUME NEW r \in Requests, NEW u \in Users, NEW a \in Addresses, NEW b \in BOOLEAN, LinkStart(r, u, a, b)
        PROVE  KeyInv'
    <2>1. PICK g \in BOOLEAN, s \in {"clear", "insert"} : Begin(r, "link", u, a, b, g, s)
      BY <1>8, Zenon DEF LinkStart
    <2>2. "link" \in Ops /\ s \in Stages BY Zenon DEF Ops, Stages
    <2> QED BY <1>6, <1>8, <2>1, <2>2, Zenon DEF LinkStart, tables
  <1>9. ASSUME NEW r \in Requests, NEW u \in Users, VerifyStart(r, u) \/ OnboardStart(r, u) PROVE KeyInv'
    <2>1. CASE VerifyStart(r, u) BY <1>6, <2>1, Zenon DEF VerifyStart, Ops, Stages, tables
    <2>2. CASE OnboardStart(r, u)
      <3>1. PICK a \in PrimaryOf(u) : Begin(r, "onboard", u, a, FALSE, FALSE, "exists")
        BY <2>2, Zenon DEF OnboardStart
      <3>2. a \in Addresses BY Zenon DEF PrimaryOf, WalletsOf
      <3> QED BY <1>6, <2>2, <3>1, <3>2, Zenon DEF OnboardStart, Ops, Stages, tables
    <2> QED BY <1>9, <2>1, <2>2, Zenon
  <1>10. ASSUME NEW r \in Requests, Provision(r) PROVE KeyInv'
    <2>1. PICK u \in Users : u = proc[r].user BY <1>1, <1>2, <1>10, Zenon DEF Provision, At, ProcOK
    <2>2. PICK k \in Keypairs :
            /\ mintedFor[k] = None
            /\ mintedFor' = [mintedFor EXCEPT ![k] = u]
            /\ userAddr' = [userAddr EXCEPT ![u] = k]
            /\ keyOf' = [keyOf EXCEPT ![u] = k]
            /\ \E new : proc' = [proc EXCEPT ![r] = Idle, ![k] = new]
      BY <1>10, <2>1, ZenonT(30) DEF Provision
    <2>3. proc[r].op = "verify" BY <1>10, Zenon DEF Provision, At, KeyInv
    <2>4. proc'[r] = Idle /\ \A q \in Requests \ {r} : proc'[q] = proc[q]
      BY <1>1, <1>2, <2>2, Zenon DEF ProcOK
    <2>5. \A q \in Requests \ {r} : proc[q].op = "verify" /\ proc[q].user = u => u \in raced
      BY <2>1, <2>3 DEF KeyInv, Twice
    <2>6. \A j \in Keypairs \ {k} : mintedFor[j] = u => u \in raced
      BY <1>2, <2>1, <2>3, Zenon DEF KeyInv
    <2>7. (\A j \in Keypairs : mintedFor[j] # None => userAddr[mintedFor[j]] # None)'
      BY <1>1, <1>2, <2>2 DEF KeyInv, TablesOK
    <2>8. ASSUME NEW j \in Keypairs, mintedFor'[j] # None, mintedFor'[j] \notin raced'
          PROVE  /\ keyOf'[mintedFor'[j]] = j
                 /\ \A q \in Requests : proc'[q].op = "verify" => proc'[q].user # mintedFor'[j]
      <3>1. CASE j = k BY <1>1, <1>3, <2>2, <2>4, <2>5, <2>8, <3>1, ZenonT(30) DEF TablesOK
      <3>2. CASE j # k
        <4>1. mintedFor'[j] = mintedFor[j] /\ mintedFor[j] \in Users /\ mintedFor[j] \notin raced
          BY <1>1, <1>3, <2>2, <2>8, <3>2, Zenon DEF TablesOK
        <4>2. mintedFor[j] # u BY <2>6, <3>2, <4>1, Zenon
        <4>3. keyOf'[mintedFor[j]] = keyOf[mintedFor[j]] BY <1>1, <2>2, <4>1, <4>2, Zenon DEF TablesOK
        <4>4. /\ keyOf[mintedFor[j]] = j
              /\ \A q \in Requests : proc[q].op = "verify" => proc[q].user # mintedFor[j]
          BY <1>2, <4>1, Zenon DEF KeyInv
        <4> QED BY <1>1, <2>4, <4>1, <4>3, <4>4
      <3> QED BY <3>1, <3>2
    <2>9. (\A q \in Requests : proc[q].stage \in {"hasAny", "provision"} => proc[q].op = "verify")'
      BY <1>1, <2>4 DEF KeyInv
    <2> QED BY <1>3, <2>7, <2>8, <2>9 DEF KeyInv
  <1>11. CASE (\E a \in Addresses : Land(a) \/ Drop(a)) \/ UNCHANGED vars
    BY <1>5, <1>11, Zenon DEF Land, Drop, vars, tables
  <1>12. CASE Crash
    <2>1. \A p \in Requests : proc'[p] = Idle BY <1>2, <1>12, Zenon DEF Crash
    <2>2. UNCHANGED <<userAddr, keyOf, mintedFor>> BY <1>12, Zenon DEF Crash, tables
    <2> QED BY <1>1, <1>3, <2>1, <2>2, KeyKept, Zenon
  <1>13. [Next]_vars BY Zenon DEF SyncNext, DriftNext, Next, ClientStep, TableStep, syncVars
  <1>14. ASSUME NEW r \in Requests, ClientStep(r) PROVE KeyInv'
    BY <1>2, <1>4, <1>7, <1>8, <1>9, <1>14, Zenon DEF ClientStep, HandlerStep
  <1>15. ASSUME NEW r \in Requests, TableStep(r) PROVE KeyInv'
    BY <1>2, <1>4, <1>10, <1>15, Zenon DEF TableStep, HandlerStep
  <1> QED BY <1>4, <1>11, <1>12, <1>13, <1>14, <1>15 DEF Next, HandlerStep

\* The key of a custodial wallet can be recovered, in every interleaving of
\* verifications, links, promotions and unlinkings, unless the link was opened
\* twice at a time.
THEOREM KeysAreRecoverable == SyncSpec => []OnlyRacesLoseKeys
  <1>1. SyncInit => KeyInv /\ Unmade
    <2>1. Idle.stage = "idle" /\ Idle.op = "none" BY Zenon DEF Idle
    <2>2. Requests \subseteq Procs BY Zenon DEF Procs
    <2> QED BY <2>1, <2>2, WalletAssumption DEF SyncInit, Init, KeyInv, Twice, Unmade
  <1>2. [SyncNext]_syncVars => [Next]_vars
    BY Zenon DEF SyncNext, DriftNext, Next, ClientStep, TableStep, syncVars
  <1>3. IInv /\ KeyInv => OnlyRacesLoseKeys BY Zenon DEF KeyInv, OnlyRacesLoseKeys
  <1> QED BY <1>1, <1>2, <1>3, KeyStep, UnmadeStep, SyncIsWallets, Inductive, PTL DEF SyncSpec

-----------------------------------------------------------------------------
(* The address on the users row.                                           *)

\* A process with record x is not about to write wallets or address of user u.
Quiet(x, u) ==
  \/ x.user # u
  \/ x.stage \notin {"clear", "insert", "setAddr", "provision"}
  \/ x.stage = "insert" /\ ~x.sync

\* A user stays in sync when their rows stay as they are, no request begins to
\* write them, and none at the address write stops.
LEMMA Untouched ==
  ASSUME NEW u \in Users, InSync(u), PrimaryOf(u)' = PrimaryOf(u), userAddr'[u] = userAddr[u],
         \A r \in Requests :
           \/ proc'[r] = proc[r]
           \/ Quiet(proc'[r], u) /\ (proc[r].user # u \/ proc[r].stage # "setAddr")
  PROVE  InSync(u)'
  <1>1. \A r \in Requests : Writes(r, u)' => proc'[r] = proc[r] BY Zenon DEF Writes, At, Quiet
  <1>2. \A r \in Requests : Writes(r, u)' => Writes(r, u) BY <1>1, Zenon DEF Writes, At
  <1>3. (\A r, q \in Requests : Writes(r, u) /\ Writes(q, u) => r = q)' BY <1>2, Zenon DEF InSync
  <1>4. (\A a \in PrimaryOf(u) : userAddr[u] = a
            \/ \E r \in Requests : At(r, "setAddr") /\ proc[r].user = u /\ proc[r].addr = a)'
    BY DEF InSync, At
  <1>5. \A r \in Requests : proc'[r].user = u /\ proc'[r].stage = "setAddr" => proc'[r] = proc[r]
    BY Zenon DEF Quiet
  <1>6. (\A r \in Requests : proc[r].user = u /\ At(r, "setAddr") => PrimaryOf(u) \subseteq {proc[r].addr})'
    BY <1>5 DEF InSync, At
  <1>7. (\A r \in Requests : proc[r].user = u /\ At(r, "insert") /\ proc[r].sync => PrimaryOf(u) = {})'
    <2>1. \A r \in Requests : proc'[r].user = u /\ proc'[r].stage = "insert" /\ proc'[r].sync =>
            proc'[r] = proc[r]
      BY Zenon DEF Quiet
    <2> QED BY <2>1 DEF InSync, At
  <1> QED BY <1>3, <1>4, <1>6, <1>7, Zenon DEF InSync

\* A user is in sync when request r is their only writer, their primary wallet is on
\* the users row or about to be written by r, and r has the way clear.
LEMMA OneWriter ==
  ASSUME NEW u \in Users, NEW r \in Requests,
         \A q \in Requests \ {r} : Quiet(proc'[q], u),
         \A a \in PrimaryOf(u)' :
           \/ userAddr'[u] = a
           \/ proc'[r].stage = "setAddr" /\ proc'[r].user = u /\ proc'[r].addr = a,
         proc'[r].user = u /\ proc'[r].stage = "setAddr" => PrimaryOf(u)' \subseteq {proc'[r].addr},
         proc'[r].user = u /\ proc'[r].stage = "insert" /\ proc'[r].sync => PrimaryOf(u)' = {}
  PROVE  InSync(u)'
  <1>1. \A q \in Requests \ {r} :
          proc'[q].user = u => /\ proc'[q].stage \notin {"clear", "setAddr", "provision"}
                               /\ ~(proc'[q].stage = "insert" /\ proc'[q].sync)
    BY Zenon DEF Quiet
  <1>2. (\A p, q \in Requests : Writes(p, u) /\ Writes(q, u) => p = q)' BY <1>1 DEF Writes, At
  <1>3. (\A a \in PrimaryOf(u) : userAddr[u] = a
            \/ \E q \in Requests : At(q, "setAddr") /\ proc[q].user = u /\ proc[q].addr = a)'
    BY Zenon DEF At
  <1>4. (\A q \in Requests : proc[q].user = u /\ At(q, "setAddr") => PrimaryOf(u) \subseteq {proc[q].addr})'
    BY <1>1, Zenon DEF At
  <1>5. (\A q \in Requests : proc[q].user = u /\ At(q, "insert") /\ proc[q].sync => PrimaryOf(u) = {})'
    BY <1>1, Zenon DEF At
  <1> QED BY <1>2, <1>3, <1>4, <1>5, Zenon DEF InSync

\* While r writes for a user in sync nobody else does.
LEMMA OthersQuiet ==
  ASSUME Flags, NEW u \in Users, NEW r \in Requests, Writers(u) \subseteq {r}
  PROVE  \A q \in Requests \ {r} : Quiet(proc[q], u)
  BY Zenon DEF Flags, Writers, Writes, At, Quiet

\* Only a request that begins or goes on to write can put Flags at risk.
LEMMA FlagsKept ==
  ASSUME Flags,
         \A r \in Requests :
           \/ proc'[r] = proc[r]
           \/ /\ proc'[r].stage \in {"clear", "setAddr"} => proc'[r].sync
              /\ proc'[r].stage = "insert" /\ proc'[r].flag => proc'[r].sync
  PROVE  Flags'
  BY Zenon DEF Flags

\* A step after which no process writes that did not, and that leaves the tables of
\* wallets and addresses alone, keeps everybody in sync but those whose write stops.
LEMMA QuietSync ==
  ASSUME SyncInv, NEW p, \A q \in Requests \ {p} : proc'[q] = proc[q],
         UNCHANGED <<owner, primary, userAddr>>, drift \subseteq drift',
         p \in Requests =>
           /\ proc'[p].stage \notin {"clear", "insert", "setAddr", "provision"}
           /\ proc[p].stage = "setAddr" => proc[p].user \in drift'
  PROVE  SyncInv'
  <1>1. Flags' BY FlagsKept, Zenon DEF SyncInv
  <1>2. ASSUME NEW u \in Users \ drift' PROVE InSync(u)'
    <2>1. InSync(u) BY Zenon DEF SyncInv
    <2>2. PrimaryOf(u)' = PrimaryOf(u) BY Zenon DEF PrimaryOf, WalletsOf
    <2>3. \A r \in Requests :
            \/ proc'[r] = proc[r]
            \/ Quiet(proc'[r], u) /\ (proc[r].user # u \/ proc[r].stage # "setAddr")
      BY Zenon DEF Quiet
    <2> QED BY <2>1, <2>2, <2>3, Untouched
  <1> QED BY <1>1, <1>2, Zenon DEF SyncInv

\* A promotion that begins alone brings address and primary wallet together.
LEMMA PromoteSync ==
  ASSUME IInv, SyncInv, NEW r \in Requests, NEW v \in Users, NEW b \in Addresses, Promote(r, v, b),
         drift' = IF Writers(v) = {} THEN drift \ {v} ELSE drift \cup {v}
  PROVE  SyncInv'
  <1>1. ProcOK(proc) /\ r \in Procs /\ Requests \subseteq Procs /\ Flags
    BY TypeSplit, Zenon DEF IInv, Procs, SyncInv
  <1>2. UNCHANGED <<owner, userAddr>> /\ primary' = Promoted(v, b) /\ proc[r].stage = "idle"
    BY Zenon DEF Promote, Begin, At
  <1>3. /\ \A q \in Requests \ {r} : proc'[q] = proc[q]
        /\ \/ proc' = proc /\ owner[b] # v
           \/ /\ owner[b] = v /\ proc'[r].stage = "setAddr" /\ proc'[r].user = v
              /\ proc'[r].addr = b /\ proc'[r].sync
    <2>1. CASE owner[b] = v
      <3>1. Begin(r, "promote", v, b, TRUE, TRUE, "setAddr") BY <2>1, Zenon DEF Promote
      <3>2. ASSUME NEW op \in Ops, NEW f \in BOOLEAN, NEW g \in BOOLEAN, NEW s \in Stages,
                   Begin(r, op, v, b, f, g, s)
            PROVE  /\ proc'[r].stage = s /\ proc'[r].user = v /\ proc'[r].addr = b /\ proc'[r].sync = g
                   /\ \A q \in Procs \ {r} : proc'[q] = proc[q]
        BY <1>1, <3>2, BeginOK, SMTT(30)
      <3>3. /\ proc'[r].stage = "setAddr" /\ proc'[r].user = v /\ proc'[r].addr = b /\ proc'[r].sync = TRUE
            /\ \A q \in Procs \ {r} : proc'[q] = proc[q]
        BY <3>1, <3>2, Zenon DEF Ops, Stages
      <3> QED BY <1>1, <2>1, <3>3, Zenon
    <2>2. CASE owner[b] # v BY <2>2, Zenon DEF Promote
    <2> QED BY <2>1, <2>2, Zenon
  <1>4. Flags' BY <1>1, <1>3, FlagsKept, Zenon
  <1>5. ASSUME NEW u \in Users \ drift', u # v PROVE InSync(u)'
    <2>1. InSync(u) BY <1>5, Zenon DEF SyncInv
    <2>2. PrimaryOf(u)' = PrimaryOf(u) BY <1>2, <1>5, Zenon DEF PrimaryOf, WalletsOf, Promoted
    <2>3. \A q \in Requests :
            \/ proc'[q] = proc[q]
            \/ Quiet(proc'[q], u) /\ (proc[q].user # u \/ proc[q].stage # "setAddr")
      BY <1>2, <1>3, <1>5, Zenon DEF Quiet
    <2> QED BY <1>2, <2>1, <2>2, <2>3, Untouched, Zenon
  <1>6. ASSUME v \notin drift' PROVE InSync(v)'
    <2>1. Writers(v) = {} BY <1>6, Zenon
    <2>2. \A q \in Requests \ {r} : Quiet(proc'[q], v) BY <1>1, <1>3, <2>1, OthersQuiet, Zenon
    <2>3. PrimaryOf(v)' = IF owner[b] = v THEN {b} ELSE {}
      BY <1>2, Zenon DEF PrimaryOf, WalletsOf, Promoted
    <2> QED BY <1>2, <1>3, <2>2, <2>3, OneWriter, ZenonT(30)
  <1> QED BY <1>4, <1>5, <1>6 DEF SyncInv

\* The address write brings them together unless another user's row has the address.
LEMMA SetAddrSync ==
  ASSUME IInv, SyncInv, NEW r \in Requests, SetWalletAddress(r), drift' = drift \cup Blocked(r)
  PROVE  SyncInv'
  <1>1. ProcOK(proc) /\ TablesOK /\ r \in Procs /\ Requests \subseteq Procs /\ Flags
    BY TypeSplit, Zenon DEF IInv, Procs, SyncInv
  <1>2. PICK v \in Users : v = proc[r].user BY <1>1, Zenon DEF SetWalletAddress, At, ProcOK
  <1>3. /\ proc[r].stage = "setAddr" /\ UNCHANGED <<owner, primary>>
        /\ \A q \in Requests \ {r} : proc'[q] = proc[q]
        /\ proc'[r].stage \in {"idle", "lookup"}
    BY <1>1, LookupExact DEF SetWalletAddress, At, Idle
  <1>4. Flags' BY <1>1, <1>3, FlagsKept
  <1>5. ASSUME NEW u \in Users \ drift', u # v PROVE InSync(u)'
    <2>1. InSync(u) BY <1>5, Zenon DEF SyncInv
    <2>2. PrimaryOf(u)' = PrimaryOf(u) BY <1>3, Zenon DEF PrimaryOf, WalletsOf
    <2>3. userAddr'[u] = userAddr[u] BY <1>1, <1>2, <1>5, Zenon DEF SetWalletAddress, TablesOK
    <2>4. \A q \in Requests :
            \/ proc'[q] = proc[q]
            \/ Quiet(proc'[q], u) /\ (proc[q].user # u \/ proc[q].stage # "setAddr")
      BY <1>2, <1>3, <1>5 DEF Quiet
    <2> QED BY <2>1, <2>2, <2>3, <2>4, Untouched, Zenon
  <1>6. ASSUME v \notin drift' PROVE InSync(v)'
    <2>1. InSync(v) BY <1>6, Zenon DEF SyncInv
    <2>2. Writes(r, v) BY <1>1, <1>2, <1>3, Zenon DEF Flags, Writes, At
    <2>3. Writers(v) \subseteq {r} BY <2>1, <2>2, Zenon DEF InSync, Writers
    <2>4. \A q \in Requests \ {r} : Quiet(proc'[q], v) BY <1>1, <1>3, <2>3, OthersQuiet, Zenon
    <2>5. \A w \in Users \ {v} : userAddr[w] # proc[r].addr
      BY <1>2, <1>3, <1>6, Zenon DEF Blocked, Pending, At
    <2>6. userAddr'[v] = proc[r].addr BY <1>1, <1>2, <2>5, Zenon DEF SetWalletAddress, TablesOK
    <2>7. PrimaryOf(v)' \subseteq {proc[r].addr}
      BY <1>2, <1>3, <2>1 DEF InSync, PrimaryOf, WalletsOf, At
    <2> QED BY <1>3, <2>4, <2>6, <2>7, OneWriter, Zenon
  <1> QED BY <1>4, <1>5, <1>6, Zenon DEF SyncInv

\* A link begins to write only for a user for whom nobody else does, or it is noted.
LEMMA LinkStartSync ==
  ASSUME IInv, SyncInv, NEW r \in Requests, NEW v \in Users, NEW b \in Addresses, NEW f \in BOOLEAN,
         LinkStart(r, v, b, f), drift' = drift \cup Overlapped
  PROVE  SyncInv'
  <1>1. ProcOK(proc) /\ r \in Procs /\ Requests \subseteq Procs /\ Flags
    BY TypeSplit, Zenon DEF IInv, Procs, SyncInv
  <1>2. PICK g \in BOOLEAN, s \in {"clear", "insert"} :
          /\ Begin(r, "link", v, b, f, g, s)
          /\ s = "clear" => g
          /\ s = "insert" /\ f => g
          /\ s = "insert" /\ g => WalletsOf(v) = {}
    BY Zenon DEF LinkStart
  <1>3. "link" \in Ops /\ s \in Stages BY Zenon DEF Ops, Stages
  <1>4. ASSUME NEW op \in Ops, NEW t \in Stages, Begin(r, op, v, b, f, g, t)
        PROVE  /\ proc'[r].stage = t /\ proc'[r].user = v /\ proc'[r].sync = g /\ proc'[r].flag = f
               /\ \A q \in Procs \ {r} : proc'[q] = proc[q]
    BY <1>1, <1>4, BeginOK
  <1>5. /\ proc'[r].stage = s /\ proc'[r].user = v /\ proc'[r].sync = g /\ proc'[r].flag = f
        /\ \A q \in Requests \ {r} : proc'[q] = proc[q]
    BY <1>1, <1>2, <1>3, <1>4, Zenon
  <1>6. /\ UNCHANGED <<owner, primary, userAddr>> /\ proc[r].stage = "idle"
        /\ \A u \in Users : PrimaryOf(u)' = PrimaryOf(u)
    BY <1>2, Zenon DEF LinkStart, tables, Begin, At, PrimaryOf, WalletsOf
  <1>7. Flags' BY <1>1, <1>2, <1>5, FlagsKept, Zenon
  <1>8. ASSUME NEW u \in Users \ drift', u # v \/ ~g PROVE InSync(u)'
    <2>1. InSync(u) BY Zenon DEF SyncInv
    <2>2. Quiet(proc'[r], u) BY <1>2, <1>5, <1>8, Zenon DEF Quiet
    <2>3. \A q \in Requests :
            \/ proc'[q] = proc[q]
            \/ Quiet(proc'[q], u) /\ (proc[q].user # u \/ proc[q].stage # "setAddr")
      BY <1>5, <1>6, <2>2, Zenon
    <2> QED BY <1>6, <2>1, <2>3, Untouched, Zenon
  <1>9. ASSUME v \notin drift', g PROVE InSync(v)'
    <2>1. InSync(v) BY <1>9, Zenon DEF SyncInv
    <2>2. r \in Writers(v)' \ Writers(v) BY <1>2, <1>5, <1>6, <1>9, Zenon DEF Writers, Writes, At
    <2>3. Writers(v) = {} BY <1>9, <2>2, Zenon DEF Overlapped
    <2>4. \A q \in Requests \ {r} : Quiet(proc'[q], v) BY <1>1, <1>5, <2>3, OthersQuiet
    <2>5. \A a \in PrimaryOf(v)' : userAddr'[v] = a
      BY <1>1, <1>6, <2>1, <2>3, ZenonT(30) DEF InSync, Writers, Writes, Flags, At
    <2>6. proc'[r].stage = "insert" => PrimaryOf(v)' = {}
      BY <1>2, <1>5, <1>6, <1>9, Zenon DEF PrimaryOf
    <2> QED BY <1>2, <1>5, <2>4, <2>5, <2>6, OneWriter, Zenon
  <1> QED BY <1>7, <1>8, <1>9 DEF SyncInv

\* clear_primary leaves no primary wallet to be out of sync with.
LEMMA ClearSync ==
  ASSUME IInv, SyncInv, NEW r \in Requests, LinkClear(r), drift \subseteq drift'
  PROVE  SyncInv'
  <1>1. ProcOK(proc) /\ r \in Procs /\ Requests \subseteq Procs /\ Flags
    BY TypeSplit, Zenon DEF IInv, Procs, SyncInv
  <1>2. PICK v \in Users : v = proc[r].user BY <1>1, Zenon DEF LinkClear, At, ProcOK
  <1>3. /\ proc[r].stage = "clear" /\ proc'[r].stage = "insert" /\ proc'[r].user = v
        /\ proc'[r].sync = proc[r].sync /\ proc[r].sync
        /\ \A q \in Requests \ {r} : proc'[q] = proc[q]
        /\ UNCHANGED <<owner, userAddr>> /\ primary' = primary \ WalletsOf(v)
    BY <1>1, <1>2, GotoExact, ZenonT(30) DEF LinkClear, At, Flags
  <1>4. Flags' BY <1>1, <1>3, FlagsKept, Zenon
  <1>5. ASSUME NEW u \in Users \ drift', u # v PROVE InSync(u)'
    <2>1. InSync(u) BY <1>5, Zenon DEF SyncInv
    <2>2. PrimaryOf(u)' = PrimaryOf(u) BY <1>3, <1>5, Zenon DEF PrimaryOf, WalletsOf
    <2>3. \A q \in Requests :
            \/ proc'[q] = proc[q]
            \/ Quiet(proc'[q], u) /\ (proc[q].user # u \/ proc[q].stage # "setAddr")
      BY <1>2, <1>3, <1>5, ZenonT(30) DEF Quiet
    <2> QED BY <1>3, <2>1, <2>2, <2>3, Untouched, Zenon
  <1>6. ASSUME v \notin drift' PROVE InSync(v)'
    <2>1. InSync(v) BY <1>6, Zenon DEF SyncInv
    <2>2. Writes(r, v) BY <1>2, <1>3, Zenon DEF Writes, At
    <2>3. Writers(v) \subseteq {r} BY <2>1, <2>2, SMTT(30) DEF InSync, Writers
    <2>4. \A q \in Requests \ {r} : Quiet(proc'[q], v) BY <1>1, <1>3, <2>3, OthersQuiet
    <2>5. PrimaryOf(v)' = {} BY <1>3, Zenon DEF PrimaryOf, WalletsOf
    <2> QED BY <2>4, <2>5, OneWriter
  <1> QED BY <1>4, <1>5, <1>6 DEF SyncInv

\* An inserted primary wallet is on its way to the users row.
LEMMA InsertSync ==
  ASSUME IInv, SyncInv, NEW r \in Requests, LinkInsert(r), drift \subseteq drift'
  PROVE  SyncInv'
  <1>1. ProcOK(proc) /\ TablesOK /\ r \in Procs /\ Requests \subseteq Procs /\ Flags /\ None \notin Users
    BY TypeSplit, WalletAssumption, Zenon DEF IInv, Procs, SyncInv
  <1>2. PICK v \in Users, b \in Addresses : v = proc[r].user /\ b = proc[r].addr
    BY <1>1, Zenon DEF LinkInsert, At, ProcOK
  <1>3. proc[r].stage = "insert" /\ userAddr' = userAddr BY Zenon DEF LinkInsert, At
  <1>4. CASE Finish(r) /\ UNCHANGED <<owner, primary>>
    <2>1. proc'[r] = Idle /\ \A q \in Requests \ {r} : proc'[q] = proc[q]
      BY <1>1, <1>4, Zenon DEF Finish, ProcOK
    <2>2. Idle.stage = "idle" BY Zenon DEF Idle
    <2> QED BY <1>3, <1>4, <2>1, <2>2, QuietSync
  <1>5. CASE /\ owner[b] = None /\ owner' = [owner EXCEPT ![b] = v]
             /\ primary' = IF proc[r].flag THEN primary \cup {b} ELSE primary
             /\ Goto(r, IF proc[r].sync THEN "setAddr" ELSE "lookup")
    <2>1. /\ proc'[r].stage = IF proc[r].sync THEN "setAddr" ELSE "lookup"
          /\ proc'[r].user = v /\ proc'[r].addr = b /\ proc'[r].sync = proc[r].sync
          /\ \A q \in Requests \ {r} : proc'[q] = proc[q]
      BY <1>1, <1>2, <1>5, GotoExact
    <2>2. Flags' BY <1>1, <2>1, FlagsKept, Zenon
    <2>3. b \notin primary BY <1>1, <1>5, Zenon DEF TablesOK
    <2>4. \A u \in Users : PrimaryOf(u)' = IF u = v /\ proc[r].flag THEN PrimaryOf(u) \cup {b} ELSE PrimaryOf(u)
      BY <1>1, <1>5, <2>3 DEF PrimaryOf, WalletsOf, TablesOK
    <2>5. ASSUME NEW u \in Users \ drift', u # v \/ ~proc[r].sync PROVE InSync(u)'
      <3>1. InSync(u) BY <2>5, Zenon DEF SyncInv
      <3>2. PrimaryOf(u)' = PrimaryOf(u) BY <1>1, <1>3, <2>4, <2>5, Zenon DEF Flags
      <3>3. \A q \in Requests :
              \/ proc'[q] = proc[q]
              \/ Quiet(proc'[q], u) /\ (proc[q].user # u \/ proc[q].stage # "setAddr")
        BY <1>2, <1>3, <2>1, <2>5, SMTT(30) DEF Quiet
      <3> QED BY <1>3, <3>1, <3>2, <3>3, Untouched, Zenon
    <2>6. ASSUME v \notin drift', proc[r].sync PROVE InSync(v)'
      <3>1. InSync(v) BY <2>6, Zenon DEF SyncInv
      <3>2. Writes(r, v) BY <1>2, <1>3, <2>6, Zenon DEF Writes, At
      <3>3. Writers(v) \subseteq {r} BY <3>1, <3>2, Zenon DEF InSync, Writers
      <3>4. \A q \in Requests \ {r} : Quiet(proc'[q], v) BY <1>1, <2>1, <3>3, OthersQuiet, Zenon
      <3>5. PrimaryOf(v) = {} BY <1>2, <1>3, <2>6, <3>1, Zenon DEF InSync, At
      <3>6. PrimaryOf(v)' \subseteq {b} BY <2>4, <3>5
      <3> QED BY <2>1, <2>6, <3>4, <3>6, OneWriter
    <2> QED BY <2>2, <2>5, <2>6, SMTT(30) DEF SyncInv
  <1> QED BY <1>2, <1>4, <1>5 DEF LinkInsert, InsertAllowed

\* A verification goes on to provision for a user for whom nobody writes, or it is noted.
LEMMA HasAnySync ==
  ASSUME IInv, SyncInv, NEW r \in Requests, VerifyHasAny(r), drift' = drift \cup Overlapped
  PROVE  SyncInv'
  <1>1. ProcOK(proc) /\ r \in Procs /\ Requests \subseteq Procs /\ Flags
    BY TypeSplit, Zenon DEF IInv, Procs, SyncInv
  <1>2. PICK v \in Users : v = proc[r].user BY <1>1, Zenon DEF VerifyHasAny, At, ProcOK
  <1>3. /\ proc[r].stage = "hasAny" /\ UNCHANGED <<owner, primary, userAddr>>
        /\ \A u \in Users : PrimaryOf(u)' = PrimaryOf(u)
    BY Zenon DEF VerifyHasAny, At, tables, PrimaryOf, WalletsOf
  <1>4. CASE Finish(r)
    <2>1. proc'[r] = Idle /\ \A q \in Requests \ {r} : proc'[q] = proc[q]
      BY <1>1, <1>4, Zenon DEF Finish, ProcOK
    <2>2. Idle.stage = "idle" BY Zenon DEF Idle
    <2> QED BY <1>3, <2>1, <2>2, QuietSync
  <1>5. CASE Goto(r, "provision") /\ WalletsOf(v) = {}
    <2>1. /\ proc'[r].stage = "provision" /\ proc'[r].user = v
          /\ \A q \in Requests \ {r} : proc'[q] = proc[q]
      BY <1>1, <1>2, <1>5, GotoExact, ZenonT(30)
    <2>2. Flags' BY <1>1, <2>1, FlagsKept, Zenon
    <2>3. ASSUME NEW u \in Users \ drift', u # v PROVE InSync(u)'
      <3>1. InSync(u) BY <2>3, Zenon DEF SyncInv
      <3>2. \A q \in Requests :
              \/ proc'[q] = proc[q]
              \/ Quiet(proc'[q], u) /\ (proc[q].user # u \/ proc[q].stage # "setAddr")
        BY <1>3, <2>1, <2>3 DEF Quiet
      <3> QED BY <1>3, <3>1, <3>2, Untouched
    <2>4. ASSUME v \notin drift' PROVE InSync(v)'
      <3>1. r \in Writers(v)' \ Writers(v) BY <1>3, <2>1, Zenon DEF Writers, Writes, At
      <3>2. Writers(v) = {} BY <2>4, <3>1, Zenon DEF Overlapped
      <3>3. \A q \in Requests \ {r} : Quiet(proc'[q], v) BY <1>1, <2>1, <3>2, OthersQuiet, Zenon
      <3>4. PrimaryOf(v)' = {} BY <1>3, <1>5, Zenon DEF PrimaryOf
      <3> QED BY <3>3, <3>4, OneWriter, Zenon
    <2> QED BY <2>2, <2>3, <2>4, Zenon DEF SyncInv
  <1> QED BY <1>2, <1>4, <1>5 DEF VerifyHasAny

\* The transaction of the provisioning writes both at once.
LEMMA ProvisionSync ==
  ASSUME IInv, Unmade, SyncInv, NEW r \in Requests, Provision(r), drift \subseteq drift'
  PROVE  SyncInv'
  <1>1. /\ ProcOK(proc) /\ TablesOK /\ Flags /\ r \in Procs /\ Requests \subseteq Procs
        /\ Keypairs \subseteq Addresses /\ Keypairs \cap Requests = {} /\ None \notin Users
    BY TypeSplit, WalletAssumption, Zenon DEF IInv, Procs, SyncInv
  <1>2. PICK v \in Users : v = proc[r].user BY <1>1, Zenon DEF Provision, At, ProcOK
  <1>3. PICK k \in Keypairs :
          /\ mintedFor[k] = None
          /\ owner' = [owner EXCEPT ![k] = v]
          /\ primary' = (primary \ WalletsOf(v)) \cup {k}
          /\ userAddr' = [userAddr EXCEPT ![v] = k]
          /\ \E new : proc' = [proc EXCEPT ![r] = Idle, ![k] = new]
    BY <1>2, Zenon DEF Provision
  <1>4. proc'[r] = Idle /\ Idle.stage = "idle" /\ \A q \in Requests \ {r} : proc'[q] = proc[q]
    BY <1>1, <1>3, ZenonT(30) DEF ProcOK, Idle
  <1>5. Flags' BY <1>1, <1>4, FlagsKept, Zenon
  <1>6. owner[k] = None /\ proc[r].stage = "provision" BY <1>3, Zenon DEF Unmade, Provision, At
  <1>7. ASSUME NEW u \in Users \ drift', u # v PROVE InSync(u)'
    <2>1. InSync(u) BY <1>7, Zenon DEF SyncInv
    <2>2. PrimaryOf(u)' = PrimaryOf(u)
      BY <1>1, <1>3, <1>6, <1>7 DEF PrimaryOf, WalletsOf, TablesOK
    <2>3. userAddr'[u] = userAddr[u] BY <1>1, <1>3, <1>7 DEF TablesOK
    <2>4. \A q \in Requests :
            \/ proc'[q] = proc[q]
            \/ Quiet(proc'[q], u) /\ (proc[q].user # u \/ proc[q].stage # "setAddr")
      BY <1>4, <1>6, Zenon DEF Quiet
    <2> QED BY <2>1, <2>2, <2>3, <2>4, Untouched, Zenon
  <1>8. ASSUME v \notin drift' PROVE InSync(v)'
    <2>1. InSync(v) BY <1>8, Zenon DEF SyncInv
    <2>2. Writes(r, v) BY <1>2, <1>6, Zenon DEF Writes, At
    <2>3. Writers(v) \subseteq {r} BY <2>1, <2>2, Zenon DEF InSync, Writers
    <2>4. \A q \in Requests \ {r} : Quiet(proc'[q], v) BY <1>1, <1>4, <2>3, OthersQuiet, Zenon
    <2>5. PrimaryOf(v)' = {k} BY <1>1, <1>3 DEF PrimaryOf, WalletsOf, TablesOK
    <2>6. userAddr'[v] = k BY <1>1, <1>3, Zenon DEF TablesOK
    <2> QED BY <1>4, <2>4, <2>5, <2>6, OneWriter, Zenon
  <1> QED BY <1>5, <1>7, <1>8, Zenon DEF SyncInv

\* The calls that write neither: unlink_wallet leaves primary wallets alone, the
\* others only begin.
LEMMA ClientSync ==
  ASSUME IInv, SyncInv, NEW r \in Requests, NEW v \in Users, drift \subseteq drift',
         \/ \E a \in Addresses : Unlink(r, v, a) \/ InitWalletStart(r, v, a)
         \/ VerifyStart(r, v) \/ OnboardStart(r, v)
  PROVE  SyncInv'
  <1>1. ProcOK(proc) /\ TablesOK /\ r \in Procs /\ Requests \subseteq Procs /\ Flags
    BY TypeSplit, Zenon DEF IInv, Procs, SyncInv
  <1>2. ASSUME NEW op \in Ops, NEW a \in Addresses \cup {None}, NEW s \in {"register", "hasAny", "exists"},
               a \in Addresses \/ s = "hasAny",
               Begin(r, op, v, a, FALSE, FALSE, s), UNCHANGED tables
        PROVE  SyncInv'
    <2>1. /\ s \in Stages /\ FALSE \in BOOLEAN
          /\ a \in Addresses \/ s \in {"idle", "hasAny", "provision"}
      BY <1>2, Zenon DEF Stages
    <2>2. proc'[r].stage = s /\ \A q \in Procs \ {r} : proc'[q] = proc[q]
      BY <1>1, <1>2, <2>1, BeginOK, ZenonT(30)
    <2>3. proc[r].stage = "idle" /\ UNCHANGED <<owner, primary, userAddr>>
      BY <1>2, Zenon DEF Begin, At, tables
    <2>4. \A q \in Requests \ {r} : proc'[q] = proc[q] BY <1>1, <2>2, Zenon
    <2> QED BY <2>2, <2>3, <2>4, QuietSync
  <1>3. ASSUME NEW a \in Addresses, Unlink(r, v, a) PROVE SyncInv'
    <2>1. UNCHANGED <<userAddr, proc>> BY <1>3, Zenon DEF Unlink
    <2>2. Flags' BY <1>1, <2>1, FlagsKept, Zenon
    <2>3. \A u \in Users : PrimaryOf(u)' = PrimaryOf(u)
      BY <1>1, <1>3, WalletAssumption DEF Unlink, PrimaryOf, WalletsOf, TablesOK
    <2>4. ASSUME NEW u \in Users \ drift' PROVE InSync(u)'
      <3>1. InSync(u) BY Zenon DEF SyncInv
      <3> QED BY <2>1, <2>3, <3>1, Untouched, Zenon
    <2> QED BY <2>2, <2>4, Zenon DEF SyncInv
  <1>4. ASSUME NEW a \in Addresses, InitWalletStart(r, v, a) PROVE SyncInv'
    BY <1>2, <1>4, Zenon DEF InitWalletStart, Ops
  <1>5. CASE VerifyStart(r, v) BY <1>2, <1>5, Zenon DEF VerifyStart, Ops
  <1>6. CASE OnboardStart(r, v)
    <2>1. PICK a \in PrimaryOf(v) : Begin(r, "onboard", v, a, FALSE, FALSE, "exists")
      BY <1>6, Zenon DEF OnboardStart
    <2>2. a \in Addresses /\ UNCHANGED tables BY <1>6, Zenon DEF OnboardStart, PrimaryOf, WalletsOf
    <2> QED BY <1>2, <2>1, <2>2, Zenon DEF Ops
  <1> QED BY <1>3, <1>4, <1>5, <1>6, Zenon

\* A process that ends or fails at the address write leaves its user noted.
LEMMA StopSync ==
  ASSUME IInv, SyncInv, NEW p \in Procs,
         \/ VerifySkips(p) /\ drift \subseteq drift'
         \/ (Cancel(p) \/ WriteFails(p)) /\ drift' = drift \cup Pending({p})
         \/ (LinkLookup(p) \/ ChainStep(p)) /\ drift \subseteq drift'
  PROVE  SyncInv'
  <1>1. ProcOK(proc) /\ Requests \subseteq Procs /\ Idle.stage = "idle"
    BY TypeSplit, Zenon DEF IInv, Procs, Idle
  <1>2. drift \subseteq drift' OBVIOUS
  <1>3. CASE LateStep(p)
    <2>1. /\ proc[p].stage \in Late /\ (proc'[p] = Idle \/ proc'[p].stage \in Late)
          /\ \A q \in Procs \ {p} : proc'[q] = proc[q]
          /\ UNCHANGED <<owner, primary, userAddr>>
      BY <1>1, <1>3, LateStays, Zenon
    <2>2. \A q \in Requests \ {p} : proc'[q] = proc[q] BY <1>1, <2>1, Zenon
    <2>3. /\ proc'[p].stage \notin {"clear", "insert", "setAddr", "provision"}
          /\ proc[p].stage # "setAddr"
      BY <1>1, <2>1, Zenon DEF Late
    <2> QED BY <1>2, <2>1, <2>2, <2>3, QuietSync, Zenon
  <1>4. CASE ~LateStep(p)
    <2>1. Finish(p) \/ AfterSetAddr(p)
      <3>1. WriteFails(p) => AfterSetAddr(p) BY <1>4, Zenon DEF LateStep, WriteFails, At
      <3> QED BY <1>4, <3>1, Zenon DEF LateStep, VerifySkips, Cancel
    <2>2. Finish(p) => proc'[p] = Idle /\ \A q \in Procs \ {p} : proc'[q] = proc[q]
      BY <1>1, Zenon DEF Finish, ProcOK
    <2>3. /\ proc'[p] = Idle \/ proc'[p].stage = "lookup"
          /\ \A q \in Procs \ {p} : proc'[q] = proc[q]
      BY <1>1, <2>1, <2>2, LookupExact, Zenon
    <2>4. UNCHANGED <<owner, primary, userAddr>>
      BY <1>4, Zenon DEF LateStep, VerifySkips, Cancel, WriteFails, tables
    <2>5. proc[p].stage = "setAddr" => proc[p].user \in drift'
      BY <1>4, Zenon DEF LateStep, VerifySkips, Pending, At
    <2>6. \A q \in Requests \ {p} : proc'[q] = proc[q] BY <1>1, <2>3, Zenon
    <2> QED BY <1>1, <1>2, <2>3, <2>4, <2>5, <2>6, QuietSync, Zenon
  <1> QED BY <1>3, <1>4, Zenon

\* Users stay in sync in every step.
LEMMA SyncStep == IInv /\ Unmade /\ SyncInv /\ [SyncNext]_syncVars => SyncInv'
  <1> SUFFICES ASSUME IInv, Unmade, SyncInv, [SyncNext]_syncVars PROVE SyncInv'
    OBVIOUS
  <1>1. ProcOK(proc) /\ Requests \subseteq Procs /\ Flags BY TypeSplit, Zenon DEF IInv, Procs, SyncInv
  <1>2. ASSUME UNCHANGED <<owner, primary, userAddr, proc, drift>> PROVE SyncInv'
    <2>1. Flags' BY <1>1, <1>2, FlagsKept, Zenon
    <2>2. ASSUME NEW u \in Users \ drift' PROVE InSync(u)'
      <3>1. InSync(u) /\ PrimaryOf(u)' = PrimaryOf(u) BY <1>2 DEF SyncInv, PrimaryOf, WalletsOf
      <3> QED BY <1>2, <3>1, Untouched, Zenon
    <2> QED BY <2>1, <2>2, Zenon DEF SyncInv
  <1>3. ASSUME Crash, drift' = drift \cup Pending(Procs) PROVE SyncInv'
    <2>1. Idle.stage = "idle" BY Zenon DEF Idle
    <2>2. \A r \in Requests : proc'[r] = Idle BY <1>1, <1>3, Zenon DEF Crash
    <2>3. UNCHANGED <<owner, primary, userAddr>> BY <1>3, Zenon DEF Crash, tables
    <2>4. Flags' BY <1>1, <2>1, <2>2, FlagsKept, SMTT(30)
    <2>5. ASSUME NEW u \in Users \ drift' PROVE InSync(u)'
      <3>1. InSync(u) /\ PrimaryOf(u)' = PrimaryOf(u) BY <1>3, <2>3 DEF SyncInv, PrimaryOf, WalletsOf
      <3>2. \A r \in Requests : proc[r].user # u \/ proc[r].stage # "setAddr"
        BY <1>1, <1>3, Zenon DEF Pending, At
      <3>3. \A r \in Requests : Quiet(proc'[r], u) BY <2>1, <2>2, Zenon DEF Quiet
      <3> QED BY <2>3, <3>1, <3>2, <3>3, Untouched
    <2> QED BY <2>4, <2>5 DEF SyncInv
  <1>4. CASE UNCHANGED syncVars BY <1>2, <1>4, Zenon DEF syncVars, vars, tables
  <1>5. CASE SyncNext
    <2>1. ASSUME NEW r \in Requests, NEW u \in Users, NEW a \in Addresses, NEW b \in BOOLEAN,
                 LinkStart(r, u, a, b), drift' = drift \cup Overlapped
          PROVE  SyncInv'
      BY <2>1, LinkStartSync, Zenon
    <2>2. ASSUME NEW r \in Requests, NEW u \in Users, drift' = drift \cup Overlapped,
                 \/ \E a \in Addresses : Unlink(r, u, a) \/ InitWalletStart(r, u, a)
                 \/ VerifyStart(r, u) \/ OnboardStart(r, u)
          PROVE  SyncInv'
      BY <2>2, ClientSync, Zenon
    <2>3. ASSUME NEW r \in Requests, drift' = drift \cup Overlapped,
                 \/ LinkClear(r) \/ LinkInsert(r) \/ LinkLookup(r)
                 \/ VerifyHasAny(r) \/ VerifySkips(r) \/ Provision(r)
          PROVE  SyncInv'
      <3>1. drift \subseteq drift' /\ r \in Procs BY <1>1, <2>3, Zenon
      <3> QED BY <2>3, <3>1, ClearSync, InsertSync, HasAnySync, ProvisionSync, StopSync, ZenonT(30)
    <2>4. ASSUME NEW p \in Procs,
                 \/ (Cancel(p) \/ WriteFails(p)) /\ drift' = drift \cup Pending({p})
                 \/ ChainStep(p) /\ UNCHANGED drift
          PROVE  SyncInv'
      BY <2>4, StopSync, Zenon
    <2>5. ASSUME NEW a \in Addresses, Land(a) \/ Drop(a), UNCHANGED drift PROVE SyncInv'
      BY <1>2, <2>5, Zenon DEF Land, Drop, tables
    <2>6. ASSUME NEW r \in Requests, NEW u \in Users, NEW a \in Addresses, Promote(r, u, a),
                 drift' = IF Writers(u) = {} THEN drift \ {u} ELSE drift \cup {u}
          PROVE  SyncInv'
      BY <2>6, PromoteSync, Zenon
    <2>7. ASSUME NEW r \in Requests, SetWalletAddress(r), drift' = drift \cup Blocked(r) PROVE SyncInv'
      BY <2>7, SetAddrSync, Zenon
    <2> QED BY <1>1, <1>3, <1>5, <2>1, <2>2, <2>3, <2>4, <2>5, <2>6, <2>7, ZenonT(30) DEF SyncNext, DriftNext
  <1> QED BY <1>4, <1>5, Zenon

\* However promotions, links, provisionings and unlinkings of a user interleave,
\* users.wallet_address is the primary wallet or about to become it, unless writers
\* overlapped or a write of the address was lost.
THEOREM AddressFollowsPrimary == SyncSpec => []PrimaryInSync
  <1>1. SyncInit => SyncInv /\ Unmade
    <2>1. Idle.stage = "idle" BY Zenon DEF Idle
    <2>2. Requests \subseteq Procs BY Zenon DEF Procs
    <2> QED BY <2>1, <2>2, WalletAssumption, ZenonT(30)
            DEF SyncInit, Init, SyncInv, Flags, InSync, Writes, At, PrimaryOf, WalletsOf, Unmade
  <1>2. [SyncNext]_syncVars => [Next]_vars
    BY Zenon DEF SyncNext, DriftNext, Next, ClientStep, TableStep, syncVars
  <1>3. SyncInv => PrimaryInSync BY Zenon DEF SyncInv, InSync, PrimaryInSync
  <1> QED BY <1>1, <1>2, <1>3, SyncStep, UnmadeStep, SyncIsWallets, Inductive, PTL DEF SyncSpec
=============================================================================
