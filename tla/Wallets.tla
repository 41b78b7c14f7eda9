------------------------------ MODULE Wallets ------------------------------
(***************************************************************************)
(* The wallets of the users and their registration on chain: link_wallet,  *)
(* set_primary_wallet, unlink_wallet, the provisioning branch of           *)
(* verify_email with its detached task, onboard_user_on_chain and          *)
(* initialize_user_wallet, over the tables user_wallets and users and the  *)
(* Registry program behind Chain Bridge.                                   *)
(*                                                                         *)
(* A step is one database statement, one transaction or one call to the    *)
(* chain: between two steps of a handler any other process may act, and    *)
(* the handler may be dropped.  Publishing an event (EventRelay) and the   *)
(* profile cache are not part of this module.                              *)
(***************************************************************************)
EXTENDS Naturals, FiniteSets

CONSTANTS
  Users,
  Addresses,   \* valid Solana addresses
  Keypairs,    \* the addresses that create_keypair yields; bounds provisioning
  Requests,    \* concurrent requests; a slot is free again when its request ends
  Calls,       \* bound: the operations the clients call
  Faults,      \* which of FaultNames happen
  None

\* A failed lookup on chain, a failed write of users.wallet_address or of a
\* registration mark, a failed step of verify_email, a Chain Bridge that is down
\* all the time, a request lost before it spawns its task, a dropped request, and
\* a crash.
FaultNames == {"lookup", "addr", "mark", "verify", "bridge", "spawn", "drop", "crash"}

ASSUME WalletAssumption ==
  /\ Keypairs \subseteq Addresses
  /\ Requests \cap Addresses = {}
  /\ None \notin Users \cup Addresses
  /\ Calls \subseteq {"link", "promote", "unlink", "verify", "onboard", "init"}
  /\ Faults \subseteq FaultNames

VARIABLES
  owner,       \* owner[a]: user_id of the user_wallets row with address a, or None
  primary,     \* addresses whose row has is_primary
  registered,  \* addresses whose row has blockchain_registered
  userAddr,    \* userAddr[u]: users.wallet_address
  keyOf,       \* keyOf[u]: the address whose key users.encrypted_private_key holds
  userPda,     \* userPda[u]: the address whose account users.user_account_pda names,
               \* None while users.blockchain_registered is false
  mintedFor,   \* mintedFor[k]: the user keypair k was provisioned for, or None
  mempool,     \* addresses with a registration transaction in flight
  pda,         \* addresses whose user account exists on chain
  proc         \* proc[p]: what request p, or the detached task of keypair p, does

tables == <<owner, primary, registered, userAddr, keyOf, userPda, mintedFor>>
chain == <<mempool, pda>>
vars == <<tables, chain, proc>>

Procs == Requests \cup Keypairs
Ops == {"none", "link", "promote", "verify", "onboard", "init", "task"}
Stages == {"idle", "clear", "insert", "setAddr", "lookup", "hasAny", "provision",
           "exists", "register", "confirm", "markUser", "markWallet"}

\* A process: what it runs, for whom, on which address; `flag' is is_primary,
\* `sync' whether link_wallet will write users.wallet_address.
ProcType == [op : Ops, stage : Stages, user : Users \cup {None},
             addr : Addresses \cup {None}, flag : BOOLEAN, sync : BOOLEAN]

Idle == [op |-> "none", stage |-> "idle", user |-> None, addr |-> None,
         flag |-> FALSE, sync |-> FALSE]

WalletsOf(u) == {a \in Addresses : owner[a] = u}
PrimaryOf(u) == WalletsOf(u) \cap primary

TypeOK ==
  /\ owner \in [Addresses -> Users \cup {None}]
  /\ \A a \in primary \cup registered : a \in Addresses /\ owner[a] # None
  /\ userAddr \in [Users -> Addresses \cup {None}]
  /\ keyOf \in [Users -> Keypairs \cup {None}]
  /\ userPda \in [Users -> Addresses \cup {None}]
  /\ mintedFor \in [Keypairs -> Users \cup {None}]
  /\ mempool \subseteq Addresses /\ pda \subseteq Addresses
  /\ proc \in [Procs -> ProcType]
  /\ \A p \in Procs : proc[p].stage # "idle" => proc[p].user \in Users
  /\ \A p \in Procs : proc[p].stage \notin {"idle", "hasAny", "provision"} => proc[p].addr \in Addresses

Init ==
  /\ owner = [a \in Addresses |-> None]
  /\ primary = {} /\ registered = {}
  /\ userAddr = [u \in Users |-> None]
  /\ keyOf = [u \in Users |-> None]
  /\ userPda = [u \in Users |-> None]
  /\ mintedFor = [k \in Keypairs |-> None]
  /\ mempool = {} /\ pda = {}
  /\ proc = [p \in Procs |-> Idle]

-----------------------------------------------------------------------------
Goto(p, stage) == proc' = [proc EXCEPT ![p].stage = stage]
Finish(p) == proc' = [proc EXCEPT ![p] = Idle]
At(p, stage) == proc[p].stage = stage
Begin(r, op, u, a, flag, sync, stage) ==
  /\ op \in Calls
  /\ At(r, "idle")
  /\ proc' = [proc EXCEPT ![r] =
       [op |-> op, stage |-> stage, user |-> u, addr |-> a, flag |-> flag, sync |-> sync]]

\* Keypairs are known to nobody before create_keypair makes them.
Known == {a \in Addresses : a \in Keypairs => mintedFor[a] # None}

-----------------------------------------------------------------------------
(* link_wallet.                                                            *)

\* The address parses; has_any_wallet decides what is to be cleared and set.
LinkStart(r, u, a, isPrimary) ==
  LET hasExisting == WalletsOf(u) # {} IN
  /\ a \in Known
  /\ Begin(r, "link", u, a, isPrimary, isPrimary \/ ~hasExisting,
           IF hasExisting /\ isPrimary THEN "clear" ELSE "insert")
  /\ UNCHANGED <<tables, chain>>

\* clear_primary, a statement of its own.
LinkClear(r) ==
  /\ At(r, "clear")
  /\ primary' = primary \ WalletsOf(proc[r].user)
  /\ Goto(r, "insert")
  /\ UNCHANGED <<owner, registered, userAddr, keyOf, userPda, mintedFor, chain>>

\* Mutant: the schema lacks the partial index.
InsertAddressUnique(u, a, isPrimary) == owner[a] = None

\* The unique constraints of user_wallets: one row per address, and the partial
\* index idx_user_wallets_primary, one primary row per user.
InsertAllowed(u, a, isPrimary) == owner[a] = None /\ (isPrimary => PrimaryOf(u) = {})

\* wallet_repo.insert, or its Conflict.
LinkInsert(r) ==
  LET u == proc[r].user  a == proc[r].addr  isPrimary == proc[r].flag IN
  /\ At(r, "insert")
  /\ IF InsertAllowed(u, a, isPrimary)
       THEN /\ owner' = [owner EXCEPT ![a] = u]
            /\ primary' = IF isPrimary THEN primary \cup {a} ELSE primary
            /\ Goto(r, IF proc[r].sync THEN "setAddr" ELSE "lookup")
       ELSE Finish(r) /\ UNCHANGED <<owner, primary>>
  /\ UNCHANGED <<registered, userAddr, keyOf, userPda, mintedFor, chain>>

\* link_wallet goes on to the on-chain branch, set_primary_wallet returns.
AfterSetAddr(r) ==
  IF proc[r].op = "link"
    THEN proc' = [proc EXCEPT ![r].stage = "lookup", ![r].flag = FALSE, ![r].sync = FALSE]
    ELSE Finish(r)

\* Mutant: set_wallet_address only fills an empty column.
SetWalletAddressOnce(r) ==
  LET u == proc[r].user  a == proc[r].addr IN
  /\ At(r, "setAddr")
  /\ userAddr' = IF userAddr[u] = None THEN [userAddr EXCEPT ![u] = a] ELSE userAddr
  /\ AfterSetAddr(r)
  /\ UNCHANGED <<owner, primary, registered, keyOf, userPda, mintedFor, chain>>

\* set_wallet_address: users.wallet_address is UNIQUE, a violation is swallowed.
SetWalletAddress(r) ==
  LET u == proc[r].user  a == proc[r].addr IN
  /\ At(r, "setAddr")
  /\ userAddr' = IF \A v \in Users \ {u} : userAddr[v] # a
                   THEN [userAddr EXCEPT ![u] = a] ELSE userAddr
  /\ AfterSetAddr(r)
  /\ UNCHANGED <<owner, primary, registered, keyOf, userPda, mintedFor, chain>>

\* find_by_id: an onboarded user's new wallet is registered at once.
LinkLookup(r) ==
  /\ At(r, "lookup")
  /\ IF userPda[proc[r].user] # None THEN Goto(r, "register") ELSE Finish(r)
  /\ UNCHANGED <<tables, chain>>

-----------------------------------------------------------------------------
(* set_primary_wallet and unlink_wallet.                                   *)

\* Mutant: the second UPDATE looks for a row that is primary already.
PromotedNone(u, a) == primary \ WalletsOf(u)

\* The transaction of WalletRepository::set_primary commits its first UPDATE
\* also when the second one matches no row.
Promoted(u, a) == (primary \ WalletsOf(u)) \cup ({a} \cap WalletsOf(u))

Promote(r, u, a) ==
  /\ primary' = Promoted(u, a)
  /\ IF owner[a] = u
       THEN Begin(r, "promote", u, a, TRUE, TRUE, "setAddr")
       ELSE "promote" \in Calls /\ At(r, "idle") /\ UNCHANGED proc
  /\ UNCHANGED <<owner, registered, userAddr, keyOf, userPda, mintedFor, chain>>

\* Mutant: the DELETE lacks AND is_primary = false.
UnlinkAny(r, u, a) ==
  /\ "unlink" \in Calls
  /\ At(r, "idle")
  /\ owner[a] = u
  /\ owner' = [owner EXCEPT ![a] = None]
  /\ registered' = registered \ {a} /\ primary' = primary \ {a}
  /\ UNCHANGED <<userAddr, keyOf, userPda, mintedFor, chain, proc>>

\* delete_if_not_primary is one statement; the rest only picks the error.
Unlink(r, u, a) ==
  /\ "unlink" \in Calls
  /\ At(r, "idle")
  /\ owner[a] = u /\ a \notin primary
  /\ owner' = [owner EXCEPT ![a] = None]
  /\ registered' = registered \ {a}
  /\ UNCHANGED <<primary, userAddr, keyOf, userPda, mintedFor, chain, proc>>

-----------------------------------------------------------------------------
(* verify_email: the custodial wallet.                                     *)

\* Mutant: the address on the users row is not looked at.
VerifyStartAlways(r, u) ==
  /\ Begin(r, "verify", u, None, FALSE, FALSE, "hasAny")
  /\ UNCHANGED <<tables, chain>>

\* UPDATE users ... RETURNING: a user that has an address is left alone.
VerifyStart(r, u) ==
  /\ userAddr[u] = None
  /\ Begin(r, "verify", u, None, FALSE, FALSE, "hasAny")
  /\ UNCHANGED <<tables, chain>>

VerifyHasAny(r) ==
  /\ At(r, "hasAny")
  /\ IF WalletsOf(proc[r].user) = {} THEN Goto(r, "provision") ELSE Finish(r)
  /\ UNCHANGED <<tables, chain>>

\* An error of has_any_wallet reads as "has a wallet", and one of the provisioning
\* (encryption, or the transaction, which rolls back) is logged: the account is
\* verified all the same, without a wallet.
VerifySkips(r) ==
  /\ "verify" \in Faults
  /\ proc[r].stage \in {"hasAny", "provision"}
  /\ Finish(r)
  /\ UNCHANGED <<tables, chain>>

\* create_keypair never repeats itself; which unused name it takes is immaterial.
CreateKeypair == CHOOSE k \in Keypairs : mintedFor[k] = None

\* Mutant: the transaction writes the key and the address, and no wallet row.
ProvisionKeyOnly(r) ==
  LET u == proc[r].user IN
  /\ At(r, "provision")
  /\ \E k \in Keypairs :
       /\ mintedFor[k] = None /\ k = CreateKeypair
       /\ mintedFor' = [mintedFor EXCEPT ![k] = u]
       /\ userAddr' = [userAddr EXCEPT ![u] = k]
       /\ keyOf' = [keyOf EXCEPT ![u] = k]
  /\ Finish(r)
  /\ UNCHANGED <<owner, primary, registered, userPda, chain>>

\* persist_custodial_wallet, one transaction; then the registration task is
\* spawned, unless the request is dropped between the commit and the spawn.
Provision(r) ==
  LET u == proc[r].user IN
  /\ At(r, "provision")
  /\ \E k \in Keypairs :
       /\ mintedFor[k] = None /\ k = CreateKeypair
       /\ mintedFor' = [mintedFor EXCEPT ![k] = u]
       /\ owner' = [owner EXCEPT ![k] = u]
       /\ primary' = (primary \ WalletsOf(u)) \cup {k}
       /\ userAddr' = [userAddr EXCEPT ![u] = k]
       /\ keyOf' = [keyOf EXCEPT ![u] = k]
       /\ \E spawned \in {TRUE, "spawn" \notin Faults} :
            proc' = [proc EXCEPT ![r] = Idle,
                                 ![k] = IF spawned
                                          THEN [Idle EXCEPT !.op = "task", !.stage = "register",
                                                            !.user = u, !.addr = k]
                                          ELSE Idle]
  /\ UNCHANGED <<registered, userPda, chain>>

-----------------------------------------------------------------------------
(* On-chain registration.                                                  *)

\* onboard_user_on_chain: find_primary_address; nothing to do without one.
OnboardStart(r, u) ==
  /\ \E a \in PrimaryOf(u) : Begin(r, "onboard", u, a, FALSE, FALSE, "exists")
  /\ UNCHANGED <<tables, chain>>

\* initialize_user_wallet takes the address from its caller.
InitWalletStart(r, u, a) ==
  /\ a \in Known
  /\ Begin(r, "init", u, a, FALSE, FALSE, "register")
  /\ UNCHANGED <<tables, chain>>

\* onboard_user_on_chain records the user first, everyone else the wallet.
FirstMark(p) == IF proc[p].op = "onboard" THEN "markUser" ELSE "markWallet"

\* Mutant: an existing account ends the call without healing the marks.
OnboardExistsNoHeal(p) ==
  /\ At(p, "exists")
  /\ \/ proc[p].addr \in pda /\ Finish(p)
     \/ ("lookup" \in Faults \/ proc[p].addr \notin pda) /\ Goto(p, "register")
  /\ UNCHANGED <<tables, chain>>

\* account_exists before submitting; an error reads as absent.
OnboardExists(p) ==
  /\ At(p, "exists")
  /\ \/ proc[p].addr \in pda /\ Goto(p, FirstMark(p))
     \/ ("lookup" \in Faults \/ proc[p].addr \notin pda) /\ Goto(p, "register")
  /\ UNCHANGED <<tables, chain>>

\* register_user_on_chain: a signature is optimistic, an error or a timeout
\* may hide a submitted transaction, and the retry may submit it again.
Register(p) ==
  /\ At(p, "register")
  /\ \/ "bridge" \notin Faults /\ Goto(p, "confirm")
     \/ Finish(p)
  /\ \/ "bridge" \notin Faults /\ mempool' = mempool \cup {proc[p].addr}
     \/ UNCHANGED mempool
  /\ UNCHANGED <<tables, pda>>

\* Mutant: the signature is taken for a confirmation.
ConfirmOptimistic(p) ==
  /\ At(p, "confirm")
  /\ Goto(p, FirstMark(p)) \/ Finish(p)
  /\ UNCHANGED <<tables, chain>>

\* confirm_registered: the account shows up within the polls, or it does not.
Confirm(p) ==
  /\ At(p, "confirm")
  /\ \/ proc[p].addr \in pda /\ Goto(p, FirstMark(p))
     \/ Finish(p)
  /\ UNCHANGED <<tables, chain>>

\* What follows a mark, written or failed.
AfterMark(p) ==
  CASE proc[p].op = "onboard" /\ At(p, "markUser") -> Goto(p, "markWallet")
    [] proc[p].op = "task" /\ At(p, "markWallet") -> Goto(p, "markUser")
    [] OTHER -> Finish(p)

MarkUserOnboarded(p) ==
  /\ At(p, "markUser")
  /\ userPda' = [userPda EXCEPT ![proc[p].user] = proc[p].addr]
  /\ AfterMark(p)
  /\ UNCHANGED <<owner, primary, registered, userAddr, keyOf, mintedFor, chain>>

\* mark_registered: UPDATE ... WHERE user_id AND wallet_address, maybe no row.
MarkRegistered(p) ==
  /\ At(p, "markWallet")
  /\ registered' = registered \cup ({proc[p].addr} \cap WalletsOf(proc[p].user))
  /\ AfterMark(p)
  /\ UNCHANGED <<owner, primary, userAddr, keyOf, userPda, mintedFor, chain>>

\* The chain executes a submitted transaction, or drops it.
Land(a) ==
  /\ a \in mempool
  /\ mempool' = mempool \ {a}
  /\ pda' = pda \cup {a}
  /\ UNCHANGED <<tables, proc>>

Drop(a) ==
  /\ a \in mempool
  /\ mempool' = mempool \ {a}
  /\ UNCHANGED <<tables, pda, proc>>

-----------------------------------------------------------------------------
(* Faults.                                                                 *)

\* A write whose error is swallowed does not happen, and the handler goes on.
WriteFails(p) ==
  /\ \/ "addr" \in Faults /\ At(p, "setAddr") /\ AfterSetAddr(p)
     \/ "mark" \in Faults /\ proc[p].stage \in {"markUser", "markWallet"} /\ AfterMark(p)
  /\ UNCHANGED <<tables, chain>>

\* The request is dropped by TimeoutLayer, or one of its `?' returns an error.
Cancel(r) ==
  /\ "drop" \in Faults
  /\ ~At(r, "idle")
  /\ Finish(r)
  /\ UNCHANGED <<tables, chain>>

\* The process dies with everything in flight; tables and chain stay.
Crash ==
  /\ "crash" \in Faults
  /\ \E p \in Procs : ~At(p, "idle")
  /\ proc' = [p \in Procs |-> Idle]
  /\ UNCHANGED <<tables, chain>>

-----------------------------------------------------------------------------
\* What the clients call, and the end of a request they no longer wait for.
ClientStep(r) ==
  \/ \E u \in Users, a \in Addresses, b \in BOOLEAN : LinkStart(r, u, a, b)
  \/ \E u \in Users, a \in Addresses : Promote(r, u, a) \/ Unlink(r, u, a) \/ InitWalletStart(r, u, a)
  \/ \E u \in Users : VerifyStart(r, u) \/ OnboardStart(r, u)
  \/ Cancel(r)

\* A handler at the tables, and a handler or a task at the chain.
TableStep(r) ==
  \/ LinkClear(r) \/ LinkInsert(r) \/ SetWalletAddress(r) \/ LinkLookup(r)
  \/ VerifyHasAny(r) \/ VerifySkips(r) \/ Provision(r)

ChainStep(p) ==
  OnboardExists(p) \/ Register(p) \/ Confirm(p) \/ MarkUserOnboarded(p) \/ MarkRegistered(p)

Next ==
  \/ \E r \in Requests : ClientStep(r) \/ TableStep(r)
  \/ \E p \in Procs : ChainStep(p) \/ WriteFails(p)
  \/ \E a \in Addresses : Land(a) \/ Drop(a)
  \/ Crash

Spec == Init /\ [][Next]_vars

\* The steps of an onboarding that get it further; see AccountSetup.
Onboards(r) == proc[r].op = "onboard"
Submits(r) == Onboards(r) /\ Register(r) /\ At(r, "confirm")' /\ proc[r].addr \in mempool'
Sees(r) == OnboardExists(r) /\ At(r, "markUser")'

-----------------------------------------------------------------------------
(* Properties.                                                             *)

\* A user never has two primary wallets, whatever promotions, links and
\* provisionings overlap: the mint recipient of get_primary_wallet_address is
\* unambiguous.
AtMostOnePrimary ==
  \A u \in Users : \A a, b \in PrimaryOf(u) : a = b

\* Nothing is recorded as registered that is not on chain: a wallet row marked
\* registered has its account, and so has the address a user was onboarded with.
RegisteredIsOnChain ==
  /\ registered \subseteq pda
  /\ \A u \in Users : userPda[u] # None => userPda[u] \in pda

\* A primary wallet is never unlinked, and no step hands a wallet from one user
\* to another: it has to be unlinked first.
PrimaryNeverUnlinked ==
  [][\A a \in Addresses : owner[a] # None /\ owner'[a] # owner[a] =>
       owner'[a] = None /\ a \notin primary]_vars
=============================================================================
