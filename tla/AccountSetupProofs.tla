------------------------- MODULE AccountSetupProofs -------------------------
(***************************************************************************)
(* Proofs about the way of an account to its wallet, for every set of      *)
(* addresses, keypairs and concurrent requests, and for every fault of     *)
(* Wallets.  What WalletsProofs shows of Wallets is used for one user.     *)
(***************************************************************************)
EXTENDS AccountSetup, TLAPS

WP == INSTANCE WalletsProofs WITH Users <- {User}, drift <- {}, raced <- {}

\* The constants are such as Wallets assumes them.
LEMMA WalletConstants == WP!WalletAssumption /\ Requests \subseteq WP!Procs /\ Keypairs \cap Requests = {}
  BY AccountAssumption DEF WP!WalletAssumption, WP!FaultNames, W!FaultNames, WP!Procs

\* WalletsProofs speaks of the same steps as the module Wallets itself.
LEMMA SameNext == W!Next => WP!Next
  BY Zenon
  DEF W!Next, WP!Next, W!ClientStep, WP!ClientStep, W!TableStep, WP!TableStep, W!ChainStep,
     WP!ChainStep, W!LinkStart, WP!LinkStart, W!Promote, WP!Promote, W!Unlink, WP!Unlink,
     W!InitWalletStart, WP!InitWalletStart, W!VerifyStart, WP!VerifyStart, W!OnboardStart,
     WP!OnboardStart, W!Cancel, WP!Cancel, W!LinkClear, WP!LinkClear, W!LinkInsert,
     WP!LinkInsert, W!SetWalletAddress, WP!SetWalletAddress, W!LinkLookup, WP!LinkLookup,
     W!VerifyHasAny, WP!VerifyHasAny, W!VerifySkips, WP!VerifySkips, W!Provision, WP!Provision,
     W!OnboardExists, WP!OnboardExists, W!Register, WP!Register, W!Confirm, WP!Confirm,
     W!MarkUserOnboarded, WP!MarkUserOnboarded, W!MarkRegistered, WP!MarkRegistered,
     W!WriteFails, WP!WriteFails, W!Land, WP!Land, W!Drop, WP!Drop, W!Crash, WP!Crash,
     W!InsertAllowed, WP!InsertAllowed, W!Promoted, WP!Promoted, W!AfterSetAddr,
     WP!AfterSetAddr, W!AfterMark, WP!AfterMark, W!FirstMark, WP!FirstMark, W!CreateKeypair,
     WP!CreateKeypair, W!WalletsOf, WP!WalletsOf, W!PrimaryOf, WP!PrimaryOf, W!Known, WP!Known,
     W!Begin, WP!Begin, W!At, WP!At, W!Goto, WP!Goto, W!Finish, WP!Finish, W!Idle, WP!Idle,
     W!Procs, WP!Procs, W!tables, WP!tables, W!chain, WP!chain, W!vars, WP!vars

\* The steps that may leave the account without a wallet.
LEMMA SameEnds ==
  /\ \A r : WP!VerifySkips(r) => W!VerifySkips(r)
  /\ \A r : WP!Cancel(r) => W!Cancel(r)
  /\ WP!Crash => W!Crash
  /\ \A r, u, a : WP!Unlink(r, u, a) => W!Unlink(r, u, a)
  BY Zenon
  DEF WP!VerifySkips, W!VerifySkips, WP!Cancel, W!Cancel, WP!Crash, W!Crash, WP!Unlink, W!Unlink,
      WP!At, W!At, WP!Finish, W!Finish, WP!Idle, W!Idle, WP!Procs, W!Procs,
      WP!tables, W!tables, WP!chain, W!chain

\* The beginning of a verification, and the wallets of the account.
LEMMA SameVerify ==
  /\ W!WalletsOf(User) = WP!WalletsOf(User)
  /\ \A r \in Requests : W!VerifyStart(r, User) => WP!VerifyStart(r, User) /\ W!Next
  <1>1. W!WalletsOf(User) = WP!WalletsOf(User) BY Zenon DEF W!WalletsOf, WP!WalletsOf
  <1>2. ASSUME NEW r \in Requests, W!VerifyStart(r, User) PROVE WP!VerifyStart(r, User)
    BY <1>2, Zenon DEF W!VerifyStart, WP!VerifyStart, W!Begin, WP!Begin, W!At, WP!At,
                       W!tables, WP!tables, W!chain, WP!chain
  <1>3. ASSUME NEW r \in Requests, W!VerifyStart(r, User) PROVE W!Next
    BY <1>3, Zenon DEF W!Next, W!ClientStep
  <1> QED BY <1>1, <1>2, <1>3

-----------------------------------------------------------------------------
(* The parts.                                                              *)

\* For the wallets, a step is one of Wallets or none.
LEMMA StepsOfWallets == [Next]_vars => [W!Next]_(W!vars)
  <1> SUFFICES ASSUME [Next]_vars PROVE [W!Next]_(W!vars)
    OBVIOUS
  <1>1. UNCHANGED wallets => UNCHANGED W!vars BY DEF wallets, W!vars, W!tables, W!chain
  <1>2. CASE VerifyEmail BY <1>1, <1>2, SameVerify, Zenon DEF VerifyEmail
  <1>3. CASE AccountStep BY <1>1, <1>3 DEF AccountStep
  <1>4. CASE WalletStep BY <1>4 DEF WalletStep
  <1>5. CASE UNCHANGED vars BY <1>1, <1>5 DEF vars
  <1> QED BY <1>2, <1>3, <1>4, <1>5 DEF Next

\* The wallets of the account behave as Wallets says, with the start of the
\* provisioning tied to the activation: whatever holds of Wallets holds for them.
THEOREM SetupUsesWallets == Spec => W!Spec
  <1>1. Init => W!Init BY DEF Init
  <1> QED BY <1>1, StepsOfWallets, PTL DEF Spec, W!Spec

\* The inductive invariant of WalletsProofs is kept.
LEMMA WalletsInvStep == WP!IInv /\ [Next]_vars => WP!IInv'
  <1> SUFFICES ASSUME WP!IInv, [Next]_vars PROVE WP!IInv'
    OBVIOUS
  <1>1. [W!Next]_(W!vars) BY StepsOfWallets
  <1>2. UNCHANGED W!vars => UNCHANGED WP!vars
    BY DEF W!vars, WP!vars, W!tables, WP!tables, W!chain, WP!chain
  <1>3. [WP!Next]_(WP!vars) BY <1>1, <1>2, SameNext
  <1> QED BY <1>3, WalletConstants, WP!IInvStep

\* It holds at first.
LEMMA WalletsInvInit == Init => WP!IInv
  <1> SUFFICES ASSUME Init PROVE WP!IInv
    OBVIOUS
  <1>1. W!Init BY DEF Init
  <1>2. WP!Init BY <1>1, Zenon DEF W!Init, WP!Init, W!Procs, WP!Procs, W!Idle, WP!Idle
  <1> QED BY <1>2, WalletConstants, WP!InitIInv

\* What the database records of an account's registration is on chain, from the first
\* registration on.
THEOREM SetupMarksAreTrue == Spec => []RegisteredIsOnChain
  <1>1. WP!IInv => RegisteredIsOnChain
    BY DEF WP!IInv, WP!RegisteredIsOnChain, RegisteredIsOnChain, W!RegisteredIsOnChain
  <1> QED BY <1>1, WalletsInvInit, WalletsInvStep, PTL DEF Spec

-----------------------------------------------------------------------------
(* The wallet of a verified account.                                       *)

\* A verification is before its provisioning or at it.
VerifyStages ==
  \A r \in Requests : proc[r].op = "verify" => proc[r].stage \in {"hasAny", "provision"}

\* An account that waits for its verification has no address yet, so that the
\* verification goes on to provision one.
SetupInv ==
  /\ WP!IInv
  /\ forgone \in BOOLEAN
  /\ ~active => userAddr[User] = None
  /\ VerifyStages
  /\ VerifiedHasWallet

\* The processes of Wallets are well formed.
LEMMA SetupTypes ==
  ASSUME SetupInv
  PROVE  WP!ProcOK(proc) /\ WP!TablesOK /\ proc \in [WP!Procs -> WP!ProcType]
  BY WalletConstants, WP!TypeSplit DEF SetupInv, WP!IInv, WP!ProcOK

\* A handler that runs a verification is at one of three steps of its own.
LEMMA VerifierSteps ==
  ASSUME NEW r \in Requests, proc[r].stage \in {"hasAny", "provision"}, WP!HandlerStep(r)
  PROVE  WP!VerifyHasAny(r) \/ WP!VerifySkips(r) \/ WP!Cancel(r)
  BY Zenon DEF WP!HandlerStep, WP!LinkClear, WP!LinkInsert, WP!SetWalletAddress, WP!LinkLookup,
     WP!ChainStep, WP!OnboardExists, WP!Register, WP!Confirm, WP!MarkUserOnboarded,
     WP!MarkRegistered, WP!WriteFails, WP!At

\* What a step of Wallets owes to the invariant: the wallets' own part and the
\* conjuncts about the account are kept anyway.
LEMMA WalletStepOwes ==
  ASSUME SetupInv, WalletStep, VerifyStages',
         WP!WalletsOf(User)' = {} => forgone' \/ \E r \in Requests : proc'[r].op = "verify"
  PROVE  SetupInv'
  <1>1. WP!IInv' BY WalletsInvStep DEF SetupInv, Next
  <1>2. forgone' \in BOOLEAN BY DEF WalletStep, Beside
  <1>3. active' BY DEF WalletStep, Beside, account
  <1>4. W!WalletsOf(User)' = WP!WalletsOf(User)' BY Zenon DEF W!WalletsOf, WP!WalletsOf
  <1>5. VerifiedHasWallet' BY <1>4, Zenon DEF VerifiedHasWallet
  <1> QED BY <1>1, <1>2, <1>3, <1>5 DEF SetupInv

\* A step that begins a request other than a verification, or moves none, and keeps
\* the rows.
LEMMA OthersOwe ==
  ASSUME SetupInv, WalletStep, owner' = owner,
         \/ proc' = proc
         \/ \E r \in Requests : proc[r].stage = "idle" /\ \A q \in WP!Procs \ {r} : proc'[q] = proc[q]
  PROVE  SetupInv'
  <1>1. WP!WalletsOf(User)' = WP!WalletsOf(User) BY DEF WP!WalletsOf
  <1>2. VerifiedHasWallet /\ VerifyStages /\ active /\ (forgone => forgone')
    BY DEF SetupInv, WalletStep, Beside
  <1>3. \A r \in Requests : proc[r].op = "verify" => proc'[r] = proc[r]
    BY <1>2, WalletConstants DEF VerifyStages
  <1>4. \A r \in Requests : proc'[r].op = "verify" => proc'[r] = proc[r]
    BY WalletConstants DEF WalletStep, Beside, VerifyBegins, W!At
  <1>5. VerifyStages' BY <1>2, <1>4 DEF VerifyStages
  <1>6. WP!WalletsOf(User)' = {} => forgone' \/ \E r \in Requests : proc'[r].op = "verify"
    BY <1>1, <1>2, <1>3, SameVerify DEF VerifiedHasWallet
  <1> QED BY <1>5, <1>6, WalletStepOwes

\* A handler gives the account no wallet less, and a verification that ends with none
\* is remembered.
LEMMA HandlerOwes ==
  ASSUME SetupInv, WalletStep, NEW p \in WP!Procs, WP!HandlerStep(p)
  PROVE  SetupInv'
  <1>1. /\ WP!ProcOK(proc) /\ WP!TablesOK /\ proc \in [WP!Procs -> WP!ProcType]
        /\ VerifiedHasWallet /\ VerifyStages /\ active /\ (forgone => forgone')
    BY SetupTypes DEF SetupInv, WalletStep, Beside
  <1>2. WP!GoesOn(p) /\ proc[p].user = User
    BY <1>1, WalletConstants, WP!HandlerGoesOn
  <1>3. ASSUME p \in Requests, proc[p].op = "verify"
        PROVE  \/ proc' = [proc EXCEPT ![p] = [proc[p] EXCEPT !.stage = "provision"]]
               \/ proc'[p] = WP!Idle /\ (WP!WalletsOf(User) = {} => WP!VerifySkips(p) \/ WP!Cancel(p))
    <2>1. WP!VerifyHasAny(p) \/ WP!VerifySkips(p) \/ WP!Cancel(p)
      BY <1>1, <1>3, VerifierSteps DEF VerifyStages
    <2>2. CASE WP!VerifyHasAny(p)
      BY <1>1, <1>2, <2>2 DEF WP!VerifyHasAny, WP!Goto, WP!Finish
    <2>3. CASE WP!VerifySkips(p) \/ WP!Cancel(p)
      BY <1>1, <2>3 DEF WP!VerifySkips, WP!Cancel, WP!Finish
    <2> QED BY <2>1, <2>2, <2>3
  <1>4. WP!Idle.op = "none" BY DEF WP!Idle
  <1>5. VerifyStages'
    <2> SUFFICES ASSUME NEW r \in Requests, proc'[r].op = "verify"
                 PROVE  proc'[r].stage \in {"hasAny", "provision"}
      BY DEF VerifyStages
    <2>1. CASE r # p BY <1>1, <1>2, <2>1, WalletConstants DEF WP!GoesOn, VerifyStages
    <2>2. CASE r = p
      <3>1. proc[r].op = "verify" BY <1>2, <1>4, <2>2 DEF WP!GoesOn
      <3> QED BY <1>1, <1>3, <1>4, <2>2, <3>1, WalletConstants DEF WP!ProcType
    <2> QED BY <2>1, <2>2
  <1>6. ASSUME WP!WalletsOf(User)' = {}
        PROVE  forgone' \/ \E r \in Requests : proc'[r].op = "verify"
    <2>1. WP!WalletsOf(User) = {}
      <3>1. \/ owner' = owner
            \/ owner' = [owner EXCEPT ![proc[p].addr] = proc[p].user]
        BY <1>1, WalletConstants, WP!HandlerOwns
      <3> QED BY <1>1, <1>2, <1>6, <3>1 DEF WP!WalletsOf, WP!TablesOK
    <2>2. CASE forgone BY <1>1, <2>2
    <2>3. CASE \E r \in Requests : proc[r].op = "verify"
      <3>1. PICK r \in Requests : proc[r].op = "verify" BY <2>3
      <3>2. CASE r # p BY <1>2, <3>1, <3>2, WalletConstants DEF WP!GoesOn
      <3>3. CASE r = p /\ proc'[r] # WP!Idle
        <4>1. proc' = [proc EXCEPT ![r] = [proc[r] EXCEPT !.stage = "provision"]] BY <1>3, <3>1, <3>3
        <4>2. proc'[r].op = "verify" BY <1>1, <3>1, <4>1, WalletConstants DEF WP!ProcType
        <4> QED BY <4>2
      <3>4. CASE r = p /\ proc'[r] = WP!Idle
        <4>1. WP!VerifySkips(r) \/ WP!Cancel(r)
          <5>1. CASE proc' = [proc EXCEPT ![p] = [proc[p] EXCEPT !.stage = "provision"]]
            BY <1>1, <1>4, <3>1, <3>4, <5>1 DEF WP!ProcType
          <5> QED BY <1>3, <2>1, <3>1, <3>4, <5>1
        <4>2. VerifyLost BY <3>1, <4>1, SameEnds DEF VerifyLost
        <4> QED BY <2>1, <4>2, SameVerify, Zenon DEF WalletStep, Beside
      <3> QED BY <3>2, <3>3, <3>4
    <2> QED BY <1>1, <2>1, <2>2, <2>3, SameVerify DEF VerifiedHasWallet
  <1> QED BY <1>5, <1>6, WalletStepOwes

\* Unlinking the last wallet is remembered.
LEMMA UnlinkOwes ==
  ASSUME SetupInv, WalletStep, NEW r \in Requests, NEW a \in Addresses, WP!Unlink(r, User, a)
  PROVE  SetupInv'
  <1>1. W!WalletsOf(User)' = WP!WalletsOf(User)' BY Zenon DEF W!WalletsOf, WP!WalletsOf
  <1>2. WP!WalletsOf(User)' = {} => forgone'
    BY <1>1, SameEnds, Zenon DEF WalletStep, Beside, UnlinksLast
  <1>3. VerifyStages' BY DEF SetupInv, VerifyStages, WP!Unlink
  <1> QED BY <1>2, <1>3, WalletStepOwes

\* A provisioning ends with a wallet.
LEMMA ProvisionOwes ==
  ASSUME SetupInv, WalletStep, NEW r \in Requests, WP!Provision(r)
  PROVE  SetupInv'
  <1>1. /\ WP!ProcOK(proc) /\ WP!TablesOK /\ proc \in [WP!Procs -> WP!ProcType] /\ VerifyStages
    BY SetupTypes DEF SetupInv
  <1>2. PICK k \in Keypairs :
          /\ owner' = [owner EXCEPT ![k] = proc[r].user]
          /\ \E new : proc' = [proc EXCEPT ![r] = WP!Idle, ![k] = new]
    BY ZenonT(30) DEF WP!Provision
  <1>3. proc[r].user = User BY <1>1, WalletConstants DEF WP!Provision, WP!At, WP!ProcOK
  <1>4. k \in Addresses /\ k \notin Requests BY WalletConstants DEF WP!WalletAssumption
  <1>5. WP!WalletsOf(User)' # {} BY <1>1, <1>2, <1>3, <1>4 DEF WP!WalletsOf, WP!TablesOK
  <1>6. VerifyStages'
    <2>1. WP!Idle.op = "none" BY DEF WP!Idle
    <2>2. \A q \in Requests : proc'[q] = IF q = r THEN WP!Idle ELSE proc[q]
      BY <1>1, <1>2, <1>4, WalletConstants
    <2> QED BY <1>1, <2>1, <2>2 DEF VerifyStages
  <1> QED BY <1>5, <1>6, WalletStepOwes

\* A crash that ends a verification is remembered.
LEMMA CrashOwes ==
  ASSUME SetupInv, WalletStep, WP!Crash
  PROVE  SetupInv'
  <1>1. WP!Idle.op = "none" BY DEF WP!Idle
  <1>2. \A r \in Requests : proc'[r] = WP!Idle BY WalletConstants DEF WP!Crash
  <1>3. VerifyStages' BY <1>1, <1>2 DEF VerifyStages
  <1>4. W!Crash BY SameEnds
  <1>5. WP!WalletsOf(User)' = WP!WalletsOf(User) BY DEF WP!Crash, WP!tables, WP!WalletsOf
  <1>6. WP!WalletsOf(User)' = {} => forgone'
    BY <1>4, <1>5, SameVerify, Zenon DEF SetupInv, VerifiedHasWallet, WalletStep, Beside, VerifyLost
  <1> QED BY <1>3, <1>6, WalletStepOwes

\* The handlers, tasks, clients and the chain keep the invariant.
LEMMA WalletStepInv == SetupInv /\ WalletStep => SetupInv'
  <1> SUFFICES ASSUME SetupInv, WalletStep PROVE SetupInv'
    OBVIOUS
  <1>1. WP!Next BY SameNext DEF WalletStep
  <1>2. WP!IInv BY DEF SetupInv
  <1>3. ASSUME NEW r \in Requests, WP!ClientStep(r) PROVE SetupInv'
    <2>1. ASSUME NEW a \in Addresses, WP!Unlink(r, User, a) PROVE SetupInv'
      BY <2>1, UnlinkOwes
    <2>2. CASE WP!Cancel(r) BY <2>2, WalletConstants, HandlerOwes DEF WP!HandlerStep
    <2>3. ASSUME \/ \E a \in Addresses, b \in BOOLEAN : WP!LinkStart(r, User, a, b)
                 \/ \E a \in Addresses : WP!Promote(r, User, a) \/ WP!InitWalletStart(r, User, a)
                 \/ WP!VerifyStart(r, User) \/ WP!OnboardStart(r, User)
          PROVE  SetupInv'
      <3>1. owner' = owner /\ proc[r].stage = "idle"
        BY <2>3, Zenon DEF WP!LinkStart, WP!Promote, WP!InitWalletStart, WP!VerifyStart,
                           WP!OnboardStart, WP!Begin, WP!At, WP!tables
      <3>2. CASE proc' = proc BY <3>1, <3>2, OthersOwe
      <3>3. CASE proc' # proc
        <4>1. WP!Starts(r) BY <1>2, <2>3, <3>3, WalletConstants, WP!ClientStarts
        <4> QED BY <3>1, <4>1, OthersOwe DEF WP!Starts
      <3> QED BY <3>2, <3>3
    <2> QED BY <1>3, <2>1, <2>2, <2>3 DEF WP!ClientStep
  <1>4. ASSUME NEW r \in Requests, WP!TableStep(r) PROVE SetupInv'
    BY <1>4, WalletConstants, HandlerOwes, ProvisionOwes DEF WP!TableStep, WP!HandlerStep
  <1>5. ASSUME NEW p \in WP!Procs, WP!ChainStep(p) \/ WP!WriteFails(p) PROVE SetupInv'
    BY <1>5, HandlerOwes DEF WP!HandlerStep
  <1>6. ASSUME NEW a \in Addresses, WP!Land(a) \/ WP!Drop(a) PROVE SetupInv'
    <2>1. owner' = owner /\ proc' = proc BY <1>6, Zenon DEF WP!Land, WP!Drop, WP!tables
    <2> QED BY <2>1, OthersOwe
  <1>7. CASE WP!Crash BY <1>7, CrashOwes
  <1> QED BY <1>1, <1>3, <1>4, <1>5, <1>6, <1>7 DEF WP!Next

\* The activation begins a verification, unless the account had its wallet before.
LEMMA VerifyEmailInv == SetupInv /\ VerifyEmail => SetupInv'
  <1> SUFFICES ASSUME SetupInv, VerifyEmail PROVE SetupInv'
    OBVIOUS
  <1>1. WP!IInv' BY WalletsInvStep DEF SetupInv, Next
  <1>2. active' /\ forgone' = forgone BY DEF VerifyEmail, A!Verify
  <1>3. /\ WP!ProcOK(proc) /\ proc \in [WP!Procs -> WP!ProcType]
        /\ VerifiedHasWallet /\ VerifyStages /\ forgone \in BOOLEAN
    BY SetupTypes DEF SetupInv
  <1>4. CASE userAddr[User] # None
    <2>1. UNCHANGED wallets /\ active BY <1>4 DEF VerifyEmail, SetupInv
    <2>2. VerifyStages' BY <1>3, <2>1 DEF VerifyStages, wallets
    <2>3. VerifiedHasWallet' BY <1>2, <1>3, <2>1 DEF VerifiedHasWallet, W!WalletsOf, wallets
    <2> QED BY <1>1, <1>2, <1>3, <2>2, <2>3 DEF SetupInv
  <1>5. CASE userAddr[User] = None
    <2>1. PICK r \in Requests : WP!VerifyStart(r, User) BY <1>5, SameVerify DEF VerifyEmail
    <2> DEFINE new == [op |-> "verify", stage |-> "hasAny", user |-> User, addr |-> None,
                       flag |-> FALSE, sync |-> FALSE]
    <2>2. proc' = [proc EXCEPT ![r] = new] BY <2>1, Zenon DEF WP!VerifyStart, WP!Begin
    <2>3. new.op = "verify" /\ new.stage = "hasAny" OBVIOUS
    <2> HIDE DEF new
    <2>4. VerifyStages' BY <1>3, <2>2, <2>3, WalletConstants DEF VerifyStages
    <2>5. proc'[r].op = "verify" BY <1>3, <2>2, <2>3, WalletConstants
    <2>6. VerifiedHasWallet' BY <2>5, Zenon DEF VerifiedHasWallet
    <2> QED BY <1>1, <1>2, <1>3, <2>4, <2>6 DEF SetupInv
  <1> QED BY <1>4, <1>5

\* Every step keeps the invariant.
LEMMA SetupInvStep == SetupInv /\ [Next]_vars => SetupInv'
  <1> SUFFICES ASSUME SetupInv, [Next]_vars PROVE SetupInv'
    OBVIOUS
  <1>1. CASE VerifyEmail BY <1>1, VerifyEmailInv
  <1>2. CASE WalletStep BY <1>2, WalletStepInv
  <1>3. CASE AccountStep \/ UNCHANGED vars
    <2>1. WP!IInv' BY WalletsInvStep DEF SetupInv
    <2>2. active' = active /\ forgone' = forgone /\ UNCHANGED wallets
      BY <1>3 DEF AccountStep, Create, A!Follow, A!Abandon, vars, account
    <2> QED BY <2>1, <2>2 DEF SetupInv, VerifyStages, VerifiedHasWallet, W!WalletsOf, wallets
  <1> QED BY <1>1, <1>2, <1>3 DEF Next

\* It holds at first.
LEMMA SetupInvInit == Init => SetupInv
  <1> SUFFICES ASSUME Init PROVE SetupInv
    OBVIOUS
  <1>1. WP!IInv BY WalletsInvInit
  <1>2. ~active /\ forgone = FALSE BY DEF Init, A!Init
  <1>3. userAddr[User] = None BY DEF Init, W!Init
  <1>4. VerifyStages
    <2>1. W!Idle.op = "none" BY DEF W!Idle
    <2> QED BY <2>1 DEF Init, W!Init, W!Procs, VerifyStages
  <1> QED BY <1>1, <1>2, <1>3, <1>4, Zenon DEF SetupInv, VerifiedHasWallet

\* An active account has a wallet or gets one, with any number of links opened at a
\* time, next to all the calls of its owner: it is without one only after a
\* verification that failed, was dropped or died, or when the owner has unlinked it.
THEOREM VerifiedAccountsHaveWallets == Spec => []VerifiedHasWallet
  <1>1. SetupInv => VerifiedHasWallet BY DEF SetupInv
  <1> QED BY <1>1, SetupInvInit, SetupInvStep, PTL DEF Spec
=============================================================================
