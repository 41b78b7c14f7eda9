---------------------------- MODULE AccountSetup ----------------------------
(***************************************************************************)
(* The way of one account from register to a primary wallet registered on  *)
(* chain: Activation, which EmailVerification implements, side by side     *)
(* with Wallets, joined where verify_email activates the account and goes  *)
(* on to provision a wallet.  Wallets cannot tell when a link works and    *)
(* when none does, so that here one may work whenever the account exists.  *)
(*                                                                         *)
(* The wallet calls are those of the account's owner, who can sign in only *)
(* once the account is active.                                             *)
(***************************************************************************)
EXTENDS Naturals

CONSTANTS User, Addresses, Keypairs, Requests, Calls, Faults, None

VARIABLES
  created, active, followed,
  owner, primary, registered, userAddr, keyOf, userPda, mintedFor, mempool, pda, proc,
  forgone     \* history: whether a verification ended without its wallet, or the
              \* owner unlinked the last one

account == <<created, active, followed>>
wallets == <<owner, primary, registered, userAddr, keyOf, userPda, mintedFor, mempool, pda, proc>>
vars == <<account, wallets, forgone>>

A == INSTANCE Activation WITH open <- created
W == INSTANCE Wallets WITH Users <- {User}

ASSUME AccountAssumption ==
  /\ Keypairs \subseteq Addresses
  /\ Requests \cap Addresses = {}
  /\ None \notin {User} \cup Addresses
  /\ Calls \subseteq {"link", "promote", "unlink", "verify", "onboard", "init"}
  /\ Faults \subseteq W!FaultNames

Init == A!Init /\ W!Init /\ forgone = FALSE

-----------------------------------------------------------------------------
\* verify_email: the UPDATE that activates the account returns its address, and
\* without one the request goes on to has_any_wallet.
VerifyEmail ==
  /\ A!Verify
  /\ IF userAddr[User] = None
       THEN \E r \in Requests : W!VerifyStart(r, User)
       ELSE UNCHANGED wallets
  /\ UNCHANGED forgone

\* register.
Create == ~created /\ created' = TRUE /\ UNCHANGED <<active, followed>>

\* register, and the lookups of verify_email.
AccountStep == (Create \/ A!Follow \/ A!Abandon) /\ UNCHANGED <<wallets, forgone>>

\* A verification of Wallets begins; that is a part of VerifyEmail only.
VerifyBegins == \E r \in Requests : W!At(r, "idle") /\ proc'[r].op = "verify"

\* A verification ends without a wallet: one of its steps fails, or the request is
\* dropped, or the process dies with it.
VerifyLost ==
  \/ \E r \in Requests : W!VerifySkips(r) \/ (proc[r].op = "verify" /\ W!Cancel(r))
  \/ W!Crash /\ \E r \in Requests : proc[r].op = "verify"

UnlinksLast ==
  /\ \E r \in Requests, a \in Addresses : W!Unlink(r, User, a)
  /\ W!WalletsOf(User)' = {}

\* What a step of Wallets leaves alone, and what it means for the history.
Beside ==
  /\ active
  /\ ~VerifyBegins
  /\ forgone' = (forgone \/ (W!WalletsOf(User) = {} /\ VerifyLost) \/ UnlinksLast)
  /\ UNCHANGED account

\* The requests of the owner, the tasks, and the chain.
WalletStep == W!Next /\ Beside

Next == VerifyEmail \/ AccountStep \/ WalletStep

Spec == Init /\ [][Next]_vars

-----------------------------------------------------------------------------
(* Fairness.                                                               *)

\* The owner takes the next step: they link a wallet if they have none, make one the
\* primary wallet if none is, and else ask for the registration on chain.
LinksFirst(r) ==
  /\ W!WalletsOf(User) = {}
  /\ \E a \in Addresses : owner[a] = None /\ W!LinkStart(r, User, a, TRUE)
Promotes(r) ==
  /\ W!PrimaryOf(User) = {}
  /\ \E a \in W!WalletsOf(User) : W!Promote(r, User, a)
GoesOn(r) == LinksFirst(r) \/ Promotes(r) \/ W!OnboardStart(r, User)

\* As in Activation, which EmailVerification implements, until the account is active.
\* Afterwards requests go on, the owner repeats the next step, and what is tried again
\* and again does not fail for ever: a submission is accepted at some time, lands, is
\* seen, and the database takes the marks.  An account never ceases to be active, so
\* that one condition can speak of a step before and of another after that.
Fairness ==
  /\ WF_vars(Create /\ AccountStep)
  /\ SF_vars(\/ ~active /\ A!Follow /\ AccountStep
             \/ (\E r \in Requests : GoesOn(r)) /\ Beside)
  /\ SF_vars(\/ ~active /\ VerifyEmail
             \/ (\E a \in W!PrimaryOf(User) : W!Land(a)) /\ Beside)
  /\ \A r \in Requests :
       /\ WF_vars((W!TableStep(r) \/ W!ChainStep(r)) /\ Beside)
       /\ SF_vars(W!Submits(r) /\ Beside) /\ SF_vars(W!Sees(r) /\ Beside)
       /\ SF_vars(W!Onboards(r) /\ W!MarkUserOnboarded(r) /\ Beside)
       /\ SF_vars(W!Onboards(r) /\ W!MarkRegistered(r) /\ Beside)

FairSpec == Spec /\ Fairness

-----------------------------------------------------------------------------
(* Properties.                                                             *)

\* "Upon success, the account is activated and a primary Solana wallet is
\* initialized": an active account has a wallet, or a verification is still at it,
\* unless that verification failed, was dropped or died in a crash before its wallet
\* was committed, or the last wallet was unlinked.
VerifiedHasWallet ==
  active /\ W!WalletsOf(User) = {} => forgone \/ \E r \in Requests : proc[r].op = "verify"

\* Everybody who registers ends up with an active account and a primary wallet, again
\* and again: a lost mail, an expired link or a failed provisioning leaves a way on
\* ("the user can still link a wallet manually later"), and so does a demotion that
\* is committed without its promotion or its INSERT.
SetupCompletes == []<>(active /\ W!PrimaryOf(User) # {})

\* Onboarding is retryable: once the primary wallet stays the same, repeated calls
\* of onboard_user_on_chain end up with the user and that wallet recorded as
\* registered, whatever transactions are dropped, polls run out, marks fail or
\* tasks are lost in between.  After a failed mark the code's own messages call for
\* "manual reconciliation", for fear that a retry submits a transaction the Registry
\* rejects; but the retry finds the account on chain first, and only marks.
OnboardingConverges ==
  \A a \in Addresses :
    <>[](W!PrimaryOf(User) = {a}) => <>[](userPda[User] = a /\ a \in registered)

\* Nothing is recorded as registered that is not on chain; see Wallets.
RegisteredIsOnChain == W!RegisteredIsOnChain
=============================================================================
