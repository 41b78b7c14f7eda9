------------------------- MODULE EmailVerification -------------------------
(***************************************************************************)
(* The verification of one account's e-mail address: register,             *)
(* verify_email and resend_verification.  The mail is what publishing      *)
(* VerificationEmailRequested leads to; the wallet that verify_email       *)
(* provisions is in Wallets, the delivery of events in EventRelay.         *)
(*                                                                         *)
(* A step is one Redis command, one database statement or one publication. *)
(***************************************************************************)
EXTENDS Naturals

CONSTANTS
  EmailRequests,      \* concurrent calls of register and resend_verification; a slot
                      \*   is free again when its request ends
  Visits,             \* concurrent calls of verify_email, likewise
  EmailTokens,        \* names for verification tokens; see Fresh
  EmailFaults,        \* which of "read", "write", "mail", "drop" happen
  TOKEN_TTL,          \* 24 hours in the code
  RESEND_COOLDOWN,    \* RESEND_VERIFICATION_COOLDOWN_SECS, 60 s in the code
  NoToken

ASSUME EmailVerificationAssumption ==
  /\ EmailFaults \subseteq {"read", "write", "mail", "drop"}
  /\ {TOKEN_TTL, RESEND_COOLDOWN} \subseteq Nat \ {0}
  /\ NoToken \notin EmailTokens

VARIABLES
  registered,    \* whether the users row exists
  active,        \* users.is_active and users.email_verified, which change together
  emailToken,    \* users.email_verification_token
  tokenTtl,      \* time left until email_verification_expires_at, 0 when past
  cooldownTtl,   \* time left of iam:resend_cooldown, 0 when there is no key
  inbox,         \* the tokens that have been mailed and may still be opened
  mailTtl,       \* history: time left of the cooldown a resent mail calls for
  burst,         \* history: whether an undisturbed mail was resent within that cooldown
  disturbed,     \* history: whether requests have overlapped, been dropped or lost a
                 \* command on the cooldown key
  visiting,      \* the calls of verify_email that have found an address by its token
  emailProc      \* emailProc[r]: what request r does

row == <<registered, active, emailToken, tokenTtl>>
mails == <<inbox, mailTtl, burst>>
emailVars == <<row, cooldownTtl, mails, disturbed, visiting, emailProc>>

EmailStages == {"idle", "mailNew", "cooldown", "mint", "mail", "arm"}

\* A request: its stage and the token it read, minted or was given.
ProcType == [stage : EmailStages, token : EmailTokens \cup {NoToken}]
Idle == [stage |-> "idle", token |-> NoToken]

EmailInit ==
  /\ registered = FALSE
  /\ active = FALSE
  /\ emailToken = NoToken
  /\ tokenTtl = 0
  /\ cooldownTtl = 0
  /\ inbox = {}
  /\ mailTtl = 0
  /\ burst = FALSE
  /\ disturbed = FALSE
  /\ visiting = {}
  /\ emailProc = [r \in EmailRequests |-> Idle]

\* The row's columns agree: no token, no expiry and no verification without it.
EmailTypeOK ==
  /\ registered \in BOOLEAN
  /\ active \in BOOLEAN
  /\ emailToken \in EmailTokens \cup {NoToken}
  /\ tokenTtl \in 0..TOKEN_TTL
  /\ cooldownTtl \in 0..RESEND_COOLDOWN
  /\ inbox \subseteq EmailTokens
  /\ mailTtl \in 0..RESEND_COOLDOWN
  /\ burst \in BOOLEAN
  /\ disturbed \in BOOLEAN
  /\ visiting \subseteq Visits
  /\ emailProc \in [EmailRequests -> ProcType]
  /\ registered <=> emailToken # NoToken
  /\ active => registered
  /\ \A r \in EmailRequests : emailProc[r].stage \in {"mailNew", "mail"} => emailProc[r].token \in EmailTokens

-----------------------------------------------------------------------------
EmailAt(r, stage) == emailProc[r].stage = stage
EmailGoto(r, stage) == emailProc' = [emailProc EXCEPT ![r].stage = stage]
EmailEnter(r, stage, t) == emailProc' = [emailProc EXCEPT ![r] = [stage |-> stage, token |-> t]]
EmailFinish(r) == emailProc' = [emailProc EXCEPT ![r] = Idle]

\* A request that begins while another is in progress disturbs it.
EmailBegin(r, stage, t) ==
  /\ EmailAt(r, "idle")
  /\ EmailEnter(r, stage, t)
  /\ disturbed' = (disturbed \/ \E q \in EmailRequests : ~EmailAt(q, "idle"))

\* A UUID that neither the row nor a request has.  A mail that carries it is dead
\* for good, so it is forgotten when the name is taken for a new token.
Fresh(t) == t # emailToken /\ \A r \in EmailRequests : emailProc[r].token # t

-----------------------------------------------------------------------------
(* register.                                                               *)

\* The INSERT, with a token of its own; Conflict when the row exists.
Register(r, t) ==
  /\ ~registered
  /\ Fresh(t)
  /\ registered' = TRUE
  /\ emailToken' = t
  /\ tokenTtl' = TOKEN_TTL
  /\ EmailBegin(r, "mailNew", t)
  /\ UNCHANGED <<active, cooldownTtl, mails, visiting>>

\* UserRegistered and VerificationEmailRequested; a failed publication is
\* logged and the account stays.
MailNew(r) ==
  /\ EmailAt(r, "mailNew")
  /\ \/ inbox' = inbox \cup {emailProc[r].token}
     \/ "mail" \in EmailFaults /\ UNCHANGED inbox
  /\ EmailFinish(r)
  /\ UNCHANGED <<row, cooldownTtl, mailTtl, burst, disturbed, visiting>>

-----------------------------------------------------------------------------
(* verify_email, in production, where no token is taken for an address.   *)

\* Mutant: the expiry is not asked for.
OpenLinkExpired(v, t) ==
  /\ v \notin visiting
  /\ t \in inbox
  /\ emailToken = t
  /\ visiting' = visiting \cup {v}
  /\ UNCHANGED <<row, cooldownTtl, mails, disturbed, emailProc>>

\* A user opens a mailed link: find_email_by_token, which knows the row's token
\* until it expires.  A token that is not found is a BadRequest.
OpenLink(v, t) ==
  /\ v \notin visiting
  /\ t \in inbox
  /\ emailToken = t
  /\ tokenTtl > 0
  /\ visiting' = visiting \cup {v}
  /\ UNCHANGED <<row, cooldownTtl, mails, disturbed, emailProc>>

\* verify_email of the repository, the UPDATE by the e-mail address that was found:
\* it neither asks for the token again nor clears it, so that a link works until it
\* expires.  Nothing changes the e-mail address of a row in between.
Activate(v) ==
  /\ v \in visiting
  /\ active' = TRUE
  /\ visiting' = visiting \ {v}
  /\ UNCHANGED <<registered, emailToken, tokenTtl, cooldownTtl, mails, disturbed, emailProc>>

\* The request is dropped between the two statements, or the UPDATE fails.
AbandonVisit(v) ==
  /\ "drop" \in EmailFaults
  /\ v \in visiting
  /\ visiting' = visiting \ {v}
  /\ UNCHANGED <<row, cooldownTtl, mails, disturbed, emailProc>>

-----------------------------------------------------------------------------
(* resend_verification.                                                    *)

\* The CASE of find_verification_state_by_email: an expired token reads as NULL.
LiveToken == IF tokenTtl > 0 THEN emailToken ELSE NoToken

\* find_verification_state_by_email.  An unknown or a verified address is
\* answered like any other, without a mail.
Resend(r) ==
  /\ registered
  /\ ~active
  /\ EmailBegin(r, "cooldown", LiveToken)
  /\ UNCHANGED <<row, cooldownTtl, mails, visiting>>

\* EXISTS of the cooldown key, and a failed EXISTS lets the request proceed.
CheckCooldown(r) ==
  /\ EmailAt(r, "cooldown")
  /\ \/ cooldownTtl > 0 /\ EmailFinish(r) /\ UNCHANGED disturbed
     \/ /\ cooldownTtl = 0 \/ "read" \in EmailFaults
        /\ EmailGoto(r, IF emailProc[r].token = NoToken THEN "mint" ELSE "mail")
        /\ disturbed' = (disturbed \/ cooldownTtl > 0)
  /\ UNCHANGED <<row, cooldownTtl, mails, visiting>>

\* Mutant: the new token is mailed and not stored.
SetTokenUnstored(r, t) ==
  /\ EmailAt(r, "mint")
  /\ Fresh(t)
  /\ EmailEnter(r, "mail", t)
  /\ UNCHANGED <<row, cooldownTtl, mails, disturbed, visiting>>

\* set_verification_token with a new token, whatever the row has by now.
SetToken(r, t) ==
  /\ EmailAt(r, "mint")
  /\ Fresh(t)
  /\ emailToken' = t
  /\ tokenTtl' = TOKEN_TTL
  /\ inbox' = inbox \ {t}
  /\ EmailEnter(r, "mail", t)
  /\ UNCHANGED <<registered, active, cooldownTtl, mailTtl, burst, disturbed, visiting>>

\* VerificationEmailRequested; a failed publication is logged.
Mail(r) ==
  /\ EmailAt(r, "mail")
  /\ \/ /\ inbox' = inbox \cup {emailProc[r].token}
        /\ mailTtl' = IF disturbed THEN 0 ELSE RESEND_COOLDOWN
        /\ burst' = (burst \/ (mailTtl > 0 /\ ~disturbed))
     \/ "mail" \in EmailFaults /\ UNCHANGED mails
  /\ EmailGoto(r, "arm")
  /\ UNCHANGED <<row, cooldownTtl, disturbed, visiting>>

\* Mutant: the cooldown is shorter by one.
ArmCooldownShort(r) ==
  /\ EmailAt(r, "arm")
  /\ cooldownTtl' = RESEND_COOLDOWN - 1
  /\ EmailFinish(r)
  /\ UNCHANGED <<row, mails, disturbed, visiting>>

\* The cooldown key is set after the mail; a failed SET is logged.
ArmCooldown(r) ==
  /\ EmailAt(r, "arm")
  /\ \/ cooldownTtl' = RESEND_COOLDOWN /\ UNCHANGED disturbed
     \/ "write" \in EmailFaults /\ disturbed' = TRUE /\ UNCHANGED cooldownTtl
  /\ EmailFinish(r)
  /\ UNCHANGED <<row, mails, visiting>>

-----------------------------------------------------------------------------
\* The request is dropped by TimeoutLayer, or one of its `?' returns an error.
EmailDrop(r) ==
  /\ "drop" \in EmailFaults
  /\ ~EmailAt(r, "idle")
  /\ EmailFinish(r)
  /\ disturbed' = TRUE
  /\ UNCHANGED <<row, cooldownTtl, mails, visiting>>

Less(ttl) == IF ttl > 0 THEN ttl - 1 ELSE 0

\* One unit of time passes.
EmailTick ==
  /\ tokenTtl' = Less(tokenTtl)
  /\ cooldownTtl' = Less(cooldownTtl)
  /\ mailTtl' = Less(mailTtl)
  /\ UNCHANGED <<registered, active, emailToken, inbox, burst, disturbed, visiting, emailProc>>

EmailStep(r) ==
  \/ MailNew(r) \/ CheckCooldown(r)
  \/ \E t \in EmailTokens : SetToken(r, t)
  \/ Mail(r) \/ ArmCooldown(r)

EmailNext ==
  \/ \E r \in EmailRequests :
       \/ \E t \in EmailTokens : Register(r, t)
       \/ Resend(r)
       \/ EmailStep(r)
       \/ EmailDrop(r)
  \/ \E v \in Visits :
       \/ \E t \in EmailTokens : OpenLink(v, t)
       \/ Activate(v) \/ AbandonVisit(v)
  \/ EmailTick

EmailSpec == EmailInit /\ [][EmailNext]_emailVars

\* A publication of a live token that does not fail.
MailLive(r) ==
  /\ emailProc[r].token = emailToken
  /\ tokenTtl > 0
  /\ Mail(r)
  /\ emailToken \in inbox'

\* Time passes, a request that has been accepted is carried on, no step is cut
\* off and no publication fails for ever, and the user keeps asking and opens the
\* links they get.
EmailFairness ==
  /\ WF_emailVars(EmailTick)
  /\ \A r \in EmailRequests : WF_emailVars(EmailStep(r))
  /\ SF_emailVars(\E r \in EmailRequests : CheckCooldown(r))
  /\ SF_emailVars(\E r \in EmailRequests, t \in EmailTokens : SetToken(r, t))
  /\ SF_emailVars(\E r \in EmailRequests : MailLive(r))
  /\ WF_emailVars(\E r \in EmailRequests : Resend(r))
  /\ SF_emailVars(\E v \in Visits, t \in EmailTokens : OpenLink(v, t))
  /\ SF_emailVars(\E v \in Visits : Activate(v))

EmailFairSpec == EmailSpec /\ EmailFairness

-----------------------------------------------------------------------------
(* Properties.                                                             *)

\* Unless requests overlap or are dropped, the token a resend is about to mail is
\* the account's current one.
LinkIsCurrent ==
  ~disturbed => \A r \in EmailRequests : EmailAt(r, "mail") => emailProc[r].token = emailToken

\* Unless requests overlap, are dropped or lose a command on the cooldown key, at
\* most one mail is resent per cooldown.
OneMailPerCooldown == ~burst

\* What the account's owner sees of it: they have a working link when the current
\* token is in their inbox and has not expired.
Account == INSTANCE Activation WITH
             created <- registered, open <- emailToken \in inbox /\ tokenTtl > 0,
             followed <- visiting # {}

\* Only a link that worked when verify_email looked it up activates the account,
\* whatever has become of it by the UPDATE, nothing takes the activation back, and an
\* owner who keeps asking is verified: whatever expires, is lost or races, a live
\* link is mailed again and again until one is followed to the end.
VerificationIsSound == Account!FairSpec
=============================================================================
