---------------------- MODULE EmailVerificationProofs ----------------------
(***************************************************************************)
(* Proofs about EmailVerification, for every number of requests and        *)
(* tokens, every lifetime of token and cooldown and every combination of   *)
(* faults.                                                                 *)
(***************************************************************************)
EXTENDS EmailVerification, TLAPS

-----------------------------------------------------------------------------
(* The inductive invariant.                                                *)

\* Before the account is registered nobody works for it and no mail is out.
Blank ==
  ~registered => inbox = {} /\ visiting = {} /\ \A r \in EmailRequests : EmailAt(r, "idle")

\* While nothing disturbs them, requests come one at a time.
OneAtATime == \A r, q \in EmailRequests : ~EmailAt(r, "idle") /\ ~EmailAt(q, "idle") => r = q

\* The token a request works with is the account's, if it has one.
Current ==
  \A r \in EmailRequests : emailProc[r].stage \in {"cooldown", "mail"} =>
    emailProc[r].token = emailToken \/ (EmailAt(r, "cooldown") /\ emailProc[r].token = NoToken)

\* A resent mail's cooldown is on the key or about to be, and no mail is about to
\* go out before it is over.
Cooling ==
  /\ mailTtl <= cooldownTtl \/ \E r \in EmailRequests : EmailAt(r, "arm")
  /\ \A r \in EmailRequests : emailProc[r].stage \in {"mint", "mail"} => mailTtl = 0

IInv ==
  /\ EmailTypeOK
  /\ Blank
  /\ ~disturbed => OneAtATime /\ Current /\ Cooling
  /\ ~burst

-----------------------------------------------------------------------------
(* Helper facts.                                                           *)

\* What Begin, Goto and Finish leave in the table of requests.
LEMMA ProcMoves ==
  ASSUME EmailTypeOK, NEW r \in EmailRequests, NEW s \in EmailStages, NEW t \in EmailTokens \cup {NoToken},
         EmailEnter(r, s, t) \/ (EmailGoto(r, s) /\ t = emailProc[r].token)
  PROVE  /\ emailProc' \in [EmailRequests -> ProcType]
         /\ emailProc'[r].stage = s /\ emailProc'[r].token = t
         /\ \A q \in EmailRequests \ {r} : emailProc'[q] = emailProc[q]
  <1>. DEFINE new == [stage |-> s, token |-> t]
  <1>1. emailProc \in [EmailRequests -> ProcType] BY DEF EmailTypeOK
  <1>2. new \in ProcType /\ new.stage = s /\ new.token = t BY DEF ProcType
  <1>3. emailProc' = [emailProc EXCEPT ![r] = new]
    <2>1. CASE EmailEnter(r, s, t) BY <2>1 DEF EmailEnter
    <2>2. CASE EmailGoto(r, s) /\ t = emailProc[r].token
      <3>1. [emailProc[r] EXCEPT !.stage = s] = new BY <1>1, <2>2 DEF ProcType
      <3>2. emailProc' = [emailProc EXCEPT ![r] = [emailProc[r] EXCEPT !.stage = s]] BY <1>1, <2>2 DEF EmailGoto
      <3>. QED BY <3>1, <3>2, Zenon
    <2>. QED BY <2>1, <2>2
  <1>. HIDE DEF new
  <1>. QED BY <1>1, <1>2, <1>3

\* Finish is entering the idle stage.
LEMMA FinishEnters == \A r \in EmailRequests : EmailFinish(r) => EmailEnter(r, "idle", NoToken)
  BY DEF EmailFinish, EmailEnter, Idle

\* A request's stage and token have their types, and a mail has a token.
LEMMA ProcTypes ==
  ASSUME EmailTypeOK, NEW r \in EmailRequests
  PROVE  /\ emailProc[r].stage \in EmailStages /\ emailProc[r].token \in EmailTokens \cup {NoToken}
         /\ emailProc[r].stage \in {"mailNew", "mail"} => emailProc[r].token \in EmailTokens
  BY DEF EmailTypeOK, ProcType

\* The types of what does not depend on the requests.
RowOK ==
  /\ registered \in BOOLEAN /\ active \in BOOLEAN
  /\ emailToken \in EmailTokens \cup {NoToken} /\ tokenTtl \in 0..TOKEN_TTL
  /\ registered <=> emailToken # NoToken
  /\ active => registered
KeysOK ==
  /\ cooldownTtl \in 0..RESEND_COOLDOWN /\ mailTtl \in 0..RESEND_COOLDOWN
  /\ inbox \subseteq EmailTokens /\ visiting \subseteq Visits
  /\ burst \in BOOLEAN /\ disturbed \in BOOLEAN

\* TypeOK is the types of row, keys and requests.
LEMMA TypeParts ==
  EmailTypeOK <=> /\ RowOK /\ KeysOK /\ emailProc \in [EmailRequests -> ProcType]
                  /\ \A r \in EmailRequests : emailProc[r].stage \in {"mailNew", "mail"} => emailProc[r].token \in EmailTokens
  BY DEF EmailTypeOK, RowOK, KeysOK

\* The types of the requests after one of them has moved.
LEMMA RequestsOK ==
  ASSUME EmailTypeOK, NEW r \in EmailRequests, emailProc' \in [EmailRequests -> ProcType],
         \A q \in EmailRequests \ {r} : emailProc'[q] = emailProc[q],
         emailProc'[r].stage \in {"mailNew", "mail"} => emailProc'[r].token \in EmailTokens, RowOK', KeysOK'
  PROVE  EmailTypeOK'
  BY DEF EmailTypeOK, RowOK, KeysOK

\* An undisturbed request in progress is the only one.
LEMMA OthersIdle ==
  ASSUME IInv, ~disturbed, NEW r \in EmailRequests, ~EmailAt(r, "idle")
  PROVE  /\ \A q \in EmailRequests \ {r} : emailProc[q].stage = "idle"
         /\ mailTtl <= cooldownTtl \/ EmailAt(r, "arm")
         /\ emailProc[r].stage \in {"mint", "mail"} => mailTtl = 0
         /\ emailProc[r].stage \in {"cooldown", "mail"} =>
              emailProc[r].token = emailToken \/ (EmailAt(r, "cooldown") /\ emailProc[r].token = NoToken)
  BY DEF IInv, OneAtATime, Current, Cooling, EmailAt

\* What an undisturbed step of request r has to see to.
LEMMA AloneAfter ==
  ASSUME NEW r \in EmailRequests, \A q \in EmailRequests \ {r} : emailProc'[q].stage = "idle",
         emailProc'[r].stage \in {"cooldown", "mail"} =>
           emailProc'[r].token = emailToken' \/ (emailProc'[r].stage = "cooldown" /\ emailProc'[r].token = NoToken),
         mailTtl' <= cooldownTtl' \/ emailProc'[r].stage = "arm",
         emailProc'[r].stage \in {"mint", "mail"} => mailTtl' = 0
  PROVE  (OneAtATime /\ Current /\ Cooling)'
  <1>1. OneAtATime' BY DEF OneAtATime, EmailAt
  <1>2. Current' BY DEF Current, EmailAt
  <1>3. Cooling' BY DEF Cooling, EmailAt
  <1>. QED BY <1>1, <1>2, <1>3

-----------------------------------------------------------------------------
(* One lemma per handler.                                                  *)

\* A request begins: it is alone, or this is noted.
LEMMA BeginStep ==
  ASSUME IInv, NEW r \in EmailRequests, NEW s \in {"mailNew", "cooldown"}, NEW t \in EmailTokens \cup {NoToken},
         EmailBegin(r, s, t), s = "mailNew" => t \in EmailTokens, s = "cooldown" => t \in {emailToken', NoToken},
         registered', RowOK', UNCHANGED <<cooldownTtl, mails, visiting>>
  PROVE  IInv'
  <1>1. s \in EmailStages /\ EmailTypeOK /\ EmailEnter(r, s, t) BY DEF EmailStages, IInv, EmailBegin
  <1>2. /\ emailProc' \in [EmailRequests -> ProcType] /\ emailProc'[r].stage = s /\ emailProc'[r].token = t
        /\ \A q \in EmailRequests \ {r} : emailProc'[q] = emailProc[q]
    BY <1>1, ProcMoves
  <1>3. disturbed' \in BOOLEAN BY DEF EmailBegin, IInv, EmailTypeOK
  <1>4. KeysOK' BY <1>3 DEF IInv, EmailTypeOK, KeysOK, mails
  <1>5. EmailTypeOK' BY <1>1, <1>2, <1>4, RequestsOK
  <1>6. Blank' BY DEF Blank
  <1>7. ASSUME ~disturbed' PROVE (OneAtATime /\ Current /\ Cooling)'
    <2>1. ~disturbed /\ \A q \in EmailRequests : emailProc[q].stage = "idle" BY <1>7, Zenon DEF EmailBegin, EmailAt
    <2>2. mailTtl <= cooldownTtl BY <2>1 DEF IInv, Cooling, EmailAt
    <2>3. mailTtl' <= cooldownTtl' BY <2>2 DEF mails
    <2>. QED BY <1>2, <2>1, <2>3, AloneAfter
  <1>8. ~burst' BY DEF IInv, mails
  <1>. QED BY <1>5, <1>6, <1>7, <1>8 DEF IInv

\* register: the row and its token are written together.
LEMMA RegisterStep ==
  ASSUME IInv, NEW r \in EmailRequests, NEW t \in EmailTokens, Register(r, t)
  PROVE  IInv'
  <1>1. TOKEN_TTL \in 0..TOKEN_TTL /\ NoToken \notin EmailTokens BY EmailVerificationAssumption
  <1>2. RowOK' /\ registered' BY <1>1 DEF Register, IInv, EmailTypeOK, RowOK
  <1>. QED BY <1>2, BeginStep DEF Register

\* resend_verification begins with the token it has read.
LEMMA ResendStep ==
  ASSUME IInv, NEW r \in EmailRequests, Resend(r)
  PROVE  IInv'
  <1>1. LiveToken \in {emailToken', NoToken} /\ LiveToken \in EmailTokens \cup {NoToken}
    BY DEF LiveToken, Resend, row, IInv, EmailTypeOK
  <1>2. RowOK' /\ registered' BY DEF Resend, row, IInv, EmailTypeOK, RowOK
  <1>. QED BY <1>1, <1>2, BeginStep DEF Resend

\* A request that ends, dropped or done, with its mail or its cooldown written.
LEMMA EndStep ==
  ASSUME IInv, NEW r \in EmailRequests, ~EmailAt(r, "idle"), EmailFinish(r), UNCHANGED <<row, mailTtl, burst>>,
         KeysOK', ~disturbed' => ~disturbed /\ mailTtl' <= cooldownTtl'
  PROVE  IInv'
  <1>1. "idle" \in EmailStages /\ EmailTypeOK /\ EmailEnter(r, "idle", NoToken) BY FinishEnters DEF EmailStages, IInv
  <1>2. /\ emailProc' \in [EmailRequests -> ProcType] /\ emailProc'[r].stage = "idle"
        /\ \A q \in EmailRequests \ {r} : emailProc'[q] = emailProc[q]
    BY <1>1, ProcMoves
  <1>3. RowOK' BY DEF IInv, EmailTypeOK, RowOK, row
  <1>4. EmailTypeOK' BY <1>1, <1>2, <1>3, RequestsOK
  <1>5. registered' BY DEF IInv, Blank, row
  <1>6. Blank' BY <1>5 DEF Blank
  <1>7. ASSUME ~disturbed' PROVE (OneAtATime /\ Current /\ Cooling)'
    <2>1. \A q \in EmailRequests \ {r} : emailProc[q].stage = "idle" BY <1>7, OthersIdle
    <2>. QED BY <1>2, <1>7, <2>1, AloneAfter
  <1>. QED BY <1>4, <1>6, <1>7 DEF IInv

\* The mail of register, and the end of a resend.
LEMMA FinishStep ==
  ASSUME IInv, NEW r \in EmailRequests, MailNew(r) \/ ArmCooldown(r) \/ EmailDrop(r)
  PROVE  IInv'
  <1>1. CASE MailNew(r)
    <2>1. ~EmailAt(r, "idle") /\ ~EmailAt(r, "arm") BY <1>1 DEF MailNew, EmailAt
    <2>2. emailProc[r].token \in EmailTokens BY <1>1, ProcTypes DEF MailNew, EmailAt, IInv
    <2>3. KeysOK' BY <1>1, <2>2 DEF MailNew, IInv, EmailTypeOK, KeysOK
    <2>4. ~disturbed => mailTtl <= cooldownTtl BY <2>1, OthersIdle
    <2>. QED BY <1>1, <2>1, <2>3, <2>4, EndStep DEF MailNew
  <1>2. CASE ArmCooldown(r)
    <2>1. ~EmailAt(r, "idle") BY <1>2 DEF ArmCooldown, EmailAt
    <2>2. RESEND_COOLDOWN \in Nat BY EmailVerificationAssumption
    <2>3. KeysOK'
      <3>1. cooldownTtl' \in 0..RESEND_COOLDOWN BY <1>2, <2>2 DEF ArmCooldown, IInv, EmailTypeOK
      <3>2. disturbed' \in BOOLEAN
        <4>1. disturbed \in BOOLEAN BY DEF IInv, EmailTypeOK
        <4>2. disturbed' = disturbed \/ disturbed' = TRUE BY <1>2 DEF ArmCooldown
        <4>. QED BY <4>1, <4>2, Zenon
      <3>3. UNCHANGED <<inbox, mailTtl, burst, visiting>> BY <1>2 DEF ArmCooldown, mails
      <3>. QED BY <3>1, <3>2, <3>3 DEF IInv, EmailTypeOK, KeysOK
    <2>4. ~disturbed' => ~disturbed /\ mailTtl' <= cooldownTtl'
      BY <1>2, <2>2 DEF ArmCooldown, mails, IInv, EmailTypeOK
    <2>. QED BY <1>2, <2>1, <2>3, <2>4, EndStep DEF ArmCooldown, mails
  <1>3. CASE EmailDrop(r)
    <2>1. KeysOK' /\ disturbed' BY <1>3 DEF EmailDrop, mails, IInv, EmailTypeOK, KeysOK
    <2>. QED BY <1>3, <2>1, EndStep DEF EmailDrop, mails
  <1>. QED BY <1>1, <1>2, <1>3

\* A request that goes on.
LEMMA GoOn ==
  ASSUME IInv, NEW r \in EmailRequests, ~EmailAt(r, "idle"), NEW s \in EmailStages, NEW t \in EmailTokens \cup {NoToken},
         EmailEnter(r, s, t) \/ (EmailGoto(r, s) /\ t = emailProc[r].token),
         s \in {"mailNew", "mail"} => t \in EmailTokens,
         RowOK', registered' = registered, KeysOK', ~burst',
         ~disturbed' => /\ ~disturbed
                        /\ s \in {"cooldown", "mail"} => t = emailToken'
                        /\ mailTtl' <= cooldownTtl' \/ s = "arm"
                        /\ s \in {"mint", "mail"} => mailTtl' = 0
  PROVE  IInv'
  <1>1. EmailTypeOK BY DEF IInv
  <1>2. /\ emailProc' \in [EmailRequests -> ProcType] /\ emailProc'[r].stage = s /\ emailProc'[r].token = t
        /\ \A q \in EmailRequests \ {r} : emailProc'[q] = emailProc[q]
    BY <1>1, ProcMoves
  <1>3. EmailTypeOK' BY <1>1, <1>2, RequestsOK
  <1>4. Blank' BY DEF IInv, Blank
  <1>5. ASSUME ~disturbed' PROVE (OneAtATime /\ Current /\ Cooling)'
    <2>1. \A q \in EmailRequests \ {r} : emailProc[q].stage = "idle" BY <1>5, OthersIdle
    <2>. QED BY <1>2, <1>5, <2>1, AloneAfter
  <1>. QED BY <1>3, <1>4, <1>5 DEF IInv

\* The cooldown is looked up: a mail may follow only when it is over.
LEMMA CheckStep ==
  ASSUME IInv, NEW r \in EmailRequests, CheckCooldown(r)
  PROVE  IInv'
  <1>1. /\ ~EmailAt(r, "idle") /\ ~EmailAt(r, "arm") /\ EmailAt(r, "cooldown") BY DEF CheckCooldown, EmailAt
  <1>2. EmailTypeOK /\ cooldownTtl \in Nat /\ mailTtl \in Nat BY DEF IInv, EmailTypeOK
  <1>3. RowOK' /\ registered' = registered BY DEF CheckCooldown, row, IInv, EmailTypeOK, RowOK
  <1>4. UNCHANGED <<cooldownTtl, inbox, mailTtl, burst, visiting>> BY DEF CheckCooldown, mails
  <1>5. KeysOK' BY <1>4, Zenon DEF CheckCooldown, IInv, EmailTypeOK, KeysOK
  <1>6. ~disturbed' => ~disturbed BY Zenon DEF CheckCooldown
  <1>7. ~disturbed => mailTtl <= cooldownTtl BY <1>1, OthersIdle
  <1>8. CASE EmailFinish(r)
    <2>1. UNCHANGED row BY DEF CheckCooldown
    <2>. QED BY <1>1, <1>4, <1>5, <1>6, <1>7, <1>8, <2>1, EndStep
  <1>9. CASE /\ EmailGoto(r, IF emailProc[r].token = NoToken THEN "mint" ELSE "mail")
             /\ disturbed' = (disturbed \/ cooldownTtl > 0)
    <2>1. PICK s \in {"mint", "mail"}, t \in EmailTokens \cup {NoToken} :
            /\ s = (IF emailProc[r].token = NoToken THEN "mint" ELSE "mail") /\ t = emailProc[r].token
      BY <1>2, ProcTypes
    <2>2. s \in EmailStages /\ EmailGoto(r, s) /\ (s = "mail" => t \in EmailTokens) BY <1>9, <2>1 DEF EmailStages
    <2>3. ASSUME ~disturbed' PROVE mailTtl' = 0 /\ mailTtl' <= cooldownTtl' /\ (s = "mail" => t = emailToken')
      <3>1. ~disturbed /\ ~(cooldownTtl > 0) BY <1>9, <2>3, Zenon
      <3>2. mailTtl' = 0 /\ mailTtl' <= cooldownTtl' BY <1>2, <1>4, <1>7, <3>1
      <3>3. emailProc[r].token = emailToken \/ emailProc[r].token = NoToken BY <1>1, <3>1, OthersIdle DEF EmailAt
      <3>4. emailToken' = emailToken BY DEF CheckCooldown, row
      <3>. QED BY <2>1, <3>2, <3>3, <3>4
    <2>4. ~burst' BY <1>4 DEF IInv
    <2>. QED BY <1>1, <1>3, <1>5, <1>6, <2>1, <2>2, <2>3, <2>4, GoOn
  <1>. QED BY <1>8, <1>9 DEF CheckCooldown

\* A new token is stored before it is mailed.
LEMMA MintStep ==
  ASSUME IInv, NEW r \in EmailRequests, NEW t \in EmailTokens, SetToken(r, t)
  PROVE  IInv'
  <1>1. /\ ~EmailAt(r, "idle") /\ ~EmailAt(r, "arm") /\ emailProc[r].stage = "mint" BY DEF SetToken, EmailAt
  <1>2. "mail" \in EmailStages /\ TOKEN_TTL \in 0..TOKEN_TTL /\ NoToken \notin EmailTokens
    BY EmailVerificationAssumption DEF EmailStages
  <1>3. registered BY <1>1 DEF IInv, Blank
  <1>4. RowOK' /\ registered' = registered BY <1>2, <1>3 DEF SetToken, IInv, EmailTypeOK, RowOK
  <1>5. KeysOK' /\ ~burst' BY DEF SetToken, IInv, EmailTypeOK, KeysOK
  <1>6. ~disturbed => mailTtl = 0 /\ mailTtl <= cooldownTtl BY <1>1, OthersIdle
  <1>7. ~disturbed' => ~disturbed /\ mailTtl' = 0 /\ mailTtl' <= cooldownTtl' BY <1>6 DEF SetToken
  <1>8. emailToken' = t /\ EmailEnter(r, "mail", t) BY DEF SetToken
  <1>. QED BY <1>1, <1>2, <1>4, <1>5, <1>7, <1>8, GoOn

\* An undisturbed mail goes out after the cooldown of the last one.
LEMMA MailStep ==
  ASSUME IInv, NEW r \in EmailRequests, Mail(r)
  PROVE  IInv'
  <1>1. ~EmailAt(r, "idle") /\ ~EmailAt(r, "arm") /\ emailProc[r].stage = "mail" BY DEF Mail, EmailAt
  <1>2. "arm" \in EmailStages /\ RESEND_COOLDOWN \in Nat BY EmailVerificationAssumption DEF EmailStages
  <1>3. RowOK' /\ registered' = registered BY DEF Mail, row, IInv, EmailTypeOK, RowOK
  <1>4. emailProc[r].token \in EmailTokens /\ emailProc[r].token \in EmailTokens \cup {NoToken} BY <1>1, ProcTypes DEF IInv
  <1>5. ~disturbed => mailTtl = 0 BY <1>1, OthersIdle
  <1>6. ~burst'
    <2>1. ~burst BY DEF IInv
    <2>2. burst' = (burst \/ (mailTtl > 0 /\ ~disturbed)) \/ burst' = burst BY DEF Mail, mails
    <2>3. ~(mailTtl > 0 /\ ~disturbed) BY <1>5
    <2>. QED BY <2>1, <2>2, <2>3, Zenon
  <1>7. KeysOK'
    <2>1. mailTtl' \in 0..RESEND_COOLDOWN
      <3>1. mailTtl \in 0..RESEND_COOLDOWN BY DEF IInv, EmailTypeOK
      <3>2. mailTtl' \in {0, RESEND_COOLDOWN, mailTtl} BY DEF Mail, mails
      <3>. QED BY <1>2, <3>1, <3>2
    <2>2. inbox' \subseteq EmailTokens BY <1>4 DEF Mail, mails, IInv, EmailTypeOK
    <2>3. UNCHANGED <<cooldownTtl, disturbed, visiting>> BY DEF Mail
    <2>4. burst' \in BOOLEAN
      <3>1. burst \in BOOLEAN BY DEF IInv, EmailTypeOK
      <3>2. burst' = (burst \/ (mailTtl > 0 /\ ~disturbed)) \/ burst' = burst BY DEF Mail, mails
      <3>. QED BY <3>1, <3>2, Zenon
    <2>. QED BY <2>1, <2>2, <2>3, <2>4 DEF IInv, EmailTypeOK, KeysOK
  <1>8. disturbed' = disturbed /\ EmailGoto(r, "arm") BY DEF Mail
  <1>. QED BY <1>1, <1>2, <1>3, <1>4, <1>6, <1>7, <1>8, GoOn

\* A link is opened and found, and its visit ends, with the UPDATE or without: the
\* account exists all the while.
LEMMA VisitStep ==
  ASSUME IInv, NEW v \in Visits,
         (\E t \in EmailTokens : OpenLink(v, t)) \/ Activate(v) \/ AbandonVisit(v)
  PROVE  IInv'
  <1>1. registered BY DEF OpenLink, Activate, AbandonVisit, IInv, Blank
  <1>2. UNCHANGED <<registered, emailToken, tokenTtl, cooldownTtl, inbox, mailTtl, burst, disturbed, emailProc>>
    BY DEF OpenLink, Activate, AbandonVisit, row, mails
  <1>3. visiting' \subseteq Visits /\ active' \in BOOLEAN
    BY DEF OpenLink, Activate, AbandonVisit, row, IInv, EmailTypeOK
  <1>4. EmailTypeOK' BY <1>1, <1>2, <1>3 DEF IInv, EmailTypeOK
  <1>. QED BY <1>1, <1>2, <1>4 DEF IInv, Blank, OneAtATime, Current, Cooling, EmailAt

\* Time passes on both cooldowns alike.
LEMMA TickStep ==
  ASSUME IInv, EmailTick
  PROVE  IInv'
  <1>1. UNCHANGED <<registered, active, emailToken, inbox, burst, disturbed, visiting, emailProc>> BY DEF EmailTick
  <1>2. /\ tokenTtl' \in 0..TOKEN_TTL /\ cooldownTtl' \in 0..RESEND_COOLDOWN
        /\ mailTtl' \in 0..RESEND_COOLDOWN
        /\ mailTtl <= cooldownTtl => mailTtl' <= cooldownTtl'
        /\ mailTtl = 0 => mailTtl' = 0
    BY EmailVerificationAssumption DEF EmailTick, Less, IInv, EmailTypeOK
  <1>3. EmailTypeOK' BY <1>1, <1>2 DEF IInv, EmailTypeOK
  <1>. QED BY <1>1, <1>2, <1>3 DEF IInv, Blank, OneAtATime, Current, Cooling, EmailAt

-----------------------------------------------------------------------------
(* Theorems.                                                               *)

\* The invariant is inductive.
THEOREM Inductive == EmailSpec => []IInv
  <1>1. EmailInit => IInv
    <2>. SUFFICES ASSUME EmailInit PROVE IInv OBVIOUS
    <2>1. \A r \in EmailRequests : emailProc[r] = Idle BY Zenon DEF EmailInit
    <2>2. Idle \in ProcType /\ Idle.stage = "idle" BY DEF Idle, ProcType, EmailStages
    <2>3. EmailTypeOK
      <3>1. 0 \in 0..TOKEN_TTL /\ 0 \in 0..RESEND_COOLDOWN BY EmailVerificationAssumption
      <3>2. emailProc \in [EmailRequests -> ProcType] BY <2>2 DEF EmailInit
      <3>. QED BY <2>1, <2>2, <3>1, <3>2, Zenon DEF EmailInit, EmailTypeOK
    <2>. QED BY <2>1, <2>2, <2>3 DEF EmailInit, IInv, Blank, OneAtATime, Current, Cooling, EmailAt
  <1>2. IInv /\ [EmailNext]_emailVars => IInv'
    <2>. SUFFICES ASSUME IInv, [EmailNext]_emailVars PROVE IInv' OBVIOUS
    <2>1. ASSUME NEW r \in EmailRequests, NEW t \in EmailTokens, Register(r, t) PROVE IInv'
      BY <2>1, RegisterStep
    <2>2. ASSUME NEW r \in EmailRequests, Resend(r) PROVE IInv' BY <2>2, ResendStep
    <2>3. ASSUME NEW r \in EmailRequests, MailNew(r) \/ ArmCooldown(r) \/ EmailDrop(r) PROVE IInv'
      BY <2>3, FinishStep
    <2>4. ASSUME NEW r \in EmailRequests, CheckCooldown(r) PROVE IInv' BY <2>4, CheckStep
    <2>5. ASSUME NEW r \in EmailRequests, NEW t \in EmailTokens, SetToken(r, t) PROVE IInv' BY <2>5, MintStep
    <2>6. ASSUME NEW r \in EmailRequests, Mail(r) PROVE IInv' BY <2>6, MailStep
    <2>7. ASSUME NEW v \in Visits,
                 (\E t \in EmailTokens : OpenLink(v, t)) \/ Activate(v) \/ AbandonVisit(v)
          PROVE  IInv'
      BY <2>7, VisitStep
    <2>8. CASE EmailTick BY <2>8, TickStep
    <2>9. CASE UNCHANGED emailVars
      BY <2>9 DEF emailVars, row, mails, IInv, EmailTypeOK, Blank, OneAtATime, Current, Cooling, EmailAt
    <2>. QED BY <2>1, <2>2, <2>3, <2>4, <2>5, <2>6, <2>7, <2>8, <2>9, Zenon DEF EmailNext, EmailStep
  <1>. QED BY <1>1, <1>2, PTL DEF EmailSpec

\* The columns of the row agree and a mail always carries a token.
THEOREM TypeCorrect == EmailSpec => []EmailTypeOK
  BY Inductive, PTL DEF IInv

\* A resend mails the account's current token unless requests overlap or are
\* dropped: set_verification_token comes before the publication.
THEOREM LinksAreCurrent == EmailSpec => []LinkIsCurrent
  <1>1. IInv => LinkIsCurrent BY DEF IInv, Current, LinkIsCurrent, EmailAt
  <1>. QED BY <1>1, Inductive, PTL

\* One mail per cooldown, although the key is looked up before the mail and set
\* after it, as long as requests come one at a time and Redis answers.
THEOREM MailsAreSpaced == EmailSpec => []OneMailPerCooldown
  <1>1. IInv => OneMailPerCooldown BY DEF IInv, OneMailPerCooldown
  <1>. QED BY <1>1, Inductive, PTL

\* The requests implement the life of an account: whatever overlaps, fails or is
\* dropped, only a link that worked when verify_email looked it up activates it,
\* although the UPDATE by e-mail address does not ask for the token again, and nothing
\* takes that back.
THEOREM RequestsImplementActivation == EmailSpec => Account!Spec
  <1>. DEFINE open == emailToken \in inbox /\ tokenTtl > 0
  <1>1. EmailInit => Account!Init BY DEF EmailInit, Account!Init
  <1>2. IInv /\ [EmailNext]_emailVars => [Account!Next]_(Account!vars)
    <2>. SUFFICES ASSUME IInv, [EmailNext]_emailVars PROVE [Account!Next]_(Account!vars) OBVIOUS
    <2>. USE DEF Account!Next, Account!vars
    <2>0. EmailTypeOK /\ NoToken \notin EmailTokens BY EmailVerificationAssumption DEF IInv
    <2>1. ASSUME NEW r \in EmailRequests, NEW t \in EmailTokens, Register(r, t) PROVE Account!Create
      <3>1. /\ ~registered /\ registered' /\ inbox = {} /\ inbox' = inbox
            /\ UNCHANGED <<active, visiting>>
        BY <2>1 DEF Register, mails, IInv, Blank
      <3>. QED BY <3>1 DEF Account!Create, IInv, EmailTypeOK
    <2>2. ASSUME NEW r \in EmailRequests,
                 Resend(r) \/ CheckCooldown(r) \/ ArmCooldown(r) \/ EmailDrop(r)
          PROVE  UNCHANGED Account!vars
      <3>1. UNCHANGED <<registered, active, emailToken, tokenTtl, inbox, visiting>>
        BY <2>2 DEF Resend, CheckCooldown, ArmCooldown, EmailDrop, row, mails
      <3>. QED BY <3>1
    <2>3. ASSUME NEW r \in EmailRequests, MailNew(r) \/ Mail(r)
          PROVE  Account!LinkArrives \/ UNCHANGED Account!vars
      <3>1. UNCHANGED <<registered, active, emailToken, tokenTtl, visiting>> /\ registered
        BY <2>3 DEF MailNew, Mail, row, IInv, Blank, EmailAt
      <3>2. inbox \subseteq inbox' BY <2>3 DEF MailNew, Mail, mails
      <3>3. CASE open' BY <3>1, <3>3 DEF Account!LinkArrives
      <3>4. CASE ~open' BY <3>1, <3>2, <3>4
      <3>. QED BY <3>3, <3>4, SMTT(30)
    <2>4. ASSUME NEW r \in EmailRequests, NEW t \in EmailTokens, SetToken(r, t)
          PROVE  Account!LinkDies \/ UNCHANGED Account!vars
      <3>1. UNCHANGED <<registered, active, visiting>> /\ ~open' BY <2>4 DEF SetToken
      <3>2. CASE open BY <3>1, <3>2 DEF Account!LinkDies
      <3>3. CASE ~open BY <3>1, <3>3
      <3>. QED BY <3>2, <3>3
    <2>5. ASSUME NEW v \in Visits, NEW t \in EmailTokens, OpenLink(v, t) PROVE Account!Follow
      <3>1. UNCHANGED <<registered, active, emailToken, tokenTtl, inbox>> /\ visiting' # {} /\ open
        BY <2>5 DEF OpenLink, row, mails
      <3>. QED BY <3>1 DEF Account!Follow
    <2>6. ASSUME NEW v \in Visits, Activate(v) PROVE Account!Verify
      <3>1. UNCHANGED <<registered, emailToken, tokenTtl, inbox>> /\ visiting # {} /\ active'
        BY <2>6 DEF Activate, mails
      <3>. QED BY <2>6, <3>1 DEF Activate, Account!Verify
    <2>7. ASSUME NEW v \in Visits, AbandonVisit(v)
          PROVE  Account!Abandon \/ UNCHANGED Account!vars
      <3>1. UNCHANGED <<registered, active, emailToken, tokenTtl, inbox>> /\ visiting # {}
        BY <2>7 DEF AbandonVisit, row, mails
      <3>. QED BY <3>1 DEF Account!Abandon
    <2>8. CASE EmailTick
      <3>1. UNCHANGED <<registered, active, emailToken, inbox, visiting>> BY <2>8 DEF EmailTick
      <3>2. tokenTtl' > 0 => tokenTtl > 0 BY <2>0, <2>8 DEF EmailTick, Less, EmailTypeOK
      <3>3. CASE open /\ ~open' BY <3>1, <3>3 DEF Account!LinkDies
      <3>4. CASE ~(open /\ ~open') BY <3>1, <3>2, <3>4
      <3>. QED BY <3>3, <3>4
    <2>9. CASE UNCHANGED emailVars BY <2>9 DEF emailVars, row, mails
    <2>. QED BY <2>1, <2>2, <2>3, <2>4, <2>5, <2>6, <2>7, <2>8, <2>9 DEF EmailNext, EmailStep
  <1>. QED BY <1>1, <1>2, Inductive, PTL DEF EmailSpec, Account!Spec
=============================================================================
