------------------------- MODULE CredentialsProofs -------------------------
(***************************************************************************)
(* Proofs about Credentials, for every number of requests, passwords and   *)
(* tokens, every threshold, every lifetime of the keys and every           *)
(* combination of faults.                                                  *)
(***************************************************************************)
EXTENDS Credentials, TLAPS

-----------------------------------------------------------------------------
(* The inductive invariant.                                                *)

\* The stages of a reset.
Resetting == {"update", "delEmail", "delName", "delToken"}

\* A request is a reset exactly when it has a token.
ProcOK ==
  /\ proc \in [Requests -> ProcType]
  /\ \A r \in Requests :
       /\ proc[r].stage = "fill" => proc[r].seen \in Passwords
       /\ proc[r].stage = "update" => proc[r].pw \in Passwords
       /\ proc[r].stage \in Resetting <=> proc[r].token \in Tokens

\* The types of the keys.
AccountOK == mixedCase \in Cases /\ hash \in Passwords
CacheOK ==
  /\ profile \in [Identifiers -> Passwords \cup {None}]
  /\ profileTtl \in [Identifiers -> 0..PROFILE_TTL]
  /\ \A i \in Identifiers : profileTtl[i] > 0 <=> profile[i] # None
  /\ excused \subseteq Identifiers
LockoutOK ==
  /\ attempts \in [Identifiers -> Nat]
  /\ attemptsTtl \in [Identifiers -> 0..LOGIN_LOCKOUT]
  /\ \A i \in Identifiers : attemptsTtl[i] > 0 <=> attempts[i] > 0
  /\ lockTtl \in [Identifiers -> 0..LOGIN_LOCKOUT]
  /\ lockLost \subseteq Identifiers /\ late \subseteq Identifiers
ResetsOK ==
  /\ tokenFor \in [Tokens -> Identifiers \cup {None}]
  /\ tokenTtl \in [Tokens -> 0..RESET_TTL]
  /\ uses \in [Tokens -> 0..2]
  /\ reusable \subseteq Tokens

\* A counter at the threshold does not outlive the lock it leads to.
Locked ==
  \A i \in Identifiers : attempts[i] >= LOGIN_MAX_FAILED_ATTEMPTS =>
    \/ attemptsTtl[i] <= lockTtl[i]
    \/ i \in lockLost
    \/ \E r \in Requests : At(r, "lock") /\ proc[r].id = i

\* No counter outlives a lock, but for the known causes.
Outlasts ==
  \A i \in Identifiers : lockTtl[i] > 0 => attemptsTtl[i] <= lockTtl[i] \/ i \in late

\* A token that is not minted is unknown to everybody.
Unminted ==
  \A t \in Tokens : tokenFor[t] = None =>
    tokenTtl[t] = 0 /\ uses[t] = 0 /\ \A r \in Requests : proc[r].token # t

\* One request at a time presents a token; once it has changed the password, the
\* token is gone or the request is about to delete it.
SingleUse ==
  \A t \in Tokens \ reusable :
    /\ \A r, q \in Requests : proc[r].token = t /\ proc[q].token = t => r = q
    /\ uses[t] > 0 => /\ \A r \in Requests : proc[r].token = t => ~At(r, "update")
                      /\ tokenTtl[t] = 0 \/ \E r \in Requests : proc[r].token = t
    /\ uses[t] < 2

Types == ProcOK /\ AccountOK /\ CacheOK /\ LockoutOK /\ ResetsOK
IInv == Types /\ Locked /\ Outlasts /\ CacheFresh /\ Unminted /\ SingleUse

-----------------------------------------------------------------------------
(* Moving a request.                                                       *)

Rec(s, i, p, n, t) == [stage |-> s, id |-> i, pw |-> p, seen |-> n, token |-> t]

\* What a request is after it has moved; the others stay as they are.
Moves(r, s, i, t) ==
  /\ proc'[r].stage = s /\ proc'[r].id = i /\ proc'[r].token = t
  /\ \A q \in Requests \ {r} : proc'[q] = proc[q]

\* The fields of a request have their types.
LEMMA Fields ==
  ASSUME ProcOK, NEW r \in Requests
  PROVE  /\ proc[r].stage \in Stages /\ proc[r].id \in Identifiers
         /\ proc[r].pw \in Passwords \cup {None} /\ proc[r].seen \in Passwords \cup {None}
         /\ proc[r].token \in Tokens \cup {None}
         /\ proc[r] = Rec(proc[r].stage, proc[r].id, proc[r].pw, proc[r].seen, proc[r].token)
  BY Zenon DEF ProcOK, ProcType, Rec

\* A request is overwritten.
LEMMA Overwrites ==
  ASSUME ProcOK, NEW r \in Requests, NEW s \in Stages, NEW i \in Identifiers,
         NEW p \in Passwords \cup {None}, NEW n \in Passwords \cup {None},
         NEW t \in Tokens \cup {None},
         proc' = [proc EXCEPT ![r] = Rec(s, i, p, n, t)],
         s = "fill" => n \in Passwords, s = "update" => p \in Passwords,
         s \in Resetting <=> t \in Tokens
  PROVE  ProcOK' /\ Moves(r, s, i, t)
  <1>. DEFINE new == Rec(s, i, p, n, t)
  <1>1. /\ new \in ProcType /\ new.stage = s /\ new.id = i /\ new.pw = p /\ new.seen = n
        /\ new.token = t
    BY Zenon DEF ProcType, Rec
  <1>2. proc' = [proc EXCEPT ![r] = new] OBVIOUS
  <1>. HIDE DEF new
  <1>3. proc \in [Requests -> ProcType] BY Zenon DEF ProcOK
  <1>4. proc' \in [Requests -> ProcType] /\ proc'[r] = new BY <1>1, <1>2, <1>3
  <1>5. \A q \in Requests \ {r} : proc'[q] = proc[q] BY <1>2, <1>3, Zenon
  <1>6. Moves(r, s, i, t) BY <1>1, <1>4, <1>5, Zenon DEF Moves
  <1>7. ASSUME NEW q \in Requests
        PROVE  /\ proc'[q].stage = "fill" => proc'[q].seen \in Passwords
               /\ proc'[q].stage = "update" => proc'[q].pw \in Passwords
               /\ proc'[q].stage \in Resetting <=> proc'[q].token \in Tokens
    <2>1. CASE q = r BY <1>1, <1>4, <2>1, Zenon
    <2>2. CASE q # r BY <1>5, <2>2, Zenon DEF ProcOK
    <2>. QED BY <2>1, <2>2, Zenon
  <1>. QED BY <1>4, <1>6, <1>7, Zenon DEF ProcOK

\* None is no password and no token.
LEMMA NoneApart == None \notin Passwords /\ None \notin Tokens /\ "name" \in Identifiers
  BY CredentialsAssumption, Zenon DEF Identifiers

LEMMA FinishMoves ==
  ASSUME ProcOK, NEW r \in Requests, Finish(r)
  PROVE  ProcOK' /\ Moves(r, "idle", "name", None)
  <1>1. proc' = [proc EXCEPT ![r] = Rec("idle", "name", None, None, None)] BY Zenon DEF Finish, Idle, Rec
  <1>2. "idle" \in Stages /\ "idle" \notin Resetting BY Zenon DEF Stages, Resetting
  <1>. QED BY <1>1, <1>2, NoneApart, Overwrites, Zenon

LEMMA GotoMoves ==
  ASSUME ProcOK, NEW r \in Requests, NEW s \in Stages \ {"fill", "update"}, Goto(r, s),
         s \in Resetting <=> proc[r].stage \in Resetting
  PROVE  ProcOK' /\ Moves(r, s, proc[r].id, proc[r].token)
  <1>. DEFINE i == proc[r].id  p == proc[r].pw  n == proc[r].seen  t == proc[r].token
  <1>1. /\ i \in Identifiers /\ p \in Passwords \cup {None} /\ n \in Passwords \cup {None}
        /\ t \in Tokens \cup {None} /\ proc[r] = Rec(proc[r].stage, i, p, n, t)
    BY Fields, Zenon
  <1>2. [proc[r] EXCEPT !.stage = s] = Rec(s, i, p, n, t) BY <1>1 DEF Rec
  <1>3. proc' = [proc EXCEPT ![r] = [proc[r] EXCEPT !.stage = s]] BY Zenon DEF Goto, ProcOK
  <1>4. proc' = [proc EXCEPT ![r] = Rec(s, i, p, n, t)] BY <1>2, <1>3, Zenon
  <1>5. s \in Resetting <=> t \in Tokens BY <1>1, Zenon DEF ProcOK
  <1>. QED BY <1>1, <1>4, <1>5, Overwrites, Zenon

LEMMA VerifyMoves ==
  ASSUME ProcOK, NEW r \in Requests, NEW n, Verify(r, n)
  PROVE  \E s \in {"clear", "incr"} : ProcOK' /\ Moves(r, s, proc[r].id, None)
  <1>1. PICK i \in Identifiers, s \in {"clear", "incr"} :
          i = proc[r].id /\ s = IF proc[r].pw = n THEN "clear" ELSE "incr"
    BY Fields, Zenon
  <1>2. proc' = [proc EXCEPT ![r] = [Idle EXCEPT !.stage = s, !.id = i]] BY <1>1, Zenon DEF Verify
  <1>3. [Idle EXCEPT !.stage = s, !.id = i] = Rec(s, i, None, None, None)
    <2>1. [Idle EXCEPT !.stage = s] = Rec(s, "name", None, None, None) BY DEF Idle, Rec
    <2>2. [Rec(s, "name", None, None, None) EXCEPT !.id = i] = Rec(s, i, None, None, None) BY DEF Rec
    <2>. QED BY <2>1, <2>2, Zenon
  <1>4. s \in Stages /\ s \notin Resetting /\ s # "fill" /\ s # "update" BY Zenon DEF Stages, Resetting
  <1>5. proc' = [proc EXCEPT ![r] = Rec(s, i, None, None, None)] BY <1>2, <1>3, Zenon
  <1>6. ProcOK' /\ Moves(r, s, i, None) BY <1>4, <1>5, NoneApart, Overwrites, Zenon
  <1>. QED BY <1>1, <1>6, Zenon

-----------------------------------------------------------------------------
(* What a step that leaves a part of the keys alone does to the facts      *)
(* about them.                                                             *)

\* The lockout, when the request had no lock to set.
LEMMA LockedFrame ==
  ASSUME Locked, NEW r \in Requests, NEW s, NEW i, NEW t, Moves(r, s, i, t), ~At(r, "lock"),
         UNCHANGED <<attempts, attemptsTtl, lockTtl, lockLost>>
  PROVE  Locked'
  <1>. SUFFICES ASSUME NEW j \in Identifiers, attempts[j] >= LOGIN_MAX_FAILED_ATTEMPTS,
                       ~(attemptsTtl[j] <= lockTtl[j]), j \notin lockLost
                PROVE  \E q \in Requests : proc'[q].stage = "lock" /\ proc'[q].id = j
    BY Zenon DEF Locked, At
  <1>1. PICK q \in Requests : At(q, "lock") /\ proc[q].id = j BY Zenon DEF Locked
  <1>2. proc'[q] = proc[q] BY <1>1, Zenon DEF Moves, At
  <1>. QED BY <1>1, <1>2, Zenon DEF At

\* A request that does not move owes what it owed.
LEMMA OwedKept ==
  ASSUME NEW q, proc'[q] = proc[q]
  PROVE  Owed(q)' = Owed(q)
  BY Zenon DEF Owed, At

\* A request that is not about to delete a profile owes nothing.
LEMMA OwesNothing ==
  ASSUME NEW q, ~At(q, "delEmail"), ~At(q, "delName")
  PROVE  Owed(q) = {}
  BY Zenon DEF Owed

\* The profiles, when the request had none to delete.
LEMMA FreshFrame ==
  ASSUME CacheFresh, NEW r \in Requests, NEW s, NEW i, NEW t, Moves(r, s, i, t),
         ~At(r, "delEmail"), ~At(r, "delName"), UNCHANGED <<hash, cache>>
  PROVE  CacheFresh'
  <1>1. Stale' = Stale /\ excused' = excused BY Zenon DEF Stale, Cached, cache
  <1>. SUFFICES ASSUME NEW j \in Stale, j \notin excused
                PROVE  \E q \in Requests : j \in Owed(q)'
    BY <1>1, Zenon DEF CacheFresh
  <1>2. PICK q \in Requests : j \in Owed(q) BY Zenon DEF CacheFresh
  <1>3. q # r BY <1>2, OwesNothing, Zenon
  <1>4. Owed(q)' = Owed(q) BY <1>3, OwedKept, Zenon DEF Moves
  <1>. QED BY <1>2, <1>4, Zenon

\* The reset tokens, when the request had none and takes none.
LEMMA TokensFrame ==
  ASSUME Unminted, SingleUse, NEW r \in Requests, NEW s, NEW i, Moves(r, s, i, None),
         proc[r].token \notin Tokens, UNCHANGED resets
  PROVE  Unminted' /\ SingleUse'
  <1>1. None \notin Tokens BY NoneApart, Zenon
  <1>2. UNCHANGED <<tokenFor, tokenTtl, uses, reusable>> BY Zenon DEF resets
  <1>3. \A q \in Requests, t \in Tokens :
          (proc'[q].token = t <=> proc[q].token = t) /\ (proc[q].token = t => proc'[q] = proc[q])
    BY <1>1, Zenon DEF Moves
  <1>4. Unminted' BY <1>2, <1>3 DEF Unminted
  <1>5. SingleUse' BY <1>2, <1>3 DEF SingleUse, At
  <1>. QED BY <1>4, <1>5, Zenon

\* The reset tokens, when the request keeps its own and changes no password.
LEMMA TokensKept ==
  ASSUME Unminted, SingleUse, NEW r \in Requests, NEW s, NEW i, Moves(r, s, i, proc[r].token),
         s # "update", UNCHANGED resets
  PROVE  Unminted' /\ SingleUse'
  <1>1. UNCHANGED <<tokenFor, tokenTtl, uses, reusable>> BY Zenon DEF resets
  <1>2. \A q \in Requests : /\ proc'[q].token = proc[q].token
                            /\ proc'[q].stage = "update" => proc[q].stage = "update"
    BY Zenon DEF Moves
  <1>3. Unminted' BY <1>1, <1>2 DEF Unminted
  <1>4. SingleUse' BY <1>1, <1>2 DEF SingleUse, At
  <1>. QED BY <1>3, <1>4, Zenon

-----------------------------------------------------------------------------
(* login.                                                                  *)

\* A step of a login that only moves it on.
LEMMA QuietStep ==
  ASSUME IInv, NEW r \in Requests, NEW s, NEW i, Moves(r, s, i, None), ProcOK',
         proc[r].stage \notin Resetting, ~At(r, "lock"), UNCHANGED <<account, cache, lockout, resets>>
  PROVE  IInv'
  <1>1. proc[r].token \notin Tokens BY Zenon DEF IInv, Types, ProcOK
  <1>2. ~At(r, "delEmail") /\ ~At(r, "delName") BY Zenon DEF At, Resetting
  <1>3. Types' BY Zenon DEF IInv, Types, AccountOK, CacheOK, LockoutOK, ResetsOK, account, cache, lockout, resets
  <1>4. Locked' BY LockedFrame, Zenon DEF IInv, lockout
  <1>5. Outlasts' BY Zenon DEF IInv, Outlasts, lockout
  <1>6. CacheFresh' BY <1>2, FreshFrame, Zenon DEF IInv, account
  <1>7. Unminted' /\ SingleUse' BY <1>1, TokensFrame, Zenon DEF IInv
  <1>. QED BY <1>3, <1>4, <1>5, <1>6, <1>7, Zenon DEF IInv

\* The lock is looked up.
LEMMA LoginStep ==
  ASSUME IInv, NEW r \in Requests, NEW i \in Typed, NEW pw \in Passwords, Login(r, i, pw)
  PROVE  IInv'
  <1>1. i \in Identifiers /\ "get" \in Stages /\ "get" \notin Resetting
    BY CredentialsAssumption, Zenon DEF Identifiers, Stages, Resetting
  <1>2. [Idle EXCEPT !.stage = "get", !.id = i, !.pw = pw] = Rec("get", i, pw, None, None)
    <2>1. [Idle EXCEPT !.stage = "get"] = Rec("get", "name", None, None, None) BY DEF Idle, Rec
    <2>2. [Rec("get", "name", None, None, None) EXCEPT !.id = i] = Rec("get", i, None, None, None)
      BY DEF Rec
    <2>3. [Rec("get", i, None, None, None) EXCEPT !.pw = pw] = Rec("get", i, pw, None, None)
      BY DEF Rec
    <2>. QED BY <2>1, <2>2, <2>3, Zenon
  <1>3. proc' = [proc EXCEPT ![r] = Rec("get", i, pw, None, None)] BY <1>2, Zenon DEF Login
  <1>4. ProcOK' /\ Moves(r, "get", i, None)
    BY <1>1, <1>3, NoneApart, Overwrites, Zenon DEF IInv, Types
  <1>5. proc[r].stage \notin Resetting /\ ~At(r, "lock") BY Zenon DEF Login, At, Resetting
  <1>. QED BY <1>4, <1>5, QuietStep, Zenon DEF Login

\* The profile is looked up in the cache.
LEMMA CacheGetStep ==
  ASSUME IInv, NEW r \in Requests, CacheGet(r)
  PROVE  IInv'
  <1>1. proc[r].stage \notin Resetting /\ ~At(r, "lock") /\ ProcOK
    BY Zenon DEF CacheGet, At, Resetting, IInv, Types
  <1>2. UNCHANGED <<account, cache, lockout, resets>> BY Zenon DEF CacheGet
  <1>3. CASE Verify(r, profile[proc[r].id])
    <2>1. PICK s : ProcOK' /\ Moves(r, s, proc[r].id, None) BY <1>1, <1>3, VerifyMoves, Zenon
    <2>. QED BY <1>1, <1>2, <2>1, QuietStep, Zenon
  <1>4. CASE Goto(r, "find")
    <2>1. "find" \in Stages \ {"fill", "update"} /\ "find" \notin Resetting BY Zenon DEF Stages, Resetting
    <2>2. ProcOK' /\ Moves(r, "find", proc[r].id, proc[r].token) BY <1>1, <1>4, <2>1, GotoMoves, Zenon
    <2>3. proc[r].token = None BY <1>1, Fields, Zenon DEF ProcOK
    <2>. QED BY <1>1, <1>2, <2>2, <2>3, QuietStep, Zenon
  <1>. QED BY <1>3, <1>4, Zenon DEF CacheGet

\* The account is looked up in the database.
LEMMA FindStep ==
  ASSUME IInv, NEW r \in Requests, FindUser(r)
  PROVE  IInv'
  <1>1. proc[r].stage \notin Resetting /\ ~At(r, "lock") /\ ProcOK /\ hash \in Passwords
    BY Zenon DEF FindUser, At, Resetting, IInv, Types, AccountOK
  <1>2. UNCHANGED <<account, cache, lockout, resets>> BY Zenon DEF FindUser
  <1>3. CASE Finish(r)
    <2>1. ProcOK' /\ Moves(r, "idle", "name", None) BY <1>1, <1>3, FinishMoves, Zenon
    <2>. QED BY <1>1, <1>2, <2>1, QuietStep, Zenon
  <1>4. CASE proc' = [proc EXCEPT ![r].stage = "fill", ![r].seen = hash]
    <2>. DEFINE i == proc[r].id  p == proc[r].pw
    <2>1. /\ i \in Identifiers /\ p \in Passwords \cup {None} /\ proc[r].token = None
          /\ proc[r] = Rec(proc[r].stage, i, p, proc[r].seen, None)
      <3>1. proc[r].token = None BY <1>1, Fields, Zenon DEF ProcOK
      <3>. QED BY <1>1, <3>1, Fields, Zenon
    <2>2. [proc[r] EXCEPT !.stage = "fill"] = Rec("fill", i, p, proc[r].seen, None) BY <2>1 DEF Rec
    <2>3. [Rec("fill", i, p, proc[r].seen, None) EXCEPT !.seen = hash] = Rec("fill", i, p, hash, None)
      BY DEF Rec
    <2>4. proc' = [proc EXCEPT ![r] = [[proc[r] EXCEPT !.stage = "fill"] EXCEPT !.seen = hash]]
      BY <1>1, <1>4, Zenon DEF ProcOK
    <2>5. proc' = [proc EXCEPT ![r] = Rec("fill", i, p, hash, None)] BY <2>2, <2>3, <2>4, Zenon
    <2>6. "fill" \in Stages /\ "fill" \notin Resetting BY Zenon DEF Stages, Resetting
    <2>7. ProcOK' /\ Moves(r, "fill", i, None) BY <1>1, <2>1, <2>5, <2>6, NoneApart, Overwrites, Zenon
    <2>. QED BY <1>1, <1>2, <2>7, QuietStep, Zenon
  <1>. QED BY <1>3, <1>4, Zenon DEF FindUser

\* The profile is cached: it is the stored password's, or excused.
LEMMA FillStep ==
  ASSUME IInv, NEW r \in Requests, CacheFill(r)
  PROVE  IInv'
  <1>1. /\ proc[r].stage \notin Resetting /\ ~At(r, "lock") /\ ~At(r, "delEmail")
        /\ ~At(r, "delName") /\ ProcOK /\ At(r, "fill")
    BY Zenon DEF CacheFill, At, Resetting, IInv, Types
  <1>2. UNCHANGED <<account, lockout, resets>> BY Zenon DEF CacheFill
  <1>3. PICK s : ProcOK' /\ Moves(r, s, proc[r].id, None) BY <1>1, VerifyMoves, Zenon DEF CacheFill
  <1>4. CASE UNCHANGED cache BY <1>1, <1>2, <1>3, <1>4, QuietStep, Zenon
  <1>5. ASSUME NEW i, NEW n, i = proc[r].id, n = proc[r].seen,
               profile' = [profile EXCEPT ![i] = n],
               profileTtl' = [profileTtl EXCEPT ![i] = PROFILE_TTL],
               excused' = IF n = hash THEN excused \ {i} ELSE excused \cup {i}
        PROVE  IInv'
    <2>1. i \in Identifiers /\ n \in Passwords BY <1>1, <1>5, Fields, Zenon DEF ProcOK, At
    <2>2. PROFILE_TTL \in Nat /\ PROFILE_TTL > 0 BY CredentialsAssumption
    <2>3. CacheOK BY Zenon DEF IInv, Types
    <2>4. /\ profile'[i] = n /\ profileTtl'[i] = PROFILE_TTL
          /\ \A j \in Identifiers \ {i} : profile'[j] = profile[j] /\ profileTtl'[j] = profileTtl[j]
      BY <1>5, <2>1, <2>3, Zenon DEF CacheOK
    <2>5. CacheOK'
      <3>1. profile' \in [Identifiers -> Passwords \cup {None}] BY <1>5, <2>1, <2>3, Zenon DEF CacheOK
      <3>2. profileTtl' \in [Identifiers -> 0..PROFILE_TTL] BY <1>5, <2>1, <2>2, <2>3 DEF CacheOK
      <3>3. \A j \in Identifiers : profileTtl'[j] > 0 <=> profile'[j] # None
        BY <2>1, <2>2, <2>3, <2>4, NoneApart, Zenon DEF CacheOK
      <3>4. excused' \subseteq Identifiers BY <1>5, <2>1, <2>3, Zenon DEF CacheOK
      <3>. QED BY <3>1, <3>2, <3>3, <3>4, Zenon DEF CacheOK
    <2>6. Types' BY <1>2, <1>3, <2>5, Zenon DEF IInv, Types, AccountOK, LockoutOK, ResetsOK, account, lockout, resets
    <2>7. CacheFresh'
      <3>. SUFFICES ASSUME NEW j \in Identifiers, j \in Stale', j \notin excused'
                    PROVE  \E q \in Requests : j \in Owed(q)'
        BY Zenon DEF CacheFresh, Stale, Cached
      <3>1. profileTtl'[j] > 0 /\ profile'[j] # hash BY <1>2, Zenon DEF Stale, Cached, account
      <3>2. j # i BY <1>5, <2>4, <3>1, Zenon
      <3>3. j \in Stale /\ j \notin excused BY <1>5, <2>4, <3>1, <3>2, Zenon DEF Stale, Cached
      <3>4. PICK q \in Requests : j \in Owed(q) BY <3>3, Zenon DEF IInv, CacheFresh
      <3>5. q # r BY <1>1, <3>4, OwesNothing, Zenon
      <3>6. Owed(q)' = Owed(q) BY <1>3, <3>5, OwedKept, Zenon DEF Moves
      <3>. QED BY <3>4, <3>6, Zenon
    <2>8. Locked' BY <1>1, <1>2, <1>3, LockedFrame, Zenon DEF IInv, lockout
    <2>9. Outlasts' BY <1>2, Zenon DEF IInv, Outlasts, lockout
    <2>10. Unminted' /\ SingleUse' BY <1>1, <1>2, <1>3, TokensFrame, Zenon DEF IInv, ProcOK
    <2>. QED BY <2>6, <2>7, <2>8, <2>9, <2>10, Zenon DEF IInv
  <1>. QED BY <1>4, <1>5, Zenon DEF CacheFill

\* A step on the lockout keys leaves the rest of the invariant alone.
LEMMA LockoutStep ==
  ASSUME IInv, NEW r \in Requests, NEW s, NEW i, Moves(r, s, i, None), ProcOK',
         proc[r].stage \notin Resetting, UNCHANGED <<account, cache, resets>>,
         LockoutOK', Locked', Outlasts'
  PROVE  IInv'
  <1>1. proc[r].token \notin Tokens BY Zenon DEF IInv, Types, ProcOK
  <1>2. ~At(r, "delEmail") /\ ~At(r, "delName") BY Zenon DEF At, Resetting
  <1>3. Types' BY Zenon DEF IInv, Types, AccountOK, CacheOK, ResetsOK, account, cache, resets
  <1>4. CacheFresh' BY <1>2, FreshFrame, Zenon DEF IInv, account
  <1>5. Unminted' /\ SingleUse' BY <1>1, TokensFrame, Zenon DEF IInv
  <1>. QED BY <1>3, <1>4, <1>5, Zenon DEF IInv

\* A failure is counted: the request that reaches the threshold goes on to lock.
LEMMA CountStep ==
  ASSUME IInv, NEW r \in Requests, CountFailure(r)
  PROVE  IInv'
  <1>1. /\ proc[r].stage \notin Resetting /\ ~At(r, "lock") /\ ProcOK /\ LockoutOK
        /\ Locked /\ Outlasts
    BY Zenon DEF CountFailure, At, Resetting, IInv, Types
  <1>2. UNCHANGED <<account, cache, lockTtl, lockLost, resets>> BY Zenon DEF CountFailure
  <1>3. proc[r].token = None /\ proc[r].id \in Identifiers BY <1>1, Fields, Zenon DEF ProcOK
  <1>4. Finish(r) => ProcOK' /\ Moves(r, "idle", "name", None) BY <1>1, FinishMoves, Zenon
  <1>5. Goto(r, "lock") => ProcOK' /\ Moves(r, "lock", proc[r].id, None)
    <2>1. "lock" \in Stages \ {"fill", "update"} /\ "lock" \notin Resetting BY Zenon DEF Stages, Resetting
    <2>. QED BY <1>1, <1>3, <2>1, GotoMoves, Zenon
  <1>6. CASE Finish(r) /\ UNCHANGED <<attempts, attemptsTtl, late>>
    BY <1>1, <1>2, <1>4, <1>6, QuietStep, Zenon DEF lockout
  <1>7. ASSUME NEW i, i = proc[r].id,
               attempts' = [attempts EXCEPT ![i] = @ + 1],
               attemptsTtl' = [attemptsTtl EXCEPT ![i] = LOGIN_LOCKOUT],
               late' = IF lockTtl[i] > 0 THEN late \cup {i} ELSE late,
               IF attempts[i] + 1 >= LOGIN_MAX_FAILED_ATTEMPTS THEN Goto(r, "lock") ELSE Finish(r)
        PROVE  IInv'
    <2>1. i \in Identifiers BY <1>3, <1>7, Zenon
    <2>2. LOGIN_LOCKOUT \in Nat /\ LOGIN_LOCKOUT > 0 BY CredentialsAssumption
    <2>3. /\ attempts'[i] = attempts[i] + 1 /\ attemptsTtl'[i] = LOGIN_LOCKOUT /\ attempts[i] \in Nat
          /\ \A j \in Identifiers \ {i} : attempts'[j] = attempts[j] /\ attemptsTtl'[j] = attemptsTtl[j]
      BY <1>1, <1>7, <2>1, Zenon DEF LockoutOK
    <2>4. LockoutOK'
      <3>1. attempts' \in [Identifiers -> Nat] BY <1>1, <1>7, <2>1 DEF LockoutOK
      <3>2. attemptsTtl' \in [Identifiers -> 0..LOGIN_LOCKOUT] BY <1>1, <1>7, <2>1, <2>2 DEF LockoutOK
      <3>3. \A j \in Identifiers : attemptsTtl'[j] > 0 <=> attempts'[j] > 0
        BY <1>1, <2>1, <2>2, <2>3 DEF LockoutOK
      <3>4. late' \subseteq Identifiers BY <1>1, <1>7, <2>1, Zenon DEF LockoutOK
      <3>. QED BY <1>1, <1>2, <3>1, <3>2, <3>3, <3>4, Zenon DEF LockoutOK
    <2>5. PICK s, k : ProcOK' /\ Moves(r, s, k, None)
      <3>1. Goto(r, "lock") \/ Finish(r) BY <1>7, Zenon
      <3>. QED BY <1>4, <1>5, <3>1, Zenon
    <2>6. attempts[i] + 1 >= LOGIN_MAX_FAILED_ATTEMPTS => proc'[r].stage = "lock" /\ proc'[r].id = i
      BY <1>5, <1>7, Zenon DEF Moves
    <2>7. Locked'
      <3>. SUFFICES ASSUME NEW j \in Identifiers, attempts'[j] >= LOGIN_MAX_FAILED_ATTEMPTS,
                           ~(attemptsTtl'[j] <= lockTtl'[j]), j \notin lockLost'
                    PROVE  \E q \in Requests : proc'[q].stage = "lock" /\ proc'[q].id = j
        BY Zenon DEF Locked, At
      <3>1. CASE j = i BY <2>3, <2>6, <3>1, Zenon
      <3>2. CASE j # i
        <4>1. PICK q \in Requests : At(q, "lock") /\ proc[q].id = j BY <1>1, <1>2, <2>3, <3>2, Zenon DEF Locked
        <4>2. proc'[q] = proc[q] BY <1>1, <2>5, <4>1, Zenon DEF Moves, At
        <4>. QED BY <4>1, <4>2, Zenon DEF At
      <3>. QED BY <3>1, <3>2, Zenon
    <2>8. Outlasts'
      <3>1. ASSUME NEW j \in Identifiers, lockTtl'[j] > 0
            PROVE  attemptsTtl'[j] <= lockTtl'[j] \/ j \in late'
        BY <1>1, <1>2, <1>7, <2>3, <3>1, Zenon DEF Outlasts
      <3>. QED BY <3>1, Zenon DEF Outlasts
    <2>. QED BY <1>1, <1>2, <2>4, <2>5, <2>7, <2>8, LockoutStep, Zenon
  <1>. QED BY <1>6, <1>7, Zenon DEF CountFailure

\* The lock is set for as long as the counter lasts, or it is noted as lost.
LEMMA LockStep ==
  ASSUME IInv, NEW r \in Requests, LockAccount(r)
  PROVE  IInv'
  <1>1. /\ proc[r].stage \notin Resetting /\ ProcOK /\ LockoutOK /\ Locked /\ Outlasts
    BY Zenon DEF LockAccount, At, Resetting, IInv, Types
  <1>2. UNCHANGED <<account, cache, attempts, attemptsTtl, late, resets>> BY Zenon DEF LockAccount
  <1>. DEFINE i == proc[r].id
  <1>3. proc[r].token = None /\ i \in Identifiers BY <1>1, Fields, Zenon DEF ProcOK
  <1>4. ProcOK' /\ Moves(r, "clear", i, None)
    <2>1. "clear" \in Stages \ {"fill", "update"} /\ "clear" \notin Resetting BY Zenon DEF Stages, Resetting
    <2>. QED BY <1>1, <1>3, <2>1, GotoMoves, Zenon DEF LockAccount
  <1>5. LOGIN_LOCKOUT \in Nat /\ LOGIN_LOCKOUT > 0 BY CredentialsAssumption
  <1>6. \/ lockTtl' = [lockTtl EXCEPT ![i] = LOGIN_LOCKOUT] /\ lockLost' = lockLost
        \/ lockTtl' = lockTtl /\ lockLost' = lockLost \cup {i}
    BY Zenon DEF LockAccount
  <1>. HIDE DEF i
  <1>7. /\ lockTtl' \in [Identifiers -> 0..LOGIN_LOCKOUT] /\ lockLost' \subseteq Identifiers
        /\ lockLost \subseteq lockLost'
        /\ i \in lockLost' \/ lockTtl'[i] = LOGIN_LOCKOUT
        /\ lockTtl'[i] \in {lockTtl[i], LOGIN_LOCKOUT}
        /\ \A j \in Identifiers \ {i} : lockTtl'[j] = lockTtl[j]
    BY <1>1, <1>3, <1>5, <1>6 DEF LockoutOK
  <1>8. LockoutOK' BY <1>1, <1>2, <1>7, Zenon DEF LockoutOK
  <1>9. attemptsTtl[i] <= LOGIN_LOCKOUT BY <1>1, <1>3, <1>5 DEF LockoutOK
  <1>10. Locked'
    <2>. SUFFICES ASSUME NEW j \in Identifiers, attempts'[j] >= LOGIN_MAX_FAILED_ATTEMPTS,
                         ~(attemptsTtl'[j] <= lockTtl'[j]), j \notin lockLost'
                  PROVE  \E q \in Requests : proc'[q].stage = "lock" /\ proc'[q].id = j
      BY Zenon DEF Locked, At
    <2>1. j # i BY <1>2, <1>7, <1>9, Zenon
    <2>2. PICK q \in Requests : At(q, "lock") /\ proc[q].id = j BY <1>1, <1>2, <1>7, <2>1, Zenon DEF Locked
    <2>3. proc'[q] = proc[q] BY <1>4, <2>1, <2>2, Zenon DEF Moves, i
    <2>. QED BY <2>2, <2>3, Zenon DEF At
  <1>11. Outlasts'
    <2>1. ASSUME NEW j \in Identifiers, lockTtl'[j] > 0
          PROVE  attemptsTtl'[j] <= lockTtl'[j] \/ j \in late'
      <3>1. CASE j # i BY <1>1, <1>2, <1>7, <2>1, <3>1, Zenon DEF Outlasts
      <3>2. CASE j = i BY <1>1, <1>2, <1>7, <1>9, <2>1, <3>2, Zenon DEF Outlasts
      <3>. QED BY <3>1, <3>2, Zenon
    <2>. QED BY <2>1, Zenon DEF Outlasts
  <1>. QED BY <1>1, <1>2, <1>4, <1>8, <1>10, <1>11, LockoutStep, Zenon

\* The counter is cleared, or it is noted that it was not.
LEMMA ClearStep ==
  ASSUME IInv, NEW r \in Requests, ClearAttempts(r)
  PROVE  IInv'
  <1>1. /\ proc[r].stage \notin Resetting /\ ~At(r, "lock") /\ ProcOK /\ LockoutOK
        /\ Locked /\ Outlasts
    BY Zenon DEF ClearAttempts, At, Resetting, IInv, Types
  <1>2. UNCHANGED <<account, cache, lockTtl, resets>> BY Zenon DEF ClearAttempts
  <1>. DEFINE i == proc[r].id
  <1>3. i \in Identifiers BY <1>1, Fields, Zenon
  <1>4. ProcOK' /\ Moves(r, "idle", "name", None) BY <1>1, FinishMoves, Zenon DEF ClearAttempts
  <1>5. CASE UNCHANGED <<attempts, attemptsTtl, lockLost>>
             /\ late' = IF attempts[i] > 0 THEN late \cup {i} ELSE late
    <2>1. late' \subseteq Identifiers /\ late \subseteq late' BY <1>1, <1>3, <1>5, Zenon DEF LockoutOK
    <2>2. LockoutOK' BY <1>1, <1>2, <1>5, <2>1, Zenon DEF LockoutOK
    <2>3. Locked' BY <1>1, <1>2, <1>4, <1>5, LockedFrame, Zenon
    <2>4. Outlasts' BY <1>1, <1>2, <1>5, <2>1, Zenon DEF Outlasts
    <2>. QED BY <1>1, <1>2, <1>4, <2>2, <2>3, <2>4, LockoutStep, Zenon
  <1>6. CASE /\ attempts' = [attempts EXCEPT ![i] = 0]
             /\ attemptsTtl' = [attemptsTtl EXCEPT ![i] = 0]
             /\ lockLost' = lockLost \ {i} /\ late' = late \ {i}
    <2>. HIDE DEF i
    <2>1. LOGIN_LOCKOUT \in Nat /\ LOGIN_MAX_FAILED_ATTEMPTS \in Nat /\ LOGIN_MAX_FAILED_ATTEMPTS > 0
      BY CredentialsAssumption
    <2>2. /\ attempts'[i] = 0 /\ attemptsTtl'[i] = 0 /\ lockTtl[i] \in Nat
          /\ \A j \in Identifiers \ {i} : attempts'[j] = attempts[j] /\ attemptsTtl'[j] = attemptsTtl[j]
      BY <1>1, <1>3, <1>6, <2>1 DEF LockoutOK
    <2>3. LockoutOK'
      <3>1. attempts' \in [Identifiers -> Nat] BY <1>1, <1>6, Zenon DEF LockoutOK
      <3>2. attemptsTtl' \in [Identifiers -> 0..LOGIN_LOCKOUT]
        <4>1. 0 \in 0..LOGIN_LOCKOUT BY <2>1
        <4>. QED BY <1>1, <1>6, <4>1, Zenon DEF LockoutOK
      <3>3. \A j \in Identifiers : attemptsTtl'[j] > 0 <=> attempts'[j] > 0 BY <1>1, <2>2, Zenon DEF LockoutOK
      <3>. QED BY <1>1, <1>2, <1>6, <3>1, <3>2, <3>3, Zenon DEF LockoutOK
    <2>4. Locked'
      <3>. SUFFICES ASSUME NEW j \in Identifiers, attempts'[j] >= LOGIN_MAX_FAILED_ATTEMPTS,
                           ~(attemptsTtl'[j] <= lockTtl'[j]), j \notin lockLost'
                    PROVE  \E q \in Requests : proc'[q].stage = "lock" /\ proc'[q].id = j
        BY Zenon DEF Locked, At
      <3>1. j # i BY <2>1, <2>2
      <3>2. PICK q \in Requests : At(q, "lock") /\ proc[q].id = j
        BY <1>1, <1>2, <1>6, <2>2, <3>1, Zenon DEF Locked
      <3>3. proc'[q] = proc[q] BY <1>1, <1>4, <3>2, Zenon DEF Moves, At
      <3>. QED BY <3>2, <3>3, Zenon DEF At
    <2>5. Outlasts' BY <1>1, <1>2, <1>6, <2>2 DEF Outlasts
    <2>. QED BY <1>1, <1>2, <1>4, <2>3, <2>4, <2>5, LockoutStep
  <1>. QED BY <1>5, <1>6, Zenon DEF ClearAttempts

-----------------------------------------------------------------------------
(* forgot_password and reset_password.                                     *)

\* A token is minted: nobody has presented it.
LEMMA ForgotStep ==
  ASSUME IInv, NEW i \in Identifiers, NEW t \in Tokens, ForgotPassword(i, t)
  PROVE  IInv'
  <1>1. UNCHANGED <<account, cache, lockout, uses, reusable, proc>> BY Zenon DEF ForgotPassword
  <1>2. ResetsOK /\ Unminted /\ SingleUse BY Zenon DEF IInv, Types
  <1>3. PICK k \in Identifiers : tokenFor' = [tokenFor EXCEPT ![t] = k]
    <2>1. LowerEmail \in Identifiers BY Zenon DEF LowerEmail, Identifiers
    <2>. QED BY <2>1, Zenon DEF ForgotPassword
  <1>4. RESET_TTL \in Nat /\ tokenTtl' = [tokenTtl EXCEPT ![t] = RESET_TTL] /\ tokenFor[t] = None
    BY CredentialsAssumption, Zenon DEF ForgotPassword
  <1>5. ResetsOK'
    <2>1. tokenFor' \in [Tokens -> Identifiers \cup {None}] BY <1>2, <1>3, Zenon DEF ResetsOK
    <2>2. RESET_TTL \in 0..RESET_TTL BY <1>4
    <2>3. tokenTtl' \in [Tokens -> 0..RESET_TTL] BY <1>2, <1>4, <2>2, Zenon DEF ResetsOK
    <2>. QED BY <1>1, <1>2, <2>1, <2>3, Zenon DEF ResetsOK
  <1>6. Types' BY <1>1, <1>5, Zenon DEF IInv, Types, ProcOK, AccountOK, CacheOK, LockoutOK, account, cache, lockout
  <1>7. Locked' /\ Outlasts' BY <1>1, Zenon DEF IInv, Locked, Outlasts, At, lockout
  <1>8. CacheFresh' BY <1>1, Zenon DEF IInv, CacheFresh, Stale, Cached, Owed, At, account, cache
  <1>9. \A u \in Tokens \ {t} : tokenFor'[u] = tokenFor[u] /\ tokenTtl'[u] = tokenTtl[u]
    BY <1>2, <1>3, <1>4, Zenon DEF ResetsOK
  <1>10. uses[t] = 0 /\ \A r \in Requests : proc[r].token # t BY <1>2, <1>4, Zenon DEF Unminted
  <1>11. Unminted'
    <2>1. ASSUME NEW u \in Tokens, tokenFor'[u] = None
          PROVE  tokenTtl'[u] = 0 /\ uses'[u] = 0 /\ \A r \in Requests : proc'[r].token # u
      <3>1. CASE u # t BY <1>1, <1>2, <1>9, <2>1, <3>1, Zenon DEF Unminted
      <3>2. CASE u = t
        <4>1. tokenFor'[t] = k BY <1>2, <1>3, Zenon DEF ResetsOK
        <4>. QED BY <1>3, <2>1, <3>2, <4>1, CredentialsAssumption, Zenon
      <3>. QED BY <3>1, <3>2, Zenon
    <2>. QED BY <2>1, Zenon DEF Unminted
  <1>12. SingleUse' BY <1>1, <1>2, <1>9, <1>10 DEF SingleUse, At
  <1>. QED BY <1>6, <1>7, <1>8, <1>11, <1>12, Zenon DEF IInv

\* The tokens when a request ends: its own is gone, unused or noted as reusable.
LEMMA TokensDropped ==
  ASSUME IInv, NEW r \in Requests, NEW s, NEW i, Moves(r, s, i, None),
         UNCHANGED <<tokenFor, uses>>, reusable \subseteq reusable',
         \A t \in Tokens : tokenTtl'[t] = tokenTtl[t] \/ tokenTtl'[t] = 0,
         \A t \in Tokens : proc[r].token = t => uses[t] = 0 \/ t \in reusable' \/ tokenTtl'[t] = 0
  PROVE  Unminted' /\ SingleUse'
  <1>1. None \notin Tokens BY NoneApart, Zenon
  <1>2. \A q \in Requests, t \in Tokens : proc'[q].token = t => proc[q].token = t /\ proc'[q] = proc[q]
    BY <1>1, Zenon DEF Moves
  <1>3. \A q \in Requests \ {r} : proc'[q] = proc[q] BY Zenon DEF Moves
  <1>4. Unminted' BY <1>2 DEF IInv, Unminted
  <1>5. ASSUME NEW t \in Tokens, t \notin reusable'
        PROVE  /\ \A p, q \in Requests : proc'[p].token = t /\ proc'[q].token = t => p = q
               /\ uses[t] > 0 => /\ \A q \in Requests : proc'[q].token = t => proc'[q].stage # "update"
                                 /\ tokenTtl'[t] = 0 \/ \E q \in Requests : proc'[q].token = t
               /\ uses[t] < 2
    <2>1. t \in Tokens \ reusable BY <1>5, Zenon
    <2>2. \A p, q \in Requests : proc'[p].token = t /\ proc'[q].token = t => p = q
      BY <1>2, <2>1 DEF IInv, SingleUse
    <2>3. uses[t] < 2 BY <2>1, Zenon DEF IInv, SingleUse
    <2>4. ASSUME uses[t] > 0
          PROVE  /\ \A q \in Requests : proc'[q].token = t => proc'[q].stage # "update"
                 /\ tokenTtl'[t] = 0 \/ \E q \in Requests : proc'[q].token = t
      <3>1. /\ \A q \in Requests : proc[q].token = t => proc[q].stage # "update"
            /\ tokenTtl[t] = 0 \/ \E q \in Requests : proc[q].token = t
        BY <2>1, <2>4, Zenon DEF IInv, SingleUse, At
      <3>2. \A q \in Requests : proc'[q].token = t => proc'[q].stage # "update" BY <1>2, <3>1, Zenon
      <3>3. ASSUME tokenTtl'[t] # 0 PROVE \E q \in Requests : proc'[q].token = t
        <4>1. PICK q \in Requests : proc[q].token = t BY <3>1, <3>3, Zenon
        <4>2. q # r BY <1>5, <2>4, <3>3, <4>1
        <4>. QED BY <1>3, <4>1, <4>2, Zenon
      <3>. QED BY <3>2, <3>3, Zenon
    <2>. QED BY <2>2, <2>3, <2>4, Zenon
  <1>6. SingleUse' BY <1>5, Zenon DEF SingleUse, At
  <1>. QED BY <1>4, <1>6, Zenon

\* A reset presents its token: if another does, that is noted.
LEMMA ResetStep ==
  ASSUME IInv, NEW r \in Requests, NEW t \in Tokens, NEW pw \in Passwords, ResetPassword(r, t, pw)
  PROVE  IInv'
  <1>1. UNCHANGED <<account, cache, lockout, tokenFor, tokenTtl, uses>> BY Zenon DEF ResetPassword
  <1>2. ProcOK /\ ResetsOK /\ Unminted /\ SingleUse BY Zenon DEF IInv, Types
  <1>3. proc[r].stage = "idle" /\ tokenTtl[t] > 0 BY Zenon DEF ResetPassword, At
  <1>4. PICK i \in Identifiers : i = tokenFor[t] BY <1>2, <1>3 DEF ResetsOK, Unminted
  <1>5. [Idle EXCEPT !.stage = "update", !.id = i, !.pw = pw, !.token = t] = Rec("update", i, pw, None, t)
    <2>1. [Idle EXCEPT !.stage = "update"] = Rec("update", "name", None, None, None) BY DEF Idle, Rec
    <2>2. [Rec("update", "name", None, None, None) EXCEPT !.id = i] = Rec("update", i, None, None, None)
      BY DEF Rec
    <2>3. [Rec("update", i, None, None, None) EXCEPT !.pw = pw] = Rec("update", i, pw, None, None)
      BY DEF Rec
    <2>4. [Rec("update", i, pw, None, None) EXCEPT !.token = t] = Rec("update", i, pw, None, t)
      BY DEF Rec
    <2>. QED BY <2>1, <2>2, <2>3, <2>4, Zenon
  <1>6. proc' = [proc EXCEPT ![r] = Rec("update", i, pw, None, t)] BY <1>4, <1>5, Zenon DEF ResetPassword
  <1>7. ProcOK' /\ Moves(r, "update", i, t)
    <2>1. "update" \in Stages /\ "update" \in Resetting BY Zenon DEF Stages, Resetting
    <2>. QED BY <1>2, <1>6, <2>1, NoneApart, Overwrites, Zenon
  <1>8. reusable' = IF \E q \in Requests : proc[q].token = t THEN reusable \cup {t} ELSE reusable
    BY Zenon DEF ResetPassword
  <1>9. reusable' \subseteq Tokens /\ reusable \subseteq reusable' BY <1>2, <1>8, Zenon DEF ResetsOK
  <1>10. Types' BY <1>1, <1>7, <1>9, Zenon DEF IInv, Types, AccountOK, CacheOK, LockoutOK, ResetsOK, account, cache, lockout
  <1>11. ~At(r, "lock") /\ ~At(r, "delEmail") /\ ~At(r, "delName") /\ proc[r].token \notin Tokens
    BY <1>2, <1>3, Zenon DEF At, ProcOK, Resetting
  <1>12. Locked' BY <1>1, <1>7, <1>11, LockedFrame, Zenon DEF IInv, lockout
  <1>13. Outlasts' BY <1>1, Zenon DEF IInv, Outlasts, lockout
  <1>14. CacheFresh' BY <1>1, <1>7, <1>11, FreshFrame, Zenon DEF IInv, account
  <1>15. tokenFor[t] # None BY <1>2, <1>3 DEF ResetsOK, Unminted
  <1>16. \A q \in Requests, u \in Tokens \ {t} :
           (proc'[q].token = u <=> proc[q].token = u) /\ (proc[q].token = u => proc'[q] = proc[q])
    BY <1>7, <1>11, Zenon DEF Moves
  <1>17. Unminted' BY <1>1, <1>2, <1>15, <1>16 DEF Unminted
  <1>18. ASSUME t \notin reusable'
         PROVE  uses[t] = 0 /\ \A q \in Requests \ {r} : proc'[q].token # t
    <2>1. \A q \in Requests : proc[q].token # t BY <1>8, <1>18, Zenon
    <2>2. ~(uses[t] > 0) BY <1>2, <1>3, <1>9, <1>18, <2>1 DEF SingleUse, ResetsOK
    <2>3. uses[t] \in 0..2 BY <1>2, Zenon DEF ResetsOK
    <2>. QED BY <1>7, <2>1, <2>2, <2>3 DEF Moves
  <1>19. ASSUME NEW u \in Tokens, u \notin reusable'
         PROVE  /\ \A p, q \in Requests : proc'[p].token = u /\ proc'[q].token = u => p = q
                /\ uses[u] > 0 => /\ \A q \in Requests : proc'[q].token = u => proc'[q].stage # "update"
                                  /\ tokenTtl[u] = 0 \/ \E q \in Requests : proc'[q].token = u
                /\ uses[u] < 2
    <2>1. CASE u = t BY <1>18, <1>19, <2>1
    <2>2. CASE u # t
      <3>1. u \in Tokens \ reusable BY <1>9, <1>19, Zenon
      <3>. QED BY <1>2, <1>16, <2>2, <3>1 DEF SingleUse, At
    <2>. QED BY <2>1, <2>2, Zenon
  <1>20. SingleUse' BY <1>1, <1>19, Zenon DEF SingleUse, At
  <1>. QED BY <1>10, <1>12, <1>13, <1>14, <1>17, <1>20, Zenon DEF IInv

\* A step of a reset leaves the lockout alone.
LEMMA ResetFrame ==
  ASSUME IInv, NEW r \in Requests, NEW s, NEW i, NEW t, Moves(r, s, i, t), ProcOK',
         proc[r].stage \in Resetting, UNCHANGED lockout, AccountOK', CacheOK', ResetsOK',
         CacheFresh', Unminted', SingleUse'
  PROVE  IInv'
  <1>1. ~At(r, "lock") BY Zenon DEF At, Resetting
  <1>2. Locked' BY <1>1, LockedFrame, Zenon DEF IInv, lockout
  <1>3. Outlasts' /\ LockoutOK' BY Zenon DEF IInv, Types, Outlasts, LockoutOK, lockout
  <1>. QED BY <1>2, <1>3, Zenon DEF IInv, Types

\* What a reset owes after it has changed the password.
LEMMA OwesEvicted ==
  ASSUME NEW r \in Requests, NEW i, NEW t, Moves(r, "delEmail", i, t)
  PROVE  Owed(r)' = Evicted(i)
  BY Zenon DEF Owed, At, Moves, Evicted, Found

\* The password changes: what is cached is excused or owed.
LEMMA UpdateStep ==
  ASSUME IInv, NEW r \in Requests, UpdatePassword(r)
  PROVE  IInv'
  <1>1. ProcOK /\ CacheOK /\ ResetsOK /\ AccountOK /\ CacheFresh /\ Unminted /\ SingleUse
    BY Zenon DEF IInv, Types
  <1>2. proc[r].stage = "update" /\ proc[r].stage \in Resetting BY Zenon DEF UpdatePassword, At, Resetting
  <1>3. UNCHANGED <<mixedCase, profile, profileTtl, lockout, tokenFor, tokenTtl, reusable>>
    BY Zenon DEF UpdatePassword
  <1>4. PICK t \in Tokens, i \in Identifiers : t = proc[r].token /\ i = proc[r].id
    BY <1>1, <1>2, Fields, Zenon DEF ProcOK
  <1>5. t \in reusable \/ uses[t] = 0
    <2>1. uses[t] \in 0..2 BY <1>1, Zenon DEF ResetsOK
    <2>. QED BY <1>1, <1>2, <1>4, <2>1 DEF SingleUse, At
  <1>6. CASE Finish(r) /\ UNCHANGED <<hash, uses, excused>>
    <2>1. ProcOK' /\ Moves(r, "idle", "name", None) BY <1>1, <1>6, FinishMoves, Zenon
    <2>2. AccountOK' /\ CacheOK' /\ ResetsOK' BY <1>1, <1>3, <1>6, Zenon DEF AccountOK, CacheOK, ResetsOK
    <2>3. ~At(r, "delEmail") /\ ~At(r, "delName") BY <1>2, Zenon DEF At
    <2>4. CacheFresh' BY <1>1, <1>3, <1>6, <2>1, <2>3, FreshFrame, Zenon DEF cache
    <2>5. Unminted' /\ SingleUse' BY <1>3, <1>4, <1>5, <1>6, <2>1, TokensDropped, Zenon
    <2>. QED BY <1>2, <1>3, <2>1, <2>2, <2>4, <2>5, ResetFrame, Zenon
  <1>7. CASE /\ hash' = proc[r].pw
             /\ uses' = [uses EXCEPT ![t] = IF @ < 2 THEN @ + 1 ELSE @]
             /\ excused' = excused \cup (Cached \ Evicted(i))
             /\ Goto(r, "delEmail")
    <2>1. ProcOK' /\ Moves(r, "delEmail", i, t)
      <3>1. "delEmail" \in Stages \ {"fill", "update"} /\ "delEmail" \in Resetting BY Zenon DEF Stages, Resetting
      <3>. QED BY <1>1, <1>2, <1>4, <1>7, <3>1, GotoMoves, Zenon
    <2>2. AccountOK' BY <1>1, <1>2, <1>3, <1>7, Zenon DEF AccountOK, ProcOK
    <2>3. CacheOK' BY <1>1, <1>3, <1>7, Zenon DEF CacheOK, Cached
    <2>4. /\ uses' \in [Tokens -> 0..2]
          /\ t \notin reusable => uses'[t] = 1
          /\ \A u \in Tokens \ {t} : uses'[u] = uses[u]
      <3>1. uses \in [Tokens -> 0..2] BY <1>1, Zenon DEF ResetsOK
      <3>2. PICK n \in 0..2 : n = IF uses[t] < 2 THEN uses[t] + 1 ELSE uses[t] BY <3>1
      <3>3. uses' = [uses EXCEPT ![t] = n] BY <1>7, <3>2, Zenon
      <3>4. uses[t] = 0 => n = 1 BY <3>2
      <3>. QED BY <1>5, <3>1, <3>3, <3>4, Zenon
    <2>5. ResetsOK' BY <1>1, <1>3, <2>4, Zenon DEF ResetsOK
    <2>6. CacheFresh'
      <3>. SUFFICES ASSUME NEW j \in Stale', j \notin excused' PROVE j \in Owed(r)'
        BY Zenon DEF CacheFresh
      <3>1. j \in Cached BY <1>3, Zenon DEF Stale, Cached
      <3>2. j \in Evicted(i) BY <1>7, <3>1, Zenon
      <3>3. Owed(r)' = Evicted(i) BY <2>1, OwesEvicted, Zenon
      <3>. QED BY <3>2, <3>3, Zenon
    <2>7. \A q \in Requests : /\ proc'[q].token = proc[q].token
                              /\ proc'[q].stage = "update" => proc[q].stage = "update" /\ q # r
      BY <1>4, <2>1, Zenon DEF Moves
    <2>8. tokenFor[t] # None BY <1>1, <1>4, Zenon DEF Unminted
    <2>9. Unminted' BY <1>1, <1>3, <2>4, <2>7, <2>8 DEF Unminted
    <2>10. ASSUME NEW u \in Tokens, u \notin reusable
           PROVE  /\ \A p, q \in Requests : proc[p].token = u /\ proc[q].token = u => p = q
                  /\ uses'[u] > 0 => /\ \A q \in Requests : proc[q].token = u => proc'[q].stage # "update"
                                     /\ tokenTtl[u] = 0 \/ \E q \in Requests : proc[q].token = u
                  /\ uses'[u] < 2
      <3>1. u \in Tokens \ reusable BY <2>10, Zenon
      <3>2. \A p, q \in Requests : proc[p].token = u /\ proc[q].token = u => p = q
        BY <1>1, <3>1, Zenon DEF SingleUse
      <3>3. CASE u = t BY <1>4, <2>4, <2>7, <2>10, <3>2, <3>3
      <3>4. CASE u # t BY <1>1, <2>4, <2>7, <3>1, <3>2, <3>4, ZenonT(30) DEF SingleUse, At
      <3>. QED BY <3>3, <3>4, Zenon
    <2>11. SingleUse' BY <1>3, <2>7, <2>10 DEF SingleUse, At
    <2>. QED BY <1>2, <1>3, <2>1, <2>2, <2>3, <2>5, <2>6, <2>9, <2>11, ResetFrame
  <1>. QED BY <1>4, <1>6, <1>7, Zenon DEF UpdatePassword

\* A profile is deleted, or excused when it is stale.
LEMMA Evicts ==
  ASSUME CacheOK, NEW i \in Identifiers, Evict(i), hash' = hash
  PROVE  /\ CacheOK'
         /\ i \in Stale' => i \in excused'
         /\ \A j \in Identifiers \ {i} : (j \in Stale' => j \in Stale) /\ (j \in excused => j \in excused')
  <1>1. CASE /\ excused' = excused \cup (Stale \cap {i})
             /\ UNCHANGED <<profile, profileTtl>>
    <2>1. Stale' = Stale /\ Stale \subseteq Identifiers BY <1>1, Zenon DEF Stale, Cached
    <2>2. CacheOK' BY <1>1, <2>1, Zenon DEF CacheOK
    <2>. QED BY <1>1, <2>1, <2>2, Zenon
  <1>2. CASE /\ profile' = [profile EXCEPT ![i] = None]
             /\ profileTtl' = [profileTtl EXCEPT ![i] = 0]
             /\ excused' = excused \ {i}
    <2>1. 0 \in 0..PROFILE_TTL BY CredentialsAssumption
    <2>2. /\ profile'[i] = None /\ profileTtl'[i] = 0
          /\ \A j \in Identifiers \ {i} : profile'[j] = profile[j] /\ profileTtl'[j] = profileTtl[j]
      BY <1>2, Zenon DEF CacheOK
    <2>3. CacheOK'
      <3>1. profile' \in [Identifiers -> Passwords \cup {None}] BY <1>2, Zenon DEF CacheOK
      <3>2. profileTtl' \in [Identifiers -> 0..PROFILE_TTL] BY <1>2, <2>1, Zenon DEF CacheOK
      <3>3. \A j \in Identifiers : profileTtl'[j] > 0 <=> profile'[j] # None BY <2>2 DEF CacheOK
      <3>4. excused' \subseteq Identifiers BY <1>2, Zenon DEF CacheOK
      <3>. QED BY <3>1, <3>2, <3>3, <3>4, Zenon DEF CacheOK
    <2>4. i \notin Stale' BY <2>2 DEF Stale, Cached
    <2>5. \A j \in Identifiers \ {i} : j \in Stale' => j \in Stale BY <2>2, Zenon DEF Stale, Cached
    <2>. QED BY <1>2, <2>3, <2>4, <2>5, Zenon
  <1>. QED BY <1>1, <1>2, Zenon DEF Evict

\* A reset deletes a profile and goes on to the next.
LEMMA DeleteStep ==
  ASSUME IInv, NEW r \in Requests, NEW i \in Identifiers, NEW s \in {"delName", "delToken"},
         proc[r].stage \in {"delEmail", "delName"}, Evict(i), Goto(r, s),
         \A j \in Identifiers : j \in Owed(r) => j = i \/ (j = "name" /\ s = "delName"),
         UNCHANGED <<account, lockout, resets>>
  PROVE  IInv'
  <1>1. ProcOK /\ CacheOK /\ ResetsOK /\ AccountOK /\ CacheFresh /\ Unminted /\ SingleUse
    BY Zenon DEF IInv, Types
  <1>2. ProcOK' /\ Moves(r, s, proc[r].id, proc[r].token)
    <2>1. s \in Stages \ {"fill", "update"} /\ s \in Resetting /\ proc[r].stage \in Resetting
      BY Zenon DEF Stages, Resetting
    <2>. QED BY <1>1, <2>1, GotoMoves, Zenon
  <1>3. hash' = hash BY Zenon DEF account
  <1>4. AccountOK' /\ ResetsOK' BY <1>1, Zenon DEF AccountOK, ResetsOK, account, resets
  <1>5. CacheOK' BY <1>1, <1>3, Evicts, Zenon
  <1>6. Unminted' /\ SingleUse' BY <1>1, <1>2, TokensKept, Zenon
  <1>7. CacheFresh'
    <2>. SUFFICES ASSUME NEW j \in Identifiers, j \in Stale', j \notin excused'
                  PROVE  \E q \in Requests : j \in Owed(q)'
      BY Zenon DEF CacheFresh, Stale, Cached
    <2>1. j # i BY <1>1, <1>3, Evicts, Zenon
    <2>2. j \in Stale /\ j \notin excused BY <1>1, <1>3, <2>1, Evicts, Zenon
    <2>3. PICK q \in Requests : j \in Owed(q) BY <1>1, <2>2, Zenon DEF CacheFresh
    <2>4. CASE q # r
      <3>1. Owed(q)' = Owed(q) BY <1>2, <2>4, OwedKept, Zenon DEF Moves
      <3>. QED BY <2>3, <3>1, Zenon
    <2>5. CASE q = r
      <3>1. j = "name" /\ s = "delName" BY <2>1, <2>3, <2>5, Zenon
      <3>2. proc'[r].stage = "delName" BY <1>2, <3>1, Zenon DEF Moves
      <3>3. Owed(r)' = {"name"} BY <3>2, Zenon DEF Owed, At
      <3>. QED BY <3>1, <3>3, Zenon
    <2>. QED BY <2>4, <2>5, Zenon
  <1>8. proc[r].stage \in Resetting BY Zenon DEF Resetting
  <1>. QED BY <1>2, <1>4, <1>5, <1>6, <1>7, <1>8, ResetFrame

\* The profile under the e-mail, then the one under the user name.
LEMMA InvalidateEmailStep ==
  ASSUME IInv, NEW r \in Requests, InvalidateEmail(r)
  PROVE  IInv'
  <1>1. PICK i \in Identifiers : i = proc[r].id BY Fields, Zenon DEF IInv, Types
  <1>2. PICK s \in {"delName", "delToken"} : s = IF Found(i) THEN "delName" ELSE "delToken" OBVIOUS
  <1>3. At(r, "delEmail") /\ Evict(i) /\ Goto(r, s) /\ UNCHANGED <<account, lockout, resets>>
    BY <1>1, <1>2, Zenon DEF InvalidateEmail
  <1>4. Owed(r) = Evicted(i) BY <1>1, <1>3, Zenon DEF Owed, At
  <1>5. \A j \in Identifiers : j \in Owed(r) => j = i \/ (j = "name" /\ s = "delName")
    BY <1>2, <1>4 DEF Evicted
  <1>. QED BY <1>3, <1>5, DeleteStep, Zenon DEF At

LEMMA InvalidateNameStep ==
  ASSUME IInv, NEW r \in Requests, InvalidateName(r)
  PROVE  IInv'
  <1>1. /\ At(r, "delName") /\ Evict("name") /\ Goto(r, "delToken")
        /\ UNCHANGED <<account, lockout, resets>> /\ "name" \in Identifiers
    BY NoneApart, Zenon DEF InvalidateName
  <1>2. Owed(r) = {"name"} BY <1>1, Zenon DEF Owed, At
  <1>. QED BY <1>1, <1>2, DeleteStep, Zenon DEF At

\* The token is deleted, or it is noted that it was not.
LEMMA InvalidateTokenStep ==
  ASSUME IInv, NEW r \in Requests, InvalidateToken(r)
  PROVE  IInv'
  <1>1. ProcOK /\ CacheOK /\ ResetsOK /\ AccountOK /\ CacheFresh BY Zenon DEF IInv, Types
  <1>2. proc[r].stage = "delToken" /\ proc[r].stage \in Resetting BY Zenon DEF InvalidateToken, At, Resetting
  <1>3. UNCHANGED <<account, cache, lockout, tokenFor, uses>> BY Zenon DEF InvalidateToken
  <1>4. PICK t \in Tokens : t = proc[r].token BY <1>1, <1>2, Zenon DEF ProcOK
  <1>5. ProcOK' /\ Moves(r, "idle", "name", None) BY <1>1, FinishMoves, Zenon DEF InvalidateToken
  <1>6. \/ tokenTtl' = [tokenTtl EXCEPT ![t] = 0] /\ reusable' = reusable
        \/ tokenTtl' = tokenTtl /\ reusable' = reusable \cup {t}
    BY <1>4, Zenon DEF InvalidateToken
  <1>7. /\ tokenTtl' \in [Tokens -> 0..RESET_TTL] /\ reusable' \subseteq Tokens
        /\ reusable \subseteq reusable'
        /\ \A u \in Tokens : tokenTtl'[u] = tokenTtl[u] \/ tokenTtl'[u] = 0
        /\ t \in reusable' \/ tokenTtl'[t] = 0
    <2>1. 0 \in 0..RESET_TTL BY CredentialsAssumption
    <2>. QED BY <1>1, <1>6, <2>1 DEF ResetsOK
  <1>8. ResetsOK' /\ CacheOK' /\ AccountOK'
    BY <1>1, <1>3, <1>7, Zenon DEF ResetsOK, CacheOK, AccountOK, account, cache
  <1>9. ~At(r, "delEmail") /\ ~At(r, "delName") BY <1>2, Zenon DEF At
  <1>10. CacheFresh' BY <1>1, <1>3, <1>5, <1>9, FreshFrame, Zenon DEF account
  <1>11. Unminted' /\ SingleUse' BY <1>3, <1>4, <1>5, <1>7, TokensDropped, Zenon
  <1>. QED BY <1>2, <1>3, <1>5, <1>8, <1>10, <1>11, ResetFrame, Zenon

-----------------------------------------------------------------------------
\* A dropped request leaves what it has still to do to the history variables.
LEMMA DropStep ==
  ASSUME IInv, NEW r \in Requests, Drop(r)
  PROVE  IInv'
  <1>1. ProcOK /\ CacheOK /\ ResetsOK /\ AccountOK /\ LockoutOK /\ SingleUse BY Zenon DEF IInv, Types
  <1>2. UNCHANGED <<account, profile, profileTtl, attempts, attemptsTtl, lockTtl, tokenFor, tokenTtl, uses>>
    BY Zenon DEF Drop
  <1>3. ProcOK' /\ Moves(r, "idle", "name", None) BY <1>1, FinishMoves, Zenon DEF Drop
  <1>4. proc[r].id \in Identifiers BY <1>1, Fields, Zenon
  <1>5. /\ lockLost' \subseteq Identifiers /\ late' \subseteq Identifiers
        /\ lockLost \subseteq lockLost' /\ late \subseteq late'
        /\ At(r, "lock") => proc[r].id \in lockLost'
    BY <1>1, <1>4, Zenon DEF Drop, LockoutOK
  <1>6. LockoutOK' BY <1>1, <1>2, <1>5, Zenon DEF LockoutOK
  <1>7. Locked'
    <2>. SUFFICES ASSUME NEW j \in Identifiers, attempts'[j] >= LOGIN_MAX_FAILED_ATTEMPTS,
                         ~(attemptsTtl'[j] <= lockTtl'[j]), j \notin lockLost'
                  PROVE  \E q \in Requests : proc'[q].stage = "lock" /\ proc'[q].id = j
      BY Zenon DEF Locked, At
    <2>1. PICK q \in Requests : At(q, "lock") /\ proc[q].id = j BY <1>2, <1>5, Zenon DEF IInv, Locked
    <2>2. proc'[q] = proc[q] BY <1>3, <1>5, <2>1, Zenon DEF Moves
    <2>. QED BY <2>1, <2>2, Zenon DEF At
  <1>8. Outlasts' BY <1>2, <1>5, Zenon DEF IInv, Outlasts
  <1>9. excused' = excused \cup (Stale \cap Owed(r)) BY Zenon DEF Drop
  <1>10. Stale' = Stale /\ Stale \subseteq Identifiers BY <1>2, Zenon DEF Stale, Cached, account
  <1>11. CacheOK' BY <1>1, <1>2, <1>9, <1>10, Zenon DEF CacheOK
  <1>12. CacheFresh'
    <2>. SUFFICES ASSUME NEW j \in Stale, j \notin excused' PROVE \E q \in Requests : j \in Owed(q)'
      BY <1>10, Zenon DEF CacheFresh
    <2>1. PICK q \in Requests : j \in Owed(q) BY <1>9, Zenon DEF IInv, CacheFresh
    <2>2. q # r BY <1>9, <2>1, Zenon
    <2>3. Owed(q)' = Owed(q) BY <1>3, <2>2, OwedKept, Zenon DEF Moves
    <2>. QED BY <2>1, <2>3, Zenon
  <1>13. /\ reusable' \subseteq Tokens /\ reusable \subseteq reusable'
         /\ proc[r].stage \in {"delEmail", "delName", "delToken"} => proc[r].token \in reusable'
    BY <1>1, Zenon DEF Drop, ProcOK, ResetsOK, Resetting
  <1>14. ResetsOK' BY <1>1, <1>2, <1>13, Zenon DEF ResetsOK
  <1>15. \A t \in Tokens : proc[r].token = t => uses[t] = 0 \/ t \in reusable'
    <2>. SUFFICES ASSUME NEW t \in Tokens, proc[r].token = t, t \notin reusable' PROVE uses[t] = 0
      OBVIOUS
    <2>1. proc[r].stage = "update" BY <1>1, <1>13, Zenon DEF ProcOK, Resetting
    <2>2. uses[t] \in 0..2 /\ t \in Tokens \ reusable BY <1>1, <1>13, Zenon DEF ResetsOK
    <2>. QED BY <1>1, <2>1, <2>2 DEF SingleUse, At
  <1>16. Unminted' /\ SingleUse' BY <1>2, <1>3, <1>13, <1>15, TokensDropped, Zenon
  <1>17. AccountOK' BY <1>1, <1>2, Zenon DEF AccountOK, account
  <1>. QED BY <1>3, <1>6, <1>7, <1>8, <1>11, <1>12, <1>14, <1>16, <1>17, Zenon DEF IInv, Types

\* A counter's time runs with the time of the lock.
LEMMA TickStep ==
  ASSUME IInv, Tick
  PROVE  IInv'
  <1>1. ProcOK /\ CacheOK /\ ResetsOK /\ AccountOK /\ LockoutOK BY Zenon DEF IInv, Types
  <1>2. UNCHANGED <<account, tokenFor, uses, reusable, proc>> BY Zenon DEF Tick
  <1>3. {LOGIN_MAX_FAILED_ATTEMPTS, LOGIN_LOCKOUT, PROFILE_TTL, RESET_TTL} \subseteq Nat \ {0}
    BY CredentialsAssumption, Zenon
  <1>4. \A i \in Identifiers :
          /\ profileTtl'[i] = (IF profileTtl[i] > 0 THEN profileTtl[i] - 1 ELSE 0)
          /\ attemptsTtl'[i] = (IF attemptsTtl[i] > 0 THEN attemptsTtl[i] - 1 ELSE 0)
          /\ lockTtl'[i] = (IF lockTtl[i] > 0 THEN lockTtl[i] - 1 ELSE 0)
          /\ profile'[i] = (IF profileTtl[i] > 1 THEN profile[i] ELSE None)
          /\ attempts'[i] = (IF attemptsTtl[i] > 1 THEN attempts[i] ELSE 0)
    BY <1>1, Zenon DEF Tick, Older, CacheOK, LockoutOK
  <1>5. \A t \in Tokens : tokenTtl'[t] = IF tokenTtl[t] > 0 THEN tokenTtl[t] - 1 ELSE 0
    BY <1>1, Zenon DEF Tick, Older, ResetsOK
  <1>6. /\ lockLost' = {i \in lockLost : attemptsTtl[i] > 1} /\ late' = {i \in late : attemptsTtl[i] > 1}
        /\ excused' = {i \in excused : profileTtl[i] > 1}
    BY Zenon DEF Tick
  <1>7. CacheOK'
    <2>1. profile' \in [Identifiers -> Passwords \cup {None}] BY <1>1, Zenon DEF Tick, CacheOK
    <2>2. profileTtl' \in [Identifiers -> 0..PROFILE_TTL] BY <1>1, <1>3 DEF Tick, Older, CacheOK
    <2>3. \A i \in Identifiers : profileTtl'[i] > 0 <=> profile'[i] # None BY <1>1, <1>3, <1>4 DEF CacheOK
    <2>. QED BY <1>1, <1>6, <2>1, <2>2, <2>3, Zenon DEF CacheOK
  <1>8. LockoutOK'
    <2>1. attempts' \in [Identifiers -> Nat] BY <1>1, Zenon DEF Tick, LockoutOK
    <2>2. /\ attemptsTtl' \in [Identifiers -> 0..LOGIN_LOCKOUT]
          /\ lockTtl' \in [Identifiers -> 0..LOGIN_LOCKOUT]
      BY <1>1, <1>3 DEF Tick, Older, LockoutOK
    <2>3. \A i \in Identifiers : attemptsTtl'[i] > 0 <=> attempts'[i] > 0
      BY <1>1, <1>3, <1>4 DEF LockoutOK
    <2>. QED BY <1>1, <1>6, <2>1, <2>2, <2>3, Zenon DEF LockoutOK
  <1>9. ResetsOK'
    <2>1. tokenTtl' \in [Tokens -> 0..RESET_TTL] BY <1>1, <1>3 DEF Tick, Older, ResetsOK
    <2>. QED BY <1>1, <1>2, <2>1, Zenon DEF ResetsOK
  <1>10. Types' BY <1>1, <1>2, <1>7, <1>8, <1>9, Zenon DEF Types, ProcOK, AccountOK, account
  <1>11. Locked'
    <2>. SUFFICES ASSUME NEW i \in Identifiers, attempts'[i] >= LOGIN_MAX_FAILED_ATTEMPTS
                  PROVE  \/ attemptsTtl'[i] <= lockTtl'[i] \/ i \in lockLost'
                         \/ \E r \in Requests : At(r, "lock") /\ proc[r].id = i
      BY <1>2, Zenon DEF Locked, At
    <2>1. /\ attemptsTtl[i] \in Nat /\ lockTtl[i] \in Nat /\ attempts[i] \in Nat
      BY <1>1, <1>3 DEF LockoutOK
    <2>2. attemptsTtl[i] > 1 /\ attempts[i] >= LOGIN_MAX_FAILED_ATTEMPTS BY <1>3, <1>4
    <2>3. attemptsTtl[i] <= lockTtl[i] => attemptsTtl'[i] <= lockTtl'[i] BY <1>4, <2>1
    <2>. QED BY <1>6, <2>2, <2>3, Zenon DEF IInv, Locked
  <1>12. Outlasts'
    <2>. SUFFICES ASSUME NEW i \in Identifiers, lockTtl'[i] > 0
                  PROVE  attemptsTtl'[i] <= lockTtl'[i] \/ i \in late'
      BY Zenon DEF Outlasts
    <2>1. attemptsTtl[i] \in Nat /\ lockTtl[i] \in Nat BY <1>1, <1>3 DEF LockoutOK
    <2>2. attemptsTtl[i] <= lockTtl[i] \/ i \in late BY <1>4, <2>1 DEF IInv, Outlasts
    <2>. QED BY <1>4, <1>6, <2>1, <2>2
  <1>13. CacheFresh'
    <2>. SUFFICES ASSUME NEW i \in Identifiers, i \in Stale', i \notin excused'
                  PROVE  \E r \in Requests : i \in Owed(r)'
      BY Zenon DEF CacheFresh, Stale, Cached
    <2>1. profileTtl'[i] > 0 /\ profile'[i] # hash BY <1>2, Zenon DEF Stale, Cached, account
    <2>2. profileTtl[i] \in Nat BY <1>1, <1>3 DEF CacheOK
    <2>3. profileTtl[i] > 1 /\ profile[i] # hash BY <1>4, <2>1, <2>2
    <2>4. i \in Stale /\ i \notin excused BY <1>6, <2>2, <2>3 DEF Stale, Cached
    <2>5. PICK r \in Requests : i \in Owed(r) BY <2>4, Zenon DEF IInv, CacheFresh
    <2>6. Owed(r)' = Owed(r) BY <1>2, OwedKept, Zenon
    <2>. QED BY <2>5, <2>6, Zenon
  <1>14. \A t \in Tokens : tokenTtl[t] = 0 => tokenTtl'[t] = 0 BY <1>5
  <1>15. Unminted' BY <1>2, <1>14, Zenon DEF IInv, Unminted
  <1>16. SingleUse' BY <1>2, <1>14 DEF IInv, SingleUse, At
  <1>. QED BY <1>10, <1>11, <1>12, <1>13, <1>15, <1>16, Zenon DEF IInv

-----------------------------------------------------------------------------
(* Theorems.                                                               *)

\* The invariant holds at first.
LEMMA InitInv == Init => IInv
  <1>. SUFFICES ASSUME Init PROVE IInv OBVIOUS
  <1>1. \A r \in Requests : proc[r] = Idle BY Zenon DEF Init
  <1>2. Idle \in ProcType /\ Idle.stage = "idle" /\ Idle.token = None
    BY NoneApart, Zenon DEF Idle, ProcType, Stages
  <1>3. ProcOK
    <2>1. proc \in [Requests -> ProcType] BY <1>2, Zenon DEF Init
    <2>. QED BY <1>1, <1>2, <2>1, NoneApart, Zenon DEF ProcOK, Resetting
  <1>4. AccountOK BY CredentialsAssumption, Zenon DEF Init, AccountOK
  <1>5. 0 \in 0..PROFILE_TTL /\ 0 \in 0..LOGIN_LOCKOUT /\ 0 \in 0..RESET_TTL /\ 0 \in 0..2
    BY CredentialsAssumption
  <1>6. CacheOK /\ LockoutOK /\ ResetsOK BY <1>5 DEF Init, CacheOK, LockoutOK, ResetsOK
  <1>7. LOGIN_MAX_FAILED_ATTEMPTS \in Nat /\ LOGIN_MAX_FAILED_ATTEMPTS > 0 BY CredentialsAssumption
  <1>8. Locked /\ Outlasts BY <1>7 DEF Init, Locked, Outlasts
  <1>9. CacheFresh BY DEF Init, CacheFresh, Stale, Cached
  <1>10. Unminted /\ SingleUse BY <1>1, <1>2, NoneApart DEF Init, Unminted, SingleUse
  <1>. QED BY <1>3, <1>4, <1>6, <1>8, <1>9, <1>10, Zenon DEF IInv, Types

\* Every step keeps it.
LEMMA NextInv == IInv /\ [Next]_vars => IInv'
  <1>. SUFFICES ASSUME IInv, [Next]_vars PROVE IInv' OBVIOUS
  <1>1. ASSUME NEW r \in Requests, NEW i \in Typed, NEW pw \in Passwords, Login(r, i, pw) PROVE IInv'
    BY <1>1, LoginStep, Zenon
  <1>2. ASSUME NEW r \in Requests, NEW t \in Tokens, NEW pw \in Passwords, ResetPassword(r, t, pw)
        PROVE  IInv'
    BY <1>2, ResetStep, Zenon
  <1>3. ASSUME NEW r \in Requests, RequestStep(r) PROVE IInv'
    <2>1. CASE CacheGet(r) BY <2>1, CacheGetStep, Zenon
    <2>2. CASE FindUser(r) BY <2>2, FindStep
    <2>3. CASE CacheFill(r) BY <2>3, FillStep
    <2>4. CASE CountFailure(r) BY <2>4, CountStep
    <2>5. CASE LockAccount(r) BY <2>5, LockStep
    <2>6. CASE ClearAttempts(r) BY <2>6, ClearStep
    <2>7. CASE UpdatePassword(r) BY <2>7, UpdateStep
    <2>8. CASE InvalidateEmail(r) BY <2>8, InvalidateEmailStep
    <2>9. CASE InvalidateName(r) BY <2>9, InvalidateNameStep
    <2>10. CASE InvalidateToken(r) BY <2>10, InvalidateTokenStep
    <2>. QED BY <1>3, <2>1, <2>2, <2>3, <2>4, <2>5, <2>6, <2>7, <2>8, <2>9, <2>10 DEF RequestStep
  <1>4. ASSUME NEW r \in Requests, Drop(r) PROVE IInv' BY <1>4, DropStep
  <1>5. ASSUME NEW i \in Typed \cup {"email"}, NEW t \in Tokens, ForgotPassword(i, t) PROVE IInv'
    <2>1. i \in Identifiers BY CredentialsAssumption, Zenon DEF Identifiers
    <2>. QED BY <1>5, <2>1, ForgotStep, Zenon
  <1>6. CASE Tick BY <1>6, TickStep, Zenon
  <1>7. CASE UNCHANGED vars
    BY <1>7 DEF vars, account, cache, lockout, resets, IInv, Types, ProcOK, AccountOK, CacheOK, LockoutOK,
                ResetsOK, Locked, Outlasts, CacheFresh, Stale, Cached, Owed, At, Unminted, SingleUse
  <1>. QED BY <1>1, <1>2, <1>3, <1>4, <1>5, <1>6, <1>7, Zenon DEF Next

\* The invariant is inductive.
THEOREM Inductive == Spec => []IInv
  BY InitInv, NextInv, PTL DEF Spec

\* Keys and requests have their types, and a key has a value as long as it has time.
THEOREM TypeCorrect == Spec => []TypeOK
  <1>1. IInv => TypeOK
    BY Zenon DEF IInv, Types, TypeOK, ProcOK, AccountOK, CacheOK, LockoutOK, ResetsOK
  <1>. QED BY <1>1, Inductive, PTL

\* For every threshold and however many logins overlap, an identifier at the
\* threshold is locked, about to be, or its lock was lost: the lock is set for as
\* long as the counter lasts, after the last failure was counted.
THEOREM FailuresLock == Spec => []ThresholdLocks
  <1>1. IInv => ThresholdLocks
    <2>. SUFFICES ASSUME IInv, NEW i \in Identifiers, attempts[i] >= LOGIN_MAX_FAILED_ATTEMPTS,
                         attemptsTtl[i] <= lockTtl[i]
                  PROVE  lockTtl[i] > 0
      BY Zenon DEF IInv, Locked, ThresholdLocks
    <2>1. {LOGIN_MAX_FAILED_ATTEMPTS, LOGIN_LOCKOUT} \subseteq Nat \ {0} BY CredentialsAssumption, Zenon
    <2>2. LockoutOK BY Zenon DEF IInv, Types
    <2>3. attempts[i] > 0 /\ attemptsTtl[i] \in Nat /\ lockTtl[i] \in Nat BY <2>1, <2>2 DEF LockoutOK
    <2>4. attemptsTtl[i] > 0 BY <2>2, <2>3, Zenon DEF LockoutOK
    <2>. QED BY <2>3, <2>4
  <1>. QED BY <1>1, Inductive, PTL

\* When a lock expires, no failure is counted but those counted while it stood and
\* those that could not be cleared.
THEOREM LocksEndClean == Spec => CleanSlate
  <1>1. IInv /\ [Next]_vars =>
          [\A i \in Identifiers :
             lockTtl[i] > 0 /\ lockTtl'[i] = 0 => attempts'[i] = 0 \/ i \in late]_vars
    <2>. SUFFICES ASSUME IInv, Next, NEW i \in Identifiers, lockTtl[i] > 0, lockTtl'[i] = 0
                  PROVE  attempts'[i] = 0 \/ i \in late
      OBVIOUS
    <2>1. LockoutOK /\ LOGIN_LOCKOUT \in Nat /\ LOGIN_LOCKOUT # 0
      BY CredentialsAssumption, Zenon DEF IInv, Types
    <2>2. attemptsTtl[i] \in Nat /\ lockTtl[i] \in Nat BY <2>1 DEF LockoutOK
    <2>3. CASE Tick
      <3>1. /\ lockTtl'[i] = (IF lockTtl[i] > 0 THEN lockTtl[i] - 1 ELSE 0)
            /\ attempts'[i] = (IF attemptsTtl[i] > 1 THEN attempts[i] ELSE 0)
        BY <2>1, <2>3, Zenon DEF Tick, Older, LockoutOK
      <3>. QED BY <2>2, <3>1 DEF IInv, Outlasts
    <2>4. ASSUME NEW r \in Requests, LockAccount(r) PROVE FALSE
      BY <2>1, <2>4 DEF LockAccount, LockoutOK
    <2>5. CASE lockTtl' = lockTtl BY <2>2, <2>5
    <2>6. ASSUME NEW r \in Requests, RequestStep(r), ~LockAccount(r) PROVE lockTtl' = lockTtl
      BY <2>6, Zenon DEF RequestStep, CacheGet, FindUser, CacheFill, CountFailure, ClearAttempts, UpdatePassword,
                  InvalidateEmail, InvalidateName, InvalidateToken, lockout
    <2>7. \/ Tick \/ lockTtl' = lockTtl \/ \E r \in Requests : LockAccount(r)
      <3>1. ASSUME NEW r \in Requests,
                   \/ \E j \in Typed, pw \in Passwords : Login(r, j, pw)
                   \/ \E t \in Tokens, pw \in Passwords : ResetPassword(r, t, pw)
                   \/ Drop(r)
            PROVE  lockTtl' = lockTtl
        BY <3>1, Zenon DEF Login, ResetPassword, Drop, lockout
      <3>2. ASSUME NEW j, NEW t, ForgotPassword(j, t) PROVE lockTtl' = lockTtl
        BY <3>2, Zenon DEF ForgotPassword, lockout
      <3>. QED BY <2>6, <3>1, <3>2, Zenon DEF Next
    <2>. QED BY <2>3, <2>4, <2>5, <2>7, Zenon
  <1>. QED BY <1>1, Inductive, PTL DEF Spec, CleanSlate

\* However many logins and resets overlap, a cached profile that is not the stored
\* password's is one a reset has still to delete, or has a known cause.
THEOREM ProfilesAreFresh == Spec => []CacheFresh
  BY Inductive, PTL DEF IInv

\* A reset token changes the password once, unless resets that present it overlap
\* or its deletion is lost.
THEOREM TokensAreUsedOnce == Spec => []TokenSingleUse
  <1>1. IInv => TokenSingleUse
    <2>. SUFFICES ASSUME IInv, NEW t \in Tokens, t \notin reusable PROVE ~(uses[t] > 1)
      BY Zenon DEF TokenSingleUse
    <2>1. uses[t] \in 0..2 BY Zenon DEF IInv, Types, ResetsOK
    <2>2. uses[t] < 2 BY Zenon DEF IInv, SingleUse
    <2>. QED BY <2>1, <2>2
  <1>. QED BY <1>1, Inductive, PTL
=============================================================================
