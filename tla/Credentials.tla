---------------------------- MODULE Credentials ----------------------------
(***************************************************************************)
(* One account's password: login with its failed-attempt counter, lock and *)
(* profile cache, forgot_password and reset_password.  Accounts share no   *)
(* key, so one is enough.                                                  *)
(*                                                                         *)
(* A step is one Redis command or one database statement.  A Redis key     *)
(* carries the time it has left; Tick lets one unit pass, and a key whose  *)
(* time is up is gone.  The CPU semaphore is a module of its own.          *)
(***************************************************************************)
EXTENDS Naturals

CONSTANTS
  Requests,            \* concurrent requests; a slot is free again when its request ends
  Passwords,
  Initial,             \* bound: the passwords the account may have been registered with
  Typed,               \* bound: the identifiers the clients log in with
  Tokens,              \* the reset tokens forgot_password can mint; bounds resets
  Cases,               \* bound: which values of mixedCase are tried
  Faults,              \* which of "read", "write", "drop" happen
  LOGIN_MAX_FAILED_ATTEMPTS,  \* 5 in the code
  LOGIN_LOCKOUT,       \* LOGIN_LOCKOUT_SECS, 900 s in the code
  PROFILE_TTL,         \* 300 s in the code
  RESET_TTL,           \* 900 s in the code
  MaxCount,            \* bound: how far the attempt counter may run
  None

\* What a client may type for the account, and what reset tokens may hold: the
\* user name, the e-mail as registered, the e-mail in lower case.
Identifiers == {"name", "email", "lower"}

ASSUME CredentialsAssumption ==
  /\ Initial \subseteq Passwords
  /\ Typed \subseteq Identifiers
  /\ Cases \subseteq BOOLEAN
  /\ Faults \subseteq {"read", "write", "drop"}
  /\ {LOGIN_MAX_FAILED_ATTEMPTS, LOGIN_LOCKOUT, PROFILE_TTL, RESET_TTL} \subseteq Nat \ {0}
  /\ MaxCount \in Nat
  /\ None \notin Passwords \cup Tokens \cup Identifiers

VARIABLES
  mixedCase,    \* whether the e-mail was registered with capital letters
  hash,         \* the password users.password_hash was made from
  profile,      \* profile[i]: the password of the profile cached under identifier i
  profileTtl,   \* profileTtl[i]: time left of that key, 0 when there is none
  excused,      \* history: identifiers whose profile may be old, because it was filled late,
                \* its eviction was lost or the reset knew the account by another spelling
  attempts,     \* attempts[i]: iam:login_attempts
  attemptsTtl,
  lockTtl,      \* lockTtl[i]: time left of iam:account_lock
  lockLost,     \* history: identifiers whose counter led to a lock that was not set
  late,         \* history: identifiers with a failure counted while they were locked, or
                \* whose counter was not cleared
  tokenFor,     \* tokenFor[t]: what reset token t holds, None before it is minted
  tokenTtl,
  uses,         \* uses[t]: history, how often token t has changed the password, up to 2
  reusable,     \* history: tokens presented by overlapping resets, or not deleted after use
  proc          \* proc[r]: what request r does

account == <<mixedCase, hash>>
cache == <<profile, profileTtl, excused>>
lockout == <<attempts, attemptsTtl, lockTtl, lockLost, late>>
resets == <<tokenFor, tokenTtl, uses, reusable>>
vars == <<account, cache, lockout, resets, proc>>

LowerEmail == IF mixedCase THEN "lower" ELSE "email"

Stages == {"idle", "get", "find", "fill", "incr", "lock", "clear",
           "update", "delEmail", "delName", "delToken"}

\* A request: the identifier it works on, the password typed or chosen, the
\* password of the profile it has loaded, the reset token it presents.
ProcType == [stage : Stages, id : Identifiers, pw : Passwords \cup {None},
             seen : Passwords \cup {None}, token : Tokens \cup {None}]
Idle == [stage |-> "idle", id |-> "name", pw |-> None, seen |-> None, token |-> None]

\* find_by_username_or_email compares exactly; update_password compares the
\* e-mail in lower case.
Found(i) == i \in {"name", "email"}
UpdatesPassword(i) == i \in {"email", "lower"}

\* The identifiers whose profiles a reset for identifier i deletes.
Evicted(i) == IF Found(i) THEN {i, "name"} ELSE {i}

Init ==
  /\ mixedCase \in Cases
  /\ hash \in Initial
  /\ profile = [i \in Identifiers |-> None]
  /\ profileTtl = [i \in Identifiers |-> 0]
  /\ attempts = [i \in Identifiers |-> 0]
  /\ attemptsTtl = [i \in Identifiers |-> 0]
  /\ lockTtl = [i \in Identifiers |-> 0]
  /\ lockLost = {} /\ late = {}
  /\ excused = {} /\ reusable = {}
  /\ tokenFor = [t \in Tokens |-> None]
  /\ tokenTtl = [t \in Tokens |-> 0]
  /\ uses = [t \in Tokens |-> 0]
  /\ proc = [r \in Requests |-> Idle]

TypeOK ==
  /\ mixedCase \in Cases
  /\ hash \in Passwords
  /\ profile \in [Identifiers -> Passwords \cup {None}]
  /\ profileTtl \in [Identifiers -> 0..PROFILE_TTL]
  /\ \A i \in Identifiers : profileTtl[i] > 0 <=> profile[i] # None
  /\ attempts \in [Identifiers -> Nat]
  /\ attemptsTtl \in [Identifiers -> 0..LOGIN_LOCKOUT]
  /\ \A i \in Identifiers : attemptsTtl[i] > 0 <=> attempts[i] > 0
  /\ lockTtl \in [Identifiers -> 0..LOGIN_LOCKOUT]
  /\ excused \cup lockLost \cup late \subseteq Identifiers
  /\ tokenFor \in [Tokens -> Identifiers \cup {None}]
  /\ tokenTtl \in [Tokens -> 0..RESET_TTL]
  /\ uses \in [Tokens -> 0..2]
  /\ reusable \subseteq Tokens
  /\ proc \in [Requests -> ProcType]
  /\ \A r \in Requests : proc[r].stage = "fill" => proc[r].seen \in Passwords
  /\ \A r \in Requests : proc[r].stage = "update" => proc[r].pw \in Passwords

-----------------------------------------------------------------------------
At(r, stage) == proc[r].stage = stage
Goto(r, stage) == proc' = [proc EXCEPT ![r].stage = stage]
Finish(r) == proc' = [proc EXCEPT ![r] = Idle]

Cached == {i \in Identifiers : profileTtl[i] > 0}
Stale == {i \in Cached : profile[i] # hash}

\* The identifiers whose profiles reset r has still to delete.
Owed(r) ==
  CASE At(r, "delEmail") -> Evicted(proc[r].id)
    [] At(r, "delName") -> {"name"}
    [] OTHER -> {}

-----------------------------------------------------------------------------
(* login.                                                                  *)

\* Mutant: a login on a locked identifier renews the lock.
LoginRenewsLock(r, i, pw) ==
  /\ At(r, "idle")
  /\ IF lockTtl[i] = 0
       THEN /\ proc' = [proc EXCEPT ![r] = [Idle EXCEPT !.stage = "get", !.id = i, !.pw = pw]]
            /\ UNCHANGED lockTtl
       ELSE lockTtl' = [lockTtl EXCEPT ![i] = LOGIN_LOCKOUT] /\ UNCHANGED proc
  /\ UNCHANGED <<account, cache, attempts, attemptsTtl, lockLost, late, resets>>

\* The lock is looked up first, and a failed lookup lets the login proceed.
\* A locked identifier is refused without any effect.
Login(r, i, pw) ==
  /\ At(r, "idle")
  /\ lockTtl[i] = 0 \/ "read" \in Faults
  /\ proc' = [proc EXCEPT ![r] = [Idle EXCEPT !.stage = "get", !.id = i, !.pw = pw]]
  /\ UNCHANGED <<account, cache, lockout, resets>>

\* verify_password: a hash matches the password it was made from.  It reads no
\* shared state, and is part of the step that loads the profile.
Verify(r, seen) ==
  proc' = [proc EXCEPT ![r] =
    [Idle EXCEPT !.stage = IF proc[r].pw = seen THEN "clear" ELSE "incr", !.id = proc[r].id]]

\* Mutant: a hit renews the profile's time.
CacheGetSliding(r) ==
  LET i == proc[r].id IN
  /\ At(r, "get")
  /\ IF profileTtl[i] > 0
       THEN /\ Verify(r, profile[i])
            /\ profileTtl' = [profileTtl EXCEPT ![i] = PROFILE_TTL]
       ELSE Goto(r, "find") /\ UNCHANGED profileTtl
  /\ UNCHANGED <<account, profile, excused, lockout, resets>>

\* The cached profile is used as it is; a miss or a failed GET asks the database.
CacheGet(r) ==
  LET i == proc[r].id IN
  /\ At(r, "get")
  /\ \/ /\ profileTtl[i] > 0
        /\ Verify(r, profile[i])
     \/ /\ profileTtl[i] = 0 \/ "read" \in Faults
        /\ Goto(r, "find")
  /\ UNCHANGED <<account, cache, lockout, resets>>

\* find_by_username_or_email, or invalid credentials.
FindUser(r) ==
  /\ At(r, "find")
  /\ IF Found(proc[r].id)
       THEN proc' = [proc EXCEPT ![r].stage = "fill", ![r].seen = hash]
       ELSE Finish(r)
  /\ UNCHANGED <<account, cache, lockout, resets>>

\* cache_set of the profile read before, which then decides the login.
CacheFill(r) ==
  LET i == proc[r].id IN
  /\ At(r, "fill")
  /\ \/ /\ profile' = [profile EXCEPT ![i] = proc[r].seen]
        /\ profileTtl' = [profileTtl EXCEPT ![i] = PROFILE_TTL]
        /\ excused' = IF proc[r].seen = hash THEN excused \ {i} ELSE excused \cup {i}
     \/ "write" \in Faults /\ UNCHANGED cache
  /\ Verify(r, proc[r].seen)
  /\ UNCHANGED <<account, lockout, resets>>

\* Mutant: the threshold is compared with `>'.
CountFailureOneMore(r) ==
  LET i == proc[r].id IN
  /\ At(r, "incr")
  /\ attempts[i] < MaxCount
  /\ attempts' = [attempts EXCEPT ![i] = @ + 1]
  /\ attemptsTtl' = [attemptsTtl EXCEPT ![i] = LOGIN_LOCKOUT]
  /\ IF attempts[i] + 1 > LOGIN_MAX_FAILED_ATTEMPTS THEN Goto(r, "lock") ELSE Finish(r)
  /\ UNCHANGED <<account, cache, lockTtl, lockLost, late, resets>>

\* increment_with_ttl, one MULTI: the counter's time starts anew with every
\* failure.  A failed command counts as zero.
CountFailure(r) ==
  LET i == proc[r].id IN
  /\ At(r, "incr")
  /\ \/ /\ attempts[i] < MaxCount
        /\ attempts' = [attempts EXCEPT ![i] = @ + 1]
        /\ attemptsTtl' = [attemptsTtl EXCEPT ![i] = LOGIN_LOCKOUT]
        /\ late' = IF lockTtl[i] > 0 THEN late \cup {i} ELSE late
        /\ IF attempts[i] + 1 >= LOGIN_MAX_FAILED_ATTEMPTS THEN Goto(r, "lock") ELSE Finish(r)
     \/ "write" \in Faults /\ Finish(r) /\ UNCHANGED <<attempts, attemptsTtl, late>>
  /\ UNCHANGED <<account, cache, lockTtl, lockLost, resets>>

\* Mutant: the lock is shorter than the counter's window.
LockAccountShort(r) ==
  /\ At(r, "lock")
  /\ lockTtl' = [lockTtl EXCEPT ![proc[r].id] = LOGIN_LOCKOUT - 1]
  /\ Goto(r, "clear")
  /\ UNCHANGED <<account, cache, attempts, attemptsTtl, lockLost, late, resets>>

\* cache_set of the lock, whose failure is swallowed.
LockAccount(r) ==
  LET i == proc[r].id IN
  /\ At(r, "lock")
  /\ \/ lockTtl' = [lockTtl EXCEPT ![i] = LOGIN_LOCKOUT] /\ UNCHANGED lockLost
     \/ "write" \in Faults /\ lockLost' = lockLost \cup {i} /\ UNCHANGED lockTtl
  /\ Goto(r, "clear")
  /\ UNCHANGED <<account, cache, attempts, attemptsTtl, late, resets>>

\* The counter is deleted after the lock is set, and after a success.
ClearAttempts(r) ==
  LET i == proc[r].id IN
  /\ At(r, "clear")
  /\ \/ /\ attempts' = [attempts EXCEPT ![i] = 0]
        /\ attemptsTtl' = [attemptsTtl EXCEPT ![i] = 0]
        /\ lockLost' = lockLost \ {i}
        /\ late' = late \ {i}
     \/ /\ "write" \in Faults
        /\ late' = IF attempts[i] > 0 THEN late \cup {i} ELSE late
        /\ UNCHANGED <<attempts, attemptsTtl, lockLost>>
  /\ Finish(r)
  /\ UNCHANGED <<account, cache, lockTtl, resets>>

-----------------------------------------------------------------------------
(* forgot_password and reset_password.                                     *)

\* A token for the identifier typed, in lower case; nothing for an unknown one.
ForgotPassword(i, t) ==
  /\ Found(i)
  /\ tokenFor[t] = None
  /\ tokenFor' = [tokenFor EXCEPT ![t] = IF i = "name" THEN i ELSE LowerEmail]
  /\ tokenTtl' = [tokenTtl EXCEPT ![t] = RESET_TTL]
  /\ UNCHANGED <<account, cache, lockout, uses, reusable, proc>>

\* GET of the token: without it the request is refused.  The user it belongs to
\* is looked up next; rows of users are never deleted.
ResetPassword(r, t, pw) ==
  /\ At(r, "idle")
  /\ tokenTtl[t] > 0
  /\ proc' = [proc EXCEPT ![r] =
       [Idle EXCEPT !.stage = "update", !.id = tokenFor[t], !.pw = pw, !.token = t]]
  /\ reusable' = IF \E q \in Requests : proc[q].token = t THEN reusable \cup {t} ELSE reusable
  /\ UNCHANGED <<account, cache, lockout, tokenFor, tokenTtl, uses>>

\* update_password, NotFound when it matches no row.
UpdatePassword(r) ==
  LET t == proc[r].token IN
  /\ At(r, "update")
  /\ IF UpdatesPassword(proc[r].id)
       THEN /\ hash' = proc[r].pw
            /\ uses' = [uses EXCEPT ![t] = IF @ < 2 THEN @ + 1 ELSE @]
            /\ excused' = excused \cup (Cached \ Evicted(proc[r].id))
            /\ Goto(r, "delEmail")
       ELSE Finish(r) /\ UNCHANGED <<hash, uses, excused>>
  /\ UNCHANGED <<mixedCase, profile, profileTtl, lockout, tokenFor, tokenTtl, reusable>>

Evict(i) ==
  \/ /\ profile' = [profile EXCEPT ![i] = None]
     /\ profileTtl' = [profileTtl EXCEPT ![i] = 0]
     /\ excused' = excused \ {i}
  \/ /\ "write" \in Faults
     /\ excused' = excused \cup (Stale \cap {i})
     /\ UNCHANGED <<profile, profileTtl>>

\* The profile cached under the token's e-mail, then the one under the user
\* name, if the e-mail in the token led to the user.
InvalidateEmail(r) ==
  /\ At(r, "delEmail")
  /\ Evict(proc[r].id)
  /\ Goto(r, IF Found(proc[r].id) THEN "delName" ELSE "delToken")
  /\ UNCHANGED <<account, lockout, resets>>

\* Mutant: only the e-mail's profile is invalidated.
InvalidateNameNot(r) ==
  /\ At(r, "delName")
  /\ Goto(r, "delToken")
  /\ UNCHANGED <<account, cache, lockout, resets>>

InvalidateName(r) ==
  /\ At(r, "delName")
  /\ Evict("name")
  /\ Goto(r, "delToken")
  /\ UNCHANGED <<account, lockout, resets>>

\* Mutant: the token is left to expire.
InvalidateTokenNot(r) ==
  /\ At(r, "delToken")
  /\ Finish(r)
  /\ UNCHANGED <<account, cache, lockout, resets>>

InvalidateToken(r) ==
  /\ At(r, "delToken")
  /\ \/ tokenTtl' = [tokenTtl EXCEPT ![proc[r].token] = 0] /\ UNCHANGED reusable
     \/ "write" \in Faults /\ reusable' = reusable \cup {proc[r].token} /\ UNCHANGED tokenTtl
  /\ Finish(r)
  /\ UNCHANGED <<account, cache, lockout, tokenFor, uses>>

-----------------------------------------------------------------------------
\* The request is dropped by TimeoutLayer, or one of its `?' returns an error.
Drop(r) ==
  /\ "drop" \in Faults
  /\ ~At(r, "idle")
  /\ lockLost' = IF At(r, "lock") THEN lockLost \cup {proc[r].id} ELSE lockLost
  /\ late' = IF At(r, "clear") /\ attempts[proc[r].id] > 0 THEN late \cup {proc[r].id} ELSE late
  /\ excused' = excused \cup (Stale \cap Owed(r))
  /\ reusable' = IF proc[r].stage \in {"delEmail", "delName", "delToken"}
                   THEN reusable \cup {proc[r].token} ELSE reusable
  /\ Finish(r)
  /\ UNCHANGED <<account, profile, profileTtl, attempts, attemptsTtl, lockTtl, tokenFor, tokenTtl, uses>>

Older(ttl) == [k \in DOMAIN ttl |-> IF ttl[k] > 0 THEN ttl[k] - 1 ELSE 0]

\* One unit of time passes; Redis drops what has expired.
Tick ==
  /\ profileTtl' = Older(profileTtl)
  /\ attemptsTtl' = Older(attemptsTtl)
  /\ lockTtl' = Older(lockTtl)
  /\ tokenTtl' = Older(tokenTtl)
  /\ profile' = [i \in Identifiers |-> IF profileTtl[i] > 1 THEN profile[i] ELSE None]
  /\ attempts' = [i \in Identifiers |-> IF attemptsTtl[i] > 1 THEN attempts[i] ELSE 0]
  /\ lockLost' = {i \in lockLost : attemptsTtl[i] > 1}
  /\ late' = {i \in late : attemptsTtl[i] > 1}
  /\ excused' = {i \in excused : profileTtl[i] > 1}
  /\ UNCHANGED <<account, tokenFor, uses, reusable, proc>>

RequestStep(r) ==
  \/ CacheGet(r) \/ FindUser(r) \/ CacheFill(r)
  \/ CountFailure(r) \/ LockAccount(r) \/ ClearAttempts(r)
  \/ UpdatePassword(r) \/ InvalidateEmail(r) \/ InvalidateName(r) \/ InvalidateToken(r)

Next ==
  \/ \E r \in Requests :
       \/ \E i \in Typed, pw \in Passwords : Login(r, i, pw)
       \/ \E t \in Tokens, pw \in Passwords : ResetPassword(r, t, pw)
       \/ RequestStep(r)
       \/ Drop(r)
  \/ \E i \in Typed \cup {"email"}, t \in Tokens : ForgotPassword(i, t)
  \/ Tick

Spec == Init /\ [][Next]_vars

\* Time passes, and a request that has been accepted is carried on.
FairSpec == Spec /\ WF_vars(Tick) /\ \A r \in Requests : WF_vars(RequestStep(r))

-----------------------------------------------------------------------------
(* Properties.                                                             *)

\* However many logins overlap and whatever fails, an identifier with as many
\* counted failures as the threshold is locked, or a request is about to lock it,
\* or the lock of that very count was lost: failing to clear the counter, losing
\* a lookup or dropping a login elsewhere opens no other way past the threshold.
ThresholdLocks ==
  \A i \in Identifiers : attempts[i] >= LOGIN_MAX_FAILED_ATTEMPTS =>
    \/ lockTtl[i] > 0
    \/ i \in lockLost
    \/ \E r \in Requests : At(r, "lock") /\ proc[r].id = i

\* The comment in login: when a lock expires the account starts from a clean slate,
\* with no failure counted, unless one was counted while the lock stood, or the
\* counter could not be cleared.
CleanSlate ==
  [][\A i \in Identifiers :
       lockTtl[i] > 0 /\ lockTtl'[i] = 0 => attempts'[i] = 0 \/ i \in late]_vars

\* A cached profile decides logins by the stored password, however logins and
\* resets overlap, except while a reset has still to delete it, and for one of the
\* three known causes: a fill with what was read before the reset, a lost
\* deletion, and a reset that knew the account by another spelling.
CacheFresh ==
  \A i \in Stale : i \in excused \/ \E r \in Requests : i \in Owed(r)

\* A reset token changes the password at most once, unless resets that present it
\* overlap, or its deletion is lost.
TokenSingleUse == \A t \in Tokens : uses[t] > 1 => t \in reusable

\* A step in which no login gets past a lock because its lookup failed.
LookupAnswered ==
  \A r \in Requests : At(r, "idle") /\ At(r, "get")' => lockTtl[proc'[r].id] = 0

\* Every lock is temporary: once lookups of the lock stop failing, no client keeps
\* an identifier locked for ever by repeating logins.
LockIsTemporary ==
  <>[][LookupAnswered]_vars => \A i \in Identifiers : []<>(lockTtl[i] = 0)

\* Whatever races with a reset or fails in it, once resets stop every cached
\* profile comes to have the stored password: a stale one is never renewed.
StaleProfilesExpire ==
  <>[](Stale = {})
=============================================================================
