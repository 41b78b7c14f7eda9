# Verification of the GridTokenX IAM service

TLA+ models of the identity service in `src/`, checked with TLC on small
instances and, where noted, proved with TLAPS for every value of the constants.
`PROJECT.json` lists the components, the runs, the mutants each property is
tested against, the source lines behind every definition, the hazards, the
theorems, and the disagreements between the code and its own words that a run shows.

## 1. The system

One process (`src/bin/iam-service/src/startup.rs`) serves a REST router (Axum)
and a ConnectRPC router over one `AuthService`. It keeps its state in Postgres
(`users`, `user_wallets`, `api_keys`, `iam_outbox_events`), in Redis (a cache
with TTLs, and an event stream), in Kafka, and on the Solana chain behind Chain
Bridge. Handlers are `async`: between two statements of a handler any other
handler may run. The REST `TimeoutLayer` may drop a handler at any await; an RPC
is dropped when its client goes away.

| Part | Code | State it changes | Operations |
|---|---|---|---|
| Event bus, outbox, worker | `event_bus.rs`, `event_bus/kafka.rs`, `repository/outbox.rs`, `outbox_worker.rs` | outbox rows, Redis stream, Kafka | publish, publish_batch, dispatch_kafka, tick |
| Wallets and registration | `auth_service.rs`, `repository/wallet.rs`, `blockchain_provider.rs` | `user_wallets`, wallet columns of `users`, chain accounts | link, promote, unlink, provision, onboard, initialize |
| Login and lockout | `auth_service.rs` (login), `cache.rs` | attempt counter, lock, profile cache | login |
| Password reset | `auth_service.rs` (forgot, reset) | reset tokens, password hash, profile cache | forgot_password, reset_password |
| Registration and e-mail verification | `auth_service.rs` (register, verify, resend) | `users` rows, cooldown keys | register, verify_email, resend_verification |
| API keys | `auth_service.rs` (verify_api_key) | key cache, last_used_at | verify_api_key |
| Access tokens | `jwt_service.rs`, `domain/identity/auth.rs` | none stored; tokens in the hands of clients | login, verify_email, refresh |
| Rate limit | `middleware/rate_limit.rs`, `check_rate_limit` | window counters | middleware |
| CPU semaphore | `auth_service.rs` | permits | every password hash or check |
| Router layers | `startup.rs`, `config.rs` | slots of each route | concurrency limit, request timeout |
| REST handlers, gRPC service | `handlers/*.rs`, `identity_grpc.rs` | none of their own | 15 API routes, 8 RPCs |
| Roles, errors | `roles.rs`, `error/*.rs` | none (pure) | permissions, allowlists, error mapping |
| Password rules | `password.rs` | none (pure) | validate, generate |

How the parts interact. Every operation that matters publishes an event, through
the outbox; verification mails are such events. Login, reset and e-mail
verification share the profile cache in Redis. Verifying an e-mail provisions a
wallet, which a detached task registers on chain. The rate limiter stands in
front of the `/api/v1/auth` routes, the allowlists in front of everything. A REST
request waits for a slot of its route and, inside it, for a CPU permit; an RPC
waits for the permit only.

What makes it hard. Handlers consist of several commands to stores that have no
common transaction; most failures after the main write are swallowed
(`let _ = ...`); a handler can vanish between two commands; detached tasks and
blocking tasks outlive their handlers; chain transactions land late or never;
and caches and tokens keep deciding by what was true when they were written.

## 2. Modules

| Module | Models | Composed with |
|---|---|---|
| `EventRelay` | publish, dispatch, XADD, detached publish, worker, crash | implements `DurableDelivery` |
| `DurableDelivery` | abstract: what the outbox promises | |
| `Wallets` | the two wallet tables, the handlers on them, the chain | |
| `WalletSync` | observes which writers of `users.wallet_address` overlap or are lost | extends `Wallets` |
| `EmailVerification` | register, verify, resend | implements `Activation` |
| `Activation` | abstract: an account, its activation, its links | |
| `AccountSetup` | one account from register to a wallet on chain | `Activation` and `Wallets` |
| `Credentials` | login, lock, profile cache, reset | |
| `RateLimit` | one counter and its two Redis commands | |
| `CpuPermits` | the semaphore and the blocking tasks | |
| `Admission` | the layers of the router and the RPC server around it | extends and implements `CpuPermits` |
| `ApiKeyCache` | one key, its cache entry, concurrent verifications | |
| `Sessions` | tokens, refresh chains, expiry and leeway | |
| `RequestPath` | the way of a request through either surface | extends `Rbac`, `ApiErrors` |
| `Rbac`, `ApiErrors` | pure: permissions and allowlists; error variants, codes, statuses | |

`MC*` modules define symmetry sets and the constants a `.cfg` cannot write. `MCEdge`
puts five specifications that share no state into one run: a behaviour is one of
one of them, chosen at the start. `*Proofs` modules hold the theorems;
`RequestPathProofs` has those of the three modules a request meets first,
`RateLimit`, `Sessions` and `RequestPath`. Definitions marked "Mutant" in a module are
plausible mistakes in the definition that follows them. They are used by no
specification: substituted for that definition they show that a property would
notice the mistake.

How state and actions correspond to the code:

* **A handler is a record or stage per request slot** (`proc[r]`, `stage[r]` and
  the like); a
  step is one database statement, one transaction, one Redis command or one call
  to the chain, with everything the code computes before the next one. A slot is
  free again when its request ends, so the number of slots bounds concurrency
  and not the number of requests.
* **A Redis key** is its value and the time it has left; a `Tick` lets one unit of
  time pass. TTLs are small numbers; only their order matters to the properties.
* **Faults** are constants (`Faults`, a set of labels, and `MaxCrashes`): a
  command that fails, a reply that is lost after the command took effect, a
  request dropped between two commands, a task that is never spawned, a crash of
  the process. With a label left out, a run asks what the code does when only the
  interleaving is against it.
* **History variables** record what no code stores and a property needs. Most
  name a circumstance in which the code does not keep a promise, so that the
  property can say "only then": `degraded` and `failing` (events whose INSERT, or
  a send of which, reported an error), `drift` and `raced` (users whose address
  writers overlapped or lost a write, whose link was opened twice at once),
  `forgone` (a verification ended without its wallet, or the last one was unlinked), `lockLost`, `late`,
  `excused`, `reusable` (what `Credentials` says of locks, counters, profiles and
  tokens), `unarmed` (a fault kept the rate limit's expiry from being set),
  `disturbed` (resends overlapped, were dropped or lost a cooldown command). The
  circumstances that can be mended are forgotten when they are: `drift` by a
  promotion that begins alone, `lockLost` and `late` with the counter, `excused` with
  the profile. `forgone` and `disturbed` stay for good, so the properties that name
  them speak of behaviours up to the first such circumstance. Others measure: `quiet`
  and `since` the time since a key can no longer be cached and since its last event,
  `idle` that since a session's last token, `uses` how often a
  token changed the password, `mailTtl` the cooldown a mail calls for, `burst`
  whether an undisturbed mail came within it. No guard of an action that models
  code reads one.
* **Event relay.** `DispatchKafka` is one iteration of the dispatch loop (skip
  list, INSERT, on error the detached publish), `XAdd` one stream write,
  `FetchPending`/`Deliver`/`MarkProcessed`/`MarkFailed` the worker's tick, with
  `MarkLost` for an UPDATE that fails. Postgres, Redis and Kafka survive `Crash`.
* **Wallets.** `LinkStart` to `LinkLookup` are the statements of `link_wallet`,
  `Promote` is the transaction of `set_primary` and `SetWalletAddress` the
  statement after it, `Provision` the transaction that stores a custodial key and
  its wallet and spawns the task; `Register`, `Confirm`, `MarkUserOnboarded` and
  `MarkRegistered` are shared by the onboarding, the initialisation and the task.
  The unique constraints of the schema are guards. `Land` and `Drop` decide what
  becomes of a submitted transaction.
* **E-mail verification.** `OpenLink` is the lookup of the token and `Activate` the
  UPDATE, which goes by the e-mail address that was found: in between the link may
  expire, be replaced, or be followed by another visit.
* **Account setup.** `VerifyEmail` is the step in which `Activation` and `Wallets`
  meet: the UPDATE that activates the account returns its address, and without one
  the request goes on to `has_any_wallet` and the provisioning. The other calls
  need an active account, because `find_by_username_or_email` and `find_by_id` ask
  for one. The account side is the abstract one: `EmailVerification` is shown to
  implement it, so its requests, tokens and cooldowns need not be repeated.
* **Admission.** Axum applies a layer to each route by itself, so each route has
  `GLOBAL_CONCURRENCY_LIMIT` slots of its own; the timeout is outside the limit and
  counts the wait for a slot. `Enter`, `Respond` and `GiveUp` are the layers,
  `Handle` the steps of `CpuPermits` inside a handler.
* **Credentials** has one account and three spellings of its identifier (user
  name, e-mail as registered, e-mail in lower case), because which Redis keys a
  step touches depends on the spelling; `mixedCase` says whether the last two
  differ.
* **RequestPath** serves one request at a time: the checks share no state. A
  method is a sequence of steps (`limit`, `token`, `input`, `gate`, `patch`,
  `call`) in the order its surface takes them; the call succeeds or fails with an
  error `AuthService` raises there.

External code is modelled from its use: Redis expiry, tokio's fair semaphore and
the concurrency limit built on it, Chain Bridge, the JWT library's leeway, the roles of the platform's core crate,
the operator who deactivates a key.

## 3. Runs

Twelve runs, one for each question. States are distinct states. A property in the
form "unless X" names the circumstances in which the code does not keep it; the
runs let those happen too, so that nothing else can hide behind them.

* **`relay`** (288,160 states): one `publish_batch` of three events with an
  audit-only one among them, behind a poison row stored earlier; batch size 2,
  two attempts, one crash, broker, stream and database errors, a dropped request.
  A row is PROCESSED only once Kafka has its event; past its dispatch an event is
  delivered, waiting, quarantined or one whose INSERT reported an error; on Kafka a later event of the batch overtakes an earlier
  one only after a failure of the earlier one. The relay implements
  `DurableDelivery` under the mapping of row states to accepted, done and
  quarantined, its safety and its fairness: every stored row is settled in the end.
  The rows and batch size 2 give a full batch and a remainder; two attempts give a
  first, a last and a spent budget. Several publishing requests do not share
  anything but the table: the theorems of section 5 are for any number of them.
* **`wallets`** (373,294): two users, two keypairs, two requests at a time
  linking, promoting, unlinking, provisioning and initialising, failed writes of
  the address, dropped requests and crashes. At most one primary per user; no primary is unlinked and no wallet
  changes hands; `users.wallet_address` names the primary wallet or is about to,
  unless two of its writers overlapped, a write was lost, or another users row
  still has the address (an unlinked wallet's former owner keeps it), and a
  promotion that begins alone brings the two together again; a custodial wallet's
  key is the stored one unless two verifications of its owner ran at the same time.
  Two users, since every constraint is per user or per address; two requests,
  since the properties speak of pairs of writes; two addresses, so that one can be
  promoted or inserted while the other is primary. Symmetry over users and over
  requests is sound: no action distinguishes them. The chain is cut off here
  (`"bridge"`), because the run `account` is about it; a process that comes to its
  registration can then only end without having touched a table, and it is let end at
  once (`SettlesFirst`): no other step waits for it or reads what it leaves.
* **`account`** (62,021): one account from `register` to a wallet on chain, an
  address of the owner's and one keypair, lost links, failing provisioning, marks
  and lookups, submissions that fail or are dropped, a task that is never spawned.
  A verified account has a wallet, unless its verification ended before the wallet
  was committed; everybody comes to have an active account and a primary wallet, and gets
  one again when `set_primary` or `link_wallet` has committed its demotion and
  nothing more; nothing is recorded as registered that is not on chain; repeated
  onboarding converges to both marks. One request at a time beside the detached
  task: overlapping requests are the matter of `wallets`, and section 5 proves the
  invariants for any number of them, with unlinking, dropped requests and crashes.
* **`credentials`** (454,481): two overlapping requests (login, forgot, reset),
  failing reads and writes. When a lock expires no failure is counted, unless one
  came late or the counter could not be cleared; no identifier stays locked for
  ever; a stale cached profile is never renewed, so that the cache converges once
  resets stop. The threshold is 2, so that there is a failure that does not lock;
  the counter stops there (`MaxCount` 2), and `credentials_overlap` lets it run past;
  lock and profile live for two units, so that a renewal in the middle of a life is
  possible.
* **`credentials_overlap`** (1,830,973): two overlapping requests, two tokens,
  e-mails registered in lower and in mixed case, all faults and dropped requests.
  Every identifier whose counter reached the threshold is locked, unless that very
  lock was lost; a cached profile has the stored password except while a reset has
  still to delete it, when it was filled with what was read before the reset, when
  its deletion was lost, or when the reset knew the account by another spelling; a
  token changes the password once, unless resets that present it overlap or its
  deletion is lost. `MaxCount` 3 lets overlapping logins count past the threshold of 2;
  nothing is renewed here, so the profile lives for one unit. Symmetry over requests,
  passwords and tokens.
* **`email`** (61,948): registration, two overlapping resends and a visit of a link,
  three tokens, all faults. Unless requests overlap, are dropped or lose a cooldown
  command, what a resend mails is the current token, at most once per cooldown. The
  requests implement `Activation`, its safety and its fairness: an account is
  activated only for a link that worked when it was looked up, and its owner gets
  links until one is followed to the end. Two resends, because the properties speak
  of a resend and another one beside it; three tokens, for the registration's and one
  of each resend; one visit, because visits only read what the others write (the
  theorems have any number of all three).
* **`edge`** (39,888): the parts on the way of a request, one per behaviour.
  *Rate limit*: three overlapping requests, all faults, a zero override. Fewer than
  two budgets pass in a window: increments between the first hit's INCR and its SET
  are forgotten, and nothing else is. The counter comes below the limit again and
  again, unless a fault hit the first hit's two commands.
  *Sessions*: three tokens, two sessions, lifetime 3 and leeway 1. A session nobody
  refreshes ends with all its tokens after lifetime plus leeway. Three tokens make a
  chain in which the first is still valid; a slot is reused when its token is
  rejected, so time is unbounded.
  *Request path*: every method, caller, token, input and error. An RPC reaches the
  service exactly for the callers the repository README's table admits; a client's
  fault and the service's own stay apart in the reply of either surface. This part is
  exhaustive: its constants are those of the code.
  *API keys*: three overlapping verifications, a deactivation, all faults, a TTL of 3.
  The cache entry of a deactivated key ends within the TTL of the last store of a row
  read before, and the key is refused for good.
  *Admission*: three REST requests on two routes with one slot each, two RPCs, a
  limit of none, one or two permits, requests dropped anywhere. With both limits
  positive every wait for a slot or a permit ends, though the one is held while
  waiting for the other; and once timeouts fire every REST request is answered, even
  with no permits at all or with all of them in the hands of RPCs.

Five runs show that the code does not do what its own words say; section 6 has what
they say.

* **`rate_limit_stuck`**: the first hit's request is dropped between its INCR and its
  SET; the counter has no expiry, and once over the budget refuses for ever.
* **`custodial_keys`**: two verifications of one user both find no wallet and both
  provision; the first wallet stays and its key is overwritten.
* **`api_key_events`**: two verifications miss the cache together and both publish.
* **`cpu_tasks`**: a request is dropped while its hash runs; its permit serves the
  next one, and two hashes run with one permit.
* **`batch`**: a publish ends between two XADDs.

Deadlock is checked in every run but `relay` and `batch`, where all requests may be
served and all rows settled, and `custodial_keys`, where all wallets may be made.

## 4. Fairness

Safety properties assume none. The liveness runs assume:

| Run | Assumed | Why |
|---|---|---|
| `relay` | WF of the worker, SF of its two UPDATEs | the worker is a tokio task in an endless loop, restarted with the process; a database that rejects an UPDATE now and then does not reject it for ever |
| `account` | `Activation`'s fairness, which `email` shows; the owner repeats the next step (link, promote, onboard); requests are carried on; SF of the onboarding's submission, account lookup and two marks, and of landing for the primary wallet's transaction | this is what "retryable" and "can still link a wallet manually later" mean: each step may fail any finite number of times. Nothing is assumed of the detached task or of the other calls |
| `credentials`, and `edge` for the API key and the rate limit | WF of time and of the steps of an accepted request | Redis expires keys, tokio schedules ready tasks |
| `email` | the same; SF of the cooldown check, of minting and mailing while it is possible, of a publication that does not fail and of opening a mailed link that works and of the UPDATE for it; the user keeps asking | without the user nothing happens; Redis, the database and the publication do not fail for ever |
| `edge`, for admission | WF of a handler's next step | hashing ends and handlers are carried on; nothing is assumed of newcomers. `RestAnswered` has the timeout of REST requests as its premise, `NoStarvation` does without |

`LockIsTemporary` has one more premise, in the property itself: from some time on
lock lookups are answered. While a lookup fails the code lets the login go on, and
its failure may lock the identifier again.

No fairness is assumed of clients' other calls, of faults or of crashes.

## 5. Proofs

TLAPS proves the following for every value of the constants that satisfies the
named `ASSUME` of the module, for any number of steps, faults and crashes.

**`EventRelayProofs`** (from `RelayAssumption`, `OnePublisher`): `TypeCorrect`,
`ProcessedOnlyAfterDelivery`, `NothingLostSilently`,
`RowsSettleOnce`, `AuditsStayOnStream`, `BatchesAreCutShort`, `BatchesKeepOrder`,
`RelayImplementsDelivery`. That a PROCESSED row was delivered is not inductive: one
must know that the worker marks only what the broker has, and that the rows it
holds are still pending (`WorkerInv`). That nothing is lost needs `DispatchInv`: no
row before the event's dispatch, and one after it unless the event is audit-only or
its INSERT reported an error; `OnePublisher` (every event has its own id) keeps
requests from creating each other's rows. The prefix of `BatchesAreCutShort` is the
position of the XADD loop (`StreamInv`). The order on Kafka (`OrderInv`) follows the
rows: of two events of a batch the later one's row is younger, so a fetch takes it
only with or after the earlier one, and the worker takes the older of two first. The
refinement maps an accepted event to a row that exists; each step maps to one
abstract step or to a stutter.

**`WalletsProofs`** (from `WalletAssumption`): `TypeCorrect`, `OnePrimary`,
`MarksAreTrue`, `PrimaryIsKept`, `SyncIsWallets`, `KeysAreRecoverable`,
`AddressFollowsPrimary`. The strengthening for the marks is `MarksAreConfirmed`: a
process at a mark has seen its account, and accounts are never closed. One primary
per user follows from the guards of the three writes that set one. That no wallet
changes hands needs `Unmade`: a keypair nobody has made is in no table and no
request. For the keys (`KeyInv`): whoever has a keypair made for them has an
address, so no verification of theirs can begin any more, and only one that was
under way at the same time can overwrite the key. For the address (`SyncInv`): a
user in sync has one writer at a time, and what it is about to write is the primary
wallet. `SyncIsWallets` says that the added variables only observe.

**`AccountSetupProofs`** (from `AccountAssumption`): `SetupUsesWallets`,
`SetupMarksAreTrue`, `VerifiedAccountsHaveWallets`. The first
shows that the composition takes no step on the wallets but those of `Wallets`, so what
`WalletsProofs` proves of `Wallets`, instantiated for one user, is reused: its
inductive invariant is an invariant of the composition, and with it the truth of the
marks. That a verified account has its wallet belongs to the composition alone. It
needs three facts (`SetupInv`): an account that is not active has no address, so that
the activating verification goes on to provision; a verification is at
`has_any_wallet` or at its provisioning and nowhere else (`VerifyStages`), so that it
ends by a wallet, by finding one, by an error, a drop or a crash; and no other step
but an unlinking takes a wallet away.

**`CredentialsProofs`** (from `CredentialsAssumption`): `TypeCorrect`,
`FailuresLock`, `LocksEndClean`, `ProfilesAreFresh`, `TokensAreUsedOnce`. That the
threshold locks is not inductive, since lock and counter expire on their own: the
invariant says that a counter at the threshold does not outlive its lock
(`Locked`), and that no counter outlives a lock but for the known causes
(`Outlasts`), from which the clean slate follows. A token is used once because one
request at a time presents it, and after the use it is gone or that request is
about to delete it (`SingleUse`, `Unminted`).

**`EmailVerificationProofs`** (from `EmailVerificationAssumption`): `TypeCorrect`,
`LinksAreCurrent`, `MailsAreSpaced`, `RequestsImplementActivation`. While nothing
disturbs them requests come one at a time, the token a request holds is the
account's, and the cooldown of the last mail is on the key or about to be
(`OneAtATime`, `Current`, `Cooling`). The refinement is the safety part of
`VerificationIsSound`: a step of a request maps to a step of `Activation` or to a
stutter. `followed` is mapped to the visits under way, so that the theorem says of
every activation that its link was current and unexpired at the lookup, and not that
it still was at the UPDATE.

**`AdmissionProofs`** (from `CpuPermitsAssumption`, `AdmissionAssumption`):
`AdmissionImplementsSemaphore`, `BooksBalance`. Conservation of permits and slots is
inductive only together with what the queues hold: a release that wakes the head of
the queue keeps the count only if the queue holds each waiting request once.

**`ApiKeyCacheProofs`** (from `ApiKeyCacheAssumption`): `RevocationIsBounded`.
Once the key is inactive and no request holds its row, no request can come to hold
it, so only time changes the entry.

**`RequestPathProofs`**, for `RateLimit` (from `RateLimitAssumption`):
`OverrunIsBounded`, `RateTypeCorrect`. The bound of two budgets less one rests on a fact that is easy to
miss: only the request whose INCR returned 1 writes the SET, so at most one
request is between the two, and while it is, the counter has no expiry and
bounds what has passed; after the SET, less than a budget has passed besides what
the new count shows.

For `Sessions` (from `SessionsAssumption`): `SessionsEnd`. The invariant relates each
token to its session: what it has left plus the time the session has been idle is at
most the lifetime.

For `RequestPath` (from `RequestPathAssumption`): `CallersAreAdmitted`,
`FaultsAreTold`, `RolesAreRespected`, `EveryStepAnswers`. The run tries the permissions the roles list and
some they do not; the theorems are for any set of claims and permissions. The
strengthening (`OnItsWay`) says what is known before the reply: a request with steps
left has no result, and an RPC whose next step is not `require_any` has passed it.
The rest are facts about the tables of errors: every error a handler can raise
(`Raised`, `ExtractError`) comes out of `status_code` and `map_api_error` blaming the
side its code blames (`Faithful`). That no request runs out of steps unanswered rests
on the call being the last step of every method (`EndsInCall`), which passing a check
preserves.

Each invariant is proved by `Init => IInv` and `IInv /\ [Next]_vars => IInv'`, with
a lemma per action that writes what the invariant reads.

Only model-checked: all liveness (`DeliversEventually`, `SetupCompletes`,
`OnboardingConverges`, `LockIsTemporary`, `StaleProfilesExpire`, `Recovers`,
`NoStarvation`, `RestAnswered`, `EventuallyRefused` and the fairness in
`VerificationIsSound`), since fairness and ENABLED are beyond
the prover. Every safety property of a passing run is also a theorem. What a loop computes
for every length of its data would need induction over data, which is also beyond the
prover, as are recursive operators; the models use neither. All type invariants are
proved.

## 6. Where the code and its words disagree

Shown by a run (`findings` of `PROJECT.json`):

* `auth_service.rs:1119` sets a rate-limit counter's expiry in a second command, which
  may fail or never be sent: "`/login` = 10/60s" (`ARCHITECTURE.md:131`) then becomes
  ten for good. The refusal's "try again in {} seconds" reaches the log only, since the
  middleware answers a bare 429 (`rate_limit.rs:85`). `Recovers` says when the counter
  does recover.
* `auth_service.rs:430`: "an address without a recoverable key must never be
  observable", and `:335` "we never double-provision". Two verifications at the same
  time do; `OnlyRacesLoseKeys` says that nothing else does.
* `ARCHITECTURE.md:83`: "`ApiKeyVerified` fires at most once per 30s per key". Once
  for every verification that misses the cache.
* `ARCHITECTURE.md:124`: hashes are "bounded by `AUTH_CPU_SEMAPHORE_LIMIT`". The
  permit goes with the request; a dropped one's task runs on without it.
* `event_bus.rs:172`: "Publish multiple events atomically in a single pipeline." The
  XADDs are sent one by one. `BatchesAreCutShort` says what holds: a prefix.

Seen while modelling, where no run is needed or no statement is definite enough for one:

* `outbox_worker.rs:71`: an undeserializable row is quarantined "so it stops blocking
  the batch". `mark_failed` counts one attempt, and the row is fetched again until its
  budget is spent; `DeliversEventually` is checked with such a row at the head.
* `auth_service.rs:960` and `:968` call for "manual reconciliation" after a failed
  mark, and the comment at `:943` expects a retry to be rejected. The retry finds the
  account on chain and heals the marks (`:900`); `OnboardingConverges` checks it.
* `JWT_EXPIRATION` is "JWT expiration time in seconds" (`config.rs:20`) and what
  clients are told as "seconds until `access_token` expires" (`domain/identity/auth.rs:90`), but
  `Claims::new` grants 24 hours whatever it is. They agree at the default.
* `auth_service.rs:86` says expired tokens cannot be refreshed; the JWT library
  accepts them for its leeway of 60 seconds, and `UnattendedSessionEnds` counts it.
* `identity.proto:9`: `Authorize` decides "based on role/permissions". It goes by the
  role's name: a user is granted all but `admin:*`, `users:create` included, which
  `Role::permissions` denies them (`roles.rs:288`). `RolesAreRespected` says how far
  the two agree.
* Nothing says how old a token's role may be; a client that keeps refreshing keeps the
  role it signed in with.

## 7. Not modelled

* Cryptography (hashes, signatures, key encryption, HMAC), serialisation,
  messages and logging: a value either checks or does not.
* Metrics, tracing, request ids, health probes, the system endpoint: no handler
  reads what they write. The configuration is read once; its values are constants of
  the modules.
* The start sequence; shutdown, which has the effect of the crashes modelled.
* The claims a refresh copies and the `expires_in` of the responses: they decide
  nothing in the service.
* Password rules (`password.rs`): pure functions over strings, without state;
  where hashing blocks or fails is in `Credentials` and `CpuPermits`.
* The development-only token form of `verify_email`.
* Several processes of the service at once. The worker's fetch takes no lock that
  outlives its statement; the models have the one process that `startup.rs`
  builds.
* Several accounts in `Credentials` and `EmailVerification`. Their keys are spelled
  from names and addresses that the schema keeps unique per column; an account whose
  user name is another one's e-mail address is left out.
* The wait for a permit inside `Credentials`. A login checks the password against
  the profile it has read, so the check is part of the step that reads it; a reset's
  hash is written by the step after the wait. How long the wait may be is in
  `Admission`.
* Generated protocol code and the migrations, whose constraints are guards.
