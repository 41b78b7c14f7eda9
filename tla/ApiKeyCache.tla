---------------------------- MODULE ApiKeyCache ----------------------------
(***************************************************************************)
(* verify_api_key for one key: the cache in front of api_keys, and what    *)
(* deactivating the key in the database, which nothing tells the cache     *)
(* of, leads to.                                                           *)
(*                                                                         *)
(* A step is one Redis command, one database statement or one publication. *)
(***************************************************************************)
EXTENDS Naturals

CONSTANTS
  KeyCallers,          \* concurrent requests; a slot is free again when its request ends
  KeyFaults,           \* which of "read", "write", "event", "drop" happen
  API_KEY_CACHE_TTL    \* API_KEY_CACHE_TTL_SECS, 30 s in the code

ASSUME ApiKeyCacheAssumption ==
  /\ KeyFaults \subseteq {"read", "write", "event", "drop"}
  /\ API_KEY_CACHE_TTL \in Nat \ {0}

VARIABLES
  keyActive,   \* api_keys.is_active is true or NULL
  cacheTtl,    \* time left of iam:api_key, 0 when there is no entry
  keyStage,    \* keyStage[r]: what request r does
  quiet,       \* history: time since the key is inactive and no request holds its row
  since        \* history: time since ApiKeyVerified was last published, up to the TTL

keyVars == <<keyActive, cacheTtl, keyStage, quiet, since>>

\* The stages in which a request has a row to store, read while it was active.
HoldsRow == {"touch", "fill"}
KeyStages == {"idle", "find", "publish"} \cup HoldsRow

KeyInit ==
  /\ keyActive \in BOOLEAN
  /\ cacheTtl = 0
  /\ keyStage = [r \in KeyCallers |-> "idle"]
  /\ quiet = 0
  /\ since = API_KEY_CACHE_TTL

KeyTypeOK ==
  /\ keyActive \in BOOLEAN
  /\ cacheTtl \in 0..API_KEY_CACHE_TTL
  /\ keyStage \in [KeyCallers -> KeyStages]
  /\ quiet \in 0..API_KEY_CACHE_TTL
  /\ since \in 0..API_KEY_CACHE_TTL

-----------------------------------------------------------------------------
KeyAt(r, s) == keyStage[r] = s
KeyGoto(r, s) == keyStage' = [keyStage EXCEPT ![r] = s]

\* Mutant: a hit renews the entry.
CacheGetSliding(r) ==
  /\ KeyAt(r, "idle")
  /\ IF cacheTtl > 0
       THEN cacheTtl' = API_KEY_CACHE_TTL /\ UNCHANGED keyStage
       ELSE KeyGoto(r, "find") /\ UNCHANGED cacheTtl
  /\ UNCHANGED <<keyActive, quiet, since>>

\* GET: a hit answers at once and has no effect; a miss or a failed GET asks the
\* database.
CacheGet(r) ==
  /\ KeyAt(r, "idle")
  /\ cacheTtl = 0 \/ "read" \in KeyFaults
  /\ KeyGoto(r, "find")
  /\ UNCHANGED <<keyActive, cacheTtl, quiet, since>>

\* Mutant: a miss joins a lookup under way and takes the row it has read.
FindByHashShared(r) ==
  /\ KeyAt(r, "find")
  /\ KeyGoto(r, IF keyActive \/ \E o \in KeyCallers : keyStage[o] \in HoldsRow THEN "touch" ELSE "idle")
  /\ UNCHANGED <<keyActive, cacheTtl, quiet, since>>

\* find_by_hash: a missing or inactive key is unauthorized.
FindByHash(r) ==
  /\ KeyAt(r, "find")
  /\ KeyGoto(r, IF keyActive THEN "touch" ELSE "idle")
  /\ UNCHANGED <<keyActive, cacheTtl, quiet, since>>

\* update_last_used, whose outcome is ignored.
UpdateLastUsed(r) ==
  /\ KeyAt(r, "touch")
  /\ KeyGoto(r, "fill")
  /\ UNCHANGED <<keyActive, cacheTtl, quiet, since>>

\* cache_set of the row read before; its failure is ignored.
CacheFill(r) ==
  /\ KeyAt(r, "fill")
  /\ \/ cacheTtl' = API_KEY_CACHE_TTL
     \/ "write" \in KeyFaults /\ UNCHANGED cacheTtl
  /\ KeyGoto(r, "publish")
  /\ UNCHANGED <<keyActive, quiet, since>>

\* ApiKeyVerified, the failure of which is ignored, and the key is accepted.
Publish(r) ==
  /\ KeyAt(r, "publish")
  /\ \/ since' = 0
     \/ "event" \in KeyFaults /\ UNCHANGED since
  /\ KeyGoto(r, "idle")
  /\ UNCHANGED <<keyActive, cacheTtl, quiet>>

\* An operator deactivates the key in the database.
Deactivate ==
  /\ keyActive
  /\ keyActive' = FALSE
  /\ UNCHANGED <<cacheTtl, keyStage, quiet, since>>

\* The request is dropped, or find_by_hash returns an error.
KeyDrop(r) ==
  /\ "drop" \in KeyFaults
  /\ ~KeyAt(r, "idle")
  /\ KeyGoto(r, "idle")
  /\ UNCHANGED <<keyActive, cacheTtl, quiet, since>>

\* The key is inactive and no request can still put it into the cache.
Settled == ~keyActive /\ \A r \in KeyCallers : keyStage[r] \notin HoldsRow

\* One unit of time passes.
KeyTick ==
  /\ cacheTtl' = IF cacheTtl > 0 THEN cacheTtl - 1 ELSE 0
  /\ quiet' = IF Settled /\ quiet < API_KEY_CACHE_TTL THEN quiet + 1 ELSE quiet
  /\ since' = IF since < API_KEY_CACHE_TTL THEN since + 1 ELSE since
  /\ UNCHANGED <<keyActive, keyStage>>

KeyStep(r) == FindByHash(r) \/ UpdateLastUsed(r) \/ CacheFill(r) \/ Publish(r)

KeyNext ==
  \/ \E r \in KeyCallers : CacheGet(r) \/ KeyStep(r) \/ KeyDrop(r)
  \/ Deactivate
  \/ KeyTick

KeySpec == KeyInit /\ [][KeyNext]_keyVars

\* Time passes, and a request that has been accepted is carried on.
KeyFairness == WF_keyVars(KeyTick) /\ \A r \in KeyCallers : WF_keyVars(KeyStep(r))

KeyFairSpec == KeySpec /\ KeyFairness

-----------------------------------------------------------------------------
(* Properties.                                                             *)

\* The cache TTL bounds the revocation window: once the key is inactive and the
\* requests that had read it have stored it, its entry has no more time left
\* than the TTL minus the time since, whichever requests still come.
RevocationWindow == cacheTtl + quiet <= API_KEY_CACHE_TTL

\* A deactivated key is refused for good in the end.
EventuallyRefused == ~keyActive ~> [](cacheTtl = 0)

\* What ARCHITECTURE.md says of verify_api_key: "ApiKeyVerified fires at most once
\* per 30s per key (refreshed on cache miss)".
FiresOncePerTtl == [][(\E r \in KeyCallers : Publish(r)) => since = API_KEY_CACHE_TTL]_keyVars
=============================================================================
