------------------------- MODULE ApiKeyCacheProofs -------------------------
(***************************************************************************)
(* Proofs about ApiKeyCache, for every TTL, every number of requests and   *)
(* every combination of faults.                                            *)
(***************************************************************************)
EXTENDS ApiKeyCache, TLAPS

\* Time is counted only once the key is settled, and a settled key stays so:
\* no request can come to hold the row of an inactive key, so no step but the
\* passing of time changes the entry.
IInv ==
  /\ KeyTypeOK
  /\ quiet > 0 => Settled
  /\ RevocationWindow

\* Nothing is cached and no time is counted at the start.
LEMMA InitIInv == KeyInit => IInv
  <1>. SUFFICES ASSUME KeyInit PROVE IInv
    OBVIOUS
  <1>1. keyActive \in BOOLEAN
    BY DEF KeyInit
  <1>2. keyStage \in [KeyCallers -> KeyStages]
    BY DEF KeyInit, KeyStages
  <1>3. /\ cacheTtl \in 0..API_KEY_CACHE_TTL
        /\ quiet \in 0..API_KEY_CACHE_TTL
        /\ cacheTtl + quiet <= API_KEY_CACHE_TTL
        /\ ~(quiet > 0)
    BY ApiKeyCacheAssumption DEF KeyInit
  <1>4. since \in 0..API_KEY_CACHE_TTL
    BY ApiKeyCacheAssumption DEF KeyInit
  <1>. QED BY <1>1, <1>2, <1>3, <1>4 DEF IInv, KeyTypeOK, RevocationWindow

\* A step that moves one request to a stage that holds no row, and changes
\* neither the key nor its entry nor the time counted, keeps the invariant.
LEMMA MovesOn ==
  ASSUME IInv, NEW r \in KeyCallers, NEW s \in {"idle", "find"}, KeyGoto(r, s),
         UNCHANGED <<keyActive, cacheTtl, quiet, since>>
  PROVE  IInv'
  BY DEF IInv, KeyTypeOK, RevocationWindow, Settled, KeyGoto, KeyStages, HoldsRow

\* CacheFill: a request that fills holds a row, so the key is not settled and no
\* time has been counted.
LEMMA FillIInv ==
  ASSUME IInv, NEW r \in KeyCallers, CacheFill(r)
  PROVE  IInv'
  <1>1. quiet = 0
    BY DEF CacheFill, KeyAt, IInv, KeyTypeOK, Settled, HoldsRow
  <1>2. quiet' = 0
    BY <1>1 DEF CacheFill
  <1>3. cacheTtl' \in 0..API_KEY_CACHE_TTL
    BY ApiKeyCacheAssumption DEF CacheFill, IInv, KeyTypeOK
  <1>4. keyStage' \in [KeyCallers -> KeyStages]
    BY DEF CacheFill, KeyGoto, IInv, KeyTypeOK, KeyStages
  <1>5. keyActive' \in BOOLEAN
    BY DEF CacheFill, IInv, KeyTypeOK
  <1>6. quiet' \in 0..API_KEY_CACHE_TTL
    BY <1>2, ApiKeyCacheAssumption DEF IInv, KeyTypeOK
  <1>7. KeyTypeOK'
    <2>1. since' \in 0..API_KEY_CACHE_TTL
      BY DEF CacheFill, IInv, KeyTypeOK
    <2>. QED BY <1>3, <1>4, <1>5, <1>6, <2>1 DEF KeyTypeOK
  <1>8. RevocationWindow'
    <2>1. \A left \in 0..API_KEY_CACHE_TTL : left + 0 <= API_KEY_CACHE_TTL
      BY ApiKeyCacheAssumption
    <2>. QED BY <1>2, <1>3, <2>1, Zenon DEF RevocationWindow
  <1>9. ~(quiet' > 0)
    BY <1>2
  <1>. QED BY <1>7, <1>8, <1>9 DEF IInv

\* The induction step: one case per action.
LEMMA StepIInv == IInv /\ [KeyNext]_keyVars => IInv'
  <1>. SUFFICES ASSUME IInv, [KeyNext]_keyVars PROVE IInv'
    OBVIOUS
  <1>. USE ApiKeyCacheAssumption
  <1>1. ASSUME NEW r \in KeyCallers, CacheGet(r) PROVE IInv'
    BY <1>1, MovesOn DEF CacheGet
  <1>2. ASSUME NEW r \in KeyCallers, FindByHash(r) PROVE IInv'
    <2>1. CASE keyActive
      BY <1>2, <2>1 DEF FindByHash, IInv, KeyTypeOK, RevocationWindow, Settled, KeyGoto, KeyStages, HoldsRow
    <2>2. CASE ~keyActive
      BY <1>2, <2>2, MovesOn DEF FindByHash, IInv, KeyTypeOK
    <2>. QED BY <2>1, <2>2
  <1>3. ASSUME NEW r \in KeyCallers, UpdateLastUsed(r) PROVE IInv'
    BY <1>3 DEF UpdateLastUsed, KeyAt, IInv, KeyTypeOK, RevocationWindow, Settled, KeyGoto, KeyStages, HoldsRow
  <1>4. ASSUME NEW r \in KeyCallers, CacheFill(r) PROVE IInv'
    BY <1>4, FillIInv
  <1>5. ASSUME NEW r \in KeyCallers, Publish(r) PROVE IInv'
    BY <1>5 DEF Publish, KeyAt, IInv, KeyTypeOK, RevocationWindow, Settled, KeyGoto, KeyStages, HoldsRow
  <1>6. ASSUME NEW r \in KeyCallers, KeyDrop(r) PROVE IInv'
    BY <1>6, MovesOn DEF KeyDrop, IInv, KeyTypeOK
  <1>7. CASE Deactivate
    BY <1>7 DEF Deactivate, IInv, KeyTypeOK, RevocationWindow, Settled
  <1>8. CASE KeyTick
    BY <1>8 DEF KeyTick, IInv, KeyTypeOK, RevocationWindow, Settled
  <1>9. CASE UNCHANGED keyVars
    BY <1>9 DEF keyVars, IInv, KeyTypeOK, RevocationWindow, Settled
  <1>. QED
    BY <1>1, <1>2, <1>3, <1>4, <1>5, <1>6, <1>7, <1>8, <1>9 DEF KeyNext, KeyStep

\* verify_api_key: the cache TTL bounds the revocation window, counted from the
\* moment the last request that had read the key as active has stored it.
THEOREM RevocationIsBounded == KeySpec => []RevocationWindow
  <1>1. IInv => RevocationWindow
    BY DEF IInv
  <1>. QED BY InitIInv, StepIInv, <1>1, PTL DEF KeySpec
=============================================================================
