----------------------------- MODULE WalletSync -----------------------------
(***************************************************************************)
(* Wallets with a record of what may set users.wallet_address apart from   *)
(* the primary wallet.  Both are written by set_primary_wallet, link_wallet*)
(* and the provisioning of verify_email, all but the last in separate      *)
(* statements.  The added variables only observe: `drift' holds the users  *)
(* two of whose writers have overlapped, or one of whose writes of the     *)
(* address was lost, since the last promotion that began alone; `raced'    *)
(* holds those whose verification link was opened twice at the same time.  *)
(***************************************************************************)
EXTENDS Wallets

VARIABLES
  drift,   \* users whose address and primary wallet may differ
  raced    \* users two of whose verifications were in progress at a time

syncVars == <<vars, drift, raced>>

\* Request r is on its way to write users.wallet_address of user u.
Writes(r, u) ==
  /\ proc[r].user = u
  /\ At(r, "provision") \/ (proc[r].sync /\ proc[r].stage \in {"clear", "insert", "setAddr"})

Writers(u) == {r \in Requests : Writes(r, u)}

\* The users for whom a process of P is about to write the address.
Pending(P) == {proc[p].user : p \in {q \in P : At(q, "setAddr")}}

\* The users one of whose writers begins while another is at work.
Overlapped == {u \in Users : \E r \in Writers(u)' \ Writers(u) : Writers(u) # {}}

\* The users whose address row r would write belongs to somebody else's row.
Blocked(r) == {u \in Pending({r}) : \E v \in Users \ {u} : userAddr[v] = proc[r].addr}

\* The users whose verifications are two at a time.
Twice == {u \in Users : \E r, q \in Requests :
            /\ r # q /\ proc[r].op = "verify" /\ proc[q].op = "verify"
            /\ proc[r].user = u /\ proc[q].user = u}

SyncInit == Init /\ drift = {} /\ raced = {}

\* Next, and what it adds to `drift'.
DriftNext ==
  \/ \E r \in Requests :
       \/ \E u \in Users, a \in Addresses :
            /\ Promote(r, u, a)
            /\ drift' = IF Writers(u) = {} THEN drift \ {u} ELSE drift \cup {u}
       \/ SetWalletAddress(r) /\ drift' = drift \cup Blocked(r)
       \/ Cancel(r) /\ drift' = drift \cup Pending({r})
       \/ /\ \/ \E u \in Users, a \in Addresses :
                  \/ \E b \in BOOLEAN : LinkStart(r, u, a, b)
                  \/ Unlink(r, u, a) \/ InitWalletStart(r, u, a)
             \/ \E u \in Users : VerifyStart(r, u) \/ OnboardStart(r, u)
             \/ LinkClear(r) \/ LinkInsert(r) \/ LinkLookup(r)
             \/ VerifyHasAny(r) \/ VerifySkips(r) \/ Provision(r)
          /\ drift' = drift \cup Overlapped
  \/ \E p \in Procs :
       \/ ChainStep(p) /\ UNCHANGED drift
       \/ WriteFails(p) /\ drift' = drift \cup Pending({p})
  \/ \E a \in Addresses : (Land(a) \/ Drop(a)) /\ UNCHANGED drift
  \/ Crash /\ drift' = drift \cup Pending(Procs)

SyncNext == DriftNext /\ raced' = raced \cup Twice'

SyncSpec == SyncInit /\ [][SyncNext]_syncVars

-----------------------------------------------------------------------------
\* "Keep users.wallet_address in sync with the primary wallet": it names the
\* primary wallet, or a request is about to write that, unless writers of the
\* user overlapped or an address write was lost, failed or refused; and a
\* promotion that nothing overlaps brings the two together again.
PrimaryInSync ==
  \A u \in Users \ drift : \A a \in PrimaryOf(u) :
    userAddr[u] = a \/ \E r \in Requests : At(r, "setAddr") /\ proc[r].user = u /\ proc[r].addr = a

\* "An address without a recoverable key must never be observable, even across a crash"
\* (auth_service.rs:430) and "we never double-provision" (auth_service.rs:335): the key of
\* a custodial wallet is the stored one.  Does not hold: between has_any_wallet and the
\* transaction another verification may pass the same check, and the second provisioning
\* overwrites the key of the first.
CustodialKeyRecoverable ==
  \A k \in Keypairs :
    mintedFor[k] # None /\ owner[k] = mintedFor[k] => keyOf[owner[k]] = k

\* Nothing but that loses a key: no crash, dropped request, link, promotion or unlinking
\* in any order does, for a user whose verifications have not overlapped.
OnlyRacesLoseKeys ==
  \A k \in Keypairs :
    mintedFor[k] # None /\ owner[k] = mintedFor[k] => keyOf[owner[k]] = k \/ owner[k] \in raced
=============================================================================
