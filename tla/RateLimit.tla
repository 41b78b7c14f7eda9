----------------------------- MODULE RateLimit -----------------------------
(***************************************************************************)
(* The per-IP rate limit: rate_limit_middleware and check_rate_limit, for  *)
(* one (IP, path) counter.  Counters of different keys share nothing.      *)
(*                                                                         *)
(* A window opens with the INCR that creates the counter and closes when   *)
(* Redis expires it.                                                       *)
(***************************************************************************)
EXTENDS Naturals, FiniteSets

CONSTANTS
  Requests,         \* concurrent requests; a slot is free again when its request ends
  OverrideLimit,    \* the two parts of the environment override, Unset where a part
  OverrideWindow,   \*   is missing or is no number
  DefaultLimit,     \* the path's budget: 10, 5 or 100 requests
  DefaultWindow,    \*   in 60 s, 3600 s or 60 s
  Faults,           \* which of "reply", "write", "drop" happen
  MaxCount,         \* bound: how far the counter may run
  Unset

ASSUME RateLimitAssumption ==
  /\ OverrideLimit \in Nat \cup {Unset}
  /\ OverrideWindow \in Nat \cup {Unset}
  /\ DefaultLimit \in Nat \ {0}
  /\ DefaultWindow \in Nat \ {0}
  /\ Faults \subseteq {"reply", "write", "drop"}
  /\ MaxCount \in Nat
  /\ Unset \notin Nat

\* parse_limit: a missing, malformed or zero part falls back to the path's
\* default budget.
Overridden ==
  /\ OverrideLimit \notin {Unset, 0}
  /\ OverrideWindow \notin {Unset, 0}

limit == IF Overridden THEN OverrideLimit ELSE DefaultLimit
window == IF Overridden THEN OverrideWindow ELSE DefaultWindow

VARIABLES
  count,    \* the counter, 0 when there is no key
  ttl,      \* time left of the key, 0 when it has no expiry
  passed,   \* history: requests let through in the current window
  unarmed,  \* history: whether a fault has kept the counter's expiry from being set
  proc      \* proc[r]: "idle", or "set" between the INCR and the SET of request r

rateVars == <<count, ttl, passed, unarmed, proc>>

RateInit ==
  /\ count = 0
  /\ ttl = 0
  /\ passed = 0
  /\ unarmed = FALSE
  /\ proc = [r \in Requests |-> "idle"]

\* The budget in force is positive: an override that is not falls back.
RateTypeOK ==
  /\ {limit, window} \subseteq Nat \ {0}
  /\ count \in Nat
  /\ ttl \in 0..window
  /\ passed \in Nat
  /\ unarmed \in BOOLEAN
  /\ proc \in [Requests -> {"idle", "set"}]

-----------------------------------------------------------------------------
\* INCR.  The first hit goes on to set the window; any other is decided at once.
Increment(r) ==
  /\ proc[r] = "idle"
  /\ count < MaxCount
  /\ count' = count + 1
  /\ IF count' = 1
       THEN proc' = [proc EXCEPT ![r] = "set"] /\ UNCHANGED passed
       ELSE passed' = (IF count' > limit THEN passed ELSE passed + 1) /\ UNCHANGED proc
  /\ UNCHANGED <<ttl, unarmed>>

\* INCR is applied but its reply is lost: the request is answered 429.  An INCR
\* that is not applied changes nothing.
IncrementLost(r) ==
  /\ "reply" \in Faults
  /\ proc[r] = "idle"
  /\ count < MaxCount
  /\ count' = count + 1
  /\ unarmed' = (unarmed \/ count = 0)
  /\ UNCHANGED <<ttl, passed, proc>>

\* Mutant: the SET writes the counter as it was before the hit.
SetWindowZero(r) ==
  /\ proc[r] = "set"
  /\ count' = 0
  /\ ttl' = window
  /\ passed' = passed + 1
  /\ proc' = [proc EXCEPT ![r] = "idle"]
  /\ UNCHANGED unarmed

\* Mutant: the SET carries no expiry.
SetWindowNoTtl(r) ==
  /\ proc[r] = "set"
  /\ count' = 1
  /\ passed' = passed + 1
  /\ proc' = [proc EXCEPT ![r] = "idle"]
  /\ UNCHANGED <<ttl, unarmed>>

\* The first hit writes the value it was told, 1, with the window's expiry,
\* whatever the counter is by now, and is let through.  A failed SET is swallowed.
SetWindow(r) ==
  /\ proc[r] = "set"
  /\ \/ count' = 1 /\ ttl' = window /\ UNCHANGED unarmed
     \/ "write" \in Faults /\ unarmed' = TRUE /\ UNCHANGED <<count, ttl>>
  /\ passed' = (IF 1 > limit THEN passed ELSE passed + 1)
  /\ proc' = [proc EXCEPT ![r] = "idle"]

\* The request is dropped between the two commands.
Drop(r) ==
  /\ "drop" \in Faults
  /\ proc[r] = "set"
  /\ proc' = [proc EXCEPT ![r] = "idle"]
  /\ unarmed' = TRUE
  /\ UNCHANGED <<count, ttl, passed>>

\* One unit of time passes; the counter expires at the end of its window.
RateTick ==
  /\ ttl' = IF ttl > 0 THEN ttl - 1 ELSE 0
  /\ IF ttl = 1 THEN count' = 0 /\ passed' = 0 ELSE UNCHANGED <<count, passed>>
  /\ UNCHANGED <<unarmed, proc>>

RateNext ==
  \/ \E r \in Requests : Increment(r) \/ IncrementLost(r) \/ SetWindow(r) \/ Drop(r)
  \/ RateTick

RateSpec == RateInit /\ [][RateNext]_rateVars

\* Time passes, and a request that has been accepted is carried on.
RateFairness == WF_rateVars(RateTick) /\ \A r \in Requests : WF_rateVars(SetWindow(r))

RateFairSpec == RateSpec /\ RateFairness

-----------------------------------------------------------------------------
(* Properties.                                                             *)

\* However requests overlap, whichever command fails and whichever request is
\* dropped, the increments lost to the first hit's SET let fewer than another
\* budget through.
OverrunBounded == passed <= 2 * limit - 1

\* A client that waits is let through again: unless a fault has hit the two
\* commands of a first hit, the counter comes below the budget again and again,
\* whichever requests overlap.
Recovers == []<>(count < limit \/ unarmed)

\* The budget is one per window ("`/login` = 10/60s", ARCHITECTURE.md:131; "If it's the
\* first hit, set the expiration", auth_service.rs:1119): the counter comes below it
\* again and again, whatever fails.  Does not hold: the expiry is a second command.
AlwaysRecovers == []<>(count < limit)
=============================================================================
