--------------------------- MODULE DurableDelivery ---------------------------
(***************************************************************************)
(* What the outbox promises its callers, without saying how: an accepted   *)
(* event stays accepted until it is settled; it is settled as done only    *)
(* once it has been delivered, and otherwise only by quarantine; delivery  *)
(* may happen more than once and for events that were never accepted.      *)
(***************************************************************************)
CONSTANT Events

VARIABLES
  accepted,     \* events stored for delivery
  delivered,    \* events the broker has stored
  done,         \* events settled as delivered
  quarantined   \* events settled by giving up

vars == <<accepted, delivered, done, quarantined>>

Waiting == accepted \ (done \cup quarantined)

Init ==
  /\ accepted \subseteq Events
  /\ delivered = {} /\ done = {} /\ quarantined = {}

Accept(e) ==
  /\ e \notin accepted
  /\ accepted' = accepted \cup {e}
  /\ UNCHANGED <<delivered, done, quarantined>>

Deliver(e) ==
  /\ delivered' = delivered \cup {e}
  /\ UNCHANGED <<accepted, done, quarantined>>

Complete(e) ==
  /\ e \in Waiting /\ e \in delivered
  /\ done' = done \cup {e}
  /\ UNCHANGED <<accepted, delivered, quarantined>>

Quarantine(e) ==
  /\ e \in Waiting
  /\ quarantined' = quarantined \cup {e}
  /\ UNCHANGED <<accepted, delivered, done>>

Settle(e) == Complete(e) \/ Quarantine(e)

Next == \E e \in Events : Accept(e) \/ Deliver(e) \/ Settle(e)

SafeSpec == Init /\ [][Next]_vars

\* An accepted event does not wait for ever.
LiveSpec == SafeSpec /\ \A e \in Events : WF_vars(Settle(e))
=============================================================================
