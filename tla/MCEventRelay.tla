---------------------------- MODULE MCEventRelay ----------------------------
(* A batch of three events, one of them audit-only, behind a poison row.   *)
EXTENDS EventRelay

CONSTANTS e1, e2, e3, p1, r1

MCEvents == {e1, e2, e3, p1}
MCRequests == {r1}
\* publish_batch with an audit-only event in its middle.
MCBatch == [r \in MCRequests |-> <<e1, e3, e2>>]
=============================================================================
