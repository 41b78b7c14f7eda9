----------------------------- MODULE Activation -----------------------------
(***************************************************************************)
(* What register, verify_email and resend_verification promise about one   *)
(* account, with the requests, tokens, mails and cooldowns that bring it   *)
(* about left out: an account is activated through a working link only,    *)
(* links come and go, and one comes again as long as the account waits.    *)
(***************************************************************************)
VARIABLES
  created,   \* whether the account exists
  active,    \* whether its e-mail address is verified
  open,      \* whether its owner has a link that works
  followed   \* whether a link that worked has been followed, and the account not
             \* been activated for it yet

vars == <<created, active, open, followed>>

Init == created = FALSE /\ active = FALSE /\ open = FALSE /\ followed = FALSE

Create == ~created /\ created' = TRUE /\ UNCHANGED <<active, open, followed>>

\* A mail with the current token goes out.
LinkArrives == created /\ open' = TRUE /\ UNCHANGED <<created, active, followed>>

\* The token expires, or another one takes its place.
LinkDies == open /\ open' = FALSE /\ UNCHANGED <<created, active, followed>>

\* The link stays: it works until it expires.
Follow == open /\ followed' = TRUE /\ UNCHANGED <<created, active, open>>

\* The account is activated, whatever has become of the link since it was followed.
\* Others may have followed it too.
Verify == followed /\ active' = TRUE /\ followed' \in BOOLEAN /\ UNCHANGED <<created, open>>

\* The request that followed the link fails.
Abandon == followed /\ followed' = FALSE /\ UNCHANGED <<created, active, open>>

Next == Create \/ LinkArrives \/ LinkDies \/ Follow \/ Verify \/ Abandon

Spec == Init /\ [][Next]_vars

\* An owner who waits gets another link, follows one of them in time, and is
\* activated for one of those they follow.
FairSpec ==
  /\ Spec
  /\ WF_vars(~active /\ ~open /\ LinkArrives)
  /\ SF_vars(~active /\ Follow) /\ SF_vars(~active /\ Verify)
=============================================================================
