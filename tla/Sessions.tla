------------------------------ MODULE Sessions ------------------------------
(***************************************************************************)
(* The access tokens of one user: minted by login and verify_email,        *)
(* exchanged by refresh, accepted or rejected by decode_token.  Nothing of *)
(* a token is stored by the service: what it says was decided when it was  *)
(* minted, and a refresh copies it.                                        *)
(*                                                                         *)
(* A session is a sign-in and the refreshes that descend from it.  Time    *)
(* passes in SessionTick; a token carries the time it has left.            *)
(***************************************************************************)
EXTENDS Integers

CONSTANTS
  Tokens,           \* token slots; a slot is free again when its token is rejected
  Sessions,         \* session names; a name is free again when its session is over
  LIFETIME,         \* what Claims::new grants: 24 hours
  LEEWAY,           \* how long after exp the JWT library still accepts: 60 s
  None

ASSUME SessionsAssumption ==
  /\ LIFETIME \in Nat \ {0}
  /\ LEEWAY \in Nat
  /\ None \notin Sessions

VARIABLES
  token,    \* token[t]: the session in slot t and the time left
  idle      \* history: idle[s], the time since s last got a token, up to Over

sessionVars == <<token, idle>>

\* What is left of a token that is rejected.
Spent == -LEEWAY - 1

\* The age at which no token of a session can be accepted any more.
Over == LIFETIME + LEEWAY + 1

SessionInit ==
  /\ token = [t \in Tokens |-> [session |-> None, left |-> Spent]]
  /\ idle = [s \in Sessions |-> Over]

SessionTypeOK ==
  /\ token \in [Tokens -> [session : Sessions \cup {None}, left : Spent..LIFETIME]]
  /\ idle \in [Sessions -> 0..Over]

-----------------------------------------------------------------------------
\* Mutant: the expiry is not checked.
DecodesAny(t) == token[t].session # None

\* decode_token succeeds: the expiry lies at most LEEWAY in the past.
Decodes(t) == token[t].left # Spent

\* Some token of s is accepted.
Alive(s) == \E t \in Tokens : Decodes(t) /\ token[t].session = s

\* Claims::new and encode_token.  The expires_in of the response, which decides
\* nothing in the service, is left out.
Mint(t, s) ==
  /\ ~Decodes(t)
  /\ token' = [token EXCEPT ![t] = [session |-> s, left |-> LIFETIME]]
  /\ idle' = [idle EXCEPT ![s] = 0]

\* login or verify_email: a token for a user who presents none.
SignIn(t, s) == ~Alive(s) /\ Mint(t, s)

\* refresh: a token that decodes is exchanged for one with the same claims and
\* a new expiry.  The old token stays as it is.
Refresh(t, u) == Decodes(t) /\ Mint(u, token[t].session)

\* Time passes.
SessionTick ==
  /\ token' = [t \in Tokens |->
       [session |-> token[t].session,
        left    |-> IF token[t].left = Spent THEN Spent ELSE token[t].left - 1]]
  /\ idle' = [s \in Sessions |-> IF idle[s] = Over THEN Over ELSE idle[s] + 1]

SessionNext ==
  \/ \E t \in Tokens, s \in Sessions : SignIn(t, s)
  \/ \E t, u \in Tokens : Refresh(t, u)
  \/ SessionTick

SessionSpec == SessionInit /\ [][SessionNext]_sessionVars

-----------------------------------------------------------------------------
(* Properties.                                                             *)

\* A session that got no token for the lifetime and the leeway is over: however
\* its tokens were refreshed before, each of them is rejected by decode_token, and
\* with them ends what their claims say, a role the user has lost included.
UnattendedSessionEnds == \A s \in Sessions : idle[s] = Over => ~Alive(s)
=============================================================================
