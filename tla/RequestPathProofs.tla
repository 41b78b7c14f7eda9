------------------------- MODULE RequestPathProofs -------------------------
(***************************************************************************)
(* Proofs about what a request passes on its way: the rate limit, the      *)
(* token it presents, and the checks of the surface it comes by.  The      *)
(* three specifications share no state, and their proofs no lemma.         *)
(***************************************************************************)
EXTENDS RateLimit, Sessions, RequestPath, SequenceTheorems, TLAPS

-----------------------------------------------------------------------------
(* RateLimit: for every budget, every number of requests and every         *)
(* combination of faults.                                                  *)

\* At most one request is between its INCR and its SET, and while it is, the
\* counter has no expiry and counts that request besides the ones let through.
\* Without an expiry the counter bounds what was let through; with one, what
\* was let through before the SET (less than a budget) comes on top.
RateInv ==
  /\ RateTypeOK
  /\ \A r \in Requests : proc[r] = "set" =>
       /\ count > 0
       /\ ttl = 0
       /\ passed < count
       /\ passed < limit
  /\ \A r, s \in Requests : proc[r] = "set" /\ proc[s] = "set" => r = s
  /\ count = 0 => ttl = 0
  /\ ttl = 0 => passed <= count /\ passed <= limit
  /\ ttl > 0 => passed <= (limit - 1) + count
  /\ passed <= (limit - 1) + limit

\* parse_limit never yields a zero budget or window.
LEMMA BudgetPositive == limit \in Nat \ {0} /\ window \in Nat \ {0}
  BY RateLimitAssumption DEF limit, window, Overridden

\* No counter, no request: the invariant holds at the start.
LEMMA InitRateInv == RateInit => RateInv
  <1>. SUFFICES ASSUME RateInit PROVE RateInv
    OBVIOUS
  <1>1. unarmed \in BOOLEAN
    BY Zenon DEF RateInit
  <1>2. proc \in [Requests -> {"idle", "set"}] /\ \A r \in Requests : proc[r] # "set"
    BY DEF RateInit
  <1>. QED BY <1>1, <1>2, BudgetPositive DEF RateInit, RateInv, RateTypeOK

\* Increment: the first hit finds no other request before its SET; a later hit is
\* let through only if the counter, itself included, is within the budget.
LEMMA IncrementRateInv ==
  ASSUME RateInv, NEW r \in Requests, Increment(r)
  PROVE  RateInv'
  <1>. USE BudgetPositive
  <1>0. unarmed' \in BOOLEAN
    BY DEF RateInv, RateTypeOK, Increment
  <1>1. CASE count = 0
    <2>1. count' = 1 /\ ttl' = 0 /\ passed' = passed /\ passed = 0
      BY <1>1 DEF RateInv, RateTypeOK, Increment
    <2>2. proc' = [proc EXCEPT ![r] = "set"] /\ \A s \in Requests : proc[s] # "set"
      BY <1>1, <2>1 DEF RateInv, RateTypeOK, Increment
    <2>. QED BY <1>0, <2>1, <2>2 DEF RateInv, RateTypeOK, limit, window, Overridden
  <1>2. CASE count # 0
    <2>1. count' = count + 1 /\ ttl' = ttl /\ proc' = proc
      BY <1>2 DEF RateInv, RateTypeOK, Increment
    <2>2. passed' = IF count + 1 > limit THEN passed ELSE passed + 1
      BY <1>2 DEF RateInv, RateTypeOK, Increment
    <2>. QED BY <1>0, <1>2, <2>1, <2>2 DEF RateInv, RateTypeOK, limit, window, Overridden
  <1>. QED BY <1>1, <1>2

\* SetWindow: the request that sets the window is the only one that could; what it
\* overwrites bounded what was let through by less than a budget.
LEMMA SetWindowRateInv ==
  ASSUME RateInv, NEW r \in Requests, SetWindow(r)
  PROVE  RateInv'
  <1>. USE BudgetPositive
  <1>1. count > 0 /\ ttl = 0 /\ passed < count /\ passed < limit
    BY DEF RateInv, SetWindow
  <1>2. passed' = passed + 1 /\ passed' \in Nat
    BY DEF RateInv, RateTypeOK, SetWindow
  <1>3. /\ proc' \in [Requests -> {"idle", "set"}]
        /\ \A s \in Requests : proc'[s] # "set"
    BY DEF RateInv, RateTypeOK, SetWindow
  <1>4. \/ count' = 1 /\ ttl' = window
        \/ count' = count /\ ttl' = ttl
    BY DEF SetWindow
  <1>5. unarmed' \in BOOLEAN
    BY Zenon DEF RateInv, RateTypeOK, SetWindow
  <1>. QED BY <1>1, <1>2, <1>3, <1>4, <1>5 DEF RateInv, RateTypeOK, limit, window, Overridden

\* RateTick: only a counter with an expiry expires, and then a new window begins.
LEMMA RateTickInv == RateInv /\ RateTick => RateInv'
  BY BudgetPositive DEF RateInv, RateTypeOK, RateTick, limit, window, Overridden

\* The induction step: one case per action.
LEMMA StepRateInv == RateInv /\ [RateNext]_rateVars => RateInv'
  <1>. SUFFICES ASSUME RateInv, [RateNext]_rateVars PROVE RateInv'
    OBVIOUS
  <1>1. ASSUME NEW r \in Requests, Increment(r) PROVE RateInv'
    BY <1>1, IncrementRateInv
  <1>2. ASSUME NEW r \in Requests, IncrementLost(r) PROVE RateInv'
    BY <1>2, BudgetPositive DEF RateInv, RateTypeOK, IncrementLost, limit, window, Overridden
  <1>3. ASSUME NEW r \in Requests, SetWindow(r) PROVE RateInv'
    BY <1>3, SetWindowRateInv
  <1>4. ASSUME NEW r \in Requests, Drop(r) PROVE RateInv'
    BY <1>4, BudgetPositive DEF RateInv, RateTypeOK, Drop, limit, window, Overridden
  <1>5. CASE RateTick
    BY <1>5, RateTickInv
  <1>6. CASE UNCHANGED rateVars
    BY <1>6 DEF RateInv, RateTypeOK, rateVars, limit, window, Overridden
  <1>. QED BY <1>1, <1>2, <1>3, <1>4, <1>5, <1>6 DEF RateNext

\* check_rate_limit: however requests overlap, fail and are dropped, fewer than
\* two budgets are let through between two expiries of the counter.
THEOREM OverrunIsBounded == RateSpec => []OverrunBounded
  <1>1. RateInv => OverrunBounded
    BY BudgetPositive DEF RateInv, RateTypeOK, OverrunBounded
  <1>. QED BY InitRateInv, StepRateInv, <1>1, PTL DEF RateSpec

\* The counter, its expiry and the requests stay in their types, and the budget
\* in force is positive whatever the environment says.
THEOREM RateTypeCorrect == RateSpec => []RateTypeOK
  <1>1. RateInv => RateTypeOK
    BY DEF RateInv
  <1>. QED BY InitRateInv, StepRateInv, <1>1, PTL DEF RateSpec

-----------------------------------------------------------------------------
(* Sessions: for every lifetime and leeway, and any number of tokens.      *)

\* A token that decodes belongs to a session, and what it has left is at most the
\* lifetime less the time the session has been idle.
TokenInv(t) ==
  Decodes(t) => /\ token[t].session \in Sessions
                /\ token[t].left + idle[token[t].session] <= LIFETIME

SessionInv == SessionTypeOK /\ \A t \in Tokens : TokenInv(t)

\* Every slot starts with a token that is rejected.
LEMMA InitSessionInv == SessionInit => SessionInv
  <1>. SUFFICES ASSUME SessionInit PROVE SessionInv
    OBVIOUS
  <1>1. Spent \in Spent..LIFETIME /\ Over \in 0..Over
    BY SessionsAssumption DEF Spent, Over
  <1>2. SessionTypeOK
    BY <1>1 DEF SessionInit, SessionTypeOK
  <1>3. \A t \in Tokens : TokenInv(t)
    BY DEF SessionInit, TokenInv, Decodes
  <1>. QED BY <1>2, <1>3 DEF SessionInv

\* Mint keeps the types of what it writes, and the slot it fills.
LEMMA MintType ==
  ASSUME SessionTypeOK, NEW t \in Tokens, NEW s \in Sessions, Mint(t, s)
  PROVE  /\ token' \in [Tokens -> [session : Sessions \cup {None}, left : Spent..LIFETIME]]
         /\ idle' \in [Sessions -> 0..Over]
  <1>1. LIFETIME \in Spent..LIFETIME
    BY SessionsAssumption DEF Spent
  <1>2. 0 \in 0..Over
    BY SessionsAssumption DEF Over
  <1>. QED BY <1>1, <1>2 DEF Mint, SessionTypeOK

\* After Mint the new token has its whole lifetime and the session is not idle;
\* every other token is as it was, in a session that is idle no longer than before.
LEMMA MintTokens ==
  ASSUME SessionInv, NEW t \in Tokens, NEW s \in Sessions, Mint(t, s)
  PROVE  \A u \in Tokens : TokenInv(u)'
  <1>. SUFFICES ASSUME NEW u \in Tokens, Decodes(u)'
                PROVE  /\ token'[u].session \in Sessions
                       /\ token'[u].left + idle'[token'[u].session] <= LIFETIME
    BY DEF TokenInv
  <1>1. CASE u = t
    <2>1. token'[u] = [session |-> s, left |-> LIFETIME]
      BY <1>1 DEF Mint, SessionInv, SessionTypeOK
    <2>2. idle'[s] = 0
      BY DEF Mint, SessionInv, SessionTypeOK
    <2>. QED BY <2>1, <2>2, SessionsAssumption
  <1>2. CASE u # t
    <2>1. token'[u] = token[u]
      BY <1>2 DEF Mint, SessionInv, SessionTypeOK
    <2>2. Decodes(u)
      BY <2>1 DEF Decodes
    <2>3. /\ token[u].session \in Sessions
          /\ token[u].left + idle[token[u].session] <= LIFETIME
      BY <2>2 DEF SessionInv, TokenInv
    <2>4. /\ token[u].left \in Spent..LIFETIME
          /\ idle[token[u].session] \in 0..Over
      BY <2>3 DEF SessionInv, SessionTypeOK
    <2>5. \/ idle'[token[u].session] = 0
          \/ idle'[token[u].session] = idle[token[u].session]
      BY <2>3 DEF Mint, SessionInv, SessionTypeOK
    <2>6. token[u].left + idle'[token[u].session] <= LIFETIME
      BY <2>3, <2>4, <2>5, SessionsAssumption DEF Spent, Over
    <2>. QED BY <2>1, <2>2, <2>3, <2>6
  <1>. QED BY <1>1, <1>2

\* login, verify_email and refresh: what is minted keeps the invariant.
LEMMA MintSessionInv ==
  ASSUME SessionInv, NEW t \in Tokens, NEW s \in Sessions, Mint(t, s)
  PROVE  SessionInv'
  <1>1. \A u \in Tokens : TokenInv(u)'
    BY MintTokens
  <1>2. SessionTypeOK'
    BY MintType DEF SessionInv, SessionTypeOK
  <1>. QED BY <1>1, <1>2 DEF SessionInv

\* The passing of time takes from a token what it adds to its session.
LEMMA TickSessionInv == ASSUME SessionInv, SessionTick PROVE SessionInv'
  <1>. USE SessionsAssumption
  <1>1. \A left \in Spent..LIFETIME : left # Spent => left - 1 \in Spent..LIFETIME
    BY DEF Spent
  <1>2. \A age \in 0..Over : age # Over => age + 1 \in 0..Over
    BY DEF Over
  <1>3. SessionTypeOK'
    <2>1. token' \in [Tokens -> [session : Sessions \cup {None}, left : Spent..LIFETIME]]
      BY <1>1 DEF SessionTick, SessionInv, SessionTypeOK
    <2>2. idle' \in [Sessions -> 0..Over]
      BY <1>2 DEF SessionTick, SessionInv, SessionTypeOK
    <2>. QED BY <2>1, <2>2 DEF SessionTick, SessionInv, SessionTypeOK
  <1>4. ASSUME NEW t \in Tokens PROVE TokenInv(t)'
    <2>. SUFFICES ASSUME Decodes(t)'
                  PROVE  /\ token'[t].session \in Sessions
                         /\ token'[t].left + idle'[token'[t].session] <= LIFETIME
      BY DEF TokenInv
    <2>1. /\ token'[t].session = token[t].session
          /\ Decodes(t)
          /\ token'[t].left = token[t].left - 1
      BY DEF SessionTick, SessionInv, SessionTypeOK, Decodes
    <2>2. /\ token[t].session \in Sessions
          /\ token[t].left + idle[token[t].session] <= LIFETIME
      BY <2>1 DEF SessionInv, TokenInv
    <2>3. /\ token[t].left \in Spent..LIFETIME
          /\ idle[token[t].session] \in 0..Over
      BY <2>2 DEF SessionInv, SessionTypeOK
    <2>4. \/ idle'[token[t].session] = idle[token[t].session]
          \/ idle'[token[t].session] = idle[token[t].session] + 1
      BY <2>2 DEF SessionTick
    <2>5. token[t].left - 1 + idle'[token[t].session] <= LIFETIME
      BY <2>2, <2>3, <2>4 DEF Spent, Over
    <2>. QED BY <2>1, <2>2, <2>5
  <1>. QED BY <1>3, <1>4 DEF SessionInv

\* Every step keeps the invariant.
LEMMA NextSessionInv == SessionInv /\ [SessionNext]_sessionVars => SessionInv'
  <1>. SUFFICES ASSUME SessionInv, [SessionNext]_sessionVars PROVE SessionInv'
    OBVIOUS
  <1>1. ASSUME NEW t \in Tokens, NEW s \in Sessions, SignIn(t, s) PROVE SessionInv'
    BY <1>1, MintSessionInv DEF SignIn
  <1>2. ASSUME NEW t \in Tokens, NEW u \in Tokens, Refresh(t, u) PROVE SessionInv'
    <2>1. token[t].session \in Sessions
      BY <1>2 DEF Refresh, SessionInv, TokenInv
    <2>. QED BY <1>2, <2>1, MintSessionInv DEF Refresh
  <1>3. CASE SessionTick
    BY <1>3, TickSessionInv
  <1>4. CASE UNCHANGED sessionVars
    BY <1>4 DEF sessionVars, SessionInv, SessionTypeOK, TokenInv, Decodes
  <1>. QED BY <1>1, <1>2, <1>3, <1>4 DEF SessionNext

\* The invariant holds in every reachable state.
LEMMA SessionInvariance == SessionSpec => []SessionInv
  BY InitSessionInv, NextSessionInv, PTL DEF SessionSpec

\* decode_token rejects every token of a session that got none for the lifetime
\* and the leeway, whatever was refreshed before.
THEOREM SessionsEnd == SessionSpec => []UnattendedSessionEnds
  <1>1. SessionInv => UnattendedSessionEnds
    <2>. SUFFICES ASSUME SessionInv, NEW s \in Sessions, idle[s] = Over,
                         NEW t \in Tokens, Decodes(t), token[t].session = s
                  PROVE  FALSE
      BY DEF UnattendedSessionEnds, Alive
    <2>1. token[t].left + Over <= LIFETIME
      BY DEF SessionInv, TokenInv
    <2>2. token[t].left \in Spent..LIFETIME /\ token[t].left # Spent
      BY DEF SessionInv, SessionTypeOK, Decodes
    <2>. QED BY <2>1, <2>2, SessionsAssumption DEF Spent, Over
  <1>. QED BY <1>1, SessionInvariance, PTL

-----------------------------------------------------------------------------
(* RequestPath: for every set of permissions that Authorize is asked for   *)
(* and every set of roles found in tokens.                                 *)

\* The variants, and the codes of WithCode, that AuthService raises in some call.
RaisedVariants ==
  {"BadRequest", "Conflict", "Database", "Internal", "NotFound", "Configuration", "Unauthorized"}
RaisedCodes == {"InvalidEmail", "AccountLocked", "InvalidCredentials"}
Raised == {Plain(v) : v \in RaisedVariants} \cup {WithCode(c) : c \in RaisedCodes}

\* What is known of a request on its way: it has no result yet; and an RPC whose
\* next step is not require_any has passed it.
OnItsWay ==
  /\ result = Nil /\ reply = "none"
  /\ req \in Request
  /\ req.method \in Rpcs => Head(todo) = "gate" \/ req.caller \in Allowed(req.method)

\* A request that is answered stays so until the reply is sent.
PathInv ==
  /\ todo # <<>> => OnItsWay
  /\ req = Nil => result = Nil /\ reply = "none"
  /\ AdmittedAsDocumented
  /\ FaultsKeepTheirClass
  /\ AuthorizeBounds

\* The README's table of allowlists is the one require_any is called with.
LEMMA AllowedIsDocumented == \A m \in Rpcs : Allowed(m) = Documented(m)
  BY DEF Rpcs, Allowed, Documented, RestPublic, GatewayOnly

\* An RPC starts at require_any.
LEMMA RpcGateFirst == \A m \in Rpcs : Head(Steps(m)) = "gate"
  BY DEF Steps

\* The calls behind the handlers raise nothing else.
LEMMA RaisesRaised ==
  ASSUME NEW m \in (Rest \cup Rpcs) \ {"VerifyToken", "Authorize", "GetUserInfo"}
  PROVE  Raises(m) \subseteq Raised
  BY DEF Raises, Raised, RaisedVariants, RaisedCodes, Rest, RestPublic, RestPrivate, Rpcs

\* An error the service raises, or one of decode_token, blames the service in its
\* HTTP status and in its gRPC code exactly if its code is not one of the client's,
\* and reads as a denial in neither.
Faithful(e, what) ==
  /\ what \in ServerFaults <=> e.code \notin ClientCodes
  /\ what \notin {"FORBIDDEN", "PermissionDenied"}

\* The variants that carry no code.
LEMMA PlainIsFaithful ==
  ASSUME NEW v \in RaisedVariants
  PROVE  /\ Faithful(Plain(v), status_code(Plain(v)))
         /\ Faithful(Plain(v), map_api_error(Plain(v)))
  <1>. USE DEF Plain, PlainCode, status_code, PlainStatus, map_api_error, RpcCode, Faithful,
               ServerFaults, ClientCodes, AuthenticationCodes, AuthorizationCodes,
               ValidationCodes, ResourceCodes, RateCodes
  <1>1. CASE v = "BadRequest" BY <1>1
  <1>2. CASE v = "Conflict" BY <1>2
  <1>3. CASE v = "Database" BY <1>3
  <1>4. CASE v = "Internal" BY <1>4
  <1>5. CASE v = "NotFound" BY <1>5
  <1>6. CASE v = "Configuration" BY <1>6
  <1>7. CASE v = "Unauthorized" BY <1>7
  <1>. QED BY <1>1, <1>2, <1>3, <1>4, <1>5, <1>6, <1>7, Zenon DEF RaisedVariants

\* The codes raised by themselves, each with an arm of its own in status_code.
LEMMA CodedIsFaithful ==
  ASSUME NEW c \in RaisedCodes \cup {"TokenExpired", "TokenInvalid"}
  PROVE  /\ Faithful(WithCode(c), status_code(WithCode(c)))
         /\ Faithful(WithCode(c), map_api_error(WithCode(c)))
  <1>. USE DEF WithCode, status_code, CodeStatus, map_api_error, RpcCode, Faithful,
               ServerFaults, ClientCodes, UnauthorizedCodes, AuthenticationCodes,
               AuthorizationCodes, ValidationCodes, ResourceCodes, RateCodes
  <1>1. CASE c = "InvalidEmail" BY <1>1
  <1>2. CASE c = "AccountLocked" BY <1>2
  <1>3. CASE c = "InvalidCredentials" BY <1>3
  <1>4. CASE c = "TokenExpired" BY <1>4
  <1>5. CASE c = "TokenInvalid" BY <1>5
  <1>. QED BY <1>1, <1>2, <1>3, <1>4, <1>5 DEF RaisedCodes

\* Whatever decode_token and the extractor in front of it raise, the reply is faithful
\* to it.
LEMMA TokenErrorIsFaithful ==
  ASSUME NEW kind
  PROVE  /\ Faithful(ExtractError(kind), status_code(ExtractError(kind)))
         /\ \A what \in {"invalid", "refused", "Unauthenticated"} : Faithful(TokenError(kind), what)
  <1>1. TokenError(kind) \in {WithCode("TokenExpired"), WithCode("TokenInvalid")}
    BY DEF TokenError
  <1>2. ExtractError(kind) = Plain("Unauthorized") \/ ExtractError(kind) = TokenError(kind)
    BY DEF ExtractError
  <1>3. Faithful(ExtractError(kind), status_code(ExtractError(kind)))
    BY <1>1, <1>2, PlainIsFaithful, CodedIsFaithful DEF RaisedVariants
  <1>4. TokenError(kind).code \in ClientCodes
    BY <1>1 DEF WithCode, ClientCodes, AuthenticationCodes
  <1>. QED BY <1>3, <1>4 DEF Faithful, ServerFaults

\* What the service raises is an ApiError.
LEMMA RaisedIsError == Raised \subseteq ApiError
  BY DEF Raised, RaisedVariants, RaisedCodes, ApiError, Plain, PlainCode, WithCode, CodedVariants,
         ErrorCodes, ClientCodes, AuthenticationCodes, ValidationCodes

\* So is what decode_token and the extractor raise.
LEMMA TokenErrorRaised == \A kind : {TokenError(kind), ExtractError(kind)} \subseteq ApiError
  BY DEF TokenError, ExtractError, ApiError, Plain, PlainCode, WithCode, CodedVariants,
         ErrorCodes, ClientCodes, AuthenticationCodes

\* A request that passes a check keeps the invariant; require_any is passed by the
\* callers of the method's allowlist only.
LEMMA PassPathInv ==
  ASSUME PathInv, todo # <<>>, Pass, Head(todo) = "gate" => req.caller \in Allowed(req.method)
  PROVE  PathInv'
  <1>1. OnItsWay /\ UNCHANGED <<req, result, reply>>
    BY DEF PathInv, Pass
  <1>2. OnItsWay'
    BY <1>1 DEF OnItsWay
  <1>3. AdmittedAsDocumented' /\ FaultsKeepTheirClass' /\ AuthorizeBounds'
    BY <1>1 DEF PathInv, AdmittedAsDocumented, FaultsKeepTheirClass, AuthorizeBounds
  <1>. QED BY <1>1, <1>2, <1>3 DEF PathInv

\* An answer keeps the invariant if it is faithful to what was raised, denies the
\* callers that are not on the allowlist and nobody else, and says of a permission
\* what the user's role says.
LEMMA AnswerPathInv ==
  ASSUME PathInv, todo # <<>>, NEW res, NEW what, Answer(res, what),
         res \in ApiError => Faithful(res, what),
         req.method \in Rpcs =>
           /\ res # Nil => req.caller \in Allowed(req.method)
           /\ what = "PermissionDenied" => req.caller \notin Allowed(req.method),
         req.method = "Authorize" /\ res = Ok =>
           what = IF Authorizes(req.claim, req.permission) THEN "ok" ELSE "refused"
  PROVE  PathInv'
  <1>1. todo' = <<>> /\ req' = req /\ result' = res /\ reply' = what
    BY DEF Answer
  <1>2. AdmittedAsDocumented'
    BY <1>1, AllowedIsDocumented DEF AdmittedAsDocumented
  <1>3. FaultsKeepTheirClass'
    BY <1>1 DEF FaultsKeepTheirClass, Faithful
  <1>4. AuthorizeBounds'
    <2>. SUFFICES ASSUME req.method = "Authorize", res = Ok
                  PROVE  /\ what = "refused" /\ req.claim \in {"user", "admin"}
                              => ~has_permission(req.claim, req.permission)
                         /\ what = "ok" /\ req.permission.resource = "admin" => req.claim = "admin"
      BY <1>1 DEF AuthorizeBounds
    <2>1. \A p \in permissions["user"] : p.resource # "admin" /\ p.action # "*"
      BY DEF permissions, P
    <2>2. req.permission.resource = "admin" => ~has_permission("user", req.permission)
      BY <2>1 DEF has_permission, grants
    <2>. QED BY <2>2 DEF Authorizes
  <1>. QED BY <1>1, <1>2, <1>3, <1>4, RequestPathAssumption DEF PathInv, OnItsWay

\* Arrive and Send: a new request has everything before it, and nothing is known
\* between two requests.
LEMMA TurnPathInv ==
  ASSUME PathInv, (\E r \in Request : Arrive(r)) \/ Send
  PROVE  PathInv'
  <1>1. ASSUME NEW r \in Request, Arrive(r) PROVE PathInv'
    <2>1. req' = r /\ todo' = Steps(r.method) /\ result' = Nil /\ reply' = "none"
      BY <1>1 DEF Arrive, PathInv
    <2>2. OnItsWay'
      BY <2>1, RpcGateFirst DEF OnItsWay
    <2>3. AdmittedAsDocumented' /\ FaultsKeepTheirClass' /\ AuthorizeBounds'
      BY <2>1, RequestPathAssumption
      DEF AdmittedAsDocumented, FaultsKeepTheirClass, AuthorizeBounds
    <2>. QED BY <2>1, <2>2, <2>3 DEF PathInv
  <1>2. CASE Send
    <2>1. req' = Nil /\ result' = Nil /\ reply' = "none" /\ todo' = <<>>
      BY <1>2 DEF Send, PathInv, OnItsWay
    <2>2. AdmittedAsDocumented' /\ FaultsKeepTheirClass' /\ AuthorizeBounds'
      BY <2>1, RequestPathAssumption
      DEF AdmittedAsDocumented, FaultsKeepTheirClass, AuthorizeBounds
    <2>. QED BY <2>1, <2>2 DEF PathInv
  <1>. QED BY <1>1, <1>2

\* The checks in front of the call, and the timeout.
LEMMA CheckPathInv ==
  ASSUME PathInv, Limit \/ ExtractToken \/ ExtractInput \/ Gate \/ CheckPatch \/ Timeout
  PROVE  PathInv'
  <1>0. todo # <<>>
    BY DEF Limit, ExtractToken, ExtractInput, Gate, CheckPatch, Timeout, At
  <1>. DEFINE Admitted == req.method \in Rpcs => req.caller \in Allowed(req.method)
  <1>1. OnItsWay /\ (Head(todo) # "gate" => Admitted)
    BY <1>0 DEF PathInv, OnItsWay
  <1>2. ASSUME NEW what, Answer(Nil, what), what # "PermissionDenied" PROVE PathInv'
    BY <1>0, <1>2, AnswerPathInv, RequestPathAssumption
  <1>3. CASE Limit \/ ExtractInput \/ Timeout
    BY <1>0, <1>2, <1>3, PassPathInv DEF Limit, ExtractInput, Timeout, At
  <1>4. CASE ExtractToken
    <2>1. CASE req.token = "valid"
      BY <1>0, <1>4, <2>1, PassPathInv DEF ExtractToken, At
    <2>2. CASE req.token # "valid"
      <3>1. Answer(ExtractError(req.token), status_code(ExtractError(req.token))) /\ Admitted
        BY <1>1, <1>4, <2>2 DEF ExtractToken, At
      <3>2. Faithful(ExtractError(req.token), status_code(ExtractError(req.token)))
        BY TokenErrorIsFaithful
      <3>3. ExtractError(req.token) # Ok
        BY TokenErrorRaised, RequestPathAssumption
      <3>. QED BY <1>0, <3>1, <3>2, <3>3, AnswerPathInv DEF Faithful
    <2>. QED BY <2>1, <2>2
  <1>5. CASE Gate
    <2>1. CASE req.caller \in Allowed(req.method)
      BY <1>0, <1>5, <2>1, PassPathInv DEF Gate
    <2>2. CASE req.caller \notin Allowed(req.method)
      BY <1>0, <1>5, <2>2, AnswerPathInv, RequestPathAssumption DEF Gate
    <2>. QED BY <2>1, <2>2
  <1>6. CASE CheckPatch
    <2>1. CASE req.primary
      BY <1>0, <1>6, <2>1, PassPathInv DEF CheckPatch, At
    <2>2. CASE ~req.primary
      <3>1. Answer(Plain("BadRequest"), status_code(Plain("BadRequest"))) /\ Admitted
        BY <1>1, <1>6, <2>2 DEF CheckPatch, At
      <3>2. Faithful(Plain("BadRequest"), status_code(Plain("BadRequest")))
        BY PlainIsFaithful DEF RaisedVariants
      <3>3. Plain("BadRequest") # Ok
        BY RaisedIsError, RequestPathAssumption DEF Raised, RaisedVariants
      <3>. QED BY <1>0, <3>1, <3>2, <3>3, AnswerPathInv DEF Faithful
    <2>. QED BY <2>1, <2>2
  <1>. QED BY <1>3, <1>4, <1>5, <1>6

\* CallDecode: the answer of the RPCs that only decode a token.
LEMMA DecodePathInv == ASSUME PathInv, CallDecode PROVE PathInv'
  <1>1. todo # <<>> /\ OnItsWay /\ req.caller \in Allowed(req.method)
    BY DEF PathInv, CallDecode, At, OnItsWay, Rpcs
  <1>2. req.method \in {"VerifyToken", "Authorize", "GetUserInfo"}
    BY DEF CallDecode
  <1>3. CASE req.token = "valid"
    <2>1. PICK what \in {"ok", "refused"} :
            /\ Answer(Ok, what)
            /\ req.method = "Authorize" =>
                 what = IF Authorizes(req.claim, req.permission) THEN "ok" ELSE "refused"
      BY <1>3 DEF CallDecode
    <2>. QED BY <1>1, <2>1, AnswerPathInv, RequestPathAssumption
  <1>4. CASE req.token # "valid"
    <2>1. PICK what \in {"invalid", "refused", "Unauthenticated"} : Answer(TokenError(req.token), what)
      BY <1>2, <1>4 DEF CallDecode
    <2>2. Faithful(TokenError(req.token), what)
      BY TokenErrorIsFaithful
    <2>3. TokenError(req.token) # Ok
      BY TokenErrorRaised, RequestPathAssumption
    <2>. QED BY <1>1, <2>1, <2>2, <2>3, AnswerPathInv
  <1>. QED BY <1>3, <1>4

\* VerifyApiKey: only Unauthorized is the caller's fault among the errors it may raise.
LEMMA ApiKeyReplyIsFaithful ==
  \A e \in Raises("VerifyApiKey") : Faithful(e, VerifyApiKeyReply(e))
  BY DEF Raises, VerifyApiKeyReply, Faithful, Plain, PlainCode, ServerFaults, ClientCodes,
         AuthenticationCodes, AuthorizationCodes, ValidationCodes, ResourceCodes, RateCodes

\* CallService: success, or one of the errors the call behind the method raises.
LEMMA ServicePathInv == ASSUME PathInv, CallService PROVE PathInv'
  <1>1. /\ todo # <<>> /\ OnItsWay
        /\ req.method \in Rpcs => req.caller \in Allowed(req.method)
    BY DEF PathInv, CallService, At, OnItsWay
  <1>2. req.method \in (Rest \cup Rpcs) \ {"VerifyToken", "Authorize", "GetUserInfo"}
    BY <1>1, Zenon DEF CallService, OnItsWay, Request
  <1>3. CASE Answer(Ok, "ok")
    BY <1>1, <1>2, <1>3, AnswerPathInv, RequestPathAssumption
  <1>4. ASSUME NEW e \in Raises(req.method),
               Answer(e, IF req.method = "VerifyApiKey" THEN VerifyApiKeyReply(e) ELSE ErrorReply(e))
        PROVE  PathInv'
    <2>1. e \in Raised /\ e # Ok
      BY <1>2, RaisesRaised, RaisedIsError, RequestPathAssumption
    <2>2. Faithful(e, status_code(e)) /\ Faithful(e, map_api_error(e))
      BY <2>1, PlainIsFaithful, CodedIsFaithful DEF Raised
    <2>3. Faithful(e, ErrorReply(e))
      BY <2>2 DEF ErrorReply
    <2>4. PICK what : Answer(e, what) /\ Faithful(e, what)
      BY <1>4, <2>3, ApiKeyReplyIsFaithful
    <2>5. what # "PermissionDenied"
      BY <2>4 DEF Faithful
    <2>. QED BY <1>1, <1>2, <2>1, <2>4, <2>5, AnswerPathInv
  <1>. QED BY <1>3, <1>4 DEF CallService

\* Every step keeps the invariant.
LEMMA NextPathInv == PathInv /\ [PathNext]_pathVars => PathInv'
  <1>. SUFFICES ASSUME PathInv, [PathNext]_pathVars PROVE PathInv'
    OBVIOUS
  <1>1. CASE UNCHANGED pathVars
    BY <1>1 DEF pathVars, PathInv, OnItsWay, AdmittedAsDocumented, FaultsKeepTheirClass,
                AuthorizeBounds
  <1>. QED BY <1>1, TurnPathInv, CheckPathInv, DecodePathInv, ServicePathInv DEF PathNext

\* The invariant holds in every reachable state.
LEMMA PathInvariance == PathSpec => []PathInv
  <1>1. PathInit => PathInv
    BY RequestPathAssumption DEF PathInit, PathInv, AdmittedAsDocumented, FaultsKeepTheirClass,
                                 AuthorizeBounds
  <1>. QED BY <1>1, NextPathInv, PTL DEF PathSpec

\* require_any: an RPC reaches AuthService or a token for the callers of the
\* README's table only, and denies none of them, whatever is asked for.
THEOREM CallersAreAdmitted == PathSpec => []AdmittedAsDocumented
  <1>1. PathInv => AdmittedAsDocumented
    BY DEF PathInv
  <1>. QED BY <1>1, PathInvariance, PTL

\* status_code, map_api_error and the reply of verify_api_key: a fault keeps its
\* class on the way to the caller, by either surface.
THEOREM FaultsAreTold == PathSpec => []FaultsKeepTheirClass
  <1>1. PathInv => FaultsKeepTheirClass
    BY DEF PathInv
  <1>. QED BY <1>1, PathInvariance, PTL

\* authorize, for any permission that may be asked for: it refuses a user or an
\* admin nothing that Role::permissions gives them, and grants admin:* to an admin
\* only.
THEOREM RolesAreRespected == PathSpec => []AuthorizeBounds
  <1>1. PathInv => AuthorizeBounds
    BY DEF PathInv
  <1>. QED BY <1>1, PathInvariance, PTL

-----------------------------------------------------------------------------
(* Every request is answered at its last step, and not before.             *)

StepNames == {"limit", "token", "input", "gate", "patch", "call"}

\* The last step of a request is the call behind its method.
EndsInCall(s) == s \in Seq(StepNames) /\ s # <<>> /\ s[Len(s)] = "call"

\* What a caller may get; "none" stands for no reply.
Replies ==
  DOMAIN RpcCode \cup {RpcCode[st] : st \in DOMAIN RpcCode}
    \cup {"ok", "invalid", "refused", "REQUEST_TIMEOUT"}

EndInv == PathTypeOK /\ (todo # <<>> => EndsInCall(todo))

\* Checks in front of the call leave it the last step.
LEMMA CallStaysLast ==
  ASSUME NEW a \in Seq(StepNames), NEW b, EndsInCall(b) PROVE EndsInCall(a \o b)
  BY ConcatProperties DEF EndsInCall

\* The call is the last step of every method.
LEMMA StepsEndInCall == \A m \in Rest \cup Rpcs : EndsInCall(Steps(m))
  <1>. SUFFICES ASSUME NEW m \in Rest \cup Rpcs PROVE EndsInCall(Steps(m))
    OBVIOUS
  <1>. DEFINE If(cond, step) == IF cond THEN <<step>> ELSE <<>>
  <1>1. EndsInCall(<<"call">>)
    BY DEF EndsInCall, StepNames
  <1>2. \A cond \in BOOLEAN, step \in StepNames : If(cond, step) \in Seq(StepNames)
    OBVIOUS
  <1>3. CASE m \in Rpcs
    <2>. DEFINE front == <<"gate">> \o If(m \in TakesInput, "input")
    <2>1. Steps(m) = front \o <<"call">>
      BY <1>3 DEF Steps
    <2>2. front \in Seq(StepNames)
      BY <1>2, ConcatProperties, Zenon DEF StepNames
    <2>. QED BY <1>1, <2>1, <2>2, CallStaysLast, Zenon
  <1>4. CASE m \notin Rpcs
    <2>. DEFINE front == If(m \in Limited, "limit") \o If(m \in RestPrivate, "token")
                           \o If(m \in TakesInput, "input") \o <<"gate">>
                           \o If(m = "update_wallet", "patch")
    <2>1. Steps(m) = front \o <<"call">>
      BY <1>4 DEF Steps
    <2>2. front \in Seq(StepNames)
      BY <1>2, ConcatProperties DEF StepNames
    <2>. QED BY <1>1, <2>1, <2>2, CallStaysLast, Zenon
  <1>. QED BY <1>3, <1>4

\* A request that passes a check has a step left.
LEMMA TailEndsInCall ==
  ASSUME NEW s, EndsInCall(s), Head(s) # "call"
  PROVE  EndsInCall(Tail(s))
  <1>1. s \in Seq(StepNames) /\ s # <<>> /\ s[Len(s)] = "call" /\ Head(s) = s[1]
    BY DEF EndsInCall
  <1>2. Len(s) \in Nat /\ Len(s) > 1
    BY <1>1
  <1>3. /\ Tail(s) \in Seq(StepNames) /\ Len(Tail(s)) = Len(s) - 1
        /\ \A i \in 1..Len(Tail(s)) : Tail(s)[i] = s[i + 1]
    BY <1>1, HeadTailProperties
  <1>4. Tail(s)[Len(s) - 1] = s[Len(s)]
    <2>1. Len(s) - 1 \in 1..Len(Tail(s)) /\ (Len(s) - 1) + 1 = Len(s)
      BY <1>2, <1>3
    <2>2. Tail(s)[Len(s) - 1] = s[(Len(s) - 1) + 1]
      BY <1>3, <2>1, Zenon
    <2>. QED BY <2>1, <2>2
  <1>5. Tail(s) # <<>>
    <2>1. Len(Tail(s)) # 0
      BY <1>2, <1>3
    <2>2. Len(<<>>) = 0
      OBVIOUS
    <2>. QED BY <2>1, <2>2, Zenon
  <1>. QED BY <1>1, <1>3, <1>4, <1>5 DEF EndsInCall

\* status_code and map_api_error have an arm for every ApiError, raised or not.
LEMMA ErrorsAreMapped ==
  ASSUME NEW e \in ApiError
  PROVE  /\ status_code(e) \in DOMAIN RpcCode
         /\ {status_code(e), map_api_error(e)} \subseteq Replies
  <1>1. status_code(e) \in DOMAIN RpcCode
    <2>1. CASE e \in [variant : CodedVariants, code : ErrorCodes]
      BY <2>1 DEF status_code, CodeStatus, RpcCode, CodedVariants
    <2>2. ASSUME NEW v \in DOMAIN PlainCode, e = Plain(v) PROVE status_code(e) \in DOMAIN RpcCode
      <3>1. v \in DOMAIN PlainStatus /\ v \notin CodedVariants /\ e.variant = v
        BY <2>2 DEF PlainCode, PlainStatus, CodedVariants, Plain
      <3>2. \A w \in DOMAIN PlainStatus : PlainStatus[w] \in DOMAIN RpcCode
        BY DEF PlainStatus, RpcCode
      <3>. QED BY <3>1, <3>2 DEF status_code, CodedVariants
    <2>. QED BY <2>1, <2>2 DEF ApiError
  <1>. QED BY <1>1, Zenon DEF map_api_error, Replies

\* No reply reads as none.
LEMMA RepliesAreSome == "none" \notin Replies
  BY DEF Replies, RpcCode

\* A check that is passed leaves the request without a reply and with a step to take.
LEMMA PassEndInv ==
  ASSUME PathInv, EndInv, todo # <<>>, Head(todo) # "call", Pass
  PROVE  EndInv'
  <1>1. todo' = Tail(todo) /\ UNCHANGED <<req, result, reply>> /\ reply = "none"
    BY DEF Pass, PathInv, OnItsWay
  <1>2. EndsInCall(Tail(todo))
    BY TailEndsInCall DEF EndInv
  <1>. QED BY <1>1, <1>2 DEF EndInv, PathTypeOK, EndsInCall, StepNames

\* An answer is a reply, and leaves no step.
LEMMA AnswerEndInv ==
  ASSUME EndInv, NEW res \in ApiError \cup {Ok, Nil}, NEW what \in Replies, Answer(res, what)
  PROVE  EndInv'
  <1>1. todo' = <<>> /\ req' = req /\ result' = res /\ reply' = what
    BY DEF Answer
  <1>. QED BY <1>1, RepliesAreSome DEF EndInv, PathTypeOK, Replies

\* The checks in front of the call, and the timeout.
LEMMA CheckEndInv ==
  ASSUME PathInv, EndInv, Limit \/ ExtractToken \/ ExtractInput \/ Gate \/ CheckPatch \/ Timeout
  PROVE  EndInv'
  <1>1. {"TOO_MANY_REQUESTS", "InvalidArgument", "BAD_REQUEST", "REQUEST_TIMEOUT"} \subseteq Replies
    BY DEF Replies, RpcCode
  <1>2. Plain("Forbidden") \in ApiError /\ Plain("BadRequest") \in ApiError
    BY Zenon DEF ApiError, PlainCode
  <1>3. ASSUME NEW e \in ApiError PROVE ErrorReply(e) \in Replies /\ status_code(e) \in Replies
    BY <1>3, ErrorsAreMapped DEF ErrorReply
  <1>4. CASE Limit
    BY <1>1, <1>4, PassEndInv, AnswerEndInv DEF Limit, At
  <1>5. CASE ExtractToken
    <2>1. CASE req.token = "valid" BY <1>5, <2>1, PassEndInv DEF ExtractToken, At
    <2>2. CASE req.token # "valid"
      <3>1. ExtractError(req.token) \in ApiError BY TokenErrorRaised
      <3>. QED BY <1>3, <1>5, <2>2, <3>1, AnswerEndInv DEF ExtractToken
    <2>. QED BY <2>1, <2>2
  <1>6. CASE ExtractInput
    BY <1>1, <1>6, PassEndInv, AnswerEndInv DEF ExtractInput, At
  <1>7. CASE Gate
    BY <1>2, <1>3, <1>7, PassEndInv, AnswerEndInv DEF Gate, At
  <1>8. CASE CheckPatch
    BY <1>2, <1>3, <1>8, PassEndInv, AnswerEndInv DEF CheckPatch, At
  <1>9. CASE Timeout
    BY <1>1, <1>9, AnswerEndInv DEF Timeout
  <1>. QED BY <1>4, <1>5, <1>6, <1>7, <1>8, <1>9

\* The calls: every outcome has a reply.
LEMMA CallEndInv ==
  ASSUME PathInv, EndInv, CallDecode \/ CallService
  PROVE  EndInv'
  <1>1. {"ok", "invalid", "refused", "Unauthenticated", "Unavailable"} \subseteq Replies
    BY DEF Replies, RpcCode
  <1>2. req \in Request
    BY DEF CallDecode, CallService, At, PathInv, OnItsWay
  <1>3. CASE CallDecode
    <2>1. CASE req.token = "valid" BY <1>1, <1>3, <2>1, AnswerEndInv DEF CallDecode
    <2>2. CASE req.token # "valid"
      <3>1. TokenError(req.token) \in ApiError BY TokenErrorRaised
      <3>2. PICK what \in {"invalid", "refused", "Unauthenticated"} : Answer(TokenError(req.token), what)
        BY <1>3, <2>2 DEF CallDecode
      <3>. QED BY <1>1, <3>1, <3>2, AnswerEndInv
    <2>. QED BY <2>1, <2>2
  <1>4. CASE CallService
    <2>1. req.method \in (Rest \cup Rpcs) \ {"VerifyToken", "Authorize", "GetUserInfo"}
      BY <1>2, <1>4, Zenon DEF CallService, Request
    <2>2. CASE Answer(Ok, "ok") BY <1>1, <2>2, AnswerEndInv
    <2>3. ASSUME NEW e \in Raises(req.method),
                 Answer(e, IF req.method = "VerifyApiKey" THEN VerifyApiKeyReply(e) ELSE ErrorReply(e))
          PROVE  EndInv'
      <3>1. e \in ApiError BY <2>1, RaisesRaised, RaisedIsError
      <3>2. ErrorReply(e) \in Replies BY <3>1, ErrorsAreMapped DEF ErrorReply
      <3>3. VerifyApiKeyReply(e) \in Replies BY <1>1 DEF VerifyApiKeyReply
      <3>. QED BY <2>3, <3>1, <3>2, <3>3, AnswerEndInv
    <2>. QED BY <1>4, <2>2, <2>3 DEF CallService
  <1>. QED BY <1>3, <1>4

\* Every step keeps the invariant.
LEMMA NextEndInv == PathInv /\ EndInv /\ [PathNext]_pathVars => EndInv'
  <1>. SUFFICES ASSUME PathInv, EndInv, [PathNext]_pathVars PROVE EndInv'
    OBVIOUS
  <1>1. CASE UNCHANGED pathVars
    BY <1>1 DEF pathVars, EndInv, PathTypeOK
  <1>2. ASSUME NEW r \in Request, Arrive(r) PROVE EndInv'
    <2>1. r.method \in Rest \cup Rpcs
      BY Zenon DEF Request, Rpcs
    <2>2. EndsInCall(Steps(r.method))
      BY <2>1, StepsEndInCall
    <2>3. req' = r /\ todo' = Steps(r.method) /\ result' = Nil /\ reply' = "none"
      BY <1>2 DEF Arrive, PathInv
    <2>. QED BY <2>2, <2>3 DEF EndInv, PathTypeOK, EndsInCall, StepNames
  <1>3. CASE Send
    BY <1>3 DEF Send, EndInv, PathTypeOK
  <1>. QED BY <1>1, <1>2, <1>3, CheckEndInv, CallEndInv DEF PathNext

\* Every check and every call of either surface ends in a reply: a request has one
\* exactly when no step is left, and it is an HTTP status, a gRPC code or an answer.
THEOREM EveryStepAnswers == PathSpec => []PathTypeOK
  <1>1. PathInit => EndInv
    BY DEF PathInit, EndInv, PathTypeOK
  <1>2. EndInv => PathTypeOK
    BY DEF EndInv
  <1>. QED BY <1>1, <1>2, NextEndInv, PathInvariance, PTL DEF PathSpec
=============================================================================
