---------------------------- MODULE RequestPath ----------------------------
(***************************************************************************)
(* The way of one request through the REST router or the gRPC service: the *)
(* checks in the order each surface makes them, the call of AuthService,   *)
(* and the reply.  What the call does is the matter of the other modules;  *)
(* here it succeeds or fails with an error it can raise.                   *)
(***************************************************************************)
EXTENDS Sequences, ApiErrors, Rbac

CONSTANTS
  Permissions,   \* permissions asked of Authorize
  Claims,        \* roles found in tokens
  Ok,            \* the result of a call that succeeds
  Nil

VARIABLES
  req,      \* the request being served, Nil between requests
  todo,     \* the steps it still has to take
  result,   \* what AuthService or decode_token returned, Nil before
  reply     \* what the caller gets, "none" before

pathVars == <<req, todo, result, reply>>

-----------------------------------------------------------------------------
\* Routes under /api/v1/auth pass the rate limiter.
Limited == RestPublic \cup {"refresh"}

\* Handlers with a Json, Query or Path extractor; RPCs that parse a user id.
TakesInput ==
  (Rest \ {"refresh", "get_me", "list_wallets"})
    \cup {"LinkWallet", "GetUserWallet", "InitializeUserWallet"}

\* The checks of a method, in order.  On REST the extractors run before the
\* handler, which then checks the role; an RPC checks the role first.
Steps(m) ==
  LET If(cond, step) == IF cond THEN <<step>> ELSE <<>>
  IN IF m \in Rpcs
     THEN <<"gate">> \o If(m \in TakesInput, "input") \o <<"call">>
     ELSE If(m \in Limited, "limit") \o If(m \in RestPrivate, "token")
            \o If(m \in TakesInput, "input") \o <<"gate">>
            \o If(m = "update_wallet", "patch") \o <<"call">>

\* What decode_token makes of a token.
Decoded == {"invalid", "expired", "valid"}

\* What a caller can present: on REST a token is found in a header, an RPC has a
\* field for it.  Only Authorize asks for a permission.
Request ==
  [method : Rest, caller : ServiceRole, token : Decoded \cup {"missing", "malformed"},
   input : {"good", "bad"}, primary : BOOLEAN, claim : {"user"},
   permission : {P("energy", "read")}]
  \cup
  [method : Rpcs \ {"Authorize"}, caller : ServiceRole, token : Decoded,
   input : {"good", "bad"}, primary : {TRUE}, claim : {"user"},
   permission : {P("energy", "read")}]
  \cup
  [method : {"Authorize"}, caller : ServiceRole, token : Decoded,
   input : {"good"}, primary : {TRUE}, claim : Claims, permission : Permissions]

ASSUME RequestPathAssumption ==
  /\ Claims \subseteq Role
  /\ Ok # Nil
  /\ Nil \notin Request
  /\ {Ok, Nil} \cap ApiError = {}

\* The errors AuthService raises in the call behind a method.
Raises(m) ==
  LET plain(vs) == {Plain(v) : v \in vs}
  IN CASE m \in {"register", "RegisterUser"} ->
            plain({"BadRequest", "Conflict", "Database", "Internal"})
              \cup {WithCode("InvalidEmail")}
       [] m = "login" ->
            plain({"Database", "Internal"})
              \cup {WithCode("AccountLocked"), WithCode("InvalidCredentials")}
       [] m \in {"verify", "reset_password"} ->
            plain({"BadRequest", "NotFound", "Database", "Internal"})
       [] m = "resend_verification" -> plain({"Database"})
       [] m = "forgot_password" -> plain({"Database", "Internal"})
       [] m = "refresh" -> plain({"Internal"})
       [] m \in {"get_me", "get_wallet", "update_wallet", "GetUserWallet"} ->
            plain({"NotFound", "Database"})
       [] m = "list_wallets" -> plain({"Database"})
       [] m = "unlink_wallet" -> plain({"BadRequest", "NotFound", "Database"})
       [] m = "onboard_user" -> plain({"BadRequest", "Database", "Internal"})
       [] m \in {"link_wallet", "LinkWallet"} ->
            plain({"BadRequest", "Conflict", "Configuration", "Database"})
       [] m = "VerifyApiKey" -> plain({"Unauthorized", "Database", "Internal"})
       [] m = "InitializeUserWallet" -> plain({"BadRequest", "Database", "Internal"})

\* The error of decode_token.
TokenError(kind) == WithCode(IF kind = "expired" THEN "TokenExpired" ELSE "TokenInvalid")

\* The error of the AuthenticatedUser extractor: its own for the header, else that of
\* decode_token.
ExtractError(kind) ==
  IF kind \in {"missing", "malformed"} THEN Plain("Unauthorized") ELSE TokenError(kind)

-----------------------------------------------------------------------------
Arrive(r) ==
  /\ req = Nil
  /\ req' = r
  /\ todo' = Steps(r.method)
  /\ UNCHANGED <<result, reply>>

\* The reply is sent.
Send ==
  /\ reply # "none"
  /\ req' = Nil
  /\ result' = Nil
  /\ reply' = "none"
  /\ UNCHANGED todo

\* The request is answered, and takes no further step.
Answer(res, what) ==
  /\ reply' = what
  /\ result' = res
  /\ todo' = <<>>
  /\ UNCHANGED req

\* The request passes the check it is at.
Pass ==
  /\ todo' = Tail(todo)
  /\ UNCHANGED <<req, result, reply>>

\* The request is at the given step.
At(step) == todo # <<>> /\ Head(todo) = step

\* An ApiError as the reply of the surface the request came by.
ErrorReply(e) == IF req.method \in Rpcs THEN map_api_error(e) ELSE status_code(e)

\* rate_limit_middleware: every error of check_rate_limit becomes a 429.
Limit ==
  /\ At("limit")
  /\ Pass \/ Answer(Nil, "TOO_MANY_REQUESTS")

\* The AuthenticatedUser extractor.
ExtractToken ==
  /\ At("token")
  /\ IF req.token = "valid" THEN Pass
     ELSE Answer(ExtractError(req.token), status_code(ExtractError(req.token)))

\* Axum's extractors reject input with a 4xx of their own, the RPCs a user id
\* that is no UUID.
ExtractInput ==
  /\ At("input")
  /\ IF req.input = "good" THEN Pass
     ELSE Answer(Nil, IF req.method \in Rpcs THEN "InvalidArgument" ELSE "BAD_REQUEST")

\* require_any
Gate ==
  /\ At("gate")
  /\ IF req.caller \in Allowed(req.method) THEN Pass
     ELSE Answer(Nil, ErrorReply(Plain("Forbidden")))

\* update_wallet: a body that does not set is_primary is refused.
CheckPatch ==
  /\ At("patch")
  /\ IF req.primary THEN Pass
     ELSE Answer(Plain("BadRequest"), status_code(Plain("BadRequest")))

\* verify_api_key: a bad key is an answer, anything else a retryable error.
VerifyApiKeyReply(e) == IF e.variant = "Unauthorized" THEN "invalid" ELSE "Unavailable"

\* authorize, for a token that decodes: an admin may do everything, a user all
\* but admin:*, every other role nothing.
Authorizes(claim, permission) ==
  \/ claim = "admin"
  \/ claim = "user" /\ permission.resource # "admin"

\* The RPCs that only decode a token: a token that does not decode is an answer
\* for two of them and an error for GetUserInfo.
CallDecode ==
  /\ At("call")
  /\ req.method \in {"VerifyToken", "Authorize", "GetUserInfo"}
  /\ IF req.token = "valid"
     THEN Answer(Ok, IF req.method = "Authorize" /\ ~Authorizes(req.claim, req.permission)
                     THEN "refused" ELSE "ok")
     ELSE Answer(TokenError(req.token),
                 CASE req.method = "VerifyToken" -> "invalid"
                   [] req.method = "Authorize" -> "refused"
                   [] req.method = "GetUserInfo" -> "Unauthenticated")

\* The handlers and RPCs that call AuthService.
CallService ==
  /\ At("call")
  /\ req.method \notin {"VerifyToken", "Authorize", "GetUserInfo"}
  /\ \/ Answer(Ok, "ok")
     \/ \E e \in Raises(req.method) :
          Answer(e, IF req.method = "VerifyApiKey" THEN VerifyApiKeyReply(e) ELSE ErrorReply(e))

\* The TimeoutLayer of the REST router drops the handler wherever it is.
Timeout ==
  /\ todo # <<>>
  /\ req.method \in Rest
  /\ Answer(Nil, "REQUEST_TIMEOUT")

PathInit ==
  /\ req = Nil
  /\ todo = <<>>
  /\ result = Nil
  /\ reply = "none"

PathNext ==
  \/ \E r \in Request : Arrive(r)
  \/ Send
  \/ Limit \/ ExtractToken \/ ExtractInput \/ Gate \/ CheckPatch
  \/ CallDecode \/ CallService \/ Timeout

PathSpec == PathInit /\ [][PathNext]_pathVars

-----------------------------------------------------------------------------
\* Every reply has been mapped: a request is answered exactly when it has no
\* step left.
PathTypeOK ==
  /\ req \in Request \cup {Nil}
  /\ todo \in Seq({"limit", "token", "input", "gate", "patch", "call"})
  /\ result \in ApiError \cup {Ok, Nil}
  /\ req # Nil => (todo = <<>> <=> reply # "none")
  /\ reply \in DOMAIN RpcCode \cup {RpcCode[st] : st \in DOMAIN RpcCode}
               \cup {"none", "ok", "invalid", "refused", "REQUEST_TIMEOUT"}

\* The callers the README's table of allowlists admits to an RPC.
Documented(rpc) ==
  CASE rpc = "VerifyToken" ->
         {"ApiGateway", "TradingApi", "AggregatorBridge", "MeterService", "Admin"}
    [] rpc \in {"VerifyApiKey", "GetUserWallet"} ->
         {"ApiGateway", "AggregatorBridge", "Admin"}
    [] OTHER -> {"ApiGateway", "Admin"}

\* "Missing/unknown role -> permission_denied; Admin passes everywhere": an RPC
\* reaches AuthService or the token only for a caller of the README's table,
\* and no such caller is denied.
AdmittedAsDocumented ==
  req # Nil /\ req.method \in Rpcs =>
    /\ result # Nil => req.caller \in Documented(req.method)
    /\ reply = "PermissionDenied" => req.caller \notin Documented(req.method)

\* "A client-side fault must stay distinguishable from an infra fault": whatever
\* the call raised, by either surface, the reply blames the service exactly if
\* the error's code is not one of the client's.
FaultsKeepTheirClass ==
  result \in ApiError => (reply \in ServerFaults <=> result.code \notin ClientCodes)

\* Authorize goes by the name of the role and not by Role::permissions.  As far as the
\* two agree: it refuses a user or an admin nothing that Role::permissions gives them,
\* and grants admin:* to an admin only.
AuthorizeBounds ==
  req # Nil /\ req.method = "Authorize" /\ result = Ok =>
    /\ reply = "refused" /\ req.claim \in {"user", "admin"}
         => ~has_permission(req.claim, req.permission)
    /\ reply = "ok" /\ req.permission.resource = "admin" => req.claim = "admin"
=============================================================================
