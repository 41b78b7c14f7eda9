----------------------------- MODULE ApiErrors -----------------------------
(***************************************************************************)
(* ApiError: its variants and codes, and the mapping of an error to an     *)
(* error code, an HTTP status and a gRPC code.  Messages are left out.     *)
(***************************************************************************)

\* ErrorCode, by the leading digit of its number.
AuthenticationCodes ==
  {"InvalidCredentials", "TokenExpired", "TokenInvalid", "TokenMissing",
   "EmailNotVerified", "AccountLocked", "AccountDisabled"}
AuthorizationCodes ==
  {"InsufficientPermissions", "ResourceAccessDenied", "RoleNotAuthorized"}
ValidationCodes ==
  {"InvalidInput", "MissingRequiredField", "InvalidFormat", "InvalidWalletAddress",
   "InvalidAmount", "InvalidEmail", "InvalidPassword", "PasswordTooWeak"}
ResourceCodes == {"NotFound", "AlreadyExists", "Conflict", "Gone"}
RateCodes == {"RateLimitExceeded", "TooManyRequests"}
DatabaseCodes ==
  {"DatabaseConnectionFailed", "QueryFailed", "DatabaseTransactionFailed",
   "ConstraintViolation"}
ExternalCodes ==
  {"ExternalServiceUnavailable", "ExternalServiceTimeout", "ExternalServiceError",
   "EmailServiceFailed", "ServiceUnavailable"}
InternalCodes == {"InternalServerError", "ConfigurationError", "UnexpectedError"}

ClientCodes ==
  AuthenticationCodes \cup AuthorizationCodes \cup ValidationCodes
    \cup ResourceCodes \cup RateCodes
ErrorCodes == ClientCodes \cup DatabaseCodes \cup ExternalCodes \cup InternalCodes

\* error_code of the variants that carry none.
PlainCode ==
  [Authentication |-> "InvalidCredentials", Authorization |-> "InsufficientPermissions",
   BadRequest |-> "InvalidInput", Validation |-> "InvalidInput",
   Unauthorized |-> "TokenMissing", Forbidden |-> "ResourceAccessDenied",
   NotFound |-> "NotFound", Conflict |-> "Conflict", Database |-> "QueryFailed",
   Redis |-> "ExternalServiceError", ExternalService |-> "ExternalServiceError",
   Blockchain |-> "InternalServerError", Internal |-> "InternalServerError",
   Configuration |-> "ConfigurationError", RateLimitExceeded |-> "RateLimitExceeded"]

\* The variants that carry a code.
CodedVariants == {"WithCode", "WithCodeAndDetails", "ValidationWithField"}

Plain(v) == [variant |-> v, code |-> PlainCode[v]]
WithCode(c) == [variant |-> "WithCode", code |-> c]

ApiError ==
  {Plain(v) : v \in DOMAIN PlainCode} \cup [variant : CodedVariants, code : ErrorCodes]

\* status_code of the variants that carry no code.
PlainStatus ==
  [Authentication |-> "UNAUTHORIZED", Unauthorized |-> "UNAUTHORIZED",
   Authorization |-> "FORBIDDEN", Forbidden |-> "FORBIDDEN",
   BadRequest |-> "BAD_REQUEST", Validation |-> "BAD_REQUEST",
   NotFound |-> "NOT_FOUND", Conflict |-> "CONFLICT",
   Blockchain |-> "BAD_GATEWAY", ExternalService |-> "BAD_GATEWAY",
   RateLimitExceeded |-> "TOO_MANY_REQUESTS", Database |-> "INTERNAL_SERVER_ERROR",
   Redis |-> "INTERNAL_SERVER_ERROR", Configuration |-> "INTERNAL_SERVER_ERROR",
   Internal |-> "INTERNAL_SERVER_ERROR"]

UnauthorizedCodes == AuthenticationCodes \ {"AccountLocked", "AccountDisabled"}

\* Mutant: a locked account has no arm of its own and falls to the catch-all.
CodeStatusNoLocked(c) ==
  CASE c \in UnauthorizedCodes -> "UNAUTHORIZED"
    [] c \in ValidationCodes -> "BAD_REQUEST"
    [] OTHER -> "INTERNAL_SERVER_ERROR"

\* status_code of WithCode, the catch-all last.
CodeStatus(c) ==
  CASE c \in UnauthorizedCodes -> "UNAUTHORIZED"
    [] c \in {"InsufficientPermissions", "ResourceAccessDenied"} -> "FORBIDDEN"
    [] c \in ValidationCodes -> "BAD_REQUEST"
    [] c = "NotFound" -> "NOT_FOUND"
    [] c \in {"Conflict", "AlreadyExists"} -> "CONFLICT"
    [] c \in {"ExternalServiceUnavailable", "ServiceUnavailable"} -> "BAD_GATEWAY"
    [] c = "RateLimitExceeded" -> "TOO_MANY_REQUESTS"
    [] c = "AccountLocked" -> "LOCKED"
    [] OTHER -> "INTERNAL_SERVER_ERROR"

status_code(e) ==
  CASE e.variant = "WithCode" -> CodeStatus(e.code)
    [] e.variant = "ValidationWithField" -> "BAD_REQUEST"
    [] e.variant = "WithCodeAndDetails" -> "INTERNAL_SERVER_ERROR"
    [] OTHER -> PlainStatus[e.variant]

\* map_api_error: the gRPC code of a status.
RpcCode ==
  [UNAUTHORIZED |-> "Unauthenticated", FORBIDDEN |-> "PermissionDenied",
   BAD_REQUEST |-> "InvalidArgument", NOT_FOUND |-> "NotFound",
   CONFLICT |-> "AlreadyExists", BAD_GATEWAY |-> "Unavailable",
   TOO_MANY_REQUESTS |-> "ResourceExhausted", LOCKED |-> "FailedPrecondition",
   INTERNAL_SERVER_ERROR |-> "Internal"]

map_api_error(e) == RpcCode[status_code(e)]

\* The replies that blame the service and not the caller.
ServerFaults == {"INTERNAL_SERVER_ERROR", "BAD_GATEWAY", "Internal", "Unavailable"}
=============================================================================
