-------------------------------- MODULE Rbac --------------------------------
(***************************************************************************)
(* Permissions of the user roles (Role, Permission) and the service roles  *)
(* each RPC and each REST handler admits.                                  *)
(***************************************************************************)

\* A permission "resource:action"; the action * stands for every action.
P(resource, action) == [resource |-> resource, action |-> action]

\* Permission::grants
grants(p, requested) ==
  p = requested \/ (p.action = "*" /\ p.resource = requested.resource)

\* Role::permissions, by the name Display gives the role.
permissions ==
  [user     |-> {P("energy", "read"), P("energy", "submit"), P("trading", "read"),
                 P("trading", "create"), P("profile", "read"), P("profile", "update"),
                 P("meters", "read")},
   admin    |-> {P("energy", "*"), P("trading", "*"), P("profile", "*"),
                 P("analytics", "*"), P("users", "*"), P("admin", "*"),
                 P("meters", "*"), P("system", "*")},
   ami      |-> {P("energy", "submit"), P("meters", "read"), P("meters", "update"),
                 P("readings", "submit")},
   producer |-> {P("energy", "read"), P("energy", "submit"), P("offers", "*"),
                 P("trading", "read"), P("trading", "create"), P("transactions", "read"),
                 P("profile", "read"), P("profile", "update"), P("meters", "read")},
   consumer |-> {P("energy", "read"), P("orders", "*"), P("offers", "read"),
                 P("trading", "read"), P("trading", "create"), P("transactions", "read"),
                 P("profile", "read"), P("profile", "update")},
   operator |-> {P("energy", "read"), P("meters", "*"), P("readings", "*"),
                 P("analytics", "read"), P("system", "health")}]

Role == DOMAIN permissions

has_permission(role, requested) == \E p \in permissions[role] : grants(p, requested)

-----------------------------------------------------------------------------
ServiceRole ==
  {"ApiGateway", "TradingApi", "AggregatorBridge", "MeterService",
   "SettlementService", "IamService", "Admin", "Unknown"}

RestPublic ==
  {"register", "login", "verify", "resend_verification", "forgot_password",
   "reset_password"}
RestPrivate ==
  {"refresh", "get_me", "onboard_user", "link_wallet", "list_wallets", "get_wallet",
   "update_wallet", "unlink_wallet"}
Rpcs ==
  {"VerifyToken", "Authorize", "GetUserInfo", "VerifyApiKey", "RegisterUser",
   "LinkWallet", "GetUserWallet", "InitializeUserWallet"}
Rest == RestPublic \cup RestPrivate

GatewayOnly == {"ApiGateway", "Admin"}

\* Mutant: the trading API may check API keys too.
AllowedTrading(m) ==
  IF m \in {"VerifyToken", "VerifyApiKey"} THEN ServiceRole \ {"Unknown"} ELSE GatewayOnly

\* The roles require_any admits for a method.
Allowed(m) ==
  CASE m \in RestPublic -> GatewayOnly \cup {"Unknown"}
    [] m = "VerifyToken" ->
         GatewayOnly \cup {"TradingApi", "AggregatorBridge", "MeterService"}
    [] m \in {"VerifyApiKey", "GetUserWallet"} -> GatewayOnly \cup {"AggregatorBridge"}
    [] OTHER -> GatewayOnly
=============================================================================
