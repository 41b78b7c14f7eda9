CONSTANTS
  \* RateLimit
  Requests = {r1, r2, r3}
  OverrideLimit = 0
  OverrideWindow = 1
  DefaultLimit = 3
  DefaultWindow = 4
  Faults = {"reply", "write", "drop"}
  MaxCount = 9
  Unset = Unset
  \* Sessions
  Tokens = {t1, t2, t3}
  Sessions = {s1, s2}
  LIFETIME = 3
  LEEWAY = 1
  None = None
  \* RequestPath
  Permissions <- Asked
  Claims = {"user", "admin", "ami", "producer", "consumer", "operator"}
  Ok = Ok
  Nil = Nil
  \* ApiKeyCache
  KeyCallers = {r1, r2, r3}
  KeyFaults = {"read", "write", "event", "drop"}
  API_KEY_CACHE_TTL = 3
  \* Admission
  a1 = a1
  a2 = a2
  b1 = b1
  c1 = c1
  c2 = c2
  Calls = {a1, a2, b1, c1, c2}
  Limits = {0, 1, 2}
  MaxOrphans = 2
  RestCalls <- MCRest
  Routes = {"login", "register"}
  RouteOf <- MCRouteOf
  GLOBAL_CONCURRENCY_LIMIT = 1
SPECIFICATION EdgeFairSpec
INVARIANTS
  OverrunBounded
  UnattendedSessionEnds
  AdmittedAsDocumented
  FaultsKeepTheirClass
  RevocationWindow
PROPERTIES
  Recovers
  EventuallyRefused
  NoStarvation
  RestAnswered
