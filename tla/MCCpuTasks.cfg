CONSTANTS
  a1 = a1
  a2 = a2
  b1 = b1
  c1 = c1
  c2 = c2
  Calls = {a1, a2, b1, c1, c2}
  Limits = {1}
  MaxOrphans = 2
  RestCalls <- MCRest
  Routes = {"login", "register"}
  RouteOf <- MCRouteOf
  GLOBAL_CONCURRENCY_LIMIT = 1
SPECIFICATION AdmissionSpec
INVARIANTS
  CpuBounded
