CONSTANTS
  Users = {u1}
  Addresses = {k1, k2}
  Keypairs = {k1, k2}
  Requests = {r1, r2}
  Calls = {"verify"}
  Faults = {"bridge"}
  None = None
SPECIFICATION SyncSpec
CHECK_DEADLOCK FALSE
INVARIANTS
  CustodialKeyRecoverable
