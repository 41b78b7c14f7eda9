CONSTANTS
  Requests = {r1, r2}
  Passwords = {p1, p2}
  Initial = {p1, p2}
  Tokens = {t1, t2}
  Typed = {"name"}
  Cases = {FALSE, TRUE}
  Faults = {"read", "write", "drop"}
  LOGIN_MAX_FAILED_ATTEMPTS = 2
  LOGIN_LOCKOUT = 1
  PROFILE_TTL = 1
  RESET_TTL = 1
  MaxCount = 3
  None = None
SPECIFICATION Spec
SYMMETRY Interchangeable
INVARIANTS
  ThresholdLocks
  CacheFresh
  TokenSingleUse
