CONSTANTS
  Requests = {r1, r2}
  Passwords = {p1, p2}
  Initial = {p1}
  Tokens = {t1}
  Typed = {"email"}
  Cases = {FALSE}
  Faults = {"read", "write"}
  LOGIN_MAX_FAILED_ATTEMPTS = 2
  LOGIN_LOCKOUT = 2
  PROFILE_TTL = 2
  RESET_TTL = 1
  MaxCount = 2
  None = None
SPECIFICATION FairSpec
PROPERTIES
  CleanSlate
  LockIsTemporary
  StaleProfilesExpire
