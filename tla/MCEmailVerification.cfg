CONSTANTS
  EmailRequests = {r1, r2}
  Visits = {v1}
  EmailTokens = {t1, t2, t3}
  EmailFaults = {"read", "write", "mail", "drop"}
  TOKEN_TTL = 2
  RESEND_COOLDOWN = 1
  NoToken = NoToken
SPECIFICATION EmailFairSpec
INVARIANTS
  LinkIsCurrent
  OneMailPerCooldown
PROPERTIES
  VerificationIsSound
