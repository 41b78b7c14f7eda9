CONSTANTS
  User = u1
  Addresses = {a1, k1}
  Keypairs = {k1}
  Requests = {r1}
  Calls = {"link", "promote", "verify", "onboard"}
  Faults = {"lookup", "mark", "verify", "spawn"}
  None = None
SPECIFICATION FairSpec
INVARIANTS
  VerifiedHasWallet
  RegisteredIsOnChain
PROPERTIES
  SetupCompletes
  OnboardingConverges
