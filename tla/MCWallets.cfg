CONSTANTS
  Users = {u1, u2}
  Addresses = {k1, k2}
  Keypairs = {k1, k2}
  Requests = {r1, r2}
  Calls = {"link", "promote", "unlink", "verify", "init"}
  Faults = {"bridge", "drop", "crash", "addr"}
  None = None
SPECIFICATION SyncSpec
SYMMETRY Interchangeable
ACTION_CONSTRAINT SettlesFirst
INVARIANTS
  AtMostOnePrimary
  PrimaryInSync
  OnlyRacesLoseKeys
PROPERTIES
  PrimaryNeverUnlinked
