CONSTANTS
  KeyCallers = {r1, r2}
  KeyFaults = {}
  API_KEY_CACHE_TTL = 2
SPECIFICATION KeySpec
PROPERTIES
  FiresOncePerTtl
