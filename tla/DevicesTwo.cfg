SPECIFICATION Spec
CONSTANTS
  d1 = d1
  d2 = d2
  k1 = k1
  k2 = k2
  w1 = w1
  Devices = {d1, d2}
  Browsers = {}
  Phones = {}
  Terminals = {}
  Purgeable = {}
  Nobody = Nobody
  Keys = {k1}
  NoKey = NoKey
  Workers = {w1}
  MaxRequests = 1
  MaxCreds = 1
  MaxCrashes = 1
  MaxFaults = 0
SYMMETRY Perms
INVARIANTS OneIdentity
CHECK_DEADLOCK FALSE
