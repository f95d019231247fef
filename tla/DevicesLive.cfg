SPECIFICATION FairSpec
CONSTANTS
  d1 = d1
  d2 = d2
  k1 = k1
  k2 = k2
  w1 = w1
  Devices = {d1}
  Browsers = {}
  Phones = {}
  Terminals = {d1}
  Purgeable = {}
  Nobody = Nobody
  Keys = {k1, k2}
  NoKey = NoKey
  Workers = {w1}
  MaxRequests = 2
  MaxCreds = 1
  MaxCrashes = 0
  MaxFaults = 0
PROPERTY JobsEnd
CHECK_DEADLOCK FALSE
