SPECIFICATION Spec
CONSTANTS
  d1 = d1
  d2 = d2
  k1 = k1
  k2 = k2
  w1 = w1
  Devices = {d1}
  Browsers = {d1}
  Phones = {d1}
  Terminals = {d1}
  Purgeable = {d1}
  Nobody = Nobody
  Keys = {k1}
  NoKey = NoKey
  Workers = {w1}
  MaxRequests = 2
  MaxCreds = 2
  MaxCrashes = 0
  MaxFaults = 0
INVARIANTS TypeOK RevokedKeepsNothing LinesGranted RevokedStaysRefused
CHECK_DEADLOCK FALSE
