SPECIFICATION FairSpec
CONSTANTS
  s1 = s1
  s2 = s2
  Sessions = {s1}
  None = None
  DeskUses = {}
  FaultKinds = {"read"}
  MaxFaults = 1
  MaxCrashes = 0
  MaxReloads = 0
  MaxMisses = 1
  RetryLimit = 1
PROPERTIES SilentSessionEnds
