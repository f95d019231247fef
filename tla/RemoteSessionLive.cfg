SPECIFICATION FairSpec
CONSTANTS
  s1 = s1
  s2 = s2
  Sessions = {s1}
  None = None
  DeskUses = {"dpms"}
  FaultKinds = {"host"}
  MaxFaults = 2
  MaxCrashes = 1
  MaxReloads = 1
  MaxMisses = 2
  RetryLimit = 1
PROPERTIES SilentSessionEnds RetryEnds GivenBack DeskHeld
