SPECIFICATION Spec
CONSTANTS
  s1 = s1
  s2 = s2
  Sessions = {s1, s2}
  None = None
  DeskUses = {"dpms", "workspaces", "bar"}
  FaultKinds = {"host", "disk", "read"}
  MaxFaults = 2
  MaxCrashes = 1
  MaxReloads = 0
  MaxMisses = 2
  RetryLimit = 1
SYMMETRY Perms
INVARIANTS TypeOK JournalCovers RetryCovers ReleasedMeansRestored LeaseMatches
PROPERTIES BorrowsUnderNotes
