SPECIFICATION Spec
CONSTANTS
  Blank = Blank
  d1 = d1
  d2 = d2
  s1 = s1
  s2 = s2
  w1 = w1
  w2 = w2
  Ttl = 7
  Window = 2
  Grace = 2
  MaxTime = 9
  MaxCreds = 3
  MaxAsks = 1
  MaxCrashes = 1
  Devices = {d1, d2}
  Certs = {"c1"}
  MaxRequests = 2
  MaxTroubles = 1
  MaxMoves = 2
  MaxFaults = 1
  Streams = {s1, s2}
  NoStream = NoStream
  Writers = {w1, w2}
  NoWriter = NoWriter
  MaxSizes = 3
  MaxRuns = 2
  Ours = {"t1"}
  Strangers = {"t2"}
  ToastIds = {"r1"}
  NoRequest = "none"
  MaxRestarts = 1
  ToastMaxAsks = 2
  Texts = {"a"}
  Nothing = "none"
  Picture = "picture"
  Threads = {1, 2}
  MaxCopies = 2
  MaxSwitch = 2
  MaxWrites = 1
  ClipMaxFaults = 1
  Files = {1, 2}
  UploadIds = {"a"}
  Unset = "off"
  MaxCrash = 1
  MaxHours = 2
  UploadMaxAsks = 2
  Marks = {1, 2, 3}
  MaxText = 3
  MaxFiles = 2
  Pages = {"p", "q"}
  Shared = {"c", "d"}
  Newer = {"n"}
  Absent = "absent"
  MaxRevision = 4
  MaxBuilds = 2
  Sends = {s1, s2}
  Drafts = {d1, d2}
  Waiters = {w1, w2}
  Memory = 1
  MaxAttempts = 3
  MaxAnswers = 2
  MaxTurns = 1
SYMMETRY Perms
INVARIANTS TypeOK CredentialWorks HerdrIsHeld WaitingStays SharedAsAsked
PROPERTIES FollowedUp
CHECK_DEADLOCK FALSE
