SPECIFICATION Spec
CONSTANTS
  Blank = Blank
  d1 = d1
  d2 = d2
  g1 = g1
  g2 = g2
  g3 = g3
  Phones = {d1, d2}
  NoDevice = NoDevice
  Prompts = {"q1"}
  MaxKeys = 2
  MaxPending = 2
  MaxPeople = 2
  MaxSockets = 2
  MaxLeases = 1
  MaxVoiceEdits = 2
  MaxRuns = 3
  MaxWork = 2
  Workers = {"tick"}
  Watched = {"f"}
  Demands = {"g"}
  MaxMoves = 1
  MaxEdits = 1
  MaxMade = 4
  MaxActs = 1
  MaxTurns = 1
  Spaces = {1, 2}
  Windows = {"x", "y"}
  MaxTime = 3
  MaxMoved = 1
  MaxShown = 3
  Devices = {"d1", "d2"}
  MaxStore = 1
  MaxTaps = 2
  MaxSends = 3
  MaxRowEdits = 1
  MaxVersions = 4
  PamMaxRuns = 3
  FileMaxEdits = 1
  FileMaxRuns = 2
  ServeMaxTurns = 2
  ServeMaxRuns = 3
  SunMaxTurns = 2
  SunMaxRuns = 3
  Daemons = {g1, g2, g3}
  MaxStarts = 3
SYMMETRY Perms
INVARIANTS TypeOK ApprovalIsSound MicrophoneKept DeskAsAsked HostFilesKept
PROPERTIES TreesAreKept
CHECK_DEADLOCK FALSE
