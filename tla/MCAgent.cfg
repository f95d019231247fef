SPECIFICATION Spec
CONSTANTS
  Blank = Blank
  w1 = w1
  w2 = w2
  n1 = n1
  n2 = n2
  Phones = {"p1"}
  Words = {w1, w2}
  Asks = {"a1"}
  MaxTurns = 2
  MaxCalls = 3
  MaxChatFaults = 1
  MaxRestarts = 1
  MaxThreads = 4
  MaxAsks = 2
  MaxCuts = 2
  MaxEnds = 1
  Panes = {n1, n2}
  MaxNews = 3
  MaxSubs = 2
  MaxFaults = 1
  SeenPanes = {"p1"}
  AgentKey = "agent"
  Callers = {"c1"}
  MaxMoves = 3
  PromptIds = {"a", "b"}
  Nobody = "nobody"
  MaxTries = 4
  MaxKeep = 1
  MaxCrash = 1
  MaxPanes = 2
SYMMETRY Perms
INVARIANTS TypeOK StartedOnce ChatAgrees ThreadKept NeedsAreTold
CHECK_DEADLOCK FALSE
