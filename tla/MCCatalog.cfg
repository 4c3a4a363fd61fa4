SPECIFICATION Spec
CONSTANTS
  None = None
  Keys = {1, 2}
  Pair <- MCPair
  Selectors = {s1, s2}
  Worlds <- MCWorlds
  Quotes = {"q", "r"}
  Lookback = 2
  MaxCommits = 3
  TopN = 1
  MaxAge = 2
  CaptureDuration = 2
  ExitGrace = 2
  Fixed = {}
INVARIANTS SnapshotsAccepted ViewLoads OutboxReplays
PROPERTIES EpisodesAdvance GraceNotRenewed
CHECK_DEADLOCK FALSE
SYMMETRY Sym
