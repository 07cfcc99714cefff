SPECIFICATION PageSpec
CONSTANTS
  Channels = {c1}
  Direct = d
  Threads = {t1}
  MaxLoads = 2
  MaxPosts = 1
  MaxMoves = 2
  MaxFailures = 1
  MaxChanges = 1
PROPERTIES
  DraftIsKept
CHECK_DEADLOCK FALSE
