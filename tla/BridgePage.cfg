SPECIFICATION FairPageSpec
CONSTANTS
  Channels = {c1}
  Direct = d
  Threads = {t1}
  MaxLoads = 2
  MaxPosts = 1
  MaxMoves = 1
  MaxFailures = 1
  MaxChanges = 1
CHECK_DEADLOCK FALSE
INVARIANTS
  ShownIsOpen
PROPERTIES
  CatchesUp
