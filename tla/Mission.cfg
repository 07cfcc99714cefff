CONSTANTS
  Humans = {h1}
  Agents = {a1}
  Viewers = {h1}
  WaitReasons = {"provider_limit", "needs_approval"}
  MaxSequence = 7
SPECIFICATION Spec
CHECK_DEADLOCK FALSE
INVARIANTS
  LogExplainsRow
  HumansDecide
PROPERTIES
  AnswerReachesShownRequest
  ImplementsAtomicMission
