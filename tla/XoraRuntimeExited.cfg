SPECIFICATION Spec
CONSTANTS
  MaxPolls = 3
  MaxSessions = 2
INVARIANTS
  ExitedMeansScriptMode
CHECK_DEADLOCK FALSE
