SPECIFICATION MCSpec
CONSTANTS
  MaxPolls = 3
  MaxSessions = 3
  MaxMissions = 2
  MaxPending = 1
  MaxPauses = 1
  MaxTears = 1
CHECK_DEADLOCK FALSE
INVARIANTS
  NoRuntimeIsLost
  DuplicatesAreTorn
PROPERTIES
  NoRetryAfterFailure
  StartEnds
  SettingsAreKept
