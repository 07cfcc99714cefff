SPECIFICATION StepsSpec
CONSTANTS
  MaxMissions = 2
  MaxPending = 1
  MaxPauses = 0
  MaxTears = 1
INVARIANTS
  NoDuplicates
