SPECIFICATION FairSpec
CONSTANTS
  App = App
  Clis = {c1}
  LastMigration = 3
  RequiredMigration = 2
  MaxWrites = 2
  MaxBackups = 5
  MaxFaults = 1
CHECK_DEADLOCK FALSE
INVARIANTS
  BackupIsWhole
PROPERTIES
  BackupsAreKept
  GetsUpdated
