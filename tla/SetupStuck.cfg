SPECIFICATION FairSpec
CONSTANTS
  App = App
  Clis = {}
  LastMigration = 1
  RequiredMigration = 1
  MaxWrites = 1
  MaxBackups = 2
  MaxFaults = 1
PROPERTY SetupContinues
CHECK_DEADLOCK FALSE
