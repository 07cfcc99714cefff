SPECIFICATION FairGuideSpec
CONSTANTS
  MaxTrouble = 2
CHECK_DEADLOCK FALSE
INVARIANTS
  RecoveryWorks
  CompleteIsReviewed
PROPERTIES
  StageMovesForward
  GuideCompletes
