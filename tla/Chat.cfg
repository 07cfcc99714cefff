SPECIFICATION FairSpec
CONSTANTS
  Captains = {h1, h2}
  Standing = {"direct"}
  Topics = {t1}
  Names = {"a"}
  MaxMessages = 3
  MaxAborts = 1
CHECK_DEADLOCK FALSE
INVARIANTS
  EveryMessageIsShown
PROPERTIES
  ArchivedIsFrozen
  AnswerStaysInThread
  DirectIsAnswered
