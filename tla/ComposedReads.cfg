SPECIFICATION MCSpec
CONSTANTS
  Projects = {p1, p2}
  Nodes = {n1}
  Callers = {k1}
  MaxRevision = 2
  MaxProposals = 2
  MaxAssessments = 2
  old = old
  new = new
  Programs <- MCPrograms
  Version <- MCVersion
  Rows <- MCRows
  In <- MCIn
  Needs <- MCNeeds
  MaxCommits = 2
CHECK_DEADLOCK FALSE
INVARIANTS
  RelationshipsAreReviewed
  ReaderIsTold
  BackupIsOneMoment
  VerifyIsTrue
PROPERTIES
  WritesAreCurrent
