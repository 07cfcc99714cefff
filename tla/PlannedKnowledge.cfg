SPECIFICATION MCSpec
CONSTANTS
  Actors = {r1, r2, a1}
  Reviewers = {r1, r2}
  Statuses = {"Ready", "Completed"}
  LinkNodes = {n1}
  MaxRevisions = 3
  MaxProposals = 1
  Second = r2
CHECK_DEADLOCK FALSE
INVARIANTS
  NothingIsLost
  ReviewsDecide
PROPERTIES
  ImplementsAtomicPlan
