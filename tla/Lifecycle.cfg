CONSTANTS
  Nodes = {n1, n2}
  Scopes = {s1, s2}
  Clients = {c1, c2}
  MaxProposals = 4
  MaxRollbacks = 1
  Actors = {r1, a1}
  Reviewers = {r1}
  Keys = {k1, k2}
SPECIFICATION MCSpec
SYMMETRY Symmetry
CHECK_DEADLOCK FALSE
INVARIANTS
  OneOrigin
  TablesAgree
  CompleteLineage
  RestorationIsGrounded
  HistoryHasOneCurrent
PROPERTIES
  ImplementsCanonicalKnowledge
  DecisionIsFinal
  KeysArePermanent
