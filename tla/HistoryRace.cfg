CONSTANTS
  Nodes = {n1}
  Scopes = {s1}
  Clients = {c1}
  MaxProposals = 4
  MaxRollbacks = 1
SPECIFICATION HistorySpec
INVARIANTS
  RefusedOnlyWhenBroken
CHECK_DEADLOCK FALSE
