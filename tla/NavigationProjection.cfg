SPECIFICATION Spec
CONSTANTS
  Nodes = {n1, n2}
  Local = n1
  Plans = {q1}
  Processes = {p1, p2}
  MaxWrites = 2
SYMMETRY Symmetry
CHECK_DEADLOCK FALSE
INVARIANTS
  MapsAreSound
  QuietMapIsExact
