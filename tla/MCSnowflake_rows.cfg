SPECIFICATION Spec
CONSTANTS
  n1 = n1
  n2 = n2
  c1 = c1
  c2 = c2
  c3 = c3
  NodeCount = 2
  StepCount = 2
  Nodes = {n1, n2}
  NodeNumber <- RowsNodeNumber
  Callers = {c1, c2}
  NodeOf <- RowsNodeOf
  Nobody = Nobody
  MaxClock = 3
  MaxCalls = 1
  Ids <- MCIds
CHECK_DEADLOCK FALSE
INVARIANTS UniqueIds
