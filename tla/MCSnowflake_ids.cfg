SPECIFICATION FairSpec
CONSTANTS
  n1 = n1
  n2 = n2
  c1 = c1
  c2 = c2
  c3 = c3
  NodeCount = 2
  StepCount = 2
  Nodes = {n1, n2}
  NodeNumber <- MCNodeNumber
  Callers = {c1, c2, c3}
  NodeOf <- MCNodeOf
  Nobody = Nobody
  MaxClock = 3
  MaxCalls = 2
  Ids <- MCIds
CHECK_DEADLOCK FALSE
INVARIANTS TypeOK UniqueIds IncreasingIds
PROPERTIES ImplementsIdSource EveryCallReturns
