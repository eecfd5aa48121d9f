SPECIFICATION FairSpec
CONSTANTS
  j1 = j1
  j2 = j2
  j3 = j3
  j4 = j4
  Jobs = {j1, j2, j3, j4}
  Limit = 2
CHECK_DEADLOCK FALSE
INVARIANTS TypeOK NoSendAfterClose
PROPERTIES ImplementsBatch
