SPECIFICATION FairSpec
CONSTANTS
  c1 = c1
  c2 = c2
  c3 = c3
  u1 = u1
  u2 = u2
  Conns = {c1, c2, c3}
  Users = {u1, u2}
  UserOf <- MCUserOf
  Talkers = {c3}
  Silent = {c3}
  Free = Free
  Faults = {"redis"}
  MaxRestarts = 1
CHECK_DEADLOCK FALSE
INVARIANTS WritesStayInside NoGhost ConnectedIsShown
PROPERTIES HungUpIsClosed
