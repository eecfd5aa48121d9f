SPECIFICATION CommentsSpec
CONSTANTS
  r1 = r1
  r2 = r2
  r3 = r3
  g1 = g1
  u1 = u1
  u2 = u2
  t1 = t1
  t2 = t2
  Requests = {r1, r2, r3}
  Readers = {g1}
  PageSize = 3
  Users = {u1, u2}
  Topics = {t1, t2}
  NoUser = NoUser
  NoTopic = NoTopic
  Shared = Shared
CHECK_DEADLOCK FALSE
SYMMETRY Symmetry
INVARIANT AnsweredIsShown
