SPECIFICATION Spec
CONSTANTS
  n1 = n1
  n2 = n2
  c1 = c1
  c2 = c2
  l1 = l1
  o1 = o1
  ann = ann
  bob = bob
  m1 = m1
  x = x
  y = y
  Nonces = {n1, n2}
  Callbacks = {c1, c2}
  Locals = {l1}
  Logins = {c1, c2, l1}
  Logouts = {o1}
  Profiles <- Known
  Newcomers <- Forms
  Empty = Empty
  None = None
  CanFail = TRUE
  MaxBroken = 1
SYMMETRY Symmetry
CHECK_DEADLOCK FALSE
INVARIANTS NonceOnce TokenNamesOwner AdminFollowsRow LogoutFindsSession LoggedOutStaysOut
PROPERTIES NoTakeover LogoutEndsOwnSession
