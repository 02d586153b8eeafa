SPECIFICATION Spec
CONSTANTS
  Nil = Nil
  Users = {ann, bob}
  SessionIds = {s1, s2}
  Pairs = {p1, p2}
  Handlers = {h1, h2}
  Expiring = {"refresh"}
  Breaks = {0, 1, 2, 3, 4, 5, 6}
  Unreadable <- AnySessions
SYMMETRY Symmetric
INVARIANTS TypeOK RefreshableIsListed
PROPERTIES DestroyedForGood
CHECK_DEADLOCK FALSE
