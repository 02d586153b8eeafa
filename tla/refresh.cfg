SPECIFICATION Spec
CONSTANTS
  Nil = Nil
  Users = {ann, bob}
  SessionIds = {s1, s2}
  Pairs = {p1, p2, p3}
  Handlers = {h1, h2}
  Expiring = {"refresh"}
  Breaks = {}
  Unreadable <- NoSessions
SYMMETRY Symmetric
INVARIANTS RedeemedOnce
PROPERTIES KeepsLineage
CHECK_DEADLOCK FALSE
