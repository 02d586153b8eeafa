SPECIFICATION Spec
CONSTANTS
  Nil = Nil
  Users = {ann}
  Passwords = {p1, p2, p3}
  SessionIds = {s1, s2}
  Jwts = {t}
  Links = {l}
  Handlers = {h1, h2}
SYMMETRY Symmetric
INVARIANTS TypeOK JwtResetOnce LinkBounded ResetRevokes
PROPERTIES DeletedForGood
CHECK_DEADLOCK FALSE
