SPECIFICATION Spec
CONSTANTS
  Nil = Nil
  Users = {ann}
  Roles = {admin, superadmin}
  Perms = {p1, p2}
  k1 = k1
  k2 = k2
  root = root
  settings = settings
  people = people
  invites = invites
  Keys = {k1, k2}
  Menus = {root, settings, people, invites}
  MenuOf <- MenuOfKey
  Trees <- OneTree
  MenuUpdates <- Moves
  Handlers = {h1, h2}
  Superadmin = superadmin
  SystemRoles = {superadmin}
  Assignable = {admin}
  Lists <- AllLists
SYMMETRY Symmetric
INVARIANTS TypeOK AssignedExactly CacheFollows MenusMatch
CHECK_DEADLOCK FALSE
