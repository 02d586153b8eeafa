SPECIFICATION Spec
CONSTANTS
  Nil = Nil
  owner = owner
  l1 = l1
  i1 = i1
  i2 = i2
  Users = {owner}
  Lists = {l1}
  Items = {i1}
  Reservations = {r1}
  Handlers = {h1, h2}
  MaxQuantity = 1
  MaxPriority = 0
  Horizon = 2
  OwnerOf <- MCOwnerOf
  ListOf <- MCListOf
  NewLists <- SomeLists
  ListUpdates <- SomeListUpdates
  NewItems <- OneOfOne
  ItemUpdates <- Touch
  Orders = {}
SYMMETRY GuestsAndHandlers
INVARIANTS NeverExpiringHasNoDate
CHECK_DEADLOCK FALSE
