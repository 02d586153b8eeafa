SPECIFICATION Spec
CONSTANTS
  Nil = Nil
  owner = owner
  l1 = l1
  i1 = i1
  i2 = i2
  Users = {owner}
  Lists = {l1}
  Items = {i1}
  Reservations = {r1, r2}
  Handlers = {h1, h2}
  MaxQuantity = 2
  MaxPriority = 0
  Horizon = 0
  OwnerOf <- MCOwnerOf
  ListOf <- MCListOf
  NewLists <- PublicList
  ListUpdates = {}
  NewItems <- OneOfTwo
  ItemUpdates = {}
  Orders = {}
SYMMETRY GuestsAndHandlers
INVARIANTS ReservationsWithinAvailability
CHECK_DEADLOCK FALSE
