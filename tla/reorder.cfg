SPECIFICATION FairSpec
CONSTANTS
  Nil = Nil
  owner = owner
  l1 = l1
  i1 = i1
  i2 = i2
  Users = {owner}
  Lists = {l1}
  Items = {i1, i2}
  Reservations = {r1}
  Handlers = {h1, h2}
  MaxQuantity = 1
  MaxPriority = 1
  Horizon = 0
  OwnerOf <- MCOwnerOf
  ListOf <- MCListOf
  NewLists <- PublicList
  ListUpdates = {}
  NewItems <- OneOfOne
  ItemUpdates <- Hide
  Orders <- OppositeOrders
PROPERTIES ReordersAreWhole RequestsEnd
CHECK_DEADLOCK FALSE
