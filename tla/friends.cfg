SPECIFICATION Spec
CONSTANTS
  Users = {ann, bob}
  Friends = {f1, f2}
  Handlers = {h1, h2, h3}
SYMMETRY Symmetric
INVARIANTS TypeOK OneRowPerPair NoFriendshipWithoutConsent
PROPERTIES FriendshipEndsByDeletion DeletedForGood
CHECK_DEADLOCK FALSE
