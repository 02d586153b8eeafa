SPECIFICATION Spec
CONSTANTS
  Nil = Nil
  ann = ann
  bob = bob
  phone = phone
  Emails = {ann, bob}
  Phones = {phone}
  Ids = {i1, i2}
  Codes = {c1, c2}
  Handlers = {h1, h2}
  Applicants <- OneApplicant
  Staff <- OneColleague
  Settings <- Closing
  Undeletable = {"code"}
  MaxAttempts = 2
  RateLimit = 1
SYMMETRY Symmetric
INVARIANTS TypeOK OneAccount GuessesBounded SpentIsGone CooldownHolds StoredIsMailed
CHECK_DEADLOCK FALSE
