CONSTANTS
  author = author
  publisher = publisher
  home = home
  Request = {author, publisher, r1, r2}
  Reader = {}
  Slug = {home, s1}
  None = None
  LateDelivery = FALSE
VIEW LiveState
SYMMETRY Alike
INIT StartPublished
NEXT Next
CHECK_DEADLOCK FALSE
INVARIANTS StoredChangesAnnounced

