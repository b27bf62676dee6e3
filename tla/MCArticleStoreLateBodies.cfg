CONSTANTS
  author = author
  publisher = publisher
  home = home
  Request = {author, publisher, r1, r2}
  Reader = {}
  Slug = {home, s1, s2}
  None = None
  LateDelivery = TRUE
VIEW LiveState
SYMMETRY Alike
INIT StartPublished
NEXT Next
CHECK_DEADLOCK FALSE
INVARIANTS BodiesPresent
