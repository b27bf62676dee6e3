CONSTANTS
  author = author
  publisher = publisher
  home = home
  Request = {author, publisher, r1, r2}
  Reader = {v1}
  Slug = {home, s1}
  None = None
  LateDelivery = FALSE
VIEW LiveState
SYMMETRY Alike
INIT Start
NEXT Next
CHECK_DEADLOCK FALSE
INVARIANTS TypeOK AnswersTrue BodiesPresent ReadersServed
PROPERTIES StepsImplementCatalog
