CONSTANTS
  a1 = a1
  a2 = a2
  a3 = a3
  admin = admin
  post = post
  get = get
  Login = {1, 2, 3}
  Change = {post}
  Look = {get}
  Stuck = {1, get}
  Address = {a1, a2, a3}
  Username = {admin, u1}
  Configured = admin
  Capacity = 1
  Refill = 2
  IdleExpiry = 4
  MaxBuckets = 2
  MaxDelay = 1
  MaxTime = 5
  Attempts = 2
  Pages = 2
  MaxFaults = 2
  None = None
SPECIFICATION StartsSpec
CHECK_DEADLOCK FALSE
INVARIANTS TypeOK AnswersTrue NoOverdraft
PROPERTIES NoUnfairRefusal RequestsEnd
