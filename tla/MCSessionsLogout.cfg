SPECIFICATION Spec
CONSTANTS
  first = 1
  last = 2
  visit = visit
  old = old
  Login = {1, 2}
  Logout = {out}
  Check = {}
  Credential = {old}
  Lifetime = 2
  PageSize = 1
  MaxAttempts = 2
  MaxTime = 2
  MaxFaults = 0
  None = None
INVARIANTS LogoutIdempotent
CHECK_DEADLOCK FALSE
