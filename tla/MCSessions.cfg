SPECIFICATION StartsSpec
CONSTANTS
  first = 1
  last = 3
  visit = visit
  old = old
  Login = {1, 2, 3}
  Logout = {out}
  Check = {visit}
  Credential = {old, new}
  Lifetime = 1
  PageSize = 1
  MaxAttempts = 2
  MaxTime = 2
  MaxFaults = 1
  None = None
INVARIANTS TypeOK ReplacedIsDead LoggedOutIsDead DeadAreRefused IssuedIsAlive ExpiredAreSwept
PROPERTIES SessionAnswered
CHECK_DEADLOCK FALSE
