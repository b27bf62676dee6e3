CONSTANTS
  e1 = e1
  e2 = e2
  p1 = p1
  v1 = v1
  ReviewDelay = 3
  DeletionDelay = 2
  Visitor = {1, 2, 3}
  Editor = {e1, e2}
  Purger = {p1}
  Viewer = {v1}
  Filter <- Filters
  PageSize = 2
  Slow = {e2}
  Skew = 1
  LateDelivery = FALSE
  MaxTime = 2
  MaxFaults = 1
  None = None
VIEW LiveState
INIT StartEither
NEXT Next
CHECK_DEADLOCK FALSE
INVARIANTS TypeOK AnswersTrue PurgeComplete PagesExact
PROPERTIES StepsImplementBook ChangesFollowTheRules
