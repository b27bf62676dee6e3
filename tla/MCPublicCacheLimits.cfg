CONSTANTS
  small = small
  large = large
  Client = {c1, c2, c3}
  Key = {small, large, k1}
  None = None
  Size <- Sizes
  MaxEntries = 2
  MaxBytes = 4
  TTL = 1
  FillMayPanic = FALSE
  MaxNow = 1
  MaxVersion = 0
  MaxGeneration = 1
SPECIFICATION FairSpec
CHECK_DEADLOCK FALSE
INVARIANTS WithinLimits
PROPERTIES Answered
