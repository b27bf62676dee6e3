CONSTANTS
  small = small
  large = large
  Client = {c1, c2, c3}
  Key = {small, k1}
  None = None
  Size <- Sizes
  MaxEntries = 2
  MaxBytes = 3
  TTL = 1
  FillMayPanic = TRUE
  MaxNow = 1
  MaxVersion = 1
  MaxGeneration = 2
SPECIFICATION Spec
SYMMETRY Alike
CHECK_DEADLOCK FALSE
INVARIANTS TypeOK NothingStaleStored NoStaleAnswers SingleFlight
