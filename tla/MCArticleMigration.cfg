CONSTANTS
  a = a
  b = b
  c = c
  m1 = m1
  m2 = m2
  m3 = m3
  e1 = e1
  e2 = e2
  l1 = l1
  l2 = l2
  o1 = o1
  Article = {a, b, c}
  Named = {a}
  KeyOrder <- TableOrder
  Migrator = {m1, m2, m3}
  Repairer = {m2}
  Editor = {e1, e2}
  Lister = {l1, l2}
  Modern = {e2, l2}
  OldWriter = {o1}
  RawSize = 2
  Limit = 1
  MaxFaults = 2
  None = None
SPECIFICATION StartsSpec
CHECK_DEADLOCK FALSE
PROPERTIES MigrationEnds
INVARIANTS TypeOK Converged NothingLost AnswersTrue ListsExact
