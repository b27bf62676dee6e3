CONSTANTS
  colleague = e2
  companion = c2
  Article = {a1, a2}
  Slug = {s1, s2}
  Area = {x1, x2}
  Cursor = {first}
  Client = {c1, c2}
  Editor = {e1, e2}
  None = None
INIT Init
NEXT ApartNext
VIEW LiveState
SYMMETRY Alike
CHECK_DEADLOCK FALSE
INVARIANTS PagesCurrent ChangesVisible
