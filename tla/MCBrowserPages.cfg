SPECIFICATION PagesSpec
CONSTANTS
  t1 = t1
  t2 = t2
  Tasks = {t1, t2}
  MaxConns = 3
  MaxPages = 2
  MaxLosses = 1
  None = None
SYMMETRY Symmetry
INVARIANTS OnePageOneHolder
PROPERTIES LiveConnectionIsKept
CHECK_DEADLOCK FALSE
