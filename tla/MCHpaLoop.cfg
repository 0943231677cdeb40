CONSTANTS
  Threads = {t1, t2}
  P = 3
  NSlabs = 2
  Sizes = {1, 2}
  Batch = 1
  HugifyAt = 2
  DirtyNum = 1
  DirtyDen = 2
  MaxAge = 2
  MaxOps = 1
  Oom = FALSE
SPECIFICATION Spec
SYMMETRY Perms
INVARIANTS WorkBounded
CHECK_DEADLOCK FALSE
