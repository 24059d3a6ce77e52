CONSTANTS
  t1 = t1
  t2 = t2
  NULL = NULL
  Tasks <- MCTasks
  INTPRI_LOCK = 2
  Masks = {0, 1}
  Faults = {}
  MaxDepth = 3
  MaxTex = 0
SPECIFICATION Spec
INVARIANTS LockMasks
