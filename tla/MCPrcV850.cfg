CONSTANTS
  t1 = t1
  t2 = t2
  NULL = NULL
  Tasks <- MCTasks
  INTPRI_LOCK = 2
  Masks = {0, 1}
  Faults = {"user", "kernel"}
  MaxDepth = 4
  MaxTex = 0
SYMMETRY MCSymmetry
SPECIFICATION Spec
INVARIANTS NestOK LevelsOK MaskOK
PROPERTIES LockKept
