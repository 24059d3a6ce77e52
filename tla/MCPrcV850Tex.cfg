CONSTANTS
  t1 = t1
  t2 = t2
  NULL = NULL
  Tasks <- MCTasks
  INTPRI_LOCK = 2
  Masks = {}
  Faults = {"user"}
  MaxDepth = 3
  MaxTex = 1
SPECIFICATION TexSpec
PROPERTIES TexUnmasked
