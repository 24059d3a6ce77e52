CONSTANTS
  t1 = t1
  t2 = t2
  t3 = t3
  c0 = c0
  c1 = c1
  n0 = n0
  NULL = NULL
  Tasks <- MCTasks
  TNUM_TPRI = 3
  ipriority <- MCipriority
  torder <- MCtorder
  TA_ACT = {t1, t2}
  texrtn = {}
  WaitQueues = {c0, c1, n0}
  TA_TPRI = {c0, c1}
  MaxNest = 1
  MaxTex = 0
  MaxTmo = 1
  Mutexes = {c0, c1, n0}
  TA_CEILING = {c0, c1}
  ceilpri <- MCceilpri
  Programs <- MCPrograms
SPECIFICATION MtxSpec
INVARIANTS DispatchOK PriorityOK OwnersOK
PROPERTIES MutexHandedOver
