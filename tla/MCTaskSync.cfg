CONSTANTS
  t1 = t1
  t2 = t2
  NULL = NULL
  Tasks <- MCTasks
  TNUM_TPRI = 2
  ipriority <- MCipriority
  torder <- MCtorder
  TA_ACT = {t1}
  texrtn = {}
  WaitQueues = {}
  TA_TPRI = {}
  MaxNest = 2
  MaxTex = 0
  MaxTmo = 1
SPECIFICATION FairSpec
INVARIANTS QueuedRequestsOK
PROPERTIES WaitResultOnce TimedWaitEnds
