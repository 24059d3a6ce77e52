CONSTANTS
  t1 = t1
  t2 = t2
  t3 = t3
  NULL = NULL
  Tasks <- MCTasks
  TNUM_TPRI = 2
  ipriority <- MCipriority
  torder <- MCtorder
  TA_ACT = {t1, t2}
  WaitQueues = {}
  TA_TPRI = {}
  MaxNest = 1
  MaxTex = 2
  texrtn = {t1}
SPECIFICATION Spec
INVARIANTS TypeOK ReadyQueuesOK DispatchOK DspflgOK TexServed
PROPERTIES NoOvertaking TexStartsUnmasked SchedulesByPriority
