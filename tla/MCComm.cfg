CONSTANTS
  t1 = t1
  t2 = t2
  s1 = s1
  s2 = s2
  d0 = d0
  d2 = d2
  f1 = f1
  f2 = f2
  b1 = b1
  b2 = b2
  q1 = q1
  p1 = p1
  x = x
  y = y
  z = z
  m1 = m1
  m2 = m2
  m3 = m3
  NULL = NULL
  Tasks <- MCTasks
  TNUM_TPRI = 2
  ipriority <- MCipriority
  torder <- MCtorder
  TA_ACT = {t1, t2}
  texrtn = {}
  WaitQueues <- MCWaitQueues
  TA_TPRI <- MCTA_TPRI
  MaxNest = 1
  MaxTex = 0
  MaxTmo = 1
  Sems <- MCSems
  isemcnt <- MCisemcnt
  maxsem <- MCmaxsem
  Dtqs <- MCDtqs
  dtqcnt <- MCdtqcnt
  Data = {x, y}
  Flgs = {f1, f2}
  FlgBits = {0, 1}
  iflgptn <- MCiflgptn
  TA_CLR = {f1}
  TA_WMUL = {f1}
  Mbxs <- MCMbxs
  Msgs = {m1, m2, m3}
  msgpri <- MCmsgpri
  TA_MPRI = {b2}
  Pdqs = {q1}
  pdqcnt <- MCpdqcnt
  PriData = {x, y, z}
  datapri <- MCdatapri
  Mpfs = {p1}
  blkcnt <- MCblkcnt
  Configurations <- MCConfigurations
SPECIFICATION CommSpec
INVARIANTS DispatchOK WaitLinksOK NoVainWait AreasOK
PROPERTIES SemConserved SemInOrder MessagesInOrder FlgServed
