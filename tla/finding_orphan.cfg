SPECIFICATION Spec
CONSTANTS
  r1 = r1
  r2 = r2
  w1 = w1
  w2 = w2
  c1 = c1
  c2 = c2
  rec = rec
  none = none
  Runs <- OneRun
  Workers <- OneWorker
  Clients <- OneClient
  Recovery = rec
  NoRun = none
  NumStages = 1
  ContainerStages = {1}
  QueueCap = 1
  MaxDbFaults = 0
  MaxGcsFaults = 0
  MaxBoots = 2
  Disconnects = FALSE
  EarlyTraffic = FALSE
CHECK_DEADLOCK FALSE
INVARIANT NoOrphanContainers
