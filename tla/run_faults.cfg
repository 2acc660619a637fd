SPECIFICATION Spec
CONSTANTS
  r1 = r1
  r2 = r2
  w1 = w1
  w2 = w2
  c1 = c1
  c2 = c2
  rec = rec
  none = none
  Runs <- OneRun
  Workers <- TwoWorkers
  Clients <- TwoClients
  Recovery = rec
  NoRun = none
  NumStages = 3
  ContainerStages = {1, 3}
  QueueCap = 2
  MaxDbFaults = 1
  MaxGcsFaults = 1
  MaxBoots = 2
  Disconnects = TRUE
  EarlyTraffic = TRUE
SYMMETRY Symmetry
INVARIANTS TypeOK SuccessIsComplete StagesInOrder OneExecutor CurrentStageAgrees OneContainer NamesFresh ContainersWatched
PROPERTIES EndsAreFinal RunsHandedOn ContainersHandedOn ContainersCollected OnlyEarlyRunsHeldTwice ImplementsLifecycle
CHECK_DEADLOCK FALSE
