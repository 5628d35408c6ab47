SPECIFICATION Spec
SYMMETRY WorkerSymmetry
CONSTANTS
  Delivery = {1, 2}
  TeamCast = {}
  Group = {}
  laneA = laneA
  laneB = laneB
  Lane <- Lanes
  LaneOf <- OneLane
  Worker = {w1, w2}
  NoWorker = NoWorker
  QueueLimit = 3
  LeaseLength = 1
  LockWait = 1
  MaxTime = 2
  MaxClaims = 2
  Expiry <- ExpireLater
  MaxFaults = 0
  MaxCrashes = 0
INVARIANTS
  AtMostOneTurn
  WorkersAreFenced
PROPERTIES
  LaneIsFifo
CHECK_DEADLOCK FALSE
