SPECIFICATION LiveSpec
CONSTANTS
  Delivery = {1, 2, 3}
  TeamCast = {1}
  Group = {}
  laneA = laneA
  laneB = laneB
  Lane <- Lanes
  LaneOf <- OwnLane
  Worker = {w1}
  NoWorker = NoWorker
  QueueLimit = 3
  LeaseLength = 2
  LockWait = 1
  MaxTime = 3
  MaxClaims = 2
  Expiry <- ExpireLater
  MaxFaults = 1
  MaxCrashes = 1
CONSTRAINT OneDirect
PROPERTIES
  KeepsPromise
  QueueDrains
CHECK_DEADLOCK FALSE
