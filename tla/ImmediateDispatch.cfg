SPECIFICATION Spec
SYMMETRY ProcessSymmetry
CONSTANTS
  Delivery = {1, 2, 3}
  TeamCast = {2, 3}
  Group = {}
  laneA = laneA
  Lane = {laneA}
  LaneOf <- OneLane
  Worker = {}
  NoWorker = NoWorker
  QueueLimit = 1
  LeaseLength = 1
  LockWait = 0
  MaxTime = 0
  MaxClaims = 0
  Process = {p1, p2}
  NoProcess = NoProcess
  MaxFailures = 2
INVARIANTS
  AtMostOneTurn
  AttemptsAreTracked
PROPERTIES
  KeepsPromise
CHECK_DEADLOCK FALSE
