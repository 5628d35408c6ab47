SPECIFICATION StoresSpec
SYMMETRY WorkerSymmetry
CONSTANTS
  Delivery = {1, 2, 3}
  TeamCast = {2}
  Group = {3}
  laneA = laneA
  laneB = laneB
  Lane <- Lanes
  LaneOf <- Mixed
  Worker = {w1, w2}
  NoWorker = NoWorker
  QueueLimit = 1
  LeaseLength = 1
  LockWait = 1
  MaxTime = 1
  MaxClaims = 2
  EventBytes = 1
  BatchBytes = 2
  Quota = 11
INVARIANTS
  AttemptsAreJustified
  NoAttemptBehindRefusal
  
PROPERTIES
  LeaseIsExclusive
  OutcomeIsFinal
CHECK_DEADLOCK FALSE
