SPECIFICATION StoreSpec
CONSTANTS
  Message = {m1, m2}
  Admitted = {m1}
  SegmentRecords = 2
  MaxFaults = 2
  Reader = {r1}
  Alone = m1
  ReadRecords = 3
  TwoRecords = 4
  AloneRecords = 6
  None = None
CONSTRAINT Bound
INVARIANTS
  IndexIsTrue
  ScansAreTrue
CHECK_DEADLOCK FALSE
