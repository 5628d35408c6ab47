SPECIFICATION RepairSpec
CONSTANTS
  Call = {c1, c2, c3}
  NoFile = NoFile
  Old = {o1, o2}
  MaxAtOnce = 2
  MaxChanges = 1
  MaxEvents = 3
SYMMETRY Symmetry
INVARIANTS
  RepairsAreAccountable
  EvidenceStaysWhole
  LockHolds
CHECK_DEADLOCK FALSE
