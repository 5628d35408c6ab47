SPECIFICATION JobSpec
CONSTANTS
  m1 = m1
  m2 = m2
  Messages = {m1, m2}
  Outcome <- MCOutcome
  TaskBody <- MCTaskBody
  Transactions = {t1, t2}
  Jobs = {j1}
  Archives = {a1}
  MaxCrashes = 1
  MaxFailures = 1
  Absent = Absent
  NoTransaction = NoTransaction
SYMMETRY Symmetry
INVARIANTS
  NothingVanishes
  RollsForwardUnlessSpoiled
  BackupsAreWhole
  JobsKeepTheirBodies
CHECK_DEADLOCK FALSE
