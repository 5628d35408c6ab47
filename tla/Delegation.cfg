SPECIFICATION Spec
CONSTANTS
  Job = {k1}
  Mode <- MCMode
  Scheduler = {s1}
  Worker = {w1, w2}
  Observer = {o1}
  Request = {r1}
  MaxClaims = 2
  MaxCrashes = 1
  None = None
INVARIANTS
  StartsAreSafe
PROPERTIES
  AnswersAreHonest
  JobsEnd
CHECK_DEADLOCK FALSE
