SPECIFICATION LiveSpec
CONSTANTS
  Writer = {w1, w2}
  Mutator = {m1, m2}
  NoOwner = NoOwner
INVARIANTS
  Exclusion
  RunningWritersAreLeased
PROPERTIES
  MutationEnds
CHECK_DEADLOCK FALSE
