SPECIFICATION Spec
CONSTANTS
  Job = {k1}
  Command = {c1}
  Timer = {t1}
  Handler = {h1}
  Operator = {o1}
  MaxAttempts = 2
  MaxSends = 3
  MaxAcks = 2
  Receipted = {1}
  MaxReplies = 3
  MaxCrashes = 1
  None = None
INVARIANTS
  DeliveriesAreSafe
  RequestsAreSafe
PROPERTIES
  AnswersAreFinal
  NothingWaitsForever
CHECK_DEADLOCK FALSE
