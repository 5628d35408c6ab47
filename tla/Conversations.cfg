SPECIFICATION ConversationSpec
CONSTANTS
  a = a
  a2 = a2
  b = b
  d = d
  toB = toB
  toA = toA
  fromHeir = fromHeir
  Node = {a, a2, b, d}
  Successor <- MCSuccessor
  DirectMessage = {toB, toA, fromHeir}
  JobMessage = {toB, fromHeir}
  From <- MCFrom
  To <- MCTo
  MaxTries = 3
  MaxTime = 1
  MaxFaults = 1
  TheGroup = TheGroup
  GroupMessage = {1, 2, 3}
  GroupFrom <- MCGroupFrom
  Parent <- MCParent
  Founders = {a, a2, b}
  Joiner = {d}
  Reader = {a2}
  Starter = {s1}
  MayDeny = {a2}
  MinMembers = 3
  MaxVersions = 2
  MaxHops = 1
  Limits = {2}
  MaxRequests = 2
  MaxHands = 1
  Workloads <- MCWorkloads
  Late = {a2}
  Mortal = {a}
  None = None
INVARIANTS
  ConversationsAreConsistent
  SettledIsListed
  RecordedCanBeFinished
PROPERTIES
  CursorsAreSound
CHECK_DEADLOCK FALSE
