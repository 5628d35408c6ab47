SPECIFICATION Spec
CONSTANTS
  Process = {p1, p2}
  j1 = j1
  j2 = j2
  j3 = j3
  Project = {j1, j2, j3}
  a1 = a1
  a2 = a2
  Place = {a1, a2, a3}
  n1 = n1
  n2 = n2
  n3 = n3
  Node = {n1, n2, n3}
  Codex = {n1, n2, n3}
  Transport = {t1, t2}
  EndpointId = {e1, e2}
  MaxGeneration = 1
  k1 = k1
  k2 = k2
  Job = {k1, k2}
  SourceOf <- Sources
  TransportLimit = 2
  HistoryLimit = 3
  Workloads <- Together
  InitialHome <- Homes
  MaxCrashes = 2
  None = None
  Cluster = {c1, c2}
  Name = {m1}
  MemberLimit = 2
  MaxVersion = 4
  RuleLimit = 2
INVARIANTS
  IdentitiesAgree
  RecordsAreSound
  ClustersAreConsistent
PROPERTIES
  HistoryIsFinal
CHECK_DEADLOCK FALSE
