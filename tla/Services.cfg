\* The containment layer, the two file logs, the task store and the token buckets, in turn.
SPECIFICATION MCSpec
CONSTANTS
  w1 = w1  w2 = w2  w3 = w3  w4 = w4  None = None
  Windows <- Family
  Grants <- AllGrants
  Requests <- AllRequests
  SpecOf <- InstanceSpecs
  Declarations <- CrossingDeclarations
  Threshold = 1
  MaxRefusals = 1
  MaxBridges = 1
  a = a  b = b
  Decisions = {a, b}
  MaxRecords = 4
  p1 = p1  p2 = p2  p3 = p3
  Writers = {p1, p2, p3}
  Nothing = Nothing
  t1 = t1  t2 = t2  NoTask = NoTask
  Tasks = {t1, t2}
  TTL = 1
  MaxWorkers = 1
  MaxClock = 2
  k1 = k1  k2 = k2  k3 = k3
  Keys = {k1, k2, k3}
  Capacity = 2
  Rate = 1
  Cost = 2
  MaxKeys = 2
  MaxNow = 3
INVARIANTS
  NarrowsDownward CrossingsWithinCharters DisjointMeansDisjoint
  RecordedIsPersisted
  OnlyDamageBreaksTheChain LossShows
  StatusStandsUnraced FinishedStaysFetchable
  AdmissionBound EvictedOnlyByCrowd
PROPERTIES GrantsNeverWiden GrowthCapped KeepsEvidence LockIsFreed EveryTaskEnds
CHECK_DEADLOCK FALSE
