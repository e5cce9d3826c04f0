SPECIFICATION LifeSpecification
CONSTANTS
  r1 = r1  r2 = r2  r3 = r3  r4 = r4
  l1 = l1  l2 = l2  l3 = l3  h1 = h1  h2 = h2  c1 = c1  v1 = v1  v2 = v2
  Host = Host  None = None  Empty = Empty
  Regions = {r1, r2, r3}
  Loops = {l1}
  Harnesses = {}
  Criteria = {}
  Bridges = {1}
  Evidence = {}
  Contents = {Empty}
  Policies <- LifePolicies
  Profile <- NoProfiles
  HostOnlyBridges = FALSE
  RequireBounded = FALSE
  MaxTotalIterations = 1
  MaxLoopDepth = None
  LoopSpecs <- LifeLoopSpecs
  GrantSpecs <- LifeGrantSpecs
INVARIANTS ReadsWithinClosure
CHECK_DEADLOCK FALSE
