SPECIFICATION StructureSpecification
CONSTANTS
  r1 = r1  r2 = r2  r3 = r3  r4 = r4
  l1 = l1  l2 = l2  l3 = l3  h1 = h1  h2 = h2  c1 = c1  v1 = v1  v2 = v2
  Host = Host  None = None  Empty = Empty
  Regions = {r1, r2, r3, r4}
  Loops = {l1, l2, l3}
  Harnesses = {}
  Criteria = {c1}
  Bridges = {1}
  Evidence = {}
  Contents = {Empty, v1}
  Policies <- StructurePolicies
  Profile <- NoProfiles
  HostOnlyBridges = FALSE
  RequireBounded = FALSE
  MaxTotalIterations = 1
  MaxLoopDepth = 3
  LoopSpecs <- StructureLoopSpecs
  GrantSpecs <- StructureGrantSpecs
SYMMETRY LoopSymmetry
INVARIANTS TypeOK BridgesJoinOpenRegions BoundLoopsOnOpenRegions NothingOpenUnderClosed NestingAcyclic
PROPERTIES WritesWithinClosure YardstickFrozen
CHECK_DEADLOCK FALSE
