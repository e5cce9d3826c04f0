SPECIFICATION VerdictSpecification
CONSTANTS
  r1 = r1  r2 = r2  r3 = r3  r4 = r4
  l1 = l1  l2 = l2  l3 = l3  h1 = h1  h2 = h2  c1 = c1  v1 = v1  v2 = v2
  Host = Host  None = None  Empty = Empty
  Regions = {r1, r2, r3}
  Loops = {l1, l2}
  Harnesses = {h1, h2}
  Criteria = {c1}
  Bridges = {1}
  Evidence = {1, 2}
  Contents = {Empty, v1}
  Policies <- VerdictPolicies
  Profile <- VerdictProfile
  HostOnlyBridges = FALSE
  RequireBounded = FALSE
  MaxTotalIterations = 3
  MaxLoopDepth = None
  LoopSpecs <- VerdictLoopSpecs
  GrantSpecs <- VerdictGrantSpecs
SYMMETRY LoopSymmetry
INVARIANTS CeilingsHold AcceptedWithEvidence
PROPERTIES ExposureNeverWidens EvidenceSpentOnce
CHECK_DEADLOCK FALSE
